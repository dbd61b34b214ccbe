--------------------------- MODULE WriterPipeline ---------------------------
(***************************************************************************)
(* How a ping travels through the gossip-writer: the ZeroMQ thread batches *)
(* pings and flushes them as signed payloads into a bounded channel, the   *)
(* broadcast task takes payloads from the channel, broadcasts them, keeps  *)
(* the failed ones in a retry queue and replaces the gossip topic when too *)
(* many broadcasts fail or when another task asks for it.                  *)
(*                                                                         *)
(* A payload is known by its number: payloads are numbered in the order in *)
(* which they are offered to the channel.  The number of iris that fit in  *)
(* a payload stands for its size in bytes.                                 *)
(***************************************************************************)
EXTENDS Naturals, Sequences, FiniteSets

CONSTANTS
    Groups,         \* the (medium, reason) pairs pings are grouped by
    MaxPings,       \* bound: pings that arrive over ZeroMQ
    MaxAnnounces,   \* bound: PeerAnnounce and PeerEndorse payloads
    MaxFailures,    \* bound: broadcasts that fail
    MaxRequests,    \* bound: reconnects other tasks ask for
    ChunkSize,      \* iris that fit under MAX_GOSSIP_PAYLOAD
    ChannelCap,     \* 1000, the capacity of the mpsc channel
    MaxRetryQueue,  \* MAX_RETRY_QUEUE
    ReconnectAfter  \* RECONNECT_AFTER_FAILURES

ASSUME WriterPipelineAssumption ==
    /\ MaxPings \in Nat /\ MaxAnnounces \in Nat
    /\ MaxFailures \in Nat /\ MaxRequests \in Nat
    /\ ChunkSize \in Nat \ {0}
    /\ ChannelCap \in Nat \ {0}
    /\ MaxRetryQueue \in Nat
    /\ ReconnectAfter \in Nat \ {0}

VARIABLES
    zpc,         \* where the ZeroMQ thread is
    pending,     \* pings received since the last flush
    todo,        \* for each group, the pings flush_batch has yet to put in a payload
    broadcastOk, \* flush_batch's broadcast_ok
    channel,     \* the mpsc channel
    bpc,         \* where the broadcast task is
    hand,        \* the payload being broadcast: a set of at most one
    failures,    \* consecutive_failures
    retryQueue,  \* retry_queue
    cooldown,    \* last_reconnect was less than 30 s ago
    notified,    \* the Notify holds a permit
    requested,   \* reconnect_requested
    forced,      \* force_endpoint_reset
    shutdown,    \* the shutdown flag
    received,    \* number of pings that arrived
    announces,   \* number of announcements made
    failed,      \* number of broadcasts that failed
    requests,    \* number of reconnects asked for
    made,        \* number of payloads made
    sent,        \* history: payloads broadcast successfully
    lost,        \* history: payloads given up
    acked,       \* history: pings answered over ZeroMQ
    offered,     \* history: pings put in a payload that was offered to the channel
    reached      \* history: those of them whose payload found the broadcast task alive

zmqVars  == <<zpc, pending, todo, broadcastOk>>
taskVars == <<bpc, hand, failures, retryQueue, cooldown>>
flagVars == <<notified, requested, forced>>
countVars == <<received, announces, failed, requests>>
answerVars == <<acked, offered, reached>>
vars == <<zmqVars, channel, taskVars, flagVars, shutdown, countVars, made, sent, lost,
          answerVars>>

PingIds == 1..MaxPings
Payloads == 1..made
Ping == [id : PingIds, group : Groups]

ZpcValues == {"top", "recv", "flush", "lastFlush", "stopped"}

\* "onRequest" and "onFailures" are the two places that reconnect.
BpcValues == {"select", "sending", "onRequest", "onFailures", "replaying", "exited"}

TypeOK ==
    /\ zpc \in ZpcValues
    /\ pending \in Seq(Ping)
    /\ todo \in [Groups -> SUBSET PingIds]
    /\ broadcastOk \in BOOLEAN
    /\ channel \in Seq(Payloads) /\ Len(channel) <= ChannelCap
    /\ bpc \in BpcValues
    /\ hand \in SUBSET Payloads
    /\ failures \in 0..(ReconnectAfter - 1)
    /\ retryQueue \in Seq(Payloads) /\ Len(retryQueue) <= MaxRetryQueue
    /\ cooldown \in BOOLEAN
    /\ notified \in BOOLEAN /\ requested \in BOOLEAN /\ forced \in BOOLEAN
    /\ shutdown \in BOOLEAN
    /\ received \in 0..MaxPings /\ announces \in 0..MaxAnnounces
    /\ failed \in 0..MaxFailures /\ requests \in 0..MaxRequests
    /\ made \in Nat
    /\ sent \in SUBSET Payloads /\ lost \in SUBSET Payloads
    /\ acked \in SUBSET PingIds /\ offered \in SUBSET PingIds /\ reached \in SUBSET PingIds

Init ==
    /\ zpc = "top" /\ pending = <<>>
    /\ todo = [g \in Groups |-> {}] /\ broadcastOk = FALSE
    /\ channel = <<>>
    /\ bpc = "select" /\ hand = {} /\ failures = 0 /\ retryQueue = <<>>
    /\ cooldown = TRUE
    /\ notified = FALSE /\ requested = FALSE /\ forced = FALSE
    /\ shutdown = FALSE
    /\ received = 0 /\ announces = 0 /\ failed = 0 /\ requests = 0
    /\ made = 0 /\ sent = {} /\ lost = {}
    /\ acked = {} /\ offered = {} /\ reached = {}

Entries(s) == {s[i] : i \in DOMAIN s}

-----------------------------------------------------------------------------
(* The ZeroMQ thread.                                                      *)

\* The pings of a batch that belong to a group.
GroupOf(ps, g) == {p.id : p \in {q \in Entries(ps) : q.group = g}}

\* Mutant: broadcast_ok is declared outside of flush_batch and never reset.
BeginFlushKeepsOk(ps) ==
    /\ todo' = [g \in Groups |-> GroupOf(ps, g)]
    /\ UNCHANGED broadcastOk

\* flush_batch begins.
BeginFlush(ps) ==
    /\ todo' = [g \in Groups |-> GroupOf(ps, g)]
    /\ broadcastOk' = FALSE

\* The top of the loop: the shutdown flag is read.
ZmqTop ==
    /\ zpc = "top"
    /\ \/ ~shutdown /\ zpc' = "recv" /\ UNCHANGED <<todo, broadcastOk>>
       \/ shutdown /\ pending = <<>> /\ zpc' = "stopped" /\ UNCHANGED <<todo, broadcastOk>>
       \/ shutdown /\ pending # <<>> /\ zpc' = "lastFlush" /\ BeginFlush(pending)
    /\ UNCHANGED <<pending, channel, taskVars, flagVars, shutdown, countVars, made, sent, lost,
                   answerVars>>

\* recv returns a ping or nothing, and the 3 s of a batch are over or not.
ZmqRecv ==
    /\ zpc = "recv"
    /\ \/ /\ received < MaxPings
          /\ received' = received + 1
          /\ \E g \in Groups :
                pending' = Append(pending, [id |-> received + 1, group |-> g])
       \/ UNCHANGED <<pending, received>>
    /\ \/ zpc' = "top" /\ UNCHANGED <<todo, broadcastOk>>
       \/ zpc' = "flush" /\ pending' # <<>> /\ BeginFlush(pending')
    /\ UNCHANGED <<channel, taskVars, flagVars, shutdown, announces, failed, requests,
                   made, sent, lost, answerVars>>

\* split_iris_to_fit: the first iris of a group, as many as fit.
IsChunk(chunk, ids) ==
    /\ Cardinality(chunk) <= ChunkSize
    /\ chunk # ids => Cardinality(chunk) = ChunkSize
    /\ \A i \in chunk, j \in ids \ chunk : i < j

\* One chunk of one group is offered to the channel with try_send.  A group
\* is finished before the next one is begun.  A full channel counts as success.
SendChunk(g) ==
    /\ zpc \in {"flush", "lastFlush"}
    /\ todo[g] # {}
    /\ \A h \in Groups \ {g} : todo[h] \in {{}, GroupOf(pending, h)}
    /\ \E chunk \in SUBSET todo[g] :
        /\ IsChunk(chunk, todo[g])
        /\ todo' = [todo EXCEPT ![g] = @ \ chunk]
        /\ offered' = offered \cup chunk
        /\ reached' = IF bpc = "exited" THEN reached ELSE reached \cup chunk
    /\ made' = made + 1
    /\ \/ /\ bpc # "exited" /\ Len(channel) < ChannelCap
          /\ channel' = Append(channel, made + 1)
          /\ broadcastOk' = TRUE
          /\ UNCHANGED lost
       \/ /\ bpc = "exited" \/ Len(channel) = ChannelCap
          /\ broadcastOk' = (broadcastOk \/ bpc # "exited")
          /\ lost' = lost \cup {made + 1}
          /\ UNCHANGED channel
    /\ UNCHANGED <<zpc, pending, taskVars, flagVars, shutdown, countVars, sent, acked>>

\* The end of flush_batch: a reply for every ping of the batch, each of
\* which the socket takes or not.
EndFlush ==
    /\ zpc \in {"flush", "lastFlush"}
    /\ \A g \in Groups : todo[g] = {}
    /\ \E replied \in SUBSET {p.id : p \in Entries(pending)} :
        /\ ~broadcastOk => replied = {}
        /\ acked' = acked \cup replied
    /\ pending' = <<>>
    /\ zpc' = IF zpc = "flush" THEN "top" ELSE "stopped"
    /\ UNCHANGED <<todo, broadcastOk, channel, taskVars, flagVars, shutdown, countVars, made,
                   sent, lost, offered, reached>>

-----------------------------------------------------------------------------
(* Other tasks: PeerAnnounce and PeerEndorse wait for room in the channel; *)
(* the watchdog, the isolation check, the receive task and the health      *)
(* report ask for a reconnect, the last one for a fresh endpoint as well.  *)

Announce ==
    /\ announces < MaxAnnounces
    /\ bpc # "exited"
    /\ Len(channel) < ChannelCap
    /\ announces' = announces + 1
    /\ made' = made + 1
    /\ channel' = Append(channel, made + 1)
    /\ UNCHANGED <<zmqVars, taskVars, flagVars, shutdown, received, failed, requests,
                   sent, lost, answerVars>>

Request(force) ==
    /\ requests < MaxRequests
    /\ requests' = requests + 1
    /\ requested' = TRUE
    /\ forced' = (forced \/ force)
    /\ notified' = TRUE
    /\ UNCHANGED <<zmqVars, channel, taskVars, shutdown, received, announces, failed, made,
                   sent, lost, answerVars>>

CooldownEnds ==
    /\ cooldown
    /\ cooldown' = FALSE
    /\ UNCHANGED <<zmqVars, channel, bpc, hand, failures, retryQueue, flagVars, shutdown,
                   countVars, made, sent, lost, answerVars>>

\* Ctrl-C; then the process ends, when the ZeroMQ thread has stopped or after
\* 5 s, and takes everything with it.
Shutdown ==
    /\ ~shutdown
    /\ shutdown' = TRUE
    /\ UNCHANGED <<zmqVars, channel, taskVars, flagVars, countVars, made, sent, lost,
                   answerVars>>

ProcessExits ==
    /\ shutdown
    /\ zpc # "stopped" \/ bpc # "exited"
    /\ zpc' = "stopped" /\ bpc' = "exited"
    /\ lost' = lost \cup hand \cup Entries(channel) \cup Entries(retryQueue)
    /\ hand' = {} /\ channel' = <<>> /\ retryQueue' = <<>>
    /\ UNCHANGED <<pending, todo, broadcastOk, failures, cooldown, flagVars, shutdown,
                   countVars, made, sent, answerVars>>

-----------------------------------------------------------------------------
(* The broadcast task.                                                     *)

\* rx.recv(): a payload that comes after the shutdown flag ends the task.
TakePayload ==
    /\ bpc = "select"
    /\ channel # <<>>
    /\ \/ /\ ~shutdown
          /\ bpc' = "sending"
          /\ hand' = {Head(channel)}
          /\ channel' = Tail(channel)
          /\ UNCHANGED <<lost, retryQueue>>
       \/ /\ shutdown
          /\ bpc' = "exited"
          /\ lost' = lost \cup Entries(channel) \cup Entries(retryQueue)
          /\ channel' = <<>> /\ retryQueue' = <<>>
          /\ UNCHANGED hand
    /\ UNCHANGED <<zmqVars, failures, cooldown, flagVars, shutdown, countVars, made, sent,
                   answerVars>>

BroadcastSucceeds ==
    /\ bpc = "sending"
    /\ bpc' = "select"
    /\ sent' = sent \cup hand
    /\ hand' = {}
    /\ failures' = 0
    /\ UNCHANGED <<zmqVars, channel, retryQueue, cooldown, flagVars, shutdown, countVars,
                   made, lost, answerVars>>

\* Mutant: a payload for which the retry queue has no room is pushed anyway.
KeepForRetryAlways ==
    /\ \E p \in hand : retryQueue' = Append(retryQueue, p)
    /\ UNCHANGED lost

\* The failed payload is queued for a retry if there is room.
KeepForRetry ==
    \E p \in hand :
        \/ /\ Len(retryQueue) < MaxRetryQueue
           /\ retryQueue' = Append(retryQueue, p)
           /\ UNCHANGED lost
        \/ /\ Len(retryQueue) = MaxRetryQueue
           /\ lost' = lost \cup {p}
           /\ UNCHANGED retryQueue

\* An error or the timeout of 10 s; enough of them in a row lead to a
\* reconnect, unless the last one was less than 30 s ago.
BroadcastFails ==
    /\ bpc = "sending"
    /\ failed < MaxFailures
    /\ failed' = failed + 1
    /\ KeepForRetry
    /\ hand' = {}
    /\ \/ /\ failures + 1 < ReconnectAfter
          /\ failures' = failures + 1
          /\ bpc' = "select"
       \/ /\ failures + 1 = ReconnectAfter
          /\ failures' = 0
          /\ bpc' = IF cooldown THEN "select" ELSE "onFailures"
    /\ UNCHANGED <<zmqVars, channel, cooldown, flagVars, shutdown, received, announces,
                   requests, made, sent, answerVars>>

\* Mutant: during the cooldown the task breaks out of its loop.
TakeRequestBreaks ==
    /\ bpc = "select"
    /\ notified
    /\ notified' = FALSE /\ requested' = FALSE /\ forced' = FALSE
    /\ bpc' = IF forced \/ (requested /\ ~cooldown) THEN "onRequest" ELSE "exited"
    /\ UNCHANGED <<zmqVars, channel, hand, failures, retryQueue, cooldown, shutdown,
                   countVars, made, sent, lost, answerVars>>

\* notified(): both flags are taken; a request within 30 s of the last
\* reconnect is dropped unless it is forced.
TakeRequest ==
    /\ bpc = "select"
    /\ notified
    /\ notified' = FALSE /\ requested' = FALSE /\ forced' = FALSE
    /\ bpc' = IF forced \/ (requested /\ ~cooldown) THEN "onRequest" ELSE "select"
    /\ UNCHANGED <<zmqVars, channel, hand, failures, retryQueue, cooldown, shutdown,
                   countVars, made, sent, lost, answerVars>>

\* Mutant: a failed reconnect clears the retry queue.
ReconnectForgets ==
    /\ bpc \in {"onRequest", "onFailures"}
    /\ bpc' = "select"
    /\ lost' = lost \cup Entries(retryQueue)
    /\ retryQueue' = <<>>
    /\ failures' = 0
    /\ UNCHANGED <<zmqVars, channel, hand, cooldown, flagVars, shutdown, countVars, made,
                   sent, answerVars>>

\* reconnect_gossip_topic.  Only the reconnect after failures replays.
Reconnect ==
    /\ bpc \in {"onRequest", "onFailures"}
    /\ \/ /\ bpc' = IF bpc = "onFailures" THEN "replaying" ELSE "select"
          /\ cooldown' = (cooldown \/ bpc = "onRequest")
       \/ /\ bpc' = "select"
          /\ UNCHANGED cooldown
    /\ failures' = 0
    /\ UNCHANGED <<zmqVars, channel, hand, retryQueue, flagVars, shutdown, countVars, made,
                   sent, lost, answerVars>>

\* Mutant: a payload whose replay fails is put at the end of the queue.
ReplayFailsToBack ==
    /\ failed < MaxFailures
    /\ failed' = failed + 1
    /\ retryQueue' = Append(Tail(retryQueue), Head(retryQueue))
    /\ bpc' = "select"
    /\ cooldown' = TRUE
    /\ UNCHANGED sent

\* A replayed broadcast fails: it is put back in front and the replay stops.
ReplayFails ==
    /\ failed < MaxFailures
    /\ failed' = failed + 1
    /\ bpc' = "select"
    /\ cooldown' = TRUE
    /\ UNCHANGED <<retryQueue, sent>>

\* Mutant: a replayed payload stays in the queue.
ReplaySucceedsKeeps ==
    /\ sent' = sent \cup {Head(retryQueue)}
    /\ bpc' = "select"
    /\ cooldown' = TRUE
    /\ UNCHANGED <<retryQueue, failed>>

ReplaySucceeds ==
    /\ sent' = sent \cup {Head(retryQueue)}
    /\ retryQueue' = Tail(retryQueue)
    /\ UNCHANGED <<bpc, cooldown, failed>>

\* The retry queue is drained through the new sender, oldest first.
Replay ==
    /\ bpc = "replaying"
    /\ \/ /\ retryQueue = <<>>
          /\ bpc' = "select" /\ cooldown' = TRUE
          /\ UNCHANGED <<retryQueue, sent, failed>>
       \/ retryQueue # <<>> /\ ReplaySucceeds
       \/ retryQueue # <<>> /\ ReplayFails
    /\ UNCHANGED <<zmqVars, channel, hand, failures, flagVars, shutdown, received, announces,
                   requests, made, lost, answerVars>>

-----------------------------------------------------------------------------
ZmqThread ==
    \/ ZmqTop \/ ZmqRecv \/ EndFlush
    \/ \E g \in Groups : SendChunk(g)

BroadcastTask ==
    \/ TakePayload \/ BroadcastSucceeds \/ BroadcastFails
    \/ TakeRequest \/ Reconnect \/ Replay

OtherTasks ==
    \/ Announce \/ CooldownEnds
    \/ \E force \in BOOLEAN : Request(force)

Next ==
    \/ ZmqThread \/ BroadcastTask \/ OtherTasks
    \/ Shutdown \/ ProcessExits

Spec == Init /\ [][Next]_vars

\* Threads and tasks are scheduled and time passes; every await of the
\* broadcast task ends: a broadcast has a timeout of 10 s and a reconnect
\* subscribes without waiting for a peer.
FairSpec == Spec /\ WF_vars(ZmqThread) /\ WF_vars(BroadcastTask) /\ WF_vars(CooldownEnds)

-----------------------------------------------------------------------------
Increasing(s) == \A i, j \in DOMAIN s : i < j => s[i] < s[j]

\* Every payload that was made is in exactly one place: waiting in the
\* channel, being broadcast, waiting for a retry, broadcast, or given up.
\* (The broadcast task's push_back, pop_front and push_front.)
Conserved ==
    LET places == <<Entries(channel), hand, Entries(retryQueue), sent, lost>>
    IN  /\ UNION Entries(places) = 1..made
        /\ \A i, j \in DOMAIN places : i # j => places[i] \cap places[j] = {}

\* A payload is given up only when a queue is full or the writer stops; a
\* reconnect, failed or not, loses nothing.
LossHasReason ==
    [][lost' # lost =>
          \/ Len(channel) = ChannelCap
          \/ Len(retryQueue) = MaxRetryQueue
          \/ shutdown]_vars

\* The order in which payloads were made is kept by both queues: a replay
\* broadcasts in that order, and what waits for a retry is older than what
\* was never tried.
QueuesInOrder ==
    /\ Increasing(channel)
    /\ Increasing(retryQueue)
    /\ \A p \in Entries(retryQueue) \cup hand, q \in Entries(channel) : p < q
    /\ \A p \in Entries(retryQueue), q \in hand : p < q

\* A ping is answered, and the front-end forgets it, only after it was put in
\* a payload that was offered to the channel, and only if some payload of its
\* batch found the broadcast task alive: when every payload of a batch is
\* refused because the task is gone, no ping of it is answered and their rows
\* stay with the front-end.  That is all an answer means: the payload of an
\* answered ping may have been dropped at a full channel, or refused because
\* the task ended in the middle of the batch.  (flush_batch: broadcast_ok.)
AnsweredWasOffered ==
    [][\A i \in acked' \ acked :
          /\ i \in offered
          /\ \E p \in Entries(pending) : p.id \in reached]_vars

\* The broadcast task does not stop serving the channel: a payload in it
\* leaves it, whatever fails and whoever asks for reconnects.
ChannelServed ==
    \A p \in 1..(MaxPings + MaxAnnounces) : p \in Entries(channel) ~> p \notin Entries(channel)
=============================================================================
