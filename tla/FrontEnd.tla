------------------------------ MODULE FrontEnd ------------------------------
(***************************************************************************)
(* The podping front-end: the web handler that puts pings in queue.db, the *)
(* queue-checker thread that hands them to the writers over ZeroMQ, and    *)
(* the processing of the writers' replies.                                 *)
(*                                                                         *)
(* The web handler and the queue checker share nothing but queue.db, where *)
(* each statement runs on a connection of its own: every statement is one  *)
(* step here.  The writers are external; they are modelled by what the     *)
(* front-end can see of them: they take messages, and answer or do not.    *)
(***************************************************************************)
EXTENDS QueueDb, Sequences

CONSTANTS
    ResetBelow,     \* rows are re-armed only if fewer pings than this were sent
    HiveHwm,        \* bound: messages a ZeroMQ pipe of the hive socket holds
    GossipHwm,      \* bound: messages a pipe of the gossip socket holds
    Ephemeral,      \* the --ephemeral flag
    GossipEnabled,  \* GOSSIP_WRITER_ENABLED
    DbMayFail,      \* may a statement on queue.db return an error?
    MaxLosses       \* bound: restarts, failed sends and pings a writer loses

ASSUME FrontEndAssumption ==
    /\ ResetBelow \in Nat \ {0}
    /\ HiveHwm \in Nat \ {0}
    /\ GossipHwm \in Nat \ {0}
    /\ Ephemeral \in BOOLEAN
    /\ GossipEnabled \in BOOLEAN
    /\ DbMayFail \in BOOLEAN
    /\ MaxLosses \in Nat

VARIABLES
    queue,       \* the table, the only state that survives a restart
    pings,       \* number of accepted requests; the last one's id
    updating,    \* handlers between a failed INSERT and their UPDATE
    pc,          \* where the queue checker is
    batch,       \* pings fetched from the table and not yet sent
    cur,         \* the ping being sent: a set of at most one
    sent,        \* urls sent in this iteration of the loop
    hiveOut, hiveIn,     \* the hive socket's two pipes
    gossipOut, gossipIn, \* the gossip socket's two pipes
    hiveWork, gossipWork, \* urls a writer has taken and not answered
    losses,      \* how often something was lost so far
    handed,      \* history: urls ever put on a socket
    outstanding  \* history: pings put on the hive socket and not put back since

socketVars == <<hiveOut, hiveIn, gossipOut, gossipIn>>
workVars   == <<hiveWork, gossipWork>>
loopVars   == <<pc, batch, cur, sent>>
histVars   == <<handed, outstanding>>
vars == <<queue, pings, updating, loopVars, socketVars, workVars, losses, histVars>>

-----------------------------------------------------------------------------
\* A ping as the web handler holds it, and as the queue checker fetched it.
\* In a message to a writer, and in its reply, only the url matters here.
Ping    == [url : Urls, id : PingIds, reason : Reasons]
Fetched == [url : Urls, id : PingIds, reason : Reasons, rowid : PingIds]

\* A writer's message: a transaction in a block, one not yet in a block
\* (block number 0), or a write error.
ReplyKinds == {"tx", "block0", "error"}
Reply == [kind : ReplyKinds, urls : SUBSET Urls]

PcValues == {"hive1", "gossip1", "fetch", "sendGossip", "sendHive", "mark",
             "hive2", "gossip2", "reset"}

\* The types, and the two limits of the loop: one SELECT yields at most
\* BatchSize pings (get_pings_from_queue), and the hive socket never holds more
\* than its high-water mark.
TypeOK ==
    /\ queue \in Tables
    /\ pings \in 0..MaxPings
    /\ updating \in SUBSET Ping
    /\ pc \in PcValues
    /\ batch \in SUBSET Fetched
    /\ IsFiniteSet(batch) /\ Cardinality(batch) <= BatchSize
    /\ cur \in SUBSET Fetched
    /\ sent \in SUBSET Urls
    /\ hiveOut \in Seq(Urls) /\ Len(hiveOut) <= HiveHwm /\ hiveIn \in Seq(Reply)
    /\ gossipOut \in Seq(Urls) /\ gossipIn \in Seq(Reply)
    /\ hiveWork \in SUBSET Urls /\ gossipWork \in SUBSET Urls
    /\ losses \in 0..MaxLosses
    /\ handed \in SUBSET Urls
    /\ outstanding \in SUBSET PingIds

Init ==
    /\ queue = EmptyTable
    /\ pings = 0
    /\ updating = {}
    /\ pc = "hive1"
    /\ batch = {}
    /\ cur = {}
    /\ sent = {}
    /\ hiveOut = <<>> /\ hiveIn = <<>>
    /\ gossipOut = <<>> /\ gossipIn = <<>>
    /\ hiveWork = {} /\ gossipWork = {}
    /\ losses = 0
    /\ handed = {}
    /\ outstanding = {}

-----------------------------------------------------------------------------
(* The web handler.  A request that fails a check is answered without      *)
(* touching the table, so only the accepted ones are steps.                *)

\* add_ping_to_queue.  A failed INSERT drops an Update (the publisher is
\* told "Success!" all the same) and makes a Live or LiveEnd go on to
\* update_ping_in_queue.
AddPing(u, reason) ==
    /\ pings < MaxPings
    /\ pings' = pings + 1
    /\ \/ /\ u \notin DOMAIN queue
          /\ queue' = InsertPing(queue, u, pings + 1, reason)
          /\ UNCHANGED updating
       \/ /\ u \in DOMAIN queue \/ DbMayFail
          /\ updating' = updating \cup
                IF reason = "Update" THEN {}
                ELSE {[url |-> u, id |-> pings + 1, reason |-> reason]}
          /\ UNCHANGED queue
    /\ UNCHANGED <<loopVars, socketVars, workVars, losses, histVars>>

\* update_ping_in_queue, on a new connection.
UpdatePingInQueue(p) ==
    /\ updating' = updating \ {p}
    /\ \/ queue' = UpdatePing(queue, p.url, p.id, p.reason)
       \/ DbMayFail /\ UNCHANGED queue
    /\ UNCHANGED <<pings, loopVars, socketVars, workVars, losses, histVars>>

\* Time passes.
Tick(u) ==
    /\ queue[u].age # "stale"
    /\ queue' = AgePing(queue, u)
    /\ UNCHANGED <<pings, updating, loopVars, socketVars, workVars, losses, histVars>>

-----------------------------------------------------------------------------
(* The queue checker.                                                      *)

\* What one reply deletes, and whether receive_messages returns true.
Removes(reply) == IF reply.kind = "block0" THEN {} ELSE reply.urls
ReturnsTrue(reply) == reply.kind = "tx"

\* One DELETE per url, each of which may fail.
ApplyReply(reply) ==
    \E us \in SUBSET Removes(reply) :
        /\ us # Removes(reply) => DbMayFail
        /\ queue' = DeletePings(queue, us)

\* receive_messages(&zmq_hive): at most one message.
ReceiveHive ==
    /\ \/ pc = "hive1" /\ pc' = "gossip1"
       \/ pc = "hive2" /\ pc' = "gossip2"
    /\ \/ hiveIn = <<>> /\ UNCHANGED <<queue, hiveIn>>
       \/ hiveIn # <<>> /\ ApplyReply(Head(hiveIn)) /\ hiveIn' = Tail(hiveIn)
    /\ UNCHANGED <<pings, updating, batch, cur, sent, hiveOut, gossipOut, gossipIn,
                   workVars, losses, histVars>>

\* One call of receive_messages(gsock) that returns true.
ReceiveGossip ==
    /\ pc \in {"gossip1", "gossip2"}
    /\ gossipIn # <<>>
    /\ ReturnsTrue(Head(gossipIn))
    /\ ApplyReply(Head(gossipIn))
    /\ gossipIn' = Tail(gossipIn)
    /\ UNCHANGED <<pings, updating, loopVars, hiveOut, hiveIn, gossipOut,
                   workVars, losses, histVars>>

\* `sent += 1', and the for loop takes the next ping or ends.
AfterPing ==
    /\ pc' = IF batch = {} THEN "reset" ELSE "sendGossip"
    /\ sent' = sent \cup {p.url : p \in cur}
    /\ cur' = {}
    /\ UNCHANGED batch

\* receive_messages(gsock) returns false: there is nothing to receive.
NoMoreGossip ==
    /\ gossipIn = <<>>
    /\ \/ pc = "gossip1" /\ pc' = "fetch" /\ UNCHANGED <<batch, cur, sent>>
       \/ pc = "gossip2" /\ AfterPing
    /\ UNCHANGED <<queue, pings, updating, socketVars, workVars, losses, histVars>>

\* Mutant: the rows are taken from the table when they are fetched.
FetchTakes ==
    /\ pc = "fetch"
    /\ \E us \in SUBSET DOMAIN queue :
        /\ GetPingsFromQueue(queue, us)
        /\ batch' = {[url |-> u, id |-> queue[u].id, reason |-> queue[u].reason,
                      rowid |-> queue[u].rowid] : u \in us}
        /\ queue' = DeletePings(queue, us)
        /\ pc' = IF us = {} THEN "reset" ELSE "sendGossip"
    /\ UNCHANGED <<pings, updating, cur, sent, socketVars, workVars, losses, histVars>>

\* get_pings_from_queue(false)
Fetch ==
    /\ pc = "fetch"
    /\ \/ \E us \in SUBSET DOMAIN queue :
            /\ GetPingsFromQueue(queue, us)
            /\ batch' = {[url |-> u, id |-> queue[u].id, reason |-> queue[u].reason,
                          rowid |-> queue[u].rowid] : u \in us}
            /\ pc' = IF us = {} THEN "reset" ELSE "sendGossip"
       \/ /\ DbMayFail
          /\ pc' = "reset"
          /\ UNCHANGED batch
    /\ UNCHANGED <<queue, pings, updating, cur, sent, socketVars, workVars, losses, histVars>>

\* The for loop takes the first remaining ping and offers it to the gossip
\* socket with DONTWAIT, ignoring an error.
SendGossip ==
    /\ pc = "sendGossip"
    /\ \E p \in batch :
        /\ \A q \in batch \ {p} : Before(p, q)
        /\ batch' = batch \ {p}
        /\ cur' = {p}
        /\ IF GossipEnabled /\ Len(gossipOut) < GossipHwm
           THEN gossipOut' = Append(gossipOut, p.url) /\ handed' = handed \cup {p.url}
           ELSE UNCHANGED <<gossipOut, handed>>
    /\ pc' = "sendHive"
    /\ UNCHANGED <<queue, pings, updating, sent, hiveOut, hiveIn, gossipIn,
                   workVars, losses, outstanding>>

\* zmq_hive.send succeeds.
SendHive ==
    /\ pc = "sendHive"
    /\ Len(hiveOut) < HiveHwm
    /\ \E p \in cur :
        /\ hiveOut' = Append(hiveOut, p.url)
        /\ handed' = handed \cup {p.url}
        /\ outstanding' = outstanding \cup {p.id}
    /\ pc' = "mark"
    /\ UNCHANGED <<queue, pings, updating, batch, cur, sent, hiveIn, gossipOut, gossipIn,
                   workVars, losses>>

\* Mutant: after a failed send the ping is treated like one that was sent.
SendHiveFailsFallsThrough ==
    /\ pc = "sendHive"
    /\ Len(hiveOut) = HiveHwm
    /\ losses < MaxLosses
    /\ losses' = losses + 1
    /\ hiveOut' = <<>> /\ hiveIn' = <<>>
    /\ pc' = "mark"
    /\ UNCHANGED <<queue, pings, updating, batch, cur, sent, gossipOut, gossipIn, workVars, histVars>>

\* zmq_hive.send times out on a full pipe: the socket is replaced by a new one, what its
\* pipes held is gone (linger 0), and the for loop is left.
SendHiveFails ==
    /\ pc = "sendHive"
    /\ Len(hiveOut) = HiveHwm
    /\ losses < MaxLosses
    /\ losses' = losses + 1
    /\ hiveOut' = <<>> /\ hiveIn' = <<>>
    /\ batch' = {} /\ cur' = {}
    /\ pc' = "reset"
    /\ UNCHANGED <<queue, pings, updating, sent, gossipOut, gossipIn, workVars, histVars>>

\* Mutant: ephemeral mode marks the row instead of deleting it.
MarkAlways ==
    /\ pc = "mark"
    /\ pc' = "hive2"
    /\ \E p \in cur : queue' = SetPingAsInflight(queue, p.url)
    /\ UNCHANGED <<pings, updating, batch, cur, sent, socketVars, workVars, losses, histVars>>

\* After a successful send: set_ping_as_inflight, or delete_ping_from_queue
\* in ephemeral mode.
Mark ==
    /\ pc = "mark"
    /\ pc' = "hive2"
    /\ \E p \in cur :
        \/ /\ queue' = IF Ephemeral THEN DeletePings(queue, {p.url})
                       ELSE SetPingAsInflight(queue, p.url)
           /\ UNCHANGED outstanding
        \/ /\ DbMayFail
           /\ outstanding' = outstanding \ {p.id}
           /\ UNCHANGED queue
    /\ UNCHANGED <<pings, updating, batch, cur, sent, socketVars, workVars, losses,
                   handed>>

\* The end of the loop's body: sleep, then reset_pings_in_flight.
Reset ==
    /\ pc = "reset"
    /\ pc' = "hive1"
    /\ sent' = {}
    /\ \/ /\ ~Ephemeral /\ Cardinality(sent) < ResetBelow
          /\ \E us \in ResetChoices(queue) :
                /\ queue' = ResetPings(queue, us)
                /\ outstanding' = outstanding \ {queue[u].id : u \in us}
       \/ /\ Ephemeral \/ Cardinality(sent) >= ResetBelow \/ DbMayFail
          /\ UNCHANGED <<queue, outstanding>>
    /\ UNCHANGED <<pings, updating, batch, cur, socketVars, workVars, losses, handed>>

\* A panic of either thread, or the supervisor, ends the process and it is
\* started again: everything but the table is new.  A ping that was put on
\* the hive socket and not marked will be sent again.
Restart ==
    /\ losses < MaxLosses
    /\ losses' = losses + 1
    /\ pc' = "hive1"
    /\ updating' = {} /\ batch' = {} /\ cur' = {} /\ sent' = {}
    /\ hiveOut' = <<>> /\ hiveIn' = <<>>
    /\ gossipOut' = <<>> /\ gossipIn' = <<>>
    /\ outstanding' = IF pc = "mark" THEN outstanding \ {p.id : p \in cur}
                      ELSE outstanding
    /\ UNCHANGED <<queue, pings, workVars, handed>>

-----------------------------------------------------------------------------
(* The writers, as the front-end sees them.                                *)

HiveTake ==
    /\ hiveOut # <<>>
    /\ hiveOut' = Tail(hiveOut)
    /\ hiveWork' = hiveWork \cup {Head(hiveOut)}
    /\ UNCHANGED <<queue, pings, updating, loopVars, hiveIn, gossipOut, gossipIn,
                   gossipWork, losses, histVars>>

\* A transaction with some of the pings was put in a block.
HiveWrites ==
    /\ Len(hiveIn) < HiveHwm
    /\ \E done \in SUBSET hiveWork \ {{}} :
        /\ hiveIn' = Append(hiveIn, [kind |-> "tx", urls |-> done])
        /\ hiveWork' = hiveWork \ done
    /\ UNCHANGED <<queue, pings, updating, loopVars, hiveOut, gossipOut, gossipIn,
                   gossipWork, losses, histVars>>

\* The writer gives up on a ping.
HiveFails ==
    /\ Len(hiveIn) < HiveHwm
    /\ \E u \in hiveWork :
        /\ hiveIn' = Append(hiveIn, [kind |-> "error", urls |-> {u}])
        /\ hiveWork' = hiveWork \ {u}
    /\ UNCHANGED <<queue, pings, updating, loopVars, hiveOut, gossipOut, gossipIn,
                   gossipWork, losses, histVars>>

\* The writer loses a ping: it answers with block number 0, or not at all.
HiveLoses ==
    /\ losses < MaxLosses
    /\ losses' = losses + 1
    /\ \E u \in hiveWork :
        /\ hiveWork' = hiveWork \ {u}
        /\ \/ UNCHANGED hiveIn
           \/ /\ Len(hiveIn) < HiveHwm
              /\ hiveIn' = Append(hiveIn, [kind |-> "block0", urls |-> {u}])
    /\ UNCHANGED <<queue, pings, updating, loopVars, hiveOut, gossipOut, gossipIn,
                   gossipWork, histVars>>

GossipTake ==
    /\ gossipOut # <<>>
    /\ gossipOut' = Tail(gossipOut)
    /\ gossipWork' = gossipWork \cup {Head(gossipOut)}
    /\ UNCHANGED <<queue, pings, updating, loopVars, hiveOut, hiveIn, gossipIn,
                   hiveWork, losses, histVars>>

\* The gossip-writer answers for one url, with the time as block number, or
\* drops the ping: flush_batch and send_zmq_reply.
GossipWrites ==
    /\ \E u \in gossipWork :
        /\ gossipWork' = gossipWork \ {u}
        /\ \/ /\ Len(gossipIn) < GossipHwm
              /\ gossipIn' = Append(gossipIn, [kind |-> "tx", urls |-> {u}])
           \/ UNCHANGED gossipIn
    /\ UNCHANGED <<queue, pings, updating, loopVars, hiveOut, hiveIn, gossipOut,
                   hiveWork, losses, histVars>>

-----------------------------------------------------------------------------
Handler ==
    \/ \E u \in Urls, reason \in Reasons : AddPing(u, reason)
    \/ \E p \in updating : UpdatePingInQueue(p)

QueueChecker ==
    \/ ReceiveHive \/ ReceiveGossip \/ NoMoreGossip
    \/ Fetch \/ SendGossip \/ SendHive \/ SendHiveFails \/ Mark \/ Reset

Writers ==
    \/ HiveTake \/ HiveWrites \/ HiveFails \/ HiveLoses
    \/ GossipTake \/ GossipWrites

Next ==
    \/ Handler
    \/ QueueChecker
    \/ Writers
    \/ \E u \in DOMAIN queue : Tick(u)
    \/ Restart

Spec == Init /\ [][Next]_vars

(* Fairness.  The queue checker loops for ever and time passes; a running   *)
(* hive-writer keeps receiving and answers what it took.  Nothing is        *)
(* assumed of the gossip-writer, of publishers, of handlers, or of losses,  *)
(* except that there are finitely many of them.                             *)
Fairness ==
    /\ WF_vars(QueueChecker)
    /\ \A u \in Urls : WF_vars(u \in DOMAIN queue /\ Tick(u))
    /\ WF_vars(HiveTake) /\ WF_vars(HiveWrites)

FairSpec == Spec /\ Fairness

-----------------------------------------------------------------------------
(* Safety.                                                                 *)

\* No row leaves the table before a ping for its url was put on a writer's
\* socket, whatever is lost, answered late, answered twice or restarted.
\* (main.rs: every call of delete_ping_from_queue.)
RemovedOnlyAfterSend ==
    [][\A u \in DOMAIN queue \ DOMAIN queue' : u \in handed]_vars

\* What the queue checker is about to put on the hive socket is not already
\* there or with the writer: a ping goes out again only after its row was
\* reset, its mark failed or the front-end restarted before marking it,
\* even though the checker works on a snapshot of the table that handlers and
\* replies change meanwhile.
NoDoubleSend ==
    pc = "sendHive" => \A p \in cur : p.id \notin outstanding

\* In ephemeral mode nothing is ever in flight, and a ping that was put on
\* the hive socket and is not being marked has no row left.  (main.rs: the
\* delete that follows the send.)
EphemeralForgets ==
    Ephemeral => \A u \in DOMAIN queue :
        /\ ~queue[u].inflight
        /\ queue[u].id \in outstanding =>
              pc = "mark" /\ \E p \in cur : p.id = queue[u].id

\* A handler that goes on from its failed INSERT to the UPDATE finds the row,
\* or an earlier ping of the same url was put on a writer's socket: its reply
\* (or ephemeral mode's delete) is all that removes the row meanwhile, and
\* the newer ping, which then has no row to go into, is dropped.  A reply names
\* a url and no ping, so the row it removes may hold a later ping than the one
\* it answers: this says nothing of whether that later ping was sent.
\* (add_ping_to_queue and update_ping_in_queue, two connections apart.)
UpdateFindsRowOrSent ==
    \A p \in updating : p.url \in DOMAIN queue \/ p.url \in handed \/ DbMayFail

\* The front-end implements the abstract queue: the table is what is pending.
\* (All of main.rs and handler.rs that touches queue.db.)
Queue == INSTANCE PingQueue WITH pending <- DOMAIN queue
ImplementsPingQueue == Queue!Spec

(* Liveness.                                                               *)

\* Every url that is in the table leaves it, in spite of restarts, lost
\* replies and replaced sockets: the reset after 180 s repairs them all.
Drained ==
    \A u \in Urls : u \in DOMAIN queue ~> u \notin DOMAIN queue

-----------------------------------------------------------------------------
(* What the documentation says and the code does not do.                   *)

\* README.md, "Requests", step 6: an error returned by the writer leads to
\* another attempt, so its row must stay in the table.
ErrorKeepsRow ==
    [][\A u \in DOMAIN queue \ DOMAIN queue' :
          ~(pc \in {"hive1", "hive2"} /\ hiveIn # <<>> /\ Head(hiveIn).kind = "error")]_vars

=============================================================================
