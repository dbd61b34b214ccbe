--------------------------- MODULE GossipReceiver ---------------------------
(***************************************************************************)
(* The actor of dtt-fork/src/gossip/receiver.rs that stands between        *)
(* iroh-gossip's event stream and the one receive task that reads it.  The *)
(* task calls next() under a timeout of 30 s (gossip-writer,               *)
(* gossip-listener and gossip-monitor do the same); next() leaves a oneshot *)
(* sender, the waiter, with the actor, and a call that times out leaves a  *)
(* waiter nobody listens to.                                               *)
(*                                                                         *)
(* An event is known by its number in the stream.  Both VecDeques are      *)
(* written here with the end that pop_back takes from first.               *)
(***************************************************************************)
EXTENDS Naturals, Sequences

CONSTANTS
    MaxEvents,   \* bound: events the stream delivers
    MaxWaiters,  \* bound: waiters and requests that exist at once
    QueueLimit,  \* 1000, what msg_queue may hold with nobody waiting
    HashLimit    \* 5, the number of message hashes that are kept

ASSUME GossipReceiverAssumption ==
    /\ MaxEvents \in Nat
    /\ MaxWaiters \in Nat
    /\ QueueLimit \in Nat
    /\ HashLimit \in Nat \ {0}

VARIABLES
    running,    \* is the actor in its loop?
    mailbox,    \* register_next actions the actor has not run yet
    waiters,    \* oneshot senders; a dead one's receiver was dropped
    msgQueue,   \* msg_queue
    hashes,     \* last_message_hashes, as the numbers of the messages
    task,       \* the receive task
    arrived,    \* number of events the stream has delivered
    messages,   \* history: the events that were Received messages
    delivered,  \* history: the events next() returned, in order
    dropped     \* history: the events given to a dead waiter

vars == <<running, mailbox, waiters, msgQueue, hashes, task, arrived, messages,
          delivered, dropped>>

EventIds == 1..MaxEvents
Waiter == {"live", "dead"}

\* "ended": next() returned None or an error; "gaveUp": the task broke off
\* after a timeout, nothing having been received for a long time.
TaskStates == {"idle", "waiting", "ended", "gaveUp"}

TypeOK ==
    /\ running \in BOOLEAN
    /\ mailbox \in Seq(Waiter)
    /\ waiters \in Seq(Waiter)
    /\ msgQueue \in Seq(EventIds) /\ Len(msgQueue) <= QueueLimit + 1
    /\ hashes \in Seq(EventIds) /\ Len(hashes) <= HashLimit
    /\ task \in TaskStates
    /\ arrived \in 0..MaxEvents
    /\ messages \in SUBSET EventIds
    /\ delivered \in Seq(EventIds)
    /\ dropped \in SUBSET EventIds

Init ==
    /\ running = TRUE
    /\ mailbox = <<>>
    /\ waiters = <<>>
    /\ msgQueue = <<>>
    /\ hashes = <<>>
    /\ task = "idle"
    /\ arrived = 0
    /\ messages = {}
    /\ delivered = <<>>
    /\ dropped = {}

-----------------------------------------------------------------------------
(* The receive task.                                                       *)

\* next(): the request goes to the actor, or fails because it is gone.
Ask ==
    /\ task = "idle"
    /\ \/ /\ running
          /\ Len(mailbox) + Len(waiters) < MaxWaiters
          /\ mailbox' = Append(mailbox, "live")
          /\ task' = "waiting"
       \/ /\ ~running
          /\ task' = "ended"
          /\ UNCHANGED mailbox
    /\ UNCHANGED <<running, waiters, msgQueue, hashes, arrived, messages, delivered, dropped>>

AllDead(s) == [i \in DOMAIN s |-> "dead"]

\* Mutant: next() is awaited without a limit.
TimeoutNever ==
    /\ FALSE
    /\ UNCHANGED vars

\* The 30 s pass before next() has an answer.  The task goes on or gives up.
Timeout ==
    /\ task = "waiting"
    /\ task' \in {"idle", "gaveUp"}
    /\ mailbox' = AllDead(mailbox)
    /\ waiters' = AllDead(waiters)
    /\ UNCHANGED <<running, msgQueue, hashes, arrived, messages, delivered, dropped>>

\* waiter.send(Some(Ok(event))), its result ignored.
SendEvent(waiter, event) ==
    \/ /\ waiter = "live"
       /\ task' = "idle"
       /\ delivered' = Append(delivered, event)
       /\ UNCHANGED dropped
    \/ /\ waiter = "dead"
       /\ dropped' = dropped \cup {event}
       /\ UNCHANGED <<task, delivered>>

-----------------------------------------------------------------------------
(* The actor.                                                              *)

\* Mutant: a waiter is always parked, even if there are events.
RegisterNextParks ==
    /\ running
    /\ mailbox # <<>>
    /\ mailbox' = Tail(mailbox)
    /\ waiters' = Append(waiters, Head(mailbox))
    /\ UNCHANGED <<running, msgQueue, hashes, task, arrived, messages, delivered, dropped>>

\* register_next
RegisterNext ==
    /\ running
    /\ mailbox # <<>>
    /\ mailbox' = Tail(mailbox)
    /\ \/ /\ msgQueue # <<>>
          /\ SendEvent(Head(mailbox), Head(msgQueue))
          /\ msgQueue' = Tail(msgQueue)
          /\ UNCHANGED waiters
       \/ /\ msgQueue = <<>>
          /\ waiters' = Append(waiters, Head(mailbox))
          /\ UNCHANGED <<msgQueue, task, delivered, dropped>>
    /\ UNCHANGED <<running, hashes, arrived, messages>>

\* Mutant: the oldest hash is never removed.
RecordAll(queue, isMessage) ==
    hashes' = IF queue # <<>> /\ isMessage THEN Append(hashes, queue[Len(queue)]) ELSE hashes

\* Mutant: the hash is taken from the other end of the queue.
RecordOldest(queue, isMessage) ==
    LET more == Append(hashes, queue[1])
    IN  hashes' = IF queue # <<>> /\ isMessage
                  THEN IF Len(more) > HashLimit THEN Tail(more) ELSE more
                  ELSE hashes

\* The hash of the event that is still at the front of the queue, if it is a
\* Received message; only the last HashLimit are kept.
RecordHash(queue, isMessage) ==
    LET more == Append(hashes, queue[Len(queue)])
    IN  hashes' = IF queue # <<>> /\ isMessage
                  THEN IF Len(more) > HashLimit THEN Tail(more) ELSE more
                  ELSE hashes

\* Mutant: the new event overtakes the queue.
QueueEventFirst(isMessage) ==
    /\ waiters = <<>>
    /\ Len(msgQueue) <= QueueLimit
    /\ msgQueue' = <<arrived + 1>> \o msgQueue
    /\ RecordHash(msgQueue', isMessage)
    /\ UNCHANGED <<running, waiters, task, delivered, dropped>>

\* Nobody waits: the event is queued.
QueueEvent(isMessage) ==
    /\ waiters = <<>>
    /\ Len(msgQueue) <= QueueLimit
    /\ msgQueue' = Append(msgQueue, arrived + 1)
    /\ RecordHash(msgQueue', isMessage)
    /\ UNCHANGED <<running, waiters, task, delivered, dropped>>

\* Somebody waits: the oldest waiter gets the oldest event.
HandEvent(isMessage) ==
    /\ waiters # <<>>
    /\ waiters' = Tail(waiters)
    /\ LET q == Append(msgQueue, arrived + 1)
       IN  /\ SendEvent(Head(waiters), Head(q))
           /\ msgQueue' = Tail(q)
           /\ RecordHash(Tail(q), isMessage)
    /\ UNCHANGED running

\* Nobody has waited for a long time: the actor stops and drops its queue.
QueueOverflows ==
    /\ waiters = <<>>
    /\ Len(msgQueue) > QueueLimit
    /\ running' = FALSE
    /\ msgQueue' = <<>>
    /\ UNCHANGED <<waiters, hashes, task, delivered, dropped>>

\* The stream has an event.
Arrive(isMessage) ==
    /\ running
    /\ arrived < MaxEvents
    /\ arrived' = arrived + 1
    /\ messages' = IF isMessage THEN messages \cup {arrived + 1} ELSE messages
    /\ QueueEvent(isMessage) \/ HandEvent(isMessage) \/ QueueOverflows
    /\ UNCHANGED mailbox

\* Mutant: after a None the loop goes on.
StreamEndsUnnoticed ==
    /\ running
    /\ waiters' = <<>>
    /\ task' = IF \E i \in DOMAIN waiters : waiters[i] = "live" THEN "ended" ELSE task
    /\ UNCHANGED <<running, mailbox, msgQueue, hashes, arrived, messages, delivered, dropped>>

\* The stream ended, or failed: every waiter gets None, or the first one the
\* error, and the actor stops; its queue goes with it.
StreamEnds ==
    /\ running
    /\ running' = FALSE
    /\ waiters' = <<>>
    /\ msgQueue' = <<>>
    /\ task' = IF \E i \in DOMAIN waiters : waiters[i] = "live" THEN "ended" ELSE task
    /\ UNCHANGED <<mailbox, hashes, arrived, messages, delivered, dropped>>

\* The actor is gone and so may be a request it had not run: the call fails.
\* (The channel may also keep it; then only the timeout ends the call.)
RequestLost ==
    /\ ~running
    /\ task = "waiting"
    /\ task' = "ended"
    /\ mailbox' = <<>>
    /\ UNCHANGED <<running, waiters, msgQueue, hashes, arrived, messages, delivered, dropped>>

-----------------------------------------------------------------------------
Next ==
    \/ Ask \/ Timeout
    \/ RegisterNext
    \/ \E isMessage \in BOOLEAN : Arrive(isMessage)
    \/ StreamEnds \/ RequestLost

Spec == Init /\ [][Next]_vars

\* The task calls next() again and again and its timer fires; a running
\* actor runs the actions it is sent.  Nothing is assumed of the stream.
FairSpec == Spec /\ WF_vars(Ask) /\ WF_vars(Timeout) /\ WF_vars(RegisterNext)

-----------------------------------------------------------------------------
Increasing(s) == \A i, j \in DOMAIN s : i < j => s[i] < s[j]

\* No event lies in the queue while a waiter is parked: register_next parks one
\* only if the queue is empty, and an event that finds a waiter never stays.  So
\* a live call does not wait for an event that is there.  It may wait behind
\* dead waiters, each of which takes an event first; ImplementsEventFeed bounds
\* what they take, and nothing bounds how long a live call waits.
QueueEmptyWhileParked == waiters # <<>> => msgQueue = <<>>

\* The receive task sees events in the order of the stream, none twice and
\* none of those that are still queued, however calls time out between the
\* register_next action and the event.
InOrder ==
    /\ Increasing(delivered)
    /\ Increasing(msgQueue)
    /\ \A i \in DOMAIN delivered, j \in DOMAIN msgQueue : delivered[i] < msgQueue[j]

\* The hashes that go into DHT records are those of messages, each once and in
\* the order of arrival, although they are taken from the event queue after a
\* waiter was served from it.
HashesInOrder ==
    /\ Increasing(hashes)
    /\ \A i \in DOMAIN hashes : hashes[i] \in messages

\* The waiters and requests nobody listens to.
Abandoned == Len(mailbox) + Len(waiters) - (IF task = "waiting" THEN 1 ELSE 0)

\* The receiver is an EventFeed: whatever the mailbox and the waiters hold, each
\* call of next() gets at most one event, the oldest there is, and none after a
\* call that failed; each call that timed out costs at most one event and nothing
\* else is lost while the actor runs; next() returns None only when it is gone.
Feed == INSTANCE EventFeed WITH
            open <- running, queue <- msgQueue, reader <- task,
            abandoned <- Abandoned, lost <- dropped
ImplementsEventFeed == Feed!Spec

\* An actor that stopped, be it because its queue overflowed, is noticed by
\* the receive task.
ClosedIsNoticed == ~running ~> task \in {"ended", "gaveUp"}

-----------------------------------------------------------------------------
(* What the comments of receiver.rs say and the code does not do.          *)

\* "Receive the next gossip event": what arrives on an open stream reaches
\* the task or waits in the queue.
NothingLost == dropped = {}
=============================================================================
