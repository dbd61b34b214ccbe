----------------------------- MODULE EventFeed -----------------------------
(***************************************************************************)
(* What the receiver of dtt-fork promises the one task that calls next():  *)
(* events come in the order of the stream, one to a call; a call that was  *)
(* left before it had its answer costs at most one event, the oldest there *)
(* is then, and nothing else is lost while the stream is open; a call      *)
(* fails only when the stream is closed, and then nothing more is returned.*)
(***************************************************************************)
EXTENDS Naturals, Sequences

VARIABLES
    open,       \* is the stream open?
    queue,      \* events that have arrived and are still to be returned
    arrived,    \* number of events that have arrived
    reader,     \* the task: "idle", "waiting" for next(), "ended" by a failed
                \* next(), or "gaveUp" by its own choice
    abandoned,  \* calls that were left and may still take an event
    delivered,  \* what next() returned
    lost        \* what was lost while the stream was open

vars == <<open, queue, arrived, reader, abandoned, delivered, lost>>

Init ==
    /\ open = TRUE /\ queue = <<>> /\ arrived = 0
    /\ reader = "idle" /\ abandoned = 0 /\ delivered = <<>> /\ lost = {}

\* next() is called; on a closed stream it fails.
Call ==
    /\ reader = "idle"
    /\ reader' = IF open THEN "waiting" ELSE "ended"
    /\ UNCHANGED <<open, queue, arrived, abandoned, delivered, lost>>

\* The caller of next() goes away before it has its answer.
Leave ==
    /\ reader = "waiting"
    /\ reader' \in {"idle", "gaveUp"}
    /\ abandoned' = abandoned + 1
    /\ UNCHANGED <<open, queue, arrived, delivered, lost>>

\* The oldest event of q is returned by the call that waits, or lost to one that
\* was left.
Settle(q) ==
    /\ q # <<>>
    /\ queue' = Tail(q)
    /\ \/ /\ reader = "waiting" /\ reader' = "idle"
          /\ delivered' = Append(delivered, Head(q))
          /\ UNCHANGED <<abandoned, lost>>
       \/ /\ abandoned > 0
          /\ abandoned' = abandoned - 1
          /\ lost' = lost \cup {Head(q)}
          /\ UNCHANGED <<reader, delivered>>

Return ==
    /\ open
    /\ Settle(queue)
    /\ UNCHANGED <<open, arrived>>

Arrive ==
    /\ open
    /\ arrived' = arrived + 1
    /\ LET q == Append(queue, arrived + 1)
       IN  \/ queue' = q /\ UNCHANGED <<reader, abandoned, delivered, lost>>
           \/ Settle(q)
    /\ UNCHANGED open

\* The stream ends, or too much is queued: the queue, and the event that found
\* it too long, are gone.
Close ==
    /\ open
    /\ open' = FALSE
    /\ queue' = <<>>
    /\ arrived' \in {arrived, arrived + 1}
    /\ reader' = reader \/ (reader = "waiting" /\ reader' = "ended")
    /\ abandoned' \in 0..abandoned
    /\ UNCHANGED <<delivered, lost>>

\* A call that waits on a closed stream fails.
Fail ==
    /\ ~open
    /\ reader = "waiting"
    /\ reader' = "ended"
    /\ abandoned' \in 0..abandoned
    /\ UNCHANGED <<open, queue, arrived, delivered, lost>>

Next == Call \/ Leave \/ Return \/ Arrive \/ Close \/ Fail

Spec == Init /\ [][Next]_vars
=============================================================================
