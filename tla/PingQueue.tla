------------------------------ MODULE PingQueue ------------------------------
(***************************************************************************)
(* What the front-end promises a publisher: a url it has accepted stays    *)
(* pending until it was handed to a writer, and nothing is handed over     *)
(* that was not accepted.                                                  *)
(***************************************************************************)
CONSTANT Urls

VARIABLES
    pending,    \* accepted and not yet removed
    handed      \* handed to a writer at some time

Init == pending = {} /\ handed = {}

Accept(u) ==
    /\ pending' = pending \cup {u}
    /\ UNCHANGED handed

\* The first time, a url that is pending; it may be handed over again later,
\* when a reply that is under way removes it.
HandOver(u) ==
    /\ u \in pending \cup handed
    /\ handed' = handed \cup {u}
    /\ UNCHANGED pending

\* One reply may be for several urls.
Remove(us) ==
    /\ us \subseteq pending \cap handed
    /\ pending' = pending \ us
    /\ UNCHANGED handed

Next ==
    \/ \E u \in Urls : Accept(u) \/ HandOver(u)
    \/ \E us \in SUBSET Urls : Remove(us)

Spec == Init /\ [][Next]_<<pending, handed>>
=============================================================================
