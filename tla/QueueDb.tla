------------------------------ MODULE QueueDb ------------------------------
(***************************************************************************)
(* The `queue' table of queue.db and the statements that dbif/src/lib.rs   *)
(* runs on it, as operators from a table to a table.                       *)
(*                                                                         *)
(* A table is a partial function: its domain is the set of urls that have  *)
(* a row (the url is the primary key).  Of the columns, `createdon' is     *)
(* kept as the row's age class, because the statements only ever compare   *)
(* it with now - 15 and now - 180, and `medium' is part of the identity of *)
(* the ping the row holds.                                                 *)
(***************************************************************************)
EXTENDS Naturals, FiniteSets

CONSTANTS
    Urls,       \* the feed urls publishers may send
    MaxPings,   \* bound: number of requests the web server accepts
    BatchSize,  \* PING_BATCH_SIZE, the LIMIT of the SELECT
    ResetLimit  \* the LIMIT of the statement that re-arms old rows

ASSUME QueueDbAssumption ==
    /\ IsFiniteSet(Urls)
    /\ MaxPings \in Nat
    /\ BatchSize \in Nat \ {0}
    /\ ResetLimit \in Nat \ {0}

\* A ping is identified by the number of the request that carried it.
PingIds == 1..MaxPings

Reasons == {"Live", "LiveEnd", "Update"}

\* createdon: less than 15 s old, between 15 s and 180 s, more than 180 s.
Ages == {"fresh", "ripe", "stale"}

\* `rowid' is SQLite's implicit row number, which orders rows by insertion;
\* `id' says whose reason and medium the row now holds.
Row == [id : PingIds, rowid : PingIds, reason : Reasons,
        inflight : BOOLEAN, age : Ages]

Tables == UNION {[S -> Row] : S \in SUBSET Urls}

EmptyTable == [u \in {} |-> [id |-> 0]]

\* ORDER BY reason ASC: the reasons are stored as text.
ReasonRank == [r \in Reasons |-> CASE r = "Live"    -> 1
                                   [] r = "LiveEnd" -> 2
                                   [] r = "Update"  -> 3]

\* ORDER BY reason ASC, rowid ASC
Before(r, s) ==
    \/ ReasonRank[r.reason] < ReasonRank[s.reason]
    \/ ReasonRank[r.reason] = ReasonRank[s.reason] /\ r.rowid < s.rowid

\* WHERE inflight = 0 AND createdon < now - 15
Sendable(q) == {u \in DOMAIN q : ~q[u].inflight /\ q[u].age # "fresh"}

\* Mutant: the SELECT has no LIMIT.
SelectWithoutLimit(q, us) == us = Sendable(q)

\* The urls one SELECT returns: the first BatchSize of the sendable rows.
GetPingsFromQueue(q, us) ==
    /\ us \subseteq Sendable(q)
    /\ Cardinality(us) <= BatchSize
    /\ us # Sendable(q) => Cardinality(us) = BatchSize
    /\ \A u \in us, v \in Sendable(q) \ us : Before(q[u], q[v])

\* INSERT INTO queue (..., inflight) VALUES (..., 0), for a url with no row
InsertPing(q, u, n, reason) ==
    [v \in DOMAIN q \cup {u} |->
        IF v = u
        THEN [id |-> n, rowid |-> n, reason |-> reason,
              inflight |-> FALSE, age |-> "fresh"]
        ELSE q[v]]

\* UPDATE queue SET inflight = 0, createdon, reason, medium WHERE url = ?
\* It changes nothing, and succeeds, when the url has no row.
UpdatePing(q, u, n, reason) ==
    [v \in DOMAIN q |->
        IF v = u
        THEN [q[v] EXCEPT !.id = n, !.reason = reason,
                          !.inflight = FALSE, !.age = "fresh"]
        ELSE q[v]]

\* Mutant: the mark is forgotten.
ForgetInflight(q, u) == q

\* UPDATE queue SET inflight = 1 WHERE url = ?
SetPingAsInflight(q, u) ==
    [v \in DOMAIN q |-> IF v = u THEN [q[v] EXCEPT !.inflight = TRUE] ELSE q[v]]

\* Mutant: DELETE FROM queue without its WHERE clause.
DeleteEverything(q, us) == IF us = {} THEN q ELSE EmptyTable

\* DELETE FROM queue WHERE url = ?, for each url of a reply
DeletePings(q, us) == [v \in DOMAIN q \ us |-> q[v]]

\* WHERE inflight = 1 AND createdon < now - 180
Overdue(q) == {u \in DOMAIN q : q[u].inflight /\ q[u].age = "stale"}

\* Mutant: the reset renews createdon and leaves the row in flight.
ResetClockOnly(q, us) ==
    [v \in DOMAIN q |-> IF v \in us THEN [q[v] EXCEPT !.age = "fresh"] ELSE q[v]]

\* UPDATE queue SET inflight = 0, createdon = now WHERE ... LIMIT ResetLimit
ResetPings(q, us) ==
    [v \in DOMAIN q |->
        IF v \in us
        THEN [q[v] EXCEPT !.inflight = FALSE, !.age = "fresh"]
        ELSE q[v]]

ResetChoices(q) ==
    {us \in SUBSET Overdue(q) :
        /\ Cardinality(us) <= ResetLimit
        /\ us # Overdue(q) => Cardinality(us) = ResetLimit}

\* The clock passes the next threshold for a row.
Older(age) == IF age = "fresh" THEN "ripe" ELSE "stale"
AgePing(q, u) == [q EXCEPT ![u].age = Older(@)]
=============================================================================
