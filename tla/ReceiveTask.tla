---------------------------- MODULE ReceiveTask -----------------------------
(***************************************************************************)
(* What the receive tasks of a node keep: the count and the set of its     *)
(* neighbours that PeerAnnounce reports (neighbor_count, neighbor_ids),    *)
(* the file of known peers that bootstrap, watchdog and re-join read, and, *)
(* in the listener, the last number heard of each sender.                  *)
(*                                                                         *)
(* A reconnect spawns the task of the next generation and then resets the  *)
(* count and the set; the old task may still be handling an event.  Count, *)
(* set and file are updated apart, the file by reading it, truncating it   *)
(* and writing it back, without a lock; each of these may fail, which the  *)
(* code ignores, and the process may crash in between.  The events of the  *)
(* stream need not all reach the task: one may go to a call of next() that *)
(* has timed out (module GossipReceiver) or be dropped by a lagging stream.*)
(* Module GossipNode says when a node reconnects; here it may at any time. *)
(***************************************************************************)
EXTENDS Naturals, FiniteSets, Sequences, SequencesExt

CONSTANTS
    Peers,          \* the other nodes
    MaxKnown,       \* MAX_KNOWN_PEERS (15)
    CountModulus,   \* neighbor_count is a u32: 2^32
    MaxSeq          \* bound: the notifications of a sender

ASSUME ReceiveTaskAssumption ==
    /\ IsFiniteSet(Peers)
    /\ MaxKnown \in Nat \ {0}
    /\ CountModulus \in Nat \ {0}
    /\ MaxSeq \in Nat

VARIABLES
    cur,      \* the receive task of the current generation
    old,      \* the receive task of the generation before it
    rpc,      \* how far the reset that follows a reconnect has come
    seen,     \* the neighbours the current stream has reported
    ids,      \* neighbor_ids
    count,    \* neighbor_count
    astray,   \* peers whose last event was lost, or raced with a reset
    countOff, \* since the reset, or during it, some event was lost or raced
    file,     \* the lines of the known-peers file
    saved,    \* some save has completed
    torn,     \* a crash or a failed write has left the file truncated
    last,     \* last_seq_per_sender of one sender, 0 for none
    first,    \* the first number heard since the process started
    known     \* the numbers heard, or reported as missed, since then

gaps == <<last, first, known>>
vars == <<cur, old, rpc, seen, ids, count, astray, countOff, file, saved, torn, gaps>>

\* A task: what it does, for which peer, and what it is about to write.
Lists == BoundedSeq(Peers, MaxKnown)
Task ==
    [pc : {"next", "done"}, peer : {{}}, lines : {<<>>}]
    \cup [pc : {"takenUp", "takenDown", "up", "down", "save"}, peer : {{p} : p \in Peers}, lines : {<<>>}]
    \cup [pc : {"create", "write"}, peer : {{p} : p \in Peers}, lines : Lists]
Idle(pc) == [pc |-> pc, peer |-> {}, lines |-> <<>>]
For(pc, p) == [pc |-> pc, peer |-> {p}, lines |-> <<>>]

TypeOK ==
    /\ cur \in Task /\ old \in Task
    /\ rpc \in {"idle", "spawned", "cleared"}
    /\ seen \subseteq Peers /\ ids \subseteq Peers /\ astray \subseteq Peers
    /\ count \in 0..(CountModulus - 1) /\ countOff \in BOOLEAN
    /\ file \in Lists
    /\ saved \in BOOLEAN /\ torn \in BOOLEAN
    /\ last \in 0..MaxSeq /\ first \in 0..MaxSeq /\ known \subseteq 1..MaxSeq

Init ==
    /\ cur = Idle("next") /\ old = Idle("done") /\ rpc = "idle"
    /\ seen = {} /\ ids = {} /\ count = 0 /\ astray = {} /\ countOff = FALSE
    /\ file = <<>> /\ saved = FALSE /\ torn = FALSE
    /\ last = 0 /\ first = 0 /\ known = {}

-----------------------------------------------------------------------------
(* Events.  Only the current stream is open.                               *)

Resetting == rpc # "idle"

\* A neighbour event: the count first, then the set; then, when it came up,
\* the file.  Outside a reset the event settles whatever went wrong before.
Handles(pc, p) ==
    /\ cur.pc = "next" /\ cur' = For(pc, p)
    /\ astray' = IF Resetting THEN astray \cup {p} ELSE astray \ {p}
    /\ countOff' = (countOff \/ Resetting)
    /\ UNCHANGED <<old, rpc, ids, file, saved, torn, gaps>>

NeighborUp(p) ==
    /\ p \notin seen /\ seen' = seen \cup {p}
    /\ count' = (count + 1) % CountModulus
    /\ Handles("up", p)

\* The counter is decremented although the event that the neighbour came up
\* may never have been handled.
NeighborDown(p) ==
    /\ p \in seen /\ seen' = seen \ {p}
    /\ count' = (count + CountModulus - 1) % CountModulus
    /\ Handles("down", p)

\* The stream reports that a neighbour came up or went down, and the task never
\* learns of it.
EventLost(p) ==
    /\ seen' = IF p \in seen THEN seen \ {p} ELSE seen \cup {p}
    /\ astray' = astray \cup {p} /\ countOff' = TRUE
    /\ UNCHANGED <<cur, old, rpc, ids, count, file, saved, torn, gaps>>

\* A PeerAnnounce of a peer that need not be a neighbour.
Announced(p) ==
    /\ cur.pc = "next"
    /\ cur' = For("save", p)
    /\ UNCHANGED <<old, rpc, seen, ids, count, astray, countOff, file, saved, torn, gaps>>

\* The set, which the old task may reach after the reset.
\* Mutant: the peer stays in the set when it goes down.
TrackNeverRemoves(t) == ids' = IF t.pc = "up" THEN ids \cup t.peer ELSE ids
Track(t) == ids' = IF t.pc = "up" THEN ids \cup t.peer ELSE ids \ t.peer
Tracked(t) ==
    IF t.pc = "up" THEN [pc |-> "save", peer |-> t.peer, lines |-> <<>>] ELSE Idle("next")

CurTracks ==
    /\ cur.pc \in {"up", "down"}
    /\ Track(cur)
    /\ astray' = IF Resetting THEN astray \cup cur.peer ELSE astray
    /\ cur' = Tracked(cur)
    /\ UNCHANGED <<old, rpc, seen, count, countOff, file, saved, torn, gaps>>
OldTracks ==
    /\ old.pc \in {"up", "down"}
    /\ Track(old)
    /\ astray' = astray \cup old.peer
    /\ old' = Tracked(old)
    /\ UNCHANGED <<cur, rpc, seen, count, countOff, file, saved, torn, gaps>>

\* The old task counts the event it had taken when the new one was spawned.
OldCounts ==
    /\ old.pc \in {"takenUp", "takenDown"}
    /\ count' = (count + IF old.pc = "takenUp" THEN 1 ELSE CountModulus - 1) % CountModulus
    /\ countOff' = (countOff \/ ~Resetting)
    /\ old' = [pc |-> IF old.pc = "takenUp" THEN "up" ELSE "down", peer |-> old.peer, lines |-> <<>>]
    /\ UNCHANGED <<cur, rpc, seen, ids, astray, file, saved, torn, gaps>>

\* A notification: the numbers it skips are reported.  Its own number is kept
\* even if it is lower than the one before.
\* Mutant: a gap of one number is not noticed.
SkippedFar(n) == IF last # 0 /\ n > last + 2 THEN (last + 1)..(n - 1) ELSE {}
Skipped(n) == IF last # 0 /\ n > last + 1 THEN (last + 1)..(n - 1) ELSE {}
Notified(n) ==
    /\ cur.pc = "next"
    /\ known' = known \cup Skipped(n) \cup {n}
    /\ last' = n
    /\ first' = IF first = 0 THEN n ELSE first
    /\ UNCHANGED <<cur, old, rpc, seen, ids, count, astray, countOff, file, saved, torn>>

-----------------------------------------------------------------------------
(* save_peer_if_new.                                                       *)

\* Append the peer and evict the oldest lines beyond the limit.
\* Mutant: the eviction takes one line too many.
WithPeerOneShort(lines, p) ==
    LET all == Append(lines, p) IN
    IF Len(all) > MaxKnown THEN SubSeq(all, Len(all) - MaxKnown + 2, Len(all)) ELSE all
\* Mutant: nothing is evicted.
WithPeerUnbounded(lines, p) == Append(lines, p)
WithPeer(lines, p) ==
    LET all == Append(lines, p) IN
    IF Len(all) > MaxKnown THEN SubSeq(all, Len(all) - MaxKnown + 1, Len(all)) ELSE all

\* The peer is in the file, or there are lines to write.  A file that cannot
\* be read counts as empty.
Read(t, found) ==
    LET p == CHOOSE x \in Peers : t.peer = {x} IN
    IF Contains(found, p) THEN Idle("next")
    ELSE [pc |-> "create", peer |-> t.peer, lines |-> WithPeer(found, p)]

\* Each task writes from the start of the file it has truncated; lines are
\* equally long, so the lines of two writers replace one another.
Written(lines) ==
    [i \in 1..(IF Len(lines) > Len(file) THEN Len(lines) ELSE Len(file)) |->
        IF i <= Len(lines) THEN lines[i] ELSE file[i]]

\* No error is reported: without a file that can be created nothing is
\* written, and of the lines some may not be.
SaveStep(t, tNext) ==
    \/ /\ t.pc = "save" /\ \E found \in {file, <<>>} : tNext = Read(t, found)
       /\ UNCHANGED <<file, saved, torn>>
    \/ /\ t.pc = "create" /\ tNext = [t EXCEPT !.pc = "write"]
       /\ file' = <<>> /\ UNCHANGED <<saved, torn>>
    \/ /\ t.pc = "create" /\ tNext = Idle("next")
       /\ UNCHANGED <<file, saved, torn>>
    \/ /\ t.pc = "write" /\ tNext = Idle("next")
       /\ file' = Written(t.lines) /\ saved' = TRUE /\ torn' = FALSE
    \/ /\ t.pc = "write" /\ tNext = Idle("next")
       /\ \E some \in AllSubSeqs(t.lines) \cap Lists : some # t.lines /\ file' = Written(some)
       /\ torn' = TRUE /\ UNCHANGED saved

CurSaves == SaveStep(cur, cur') /\ UNCHANGED <<old, rpc, seen, ids, count, astray, countOff, gaps>>
OldSaves == SaveStep(old, old') /\ UNCHANGED <<cur, rpc, seen, ids, count, astray, countOff, gaps>>

-----------------------------------------------------------------------------
(* Reconnects.                                                             *)

\* A task that seems to wait may have passed the check of its generation with an
\* event in hand.
Taken ==
    IF cur.pc = "next"
    THEN {For("takenUp", p) : p \in Peers \ seen} \cup {For("takenDown", p) : p \in seen}
    ELSE {}

\* The task of the next generation starts on the new stream.  Bound: the task
\* before the old one has ended.
Spawn ==
    /\ rpc = "idle" /\ rpc' = "spawned"
    /\ old.pc = "done"
    /\ old' \in {cur} \cup Taken /\ cur' = Idle("next")
    /\ seen' = {} /\ astray' = {} /\ countOff' = FALSE
    /\ UNCHANGED <<ids, count, file, saved, torn, gaps>>

ClearIds ==
    /\ rpc = "spawned" /\ rpc' = "cleared"
    /\ ids' = {}
    /\ UNCHANGED <<cur, old, seen, count, astray, countOff, file, saved, torn, gaps>>

ClearCount ==
    /\ rpc = "cleared" /\ rpc' = "idle"
    /\ count' = 0
    /\ UNCHANGED <<cur, old, seen, ids, astray, countOff, file, saved, torn, gaps>>

\* The stale task finds its stream closed or its generation passed.
OldEnds ==
    /\ old.pc = "next" /\ old' = Idle("done")
    /\ UNCHANGED <<cur, rpc, seen, ids, count, astray, countOff, file, saved, torn, gaps>>

\* The process dies and is started again: the file is all that is left.
Crash ==
    /\ torn' = (torn \/ (file = <<>> /\ saved))
    /\ cur' = Idle("next") /\ old' = Idle("done") /\ rpc' = "idle"
    /\ seen' = {} /\ ids' = {} /\ count' = 0 /\ astray' = {} /\ countOff' = FALSE
    /\ last' = 0 /\ first' = 0 /\ known' = {}
    /\ UNCHANGED <<file, saved>>

-----------------------------------------------------------------------------
Next ==
    \/ \E p \in Peers : NeighborUp(p) \/ NeighborDown(p) \/ EventLost(p) \/ Announced(p)
    \/ \E n \in 1..MaxSeq : Notified(n)
    \/ CurTracks \/ OldCounts \/ OldTracks \/ CurSaves \/ OldSaves
    \/ Spawn \/ ClearIds \/ ClearCount \/ OldEnds
    \/ Crash

Spec == Init /\ [][Next]_vars

-----------------------------------------------------------------------------
Quiet(pcs) == {cur.pc, old.pc} \cap pcs = {}

\* Outside a reset, a peer is tracked wrongly only as long as the last event of
\* it was lost, was handled during a reset or came from the task of the stream
\* before: the next event of it sets that right.  The count is not so lucky: it
\* agrees with the stream if no event at all was lost or raced since the last
\* reconnect, and nothing but a reconnect repairs it.
MistrackedHasCause ==
    (rpc = "idle" /\ Quiet({"up", "down"})) =>
        /\ (ids \ seen) \cup (seen \ ids) \subseteq astray
        /\ ~countOff => count = Cardinality(seen) % CountModulus

\* Once a peer was saved there is always someone to join again: two tasks
\* that save at once may lose each other's peer but never both, and a file that
\* cannot be read or created does no harm.  Only a crash between truncating and
\* writing, or a write that fails, leaves the file without a peer, until the
\* next save.
SomeoneIsKnown ==
    (saved /\ ~torn /\ Quiet({"create", "write"})) => file # <<>>

\* Between the first and the last number heard of a sender, every number that
\* was not heard has been reported as missed, in whatever order and however
\* often notifications arrive.  (Some are reported that come later.)
GapsReported == first # 0 => first..last \subseteq known

=============================================================================
