------------------------- MODULE ReceiveTaskProofs --------------------------
(***************************************************************************)
(* Theorems about ReceiveTask, for every set of peers and every limit.     *)
(***************************************************************************)
EXTENDS ReceiveTask, SequenceTheorems, FiniteSetTheorems, TLAPS

USE DEF gaps

-----------------------------------------------------------------------------
(* Arithmetic of a counter that wraps around.                              *)

\* Division with remainder is unique.
LEMMA Remainder ==
    ASSUME NEW M \in Nat \ {0}, NEW q \in Int, NEW r \in 0..(M - 1)
    PROVE  (M * q + r) % M = r
  <1> DEFINE x == M * q + r
             d == x \div M
             m == x % M
  <1>0. x \in Int
    OBVIOUS
  <1>1. m \in 0..(M - 1) /\ x = M * d + m /\ d \in Int
    BY <1>0
  <1>2. M * (q - d) = m - r
    BY <1>1
  <1> HIDE DEF d, m
  <1>3. CASE q - d >= 1
    <2>1. M * (q - d) >= M
      BY <1>1, <1>3
    <2> QED BY <1>1, <1>2, <2>1
  <1>4. CASE q - d <= 0 - 1
    <2>1. M * (q - d) <= 0 - M
      BY <1>1, <1>4
    <2> QED BY <1>1, <1>2, <2>1
  <1>5. CASE q - d = 0
    BY <1>1, <1>2, <1>5 DEF m
  <1> QED BY <1>1, <1>3, <1>4, <1>5

\* Every natural number has a quotient and a remainder.
LEMMA Quotient ==
    ASSUME NEW M \in Nat \ {0}, NEW c \in Nat
    PROVE  /\ c % M \in 0..(M - 1) /\ c \div M \in Int
           /\ c = M * (c \div M) + (c % M)
  OBVIOUS

\* fetch_add(1) on a counter that holds c.
LEMMA CountUp ==
    ASSUME NEW M \in Nat \ {0}, NEW c \in Nat
    PROVE  ((c % M) + 1) % M = (c + 1) % M
  <1> DEFINE r == c % M
             q == c \div M
  <1>1. r \in 0..(M - 1) /\ q \in Int /\ c = M * q + r
    BY Quotient
  <1> HIDE DEF r, q
  <1>2. CASE r + 1 < M
    <2>1. r + 1 \in 0..(M - 1) /\ c + 1 = M * q + (r + 1) /\ r + 1 = M * 0 + (r + 1)
      BY <1>1, <1>2
    <2>2. (M * q + (r + 1)) % M = r + 1 /\ (M * 0 + (r + 1)) % M = r + 1
      BY <1>1, <2>1, Remainder
    <2> QED BY <2>1, <2>2 DEF r
  <1>3. CASE r + 1 = M
    <2>1. c + 1 = M * (q + 1) + 0 /\ r + 1 = M * 1 + 0 /\ q + 1 \in Int /\ 0 \in 0..(M - 1)
      BY <1>1, <1>3
    <2>2. (M * (q + 1) + 0) % M = 0 /\ (M * 1 + 0) % M = 0
      BY <1>1, <2>1, Remainder
    <2> QED BY <2>1, <2>2 DEF r
  <1> QED BY <1>1, <1>2, <1>3

\* fetch_sub(1) on a counter that holds c + 1.
LEMMA CountDown ==
    ASSUME NEW M \in Nat \ {0}, NEW c \in Nat
    PROVE  (((c + 1) % M) + M - 1) % M = c % M
  <1> DEFINE r == c % M
             q == c \div M
  <1>1. r \in 0..(M - 1) /\ q \in Int /\ c = M * q + r
    BY Quotient
  <1> HIDE DEF r, q
  <1>2. CASE r + 1 < M
    <2>1. r + 1 \in 0..(M - 1) /\ c + 1 = M * q + (r + 1) /\ (r + 1) + M - 1 = M * 1 + r
      BY <1>1, <1>2
    <2>2. (M * q + (r + 1)) % M = r + 1 /\ (M * 1 + r) % M = r
      BY <1>1, <2>1, Remainder
    <2> QED BY <2>1, <2>2 DEF r
  <1>3. CASE r + 1 = M
    <2>1. c + 1 = M * (q + 1) + 0 /\ 0 + M - 1 = M * 0 + r /\ q + 1 \in Int /\ 0 \in 0..(M - 1)
      BY <1>1, <1>3
    <2>2. (M * (q + 1) + 0) % M = 0 /\ (M * 0 + r) % M = r
      BY <1>1, <2>1, Remainder
    <2> QED BY <2>1, <2>2 DEF r
  <1> QED BY <1>1, <1>2, <1>3

-----------------------------------------------------------------------------
(* The invariants.                                                         *)

\* An empty file that is not torn is about to be written, by a task that has a
\* line to write.
FileInv ==
    /\ (saved /\ ~torn /\ file = <<>>) => "write" \in {cur.pc, old.pc}
    /\ cur.pc \in {"create", "write"} => cur.lines # <<>>
    /\ old.pc \in {"create", "write"} => old.lines # <<>>

\* The numbers between the first and the last one are known.
GapInv ==
    /\ first = 0 <=> last = 0
    /\ GapsReported

\* The peer whose event the current task is handling.
Handled == IF cur.pc \in {"up", "down"} THEN cur.peer ELSE {}

\* How far the set and the count may be from what the stream reported.
TrackInv ==
    /\ rpc = "idle" => (ids \ seen) \cup (seen \ ids) \subseteq astray \cup Handled
    /\ rpc # "idle" => seen \subseteq astray
    /\ rpc = "cleared" => ids \subseteq astray
    /\ cur.pc = "up" => cur.peer \subseteq seen \cup astray
    /\ cur.pc = "down" => cur.peer \cap seen \subseteq astray
    /\ rpc # "idle" => countOff \/ seen = {}
    /\ rpc = "idle" => countOff \/ count = Cardinality(seen) % CountModulus

-----------------------------------------------------------------------------
(* The lines of the known-peers file.                                      *)

\* A list of lines is a sequence of at most MaxKnown peers.
LEMMA ListsAre ==
    ASSUME NEW s
    PROVE  s \in Lists <=> s \in Seq(Peers) /\ Len(s) <= MaxKnown
  <1>1. ASSUME s \in Lists
        PROVE  s \in Seq(Peers) /\ Len(s) <= MaxKnown
    <2>1. PICK m \in 0..MaxKnown : s \in [1..m -> Peers]
      BY <1>1 DEF Lists, BoundedSeq, SeqOf
    <2>2. m \in Nat /\ m <= MaxKnown
      BY <2>1, ReceiveTaskAssumption
    <2> QED BY <2>1, <2>2
  <1>2. ASSUME s \in Seq(Peers), Len(s) <= MaxKnown
        PROVE  s \in Lists
    <2>1. s \in [1..Len(s) -> Peers] /\ Len(s) \in 0..MaxKnown
      BY <1>2, LenProperties, ReceiveTaskAssumption
    <2> QED BY <2>1 DEF Lists, BoundedSeq, SeqOf
  <1> QED BY <1>1, <1>2

\* A truncated file has no lines.
LEMMA NoLines ==
    ASSUME NEW s, s = <<>>
    PROVE  s \in Lists
  <1>1. s \in Seq(Peers) /\ Len(s) = 0
    OBVIOUS
  <1>2. Len(s) <= MaxKnown
    BY <1>1, ReceiveTaskAssumption
  <1> QED BY <1>1, <1>2, ListsAre

\* save_peer_if_new adds a line and evicts the oldest ones beyond the limit: what
\* it is about to write is not empty and not too long.
LEMMA WithPeerList ==
    ASSUME NEW lines \in Lists, NEW p \in Peers
    PROVE  WithPeer(lines, p) \in Lists /\ WithPeer(lines, p) # <<>>
  <1> DEFINE all == Append(lines, p)
             n == Len(lines) + 1
  <1>1. lines \in Seq(Peers) /\ Len(lines) <= MaxKnown /\ Len(lines) \in Nat
    BY ListsAre
  <1>2. all \in Seq(Peers) /\ Len(all) = n
    BY <1>1, AppendProperties
  <1> HIDE DEF all
  <1>3. CASE n <= MaxKnown
    <2>1. WithPeer(lines, p) = all
      BY <1>1, <1>2, <1>3, ReceiveTaskAssumption DEF WithPeer, all
    <2>2. all # <<>>
      BY <1>1, <1>2, EmptySeq
    <2> QED BY <1>2, <1>3, <2>1, <2>2, ListsAre
  <1>4. CASE n = MaxKnown + 1
    <2> DEFINE cut == SubSeq(all, 2, n)
    <2>1. WithPeer(lines, p) = cut
      BY <1>1, <1>2, <1>4, ReceiveTaskAssumption DEF WithPeer, all
    <2>2. /\ n \in Nat /\ n >= 2 /\ n = MaxKnown + 1
      BY <1>1, <1>4, ReceiveTaskAssumption
    <2>3. cut \in Seq(Peers) /\ Len(cut) = MaxKnown
      BY <1>2, <2>2, SubSeqProperties, ReceiveTaskAssumption
    <2> HIDE DEF cut
    <2>4. cut # <<>>
      BY <2>3, EmptySeq, ReceiveTaskAssumption
    <2> QED BY <2>1, <2>3, <2>4, ListsAre, ReceiveTaskAssumption
  <1> QED BY <1>1, <1>3, <1>4, ReceiveTaskAssumption

\* Two writers overwrite each other's lines; the file is as long as the longer
\* one, and not empty.
LEMMA WrittenList ==
    ASSUME file \in Lists, NEW lines \in Lists
    PROVE  Written(lines) \in Lists /\ (lines # <<>> => Written(lines) # <<>>)
  <1> DEFINE n == IF Len(lines) > Len(file) THEN Len(lines) ELSE Len(file)
             w == [i \in 1..n |-> IF i <= Len(lines) THEN lines[i] ELSE file[i]]
  <1>1. /\ lines \in Seq(Peers) /\ Len(lines) \in Nat /\ Len(lines) <= MaxKnown
        /\ file \in Seq(Peers) /\ Len(file) \in Nat /\ Len(file) <= MaxKnown
    BY ListsAre
  <1>2. n \in Nat /\ n <= MaxKnown /\ n >= Len(lines)
    BY <1>1
  <1>3. \A i \in 1..Len(lines) : lines[i] \in Peers
    BY <1>1, ElementOfSeq
  <1>4. \A i \in 1..Len(file) : file[i] \in Peers
    BY <1>1, ElementOfSeq
  <1>5. ASSUME NEW i \in 1..n
        PROVE  (IF i <= Len(lines) THEN lines[i] ELSE file[i]) \in Peers
    BY <1>1, <1>3, <1>4
  <1>6. w \in [1..n -> Peers]
    BY <1>5
  <1>7. w \in Seq(Peers) /\ Len(w) = n
    <2> HIDE DEF n, w
    <2> QED BY <1>2, <1>6, IsASeq, LenProperties
  <1>8. Written(lines) = w
    BY DEF Written
  <1> HIDE DEF n, w
  <1>9. w \in Lists
    BY <1>2, <1>7, ListsAre
  <1>10. ASSUME lines # <<>>
         PROVE  w # <<>>
    <2>1. Len(lines) # 0
      BY <1>1, <1>10, EmptySeq
    <2> QED BY <1>1, <1>2, <1>7, <2>1, EmptySeq
  <1> QED BY <1>8, <1>9, <1>10

-----------------------------------------------------------------------------
(* Tasks.                                                                  *)

PcValues == {"next", "done", "takenUp", "takenDown", "up", "down", "save", "create", "write"}

\* A task that is at next() or has ended.
LEMMA IdleTask ==
    ASSUME NEW pc \in {"next", "done"}
    PROVE  Idle(pc) \in Task /\ Idle(pc).pc = pc /\ Idle(pc).peer = {} /\ Idle(pc).lines = <<>>
  BY DEF Idle, Task

\* A task that begins to handle an event.
LEMMA ForTask ==
    ASSUME NEW pc \in {"takenUp", "takenDown", "up", "down", "save"}, NEW p \in Peers
    PROVE  For(pc, p) \in Task /\ For(pc, p).pc = pc /\ For(pc, p).peer = {p}
  BY DEF For, Task

\* The peer of a task that handles an event.
LEMMA TaskPeer ==
    ASSUME NEW t \in Task
    PROVE  /\ t.pc \in PcValues /\ t.peer \subseteq Peers
           /\ t.pc \in {"next", "done"} => t = Idle(t.pc)
           /\ t.pc \in {"takenUp", "takenDown", "up", "down", "save"} => \E p \in Peers : t = For(t.pc, p)
           /\ t.pc \in {"create", "write"} =>
                 /\ t.lines \in Lists
                 /\ \E p \in Peers : t = [pc |-> t.pc, peer |-> {p}, lines |-> t.lines]
  BY DEF Task, Idle, For, PcValues

\* The event a task has in hand when it is replaced.
LEMMA TakenTask ==
    ASSUME TypeOK, NEW t \in Taken
    PROVE  t \in Task /\ t.pc \in {"takenUp", "takenDown"} /\ cur.pc = "next"
  <1>1. seen \subseteq Peers
    BY DEF TypeOK
  <1>2. cur.pc = "next" /\ \E p \in Peers : t = For("takenUp", p) \/ t = For("takenDown", p)
    BY <1>1 DEF Taken
  <1> QED BY <1>2, ForTask

\* It counts the event and goes on to the set.
LEMMA CountedTask ==
    ASSUME TypeOK, OldCounts
    PROVE  old' \in Task /\ old'.pc \in {"up", "down"}
  <1>1. PICK p \in Peers : old = For("takenUp", p) \/ old = For("takenDown", p)
    BY TaskPeer DEF OldCounts, TypeOK
  <1>2. old.peer = {p}
    BY <1>1, ForTask
  <1>3. old' = For("up", p) \/ old' = For("down", p)
    BY <1>2 DEF OldCounts, For
  <1> QED BY <1>3, ForTask

\* After the set, the file, if the neighbour came up.
LEMMA TrackedTask ==
    ASSUME NEW t \in Task, t.pc \in {"up", "down"}
    PROVE  /\ Tracked(t) \in Task
           /\ Tracked(t).pc \in {"next", "save"}
  <1>1. PICK p \in Peers : t = For(t.pc, p)
    BY TaskPeer
  <1>2. CASE t.pc = "up"
    <2>1. t.peer = {p}
      BY <1>1, <1>2, ForTask
    <2>2. Tracked(t) = For("save", p)
      BY <1>2, <2>1 DEF Tracked, For
    <2> QED BY <2>2, ForTask
  <1>3. CASE t.pc = "down"
    <2>1. Tracked(t) = Idle("next")
      BY <1>3 DEF Tracked
    <2> QED BY <2>1, IdleTask
  <1> QED BY <1>2, <1>3

\* save_peer_if_new has read the file: the peer is there already, or there are
\* lines to write.
LEMMA ReadTask ==
    ASSUME NEW found \in Lists, NEW t \in Task, t.pc = "save"
    PROVE  /\ Read(t, found) \in Task
           /\ Read(t, found).pc \in {"next", "create"}
           /\ Read(t, found).pc = "create" => Read(t, found).lines # <<>>
  <1> DEFINE p == CHOOSE x \in Peers : t.peer = {x}
  <1>1. PICK x \in Peers : t = For("save", x)
    BY TaskPeer
  <1>2. t.peer = {x}
    BY <1>1, ForTask
  <1>3. p \in Peers
    BY <1>2
  <1> HIDE DEF p
  <1> DEFINE new == [pc |-> "create", peer |-> {x}, lines |-> WithPeer(found, p)]
  <1>4. WithPeer(found, p) \in Lists /\ WithPeer(found, p) # <<>>
    BY <1>3, WithPeerList
  <1>5. Read(t, found) = IF Contains(found, p) THEN Idle("next") ELSE new
    BY <1>2 DEF Read, p
  <1>6. new \in Task /\ new.pc = "create" /\ new.lines # <<>>
    BY <1>4 DEF Task
  <1> HIDE DEF new
  <1>7. Idle("next") \in Task /\ Idle("next").pc = "next"
    BY IdleTask
  <1>8. Read(t, found) = Idle("next") \/ Read(t, found) = new
    BY <1>5
  <1> QED BY <1>6, <1>7, <1>8

\* The file was truncated: the lines are still to be written.
LEMMA CreatedTask ==
    ASSUME NEW t \in Task, t.pc = "create"
    PROVE  /\ [t EXCEPT !.pc = "write"] \in Task
           /\ [t EXCEPT !.pc = "write"].pc = "write"
           /\ [t EXCEPT !.pc = "write"].lines = t.lines
  <1>1. PICK p \in Peers : t = [pc |-> "create", peer |-> {p}, lines |-> t.lines]
    BY TaskPeer
  <1>2. [t EXCEPT !.pc = "write"] = [pc |-> "write", peer |-> {p}, lines |-> t.lines]
    BY <1>1
  <1>3. t.lines \in Lists
    BY TaskPeer
  <1>4. [pc |-> "write", peer |-> {p}, lines |-> t.lines] \in Task
    BY <1>3 DEF Task
  <1> QED BY <1>2, <1>4

\* A step of save_peer_if_new, by either task.
LEMMA SaveStepType ==
    ASSUME TypeOK, NEW t \in Task, NEW u, SaveStep(t, u)
    PROVE  u \in Task /\ file' \in Lists /\ saved' \in BOOLEAN /\ torn' \in BOOLEAN
  <1>0. file \in Lists /\ saved \in BOOLEAN /\ torn \in BOOLEAN
    BY DEF TypeOK
  <1>1. CASE t.pc = "save" /\ (\E found \in {file, <<>>} : u = Read(t, found))
             /\ UNCHANGED <<file, saved, torn>>
    <2>1. PICK found \in {file, <<>>} : u = Read(t, found)
      BY <1>1
    <2>2. found \in Lists
      BY <1>0, NoLines
    <2> QED BY <1>0, <1>1, <2>1, <2>2, ReadTask
  <1>2. CASE t.pc = "create" /\ u = [t EXCEPT !.pc = "write"]
             /\ file' = <<>> /\ UNCHANGED <<saved, torn>>
    <2>1. u \in Task
      BY <1>2, CreatedTask
    <2>2. file' \in Lists
      BY <1>2, NoLines
    <2> QED BY <1>0, <1>2, <2>1, <2>2
  <1>3. CASE t.pc = "create" /\ u = Idle("next") /\ UNCHANGED <<file, saved, torn>>
    BY <1>0, <1>3, IdleTask
  <1>4. CASE t.pc = "write" /\ u = Idle("next")
             /\ file' = Written(t.lines) /\ saved' = TRUE /\ torn' = FALSE
    <2>1. u \in Task
      BY <1>4, IdleTask
    <2>2. t.lines \in Lists
      BY <1>4, TaskPeer
    <2>3. file' \in Lists
      BY <1>0, <1>4, <2>2, WrittenList
    <2> QED BY <1>4, <2>1, <2>3
  <1>5. CASE /\ t.pc = "write" /\ u = Idle("next")
             /\ \E some \in AllSubSeqs(t.lines) \cap Lists :
                   some # t.lines /\ file' = Written(some)
             /\ torn' = TRUE /\ UNCHANGED saved
    <2>1. u \in Task
      BY <1>5, IdleTask
    <2>2. PICK some \in Lists : file' = Written(some)
      BY <1>5
    <2>3. file' \in Lists
      BY <1>0, <2>2, WrittenList
    <2> QED BY <1>0, <1>5, <2>1, <2>3
  <1> QED BY <1>1, <1>2, <1>3, <1>4, <1>5 DEF SaveStep

\* Every variable of the receive tasks, the neighbour tracking, the known-peers
\* file and the sequence numbers keeps its type; the file never has more than
\* MAX_KNOWN_PEERS lines and the counter stays within its width.
THEOREM ReceiveTypeCorrect == Spec => []TypeOK
  <1> USE ReceiveTaskAssumption
  <1>1. Init => TypeOK
    <2> SUFFICES ASSUME Init
                 PROVE  TypeOK
      OBVIOUS
    <2>1. cur \in Task /\ old \in Task
      BY IdleTask DEF Init
    <2>2. file \in Lists
      BY NoLines DEF Init
    <2>3. saved \in BOOLEAN /\ torn \in BOOLEAN
      BY DEF Init
    <2>4. count \in 0..(CountModulus - 1) /\ last \in 0..MaxSeq /\ first \in 0..MaxSeq
      BY DEF Init
    <2>5. countOff \in BOOLEAN
      BY DEF Init
    <2> QED BY <2>1, <2>2, <2>3, <2>4, <2>5 DEF Init, TypeOK
  <1>2. TypeOK /\ [Next]_vars => TypeOK'
    <2> SUFFICES ASSUME TypeOK, [Next]_vars
                 PROVE  TypeOK'
      OBVIOUS
    <2>0. cur \in Task /\ old \in Task
      BY DEF TypeOK
    <2>1. ASSUME NEW p \in Peers, NEW pc \in {"up", "down"}, Handles(pc, p),
                 seen' \subseteq Peers, count' \in 0..(CountModulus - 1)
          PROVE  TypeOK'
      <3>1. cur' \in Task
        BY <2>1, ForTask DEF Handles
      <3>2. countOff' \in BOOLEAN
        BY <2>1 DEF Handles, TypeOK
      <3>3. astray' \subseteq Peers /\ UNCHANGED <<old, rpc, ids, file, saved, torn, gaps>>
        BY <2>1 DEF Handles, TypeOK
      <3> QED BY <2>1, <3>1, <3>2, <3>3 DEF TypeOK
    <2>2. ASSUME NEW p \in Peers, NeighborUp(p) \/ NeighborDown(p)
          PROVE  TypeOK'
      <3>1. count' \in 0..(CountModulus - 1) /\ seen' \subseteq Peers
        BY <2>2 DEF NeighborUp, NeighborDown, TypeOK
      <3> QED BY <2>1, <2>2, <3>1 DEF NeighborUp, NeighborDown
    <2>14. ASSUME NEW p \in Peers, EventLost(p)
           PROVE  TypeOK'
      <3>1. countOff' \in BOOLEAN
        BY <2>14 DEF EventLost
      <3>2. seen' \subseteq Peers /\ astray' \subseteq Peers
        BY <2>14 DEF EventLost, TypeOK
      <3> QED BY <2>14, <3>1, <3>2 DEF EventLost, TypeOK
    <2>15. CASE OldCounts
      <3>1. old' \in Task
        BY <2>15, CountedTask
      <3>2. count' \in 0..(CountModulus - 1)
        BY <2>15 DEF OldCounts, TypeOK
      <3>3. countOff' \in BOOLEAN
        BY <2>15 DEF OldCounts, TypeOK
      <3> QED BY <2>15, <3>1, <3>2, <3>3 DEF OldCounts, TypeOK
    <2>3. ASSUME NEW p \in Peers, Announced(p)
          PROVE  TypeOK'
      <3>1. cur' \in Task
        BY <2>3, ForTask DEF Announced
      <3> QED BY <2>3, <3>1 DEF Announced, TypeOK
    <2>4. ASSUME NEW n \in 1..MaxSeq, Notified(n)
          PROVE  TypeOK'
      <3>1. Skipped(n) \subseteq 1..MaxSeq
        BY <2>4 DEF Skipped, TypeOK
      <3>2. /\ known' = known \cup Skipped(n) \cup {n} /\ last' = n
            /\ first' = (IF first = 0 THEN n ELSE first)
            /\ UNCHANGED <<cur, old, rpc, seen, ids, count, astray, countOff, file, saved, torn>>
        BY <2>4 DEF Notified
      <3>3. first' \in 0..MaxSeq /\ last' \in 0..MaxSeq /\ known' \subseteq 1..MaxSeq
        <4>1. first \in 0..MaxSeq /\ known \subseteq 1..MaxSeq /\ n \in 0..MaxSeq
          BY DEF TypeOK
        <4>2. known' \subseteq 1..MaxSeq
          BY <3>1, <3>2, <4>1
        <4>3. first' \in 0..MaxSeq /\ last' \in 0..MaxSeq
          BY <3>2, <4>1
        <4> QED BY <4>2, <4>3
      <3> QED BY <3>2, <3>3 DEF TypeOK
    <2>5. CASE CurTracks
      <3>1. cur' \in Task
        BY <2>0, <2>5, TrackedTask DEF CurTracks
      <3>2. cur.peer \subseteq Peers
        BY <2>0, TaskPeer
      <3> QED BY <2>5, <3>1, <3>2 DEF CurTracks, Track, TypeOK
    <2>6. CASE OldTracks
      <3>1. old' \in Task
        BY <2>0, <2>6, TrackedTask DEF OldTracks
      <3>2. old.peer \subseteq Peers
        BY <2>0, TaskPeer
      <3> QED BY <2>6, <3>1, <3>2 DEF OldTracks, Track, TypeOK
    <2>7. CASE CurSaves
      <3>1. cur' \in Task /\ file' \in Lists /\ saved' \in BOOLEAN /\ torn' \in BOOLEAN
        BY <2>0, <2>7, SaveStepType DEF CurSaves
      <3>2. UNCHANGED <<old, rpc, seen, ids, count, astray, countOff, gaps>>
        BY <2>7 DEF CurSaves
      <3> QED BY <3>1, <3>2 DEF TypeOK
    <2>8. CASE OldSaves
      <3>1. old' \in Task /\ file' \in Lists /\ saved' \in BOOLEAN /\ torn' \in BOOLEAN
        BY <2>0, <2>8, SaveStepType DEF OldSaves
      <3>2. UNCHANGED <<cur, rpc, seen, ids, count, astray, countOff, gaps>>
        BY <2>8 DEF OldSaves
      <3> QED BY <3>1, <3>2 DEF TypeOK
    <2>9. CASE Spawn
      <3>1. cur' \in Task
        BY <2>9, IdleTask DEF Spawn
      <3>2. old' \in Task
        BY <2>0, <2>9, TakenTask DEF Spawn
      <3>3. countOff' \in BOOLEAN
        BY <2>9 DEF Spawn
      <3> QED BY <2>9, <3>1, <3>2, <3>3 DEF Spawn, TypeOK
    <2>10. CASE ClearIds \/ ClearCount
      <3>1. CASE ClearIds
        BY <3>1 DEF ClearIds, TypeOK
      <3>2. CASE ClearCount
        BY <3>2 DEF ClearCount, TypeOK
      <3> QED BY <2>10, <3>1, <3>2
    <2>11. CASE OldEnds
      <3>1. old' \in Task
        BY <2>11, IdleTask DEF OldEnds
      <3> QED BY <2>11, <3>1 DEF OldEnds, TypeOK
    <2>12. CASE Crash
      <3>1. cur' \in Task /\ old' \in Task
        BY <2>12, IdleTask DEF Crash
      <3>2. torn' \in BOOLEAN
        BY <2>12 DEF Crash, TypeOK
      <3>4. countOff' \in BOOLEAN
        BY <2>12 DEF Crash
      <3>3. /\ rpc' = "idle" /\ seen' = {} /\ ids' = {} /\ count' = 0 /\ astray' = {}
            /\ last' = 0 /\ first' = 0 /\ known' = {} /\ UNCHANGED <<file, saved>>
        BY <2>12 DEF Crash
      <3> QED BY <3>1, <3>2, <3>3, <3>4 DEF TypeOK
    <2>13. CASE UNCHANGED vars
      BY <2>13 DEF vars, TypeOK
    <2> QED BY <2>1, <2>2, <2>3, <2>4, <2>5, <2>6, <2>7, <2>8, <2>9, <2>10, <2>11, <2>12, <2>13,
               <2>14, <2>15
            DEF Next
  <1> QED BY <1>1, <1>2, PTL DEF Spec

-----------------------------------------------------------------------------
(* Gaps.                                                                   *)

\* Between the first and the last number of a sender that the listener has heard,
\* every number was heard or reported as missed, in whatever order and however
\* often notifications arrive.
THEOREM AllGapsReported == Spec => []GapsReported
  <1> USE DEF GapInv, GapsReported
  <1>1. Init => GapInv
    BY DEF Init
  <1>2. TypeOK /\ GapInv /\ [Next]_vars => GapInv'
    <2> SUFFICES ASSUME TypeOK, GapInv, [Next]_vars
                 PROVE  GapInv'
      OBVIOUS
    <2>0. first \in Nat /\ last \in Nat
      BY DEF TypeOK
    <2>1. ASSUME UNCHANGED gaps
          PROVE  GapInv'
      BY <2>1
    <2>2. ASSUME NEW n \in 1..MaxSeq, Notified(n)
          PROVE  GapInv'
      <3>1. /\ known' = known \cup Skipped(n) \cup {n} /\ last' = n
            /\ first' = (IF first = 0 THEN n ELSE first)
        BY <2>2 DEF Notified
      <3>2. n \in Nat /\ n # 0
        OBVIOUS
      <3>3. CASE first = 0
        BY <3>1, <3>2, <3>3
      <3>4. CASE first # 0
        <4>1. last # 0 /\ first' = first /\ first..last \subseteq known
          BY <3>1, <3>4
        <4>2. ASSUME NEW k \in first..n
              PROVE  k \in known'
          <5>1. CASE k <= last
            BY <2>0, <3>1, <3>2, <4>1, <5>1
          <5>2. CASE k = n
            BY <3>1, <5>2
          <5>3. CASE k > last /\ k < n
            <6>1. n > last + 1 /\ k \in (last + 1)..(n - 1)
              BY <2>0, <3>2, <5>3
            <6> QED BY <3>1, <4>1, <6>1 DEF Skipped
          <5> QED BY <2>0, <3>2, <5>1, <5>2, <5>3
        <4> QED BY <3>1, <3>2, <3>4, <4>1, <4>2
      <3> QED BY <3>3, <3>4
    <2>3. CASE Crash
      BY <2>3 DEF Crash
    <2>4. ASSUME NEW p \in Peers, NeighborUp(p) \/ NeighborDown(p) \/ EventLost(p) \/ Announced(p)
          PROVE  GapInv'
      BY <2>1, <2>4 DEF NeighborUp, NeighborDown, Handles, EventLost, Announced
    <2>5. CASE CurTracks \/ OldCounts \/ OldTracks \/ CurSaves \/ OldSaves
      BY <2>1, <2>5 DEF CurTracks, OldCounts, OldTracks, CurSaves, OldSaves
    <2>6. CASE Spawn \/ ClearIds \/ ClearCount \/ OldEnds \/ UNCHANGED vars
      BY <2>1, <2>6 DEF Spawn, ClearIds, ClearCount, OldEnds, vars
    <2> QED BY <2>2, <2>3, <2>4, <2>5, <2>6 DEF Next
  <1>3. GapInv => GapsReported
    OBVIOUS
  <1> QED BY <1>1, <1>2, <1>3, ReceiveTypeCorrect, PTL DEF Spec

-----------------------------------------------------------------------------
(* The known-peers file.                                                   *)

\* A step of save_peer_if_new by the task t, while the other one, o, rests.
LEMMA SaveKeepsFile ==
    ASSUME file \in Lists, NEW t \in Task, NEW u, SaveStep(t, u), NEW o,
           (saved /\ ~torn /\ file = <<>>) => "write" \in {t.pc, o.pc},
           t.pc \in {"create", "write"} => t.lines # <<>>
    PROVE  /\ (saved' /\ ~torn' /\ file' = <<>>) => "write" \in {u.pc, o.pc}
           /\ u.pc \in {"create", "write"} => u.lines # <<>>
  <1>1. CASE t.pc = "save" /\ (\E found \in {file, <<>>} : u = Read(t, found))
             /\ UNCHANGED <<file, saved, torn>>
    <2>1. PICK found \in {file, <<>>} : u = Read(t, found)
      BY <1>1
    <2>2. found \in Lists
      BY NoLines
    <2>3. u.pc \in {"next", "create"} /\ (u.pc = "create" => u.lines # <<>>)
      BY <1>1, <2>1, <2>2, ReadTask
    <2> QED BY <1>1, <2>3
  <1>2. CASE t.pc = "create" /\ u = [t EXCEPT !.pc = "write"]
    <2>1. u.pc = "write" /\ u.lines = t.lines
      BY <1>2, CreatedTask
    <2> QED BY <1>2, <2>1
  <1>3. CASE t.pc = "create" /\ u = Idle("next") /\ UNCHANGED <<file, saved, torn>>
    <2>1. u.pc = "next"
      BY <1>3, IdleTask
    <2> QED BY <1>3, <2>1
  <1>4. CASE t.pc = "write" /\ u = Idle("next") /\ file' = Written(t.lines)
    <2>1. u.pc = "next"
      BY <1>4, IdleTask
    <2>2. t.lines \in Lists
      BY <1>4, TaskPeer
    <2>3. file' # <<>>
      BY <1>4, <2>2, WrittenList
    <2> QED BY <2>1, <2>3
  <1>5. CASE t.pc = "write" /\ u = Idle("next") /\ torn' = TRUE
    <2>1. u.pc = "next"
      BY <1>5, IdleTask
    <2> QED BY <1>5, <2>1
  <1> QED BY <1>1, <1>2, <1>3, <1>4, <1>5 DEF SaveStep

\* Once a peer was saved, the known-peers file that bootstrap, watchdog and
\* re-join read has a peer in it whenever no task is writing it, although two
\* tasks may read, truncate and write it at once and the file may not be readable
\* or not be created: only a crash between the truncation and the write, or a
\* write that fails, empties it, until the next save.
THEOREM PeersStayKnown == Spec => []SomeoneIsKnown
  <1> USE DEF FileInv
  <1>1. Init => FileInv
    BY IdleTask DEF Init
  <1>2. TypeOK /\ FileInv /\ [Next]_vars => FileInv'
    <2> SUFFICES ASSUME TypeOK, FileInv, [Next]_vars
                 PROVE  FileInv'
      OBVIOUS
    <2>0. cur \in Task /\ old \in Task /\ file \in Lists
      BY DEF TypeOK
    <2>1. ASSUME UNCHANGED <<file, saved, torn>>, cur.pc # "write",
                 cur'.pc \notin {"create", "write"}, UNCHANGED old
          PROVE  FileInv'
      BY <2>1
    <2>2. ASSUME UNCHANGED <<file, saved, torn>>, old.pc # "write",
                 old'.pc \notin {"create", "write"}, UNCHANGED cur
          PROVE  FileInv'
      BY <2>2
    <2>11. ASSUME UNCHANGED <<cur, old, file, saved, torn>>
           PROVE  FileInv'
      BY <2>11
    <2>3. ASSUME NEW p \in Peers, NeighborUp(p) \/ NeighborDown(p) \/ EventLost(p) \/ Announced(p)
          PROVE  FileInv'
      <3>1. CASE EventLost(p)
        BY <2>11, <3>1 DEF EventLost
      <3>2. CASE NeighborUp(p) \/ NeighborDown(p) \/ Announced(p)
        <4>1. cur'.pc \in {"up", "down", "save"}
          BY <3>2, ForTask DEF NeighborUp, NeighborDown, Handles, Announced
        <4> QED BY <2>1, <3>2, <4>1 DEF NeighborUp, NeighborDown, Handles, Announced
      <3> QED BY <2>3, <3>1, <3>2
    <2>4. CASE CurTracks
      <3>1. cur'.pc \in {"next", "save"}
        BY <2>0, <2>4, TrackedTask DEF CurTracks
      <3> QED BY <2>1, <2>4, <3>1 DEF CurTracks
    <2>5. CASE OldTracks
      <3>1. old'.pc \in {"next", "save"}
        BY <2>0, <2>5, TrackedTask DEF OldTracks
      <3> QED BY <2>2, <2>5, <3>1 DEF OldTracks
    <2>14. CASE OldCounts
      <3>1. old'.pc \in {"up", "down"}
        BY <2>14, CountedTask
      <3> QED BY <2>2, <2>14, <3>1 DEF OldCounts
    <2>6. CASE CurSaves
      <3>1. SaveStep(cur, cur') /\ old' = old
        BY <2>6 DEF CurSaves
      <3>2. /\ (saved' /\ ~torn' /\ file' = <<>>) => "write" \in {cur'.pc, old.pc}
            /\ cur'.pc \in {"create", "write"} => cur'.lines # <<>>
        BY <2>0, <3>1, SaveKeepsFile
      <3> QED BY <3>1, <3>2
    <2>7. CASE OldSaves
      <3>1. SaveStep(old, old') /\ cur' = cur
        BY <2>7 DEF OldSaves
      <3>2. /\ (saved' /\ ~torn' /\ file' = <<>>) => "write" \in {old'.pc, cur.pc}
            /\ old'.pc \in {"create", "write"} => old'.lines # <<>>
        BY <2>0, <3>1, SaveKeepsFile
      <3> QED BY <3>1, <3>2
    <2>8. CASE Spawn
      <3>1. cur'.pc = "next" /\ old.pc = "done" /\ UNCHANGED <<file, saved, torn>>
        BY <2>8, IdleTask DEF Spawn
      <3>2. old' = cur \/ (old'.pc \in {"takenUp", "takenDown"} /\ cur.pc = "next")
        BY <2>8, TakenTask DEF Spawn
      <3> QED BY <3>1, <3>2
    <2>9. CASE OldEnds
      <3>1. old'.pc = "done" /\ old.pc = "next" /\ UNCHANGED <<cur, file, saved, torn>>
        BY <2>9, IdleTask DEF OldEnds
      <3> QED BY <2>2, <3>1
    <2>10. CASE Crash
      <3>1. cur'.pc = "next" /\ old'.pc = "done"
        BY <2>10, IdleTask DEF Crash
      <3>2. ~(saved' /\ ~torn' /\ file' = <<>>)
        BY <2>10 DEF Crash
      <3> QED BY <3>1, <3>2
    <2>12. ASSUME NEW n \in 1..MaxSeq, Notified(n)
           PROVE  FileInv'
      BY <2>11, <2>12 DEF Notified
    <2>13. CASE ClearIds \/ ClearCount \/ UNCHANGED vars
      BY <2>11, <2>13 DEF ClearIds, ClearCount, vars
    <2> QED BY <2>3, <2>4, <2>5, <2>6, <2>7, <2>8, <2>9, <2>10, <2>12, <2>13, <2>14
            DEF Next
  <1>3. FileInv => SomeoneIsKnown
    BY DEF SomeoneIsKnown, Quiet
  <1> QED BY <1>1, <1>2, <1>3, ReceiveTypeCorrect, PTL DEF Spec

-----------------------------------------------------------------------------
(* The tracked neighbours.                                                 *)

\* A neighbour that comes up is counted once.
LEMMA UpCounted ==
    ASSUME TypeOK, NEW p \in Peers, p \notin seen, count = Cardinality(seen) % CountModulus
    PROVE  (count + 1) % CountModulus = Cardinality(seen \cup {p}) % CountModulus
  <1>1. IsFiniteSet(seen)
    BY FS_Subset, ReceiveTaskAssumption DEF TypeOK
  <1>2. Cardinality(seen \cup {p}) = Cardinality(seen) + 1 /\ Cardinality(seen) \in Nat
    BY <1>1, FS_AddElement, FS_CardinalityType
  <1> QED BY <1>2, CountUp, ReceiveTaskAssumption

\* A neighbour that goes down is discounted once.
LEMMA DownCounted ==
    ASSUME TypeOK, NEW p \in seen, count = Cardinality(seen) % CountModulus
    PROVE  (count + CountModulus - 1) % CountModulus = Cardinality(seen \ {p}) % CountModulus
  <1> DEFINE n == Cardinality(seen \ {p})
  <1>1. IsFiniteSet(seen)
    BY FS_Subset, ReceiveTaskAssumption DEF TypeOK
  <1>2. n = Cardinality(seen) - 1 /\ Cardinality(seen) \in Nat /\ n \in Nat
    BY <1>1, FS_RemoveElement, FS_CardinalityType, FS_Subset
  <1>3. Cardinality(seen) = n + 1
    BY <1>2
  <1> HIDE DEF n
  <1>4. (((n + 1) % CountModulus) + CountModulus - 1) % CountModulus = n % CountModulus
    BY <1>2, CountDown, ReceiveTaskAssumption
  <1> QED BY <1>3, <1>4 DEF n

\* Every step keeps the set and the count as close to what the stream reported.
LEMMA TrackStep == TypeOK /\ TrackInv /\ [Next]_vars => TrackInv'
  <1> SUFFICES ASSUME TypeOK, TrackInv, [Next]_vars
               PROVE  TrackInv'
    OBVIOUS
  <1>0. /\ cur \in Task /\ old \in Task /\ cur.pc \in PcValues /\ old.pc \in PcValues
        /\ rpc \in {"idle", "spawned", "cleared"}
    BY TaskPeer DEF TypeOK
  <1> USE DEF TrackInv, Handled
  <1>1. ASSUME NEW p \in Peers, NeighborUp(p)
        PROVE  TrackInv'
    <2>1. /\ cur.pc = "next" /\ p \notin seen /\ seen' = seen \cup {p} /\ UNCHANGED <<rpc, ids>>
          /\ count' = (count + 1) % CountModulus
          /\ astray' = IF rpc # "idle" THEN astray \cup {p} ELSE astray \ {p}
      BY <1>1 DEF NeighborUp, Handles, Resetting
    <2>2. cur'.pc = "up" /\ cur'.peer = {p}
      BY <1>1, ForTask DEF NeighborUp, Handles
    <2>3. rpc' = "idle" => countOff' \/ count' = Cardinality(seen') % CountModulus
      <3>1. countOff' = (countOff \/ rpc # "idle")
        BY <1>1 DEF NeighborUp, Handles, Resetting
      <3>2. ASSUME rpc = "idle", ~countOff
            PROVE  count' = Cardinality(seen') % CountModulus
        BY <2>1, <3>2, UpCounted
      <3> QED BY <2>1, <3>1, <3>2
    <2>4. rpc' = "idle" => (ids' \ seen') \cup (seen' \ ids') \subseteq astray' \cup Handled'
      BY <2>1, <2>2
    <2>5. rpc' # "idle" => countOff'
      BY <1>1 DEF NeighborUp, Handles, Resetting
    <2> QED BY <2>1, <2>2, <2>3, <2>4, <2>5
  <1>2. ASSUME NEW p \in Peers, NeighborDown(p)
        PROVE  TrackInv'
    <2>1. /\ cur.pc = "next" /\ p \in seen /\ seen' = seen \ {p} /\ UNCHANGED <<rpc, ids>>
          /\ count' = (count + CountModulus - 1) % CountModulus
          /\ astray' = IF rpc # "idle" THEN astray \cup {p} ELSE astray \ {p}
      BY <1>2 DEF NeighborDown, Handles, Resetting
    <2>2. cur'.pc = "down" /\ cur'.peer = {p}
      BY <1>2, ForTask DEF NeighborDown, Handles
    <2>3. rpc' = "idle" => countOff' \/ count' = Cardinality(seen') % CountModulus
      <3>1. countOff' = (countOff \/ rpc # "idle")
        BY <1>2 DEF NeighborDown, Handles, Resetting
      <3>2. ASSUME rpc = "idle", ~countOff
            PROVE  count' = Cardinality(seen') % CountModulus
        BY <2>1, <3>2, DownCounted
      <3> QED BY <2>1, <3>1, <3>2
    <2>4. rpc' = "idle" => (ids' \ seen') \cup (seen' \ ids') \subseteq astray' \cup Handled'
      BY <2>1, <2>2
    <2>5. rpc' # "idle" => countOff'
      BY <1>2 DEF NeighborDown, Handles, Resetting
    <2> QED BY <2>1, <2>2, <2>3, <2>4, <2>5
  <1>15. ASSUME NEW p \in Peers, EventLost(p)
         PROVE  TrackInv'
    <2>1. /\ (seen' = seen \ {p} \/ seen' = seen \cup {p})
          /\ UNCHANGED <<cur, rpc, ids>> /\ astray' = astray \cup {p}
      BY <1>15 DEF EventLost
    <2>2. countOff'
      BY <1>15 DEF EventLost
    <2>3. rpc' = "idle" => (ids' \ seen') \cup (seen' \ ids') \subseteq astray' \cup Handled'
      BY <2>1
    <2>4. /\ cur'.pc = "up" => cur'.peer \subseteq seen' \cup astray'
          /\ cur'.pc = "down" => cur'.peer \cap seen' \subseteq astray'
      BY <2>1
    <2> QED BY <2>1, <2>2, <2>3, <2>4
  <1>16. CASE OldCounts
    <2>1. UNCHANGED <<cur, rpc, seen, ids, astray>>
      BY <1>16 DEF OldCounts
    <2>2. countOff' = (countOff \/ rpc = "idle")
      BY <1>16 DEF OldCounts, Resetting
    <2>3. (rpc' = "idle" => countOff') /\ (rpc' # "idle" => countOff' \/ seen' = {})
      BY <2>1, <2>2
    <2> QED BY <2>1, <2>3
  <1>3. CASE CurTracks
    <2>1. /\ cur.pc \in {"up", "down"} /\ UNCHANGED <<rpc, seen, count>>
          /\ ids' = (IF cur.pc = "up" THEN ids \cup cur.peer ELSE ids \ cur.peer)
          /\ astray' = IF rpc # "idle" THEN astray \cup cur.peer ELSE astray
          /\ UNCHANGED countOff
      BY <1>3 DEF CurTracks, Track, Resetting
    <2>2. cur'.pc \in {"next", "save"}
      BY <1>0, <1>3, TrackedTask DEF CurTracks
    <2>3. CASE cur.pc = "up"
      BY <2>1, <2>2, <2>3
    <2>4. CASE cur.pc = "down"
      BY <2>1, <2>2, <2>4
    <2> QED BY <2>1, <2>3, <2>4
  <1>4. CASE OldTracks
    <2>1. /\ UNCHANGED <<cur, rpc, seen, count, countOff>>
          /\ astray' = astray \cup old.peer
          /\ (ids' = ids \cup old.peer \/ ids' = ids \ old.peer)
      BY <1>4 DEF OldTracks, Track
    <2>2. rpc' = "idle" => (ids' \ seen') \cup (seen' \ ids') \subseteq astray' \cup Handled'
      BY <2>1
    <2> QED BY <2>1, <2>2
  <1>5. CASE Spawn
    <2>1. rpc' = "spawned" /\ seen' = {} /\ cur'.pc = "next"
      BY <1>5, IdleTask DEF Spawn
    <2> QED BY <2>1
  <1>6. CASE ClearIds
    BY <1>6 DEF ClearIds
  <1>7. CASE ClearCount
    <2>1. /\ rpc = "cleared" /\ rpc' = "idle" /\ count' = 0 /\ UNCHANGED <<cur, seen, ids, astray, countOff>>
      BY <1>7 DEF ClearCount
    <2>2. countOff \/ seen = {}
      BY <2>1
    <2>3. Cardinality({}) % CountModulus = 0
      BY FS_EmptySet, ReceiveTaskAssumption
    <2>4. countOff' \/ count' = Cardinality(seen') % CountModulus
      BY <2>1, <2>2, <2>3
    <2> QED BY <2>1, <2>4
  <1>8. CASE Crash
    <2>1. /\ cur'.pc = "next" /\ rpc' = "idle" /\ seen' = {} /\ ids' = {} /\ count' = 0
      BY <1>8, IdleTask DEF Crash
    <2>2. Cardinality({}) % CountModulus = 0
      BY FS_EmptySet, ReceiveTaskAssumption
    <2> QED BY <2>1, <2>2
  <1>9. ASSUME UNCHANGED <<rpc, seen, ids, count, astray, countOff>>,
               cur.pc \notin {"up", "down"}, cur'.pc \notin {"up", "down"}
        PROVE  TrackInv'
    BY <1>9
  <1>10. ASSUME NEW p \in Peers, Announced(p)
         PROVE  TrackInv'
    <2>1. cur'.pc = "save"
      BY <1>10, ForTask DEF Announced
    <2> QED BY <1>9, <1>10, <2>1 DEF Announced
  <1>11. CASE CurSaves
    <2>1. cur.pc \in {"save", "create", "write"} /\ cur'.pc \notin {"up", "down"}
      <3>1. CASE cur.pc = "save" /\ \E found \in {file, <<>>} : cur' = Read(cur, found)
        <4>1. PICK found \in {file, <<>>} : cur' = Read(cur, found)
          BY <3>1
        <4>2. found \in Lists
          BY NoLines DEF TypeOK
        <4> QED BY <1>0, <3>1, <4>1, <4>2, ReadTask
      <3>2. CASE cur.pc = "create" /\ cur' = [cur EXCEPT !.pc = "write"]
        BY <1>0, <3>2, CreatedTask
      <3>3. CASE cur.pc \in {"create", "write"} /\ cur' = Idle("next")
        BY <3>3, IdleTask
      <3> QED BY <1>11, <3>1, <3>2, <3>3 DEF CurSaves, SaveStep
    <2> QED BY <1>9, <1>11, <2>1 DEF CurSaves
  <1>12. ASSUME UNCHANGED <<cur, rpc, seen, ids, count, astray, countOff>>
         PROVE  TrackInv'
    BY <1>12
  <1>13. ASSUME NEW n \in 1..MaxSeq, Notified(n)
         PROVE  TrackInv'
    BY <1>12, <1>13 DEF Notified
  <1>14. CASE OldSaves \/ OldEnds \/ UNCHANGED vars
    BY <1>12, <1>14 DEF OldSaves, OldEnds, vars
  <1> QED BY <1>1, <1>2, <1>3, <1>4, <1>5, <1>6, <1>7, <1>8, <1>10, <1>11, <1>13, <1>14,
             <1>15, <1>16
          DEF Next

\* Outside a reset, the neighbours that PeerAnnounce reports are those the current
\* stream has reported, except for peers whose last event was lost, handled during
\* a reset, or handled by the task of the stream before; without any such event
\* since the reconnect the count agrees as well, at whatever width it wraps around.
THEOREM TrackingErrorsHaveCause == Spec => []MistrackedHasCause
  <1>1. Init => TrackInv
    <2> SUFFICES ASSUME Init
                 PROVE  TrackInv
      OBVIOUS
    <2>1. /\ cur.pc = "next" /\ rpc = "idle" /\ seen = {} /\ ids = {} /\ count = 0
      BY IdleTask DEF Init
    <2>2. Cardinality({}) % CountModulus = 0
      BY FS_EmptySet, ReceiveTaskAssumption
    <2> QED BY <2>1, <2>2 DEF TrackInv, Handled
  <1>2. TypeOK /\ TrackInv /\ [Next]_vars => TrackInv'
    BY TrackStep
  <1>3. TrackInv => MistrackedHasCause
    BY DEF TrackInv, Handled, MistrackedHasCause, Quiet
  <1> QED BY <1>1, <1>2, <1>3, ReceiveTypeCorrect, PTL DEF Spec

=============================================================================
