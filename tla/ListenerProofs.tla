--------------------------- MODULE ListenerProofs ---------------------------
(***************************************************************************)
(* Theorems about Listener, for every set of messages, every window and    *)
(* every limit.                                                            *)
(***************************************************************************)
EXTENDS Listener, FiniteSetTheorems, TLAPS

USE DEF net, catchup

-----------------------------------------------------------------------------
(* The invariants.                                                         *)

\* A table of finitely many rows, none from the future.
Table(table) ==
    /\ table \subseteq Row /\ IsFiniteSet(table)
    /\ \A row \in table : row.at <= now

\* The row LatestTimestamp finds.
HasLatest(table) == table # {} => \E row \in table : \A q \in table : q.at <= row.at

\* What each task has in its hands.
InHand ==
    /\ live = {} \/ \E m \in Messages : live = {m}
    /\ cpc = "store" => \E m \in Messages : caught = {m}
    /\ cpc # "store" => caught = {}
    /\ cpc = "down" => live = {}
    /\ stream \subseteq Row /\ IsFiniteSet(stream) /\ Cardinality(stream) <= MaxServed

\* The part of TypeOK that no other invariant implies.
Scalars ==
    /\ now \in 0..MaxTime /\ emitted \subseteq Messages
    /\ cpc \in CpcValues /\ since \in 0..MaxTime
    /\ whole \in BOOLEAN /\ neighbor \in {"empty", "full", "spent"}
    /\ missed \subseteq Messages /\ horizon \in 0..MaxTime

ListenerInv ==
    /\ Scalars
    /\ Table(archive) /\ Table(peer) /\ HasLatest(archive)
    /\ InHand

\* A row of the peer that a complete catch-up has to bring.
Needed(row) == row.msg \in missed /\ row.msg \in Accepted /\ row.at >= horizon

\* What was stored while the listener was down is not older than its archive, so
\* that the time it catches up from covers it.
MissedInv ==
    /\ missed \subseteq Stored(peer)
    /\ cpc = "down" => \A row \in peer, r \in archive : row.msg \in missed => r.at <= row.at
    /\ cpc # "down" => \A row \in peer : Needed(row) => row.at >= since

\* What is needed and was not stored yet is still to be read.
WholeInv ==
    /\ cpc \in {"down", "connect", "wait", "dial", "open"} => ~whole
    /\ whole => \A row \in peer :
                   Needed(row) => row.msg \in Stored(archive) \cup Stored(stream) \cup caught
    /\ (cpc = "over" /\ whole) => stream = {}

\* Whatever is stored or about to be stored was sent to the SSE channel.
EmitInv == Stored(archive) \subseteq emitted /\ live \subseteq emitted /\ caught \subseteq emitted

-----------------------------------------------------------------------------
(* archive.rs                                                              *)

\* INSERT OR IGNORE: a table with the message, and no row but a new one of this
\* second.
LEMMA StoreTable ==
    ASSUME now \in 0..MaxTime, NEW table, Table(table), NEW m \in Messages
    PROVE  /\ Table(Store(table, m))
           /\ Stored(Store(table, m)) = Stored(table) \cup {m}
           /\ HasLatest(table) => HasLatest(Store(table, m))
           /\ \A row \in Store(table, m) : row \in table \/ (row.msg = m /\ row.at = now)
           /\ table \subseteq Store(table, m)
  <1> DEFINE new == [msg |-> m, at |-> now]
  <1>0. new \in Row /\ new.msg = m /\ new.at = now
    BY DEF Row
  <1>1. CASE m \in Stored(table)
    <2>1. Store(table, m) = table /\ Stored(table) \cup {m} = Stored(table)
      BY <1>1 DEF Store
    <2> QED BY <2>1
  <1>2. CASE m \notin Stored(table)
    <2>1. Store(table, m) = table \cup {new}
      BY <1>2 DEF Store
    <2> HIDE DEF new
    <2>2. Stored(table \cup {new}) = Stored(table) \cup {m}
      BY <1>0 DEF Stored
    <2>3. IsFiniteSet(table \cup {new})
      BY FS_AddElement DEF Table
    <2>4. now \in Nat /\ \A row \in table : row.at \in Nat
      BY ListenerAssumption DEF Table, Row
    <2>5. Table(table \cup {new})
      BY <1>0, <2>3, <2>4 DEF Table
    <2>6. HasLatest(table \cup {new})
      BY <1>0, <2>4 DEF HasLatest, Table
    <2> QED BY <1>0, <2>1, <2>2, <2>5, <2>6
  <1> QED BY <1>1, <1>2

\* Storing the one notification a task has in its hands.
LEMMA StoreOne ==
    ASSUME NEW table, NEW m, NEW hands, hands = {m}
    PROVE  UNION {Store(table, x) : x \in hands} = Store(table, m)
  OBVIOUS

\* get_latest_timestamp is the time of the newest row.
LEMMA LatestIs ==
    ASSUME NEW table, Table(table), HasLatest(table), table # {}
    PROVE  /\ LatestTimestamp(table) \in 0..MaxTime
           /\ \A row \in table : row.at <= LatestTimestamp(table)
           /\ \E row \in table : row.at = LatestTimestamp(table)
  <1> DEFINE S == {row.at : row \in table}
  <1>1. \A x \in S : x \in 0..MaxTime
    BY DEF Table, Row
  <1>2. \E x \in S : \A y \in S : x >= y
    <2>1. PICK row \in table : \A q \in table : q.at <= row.at
      BY DEF HasLatest
    <2>2. row.at \in S /\ \A y \in S : row.at >= y
      BY <1>1, <2>1
    <2> QED BY <2>2
  <1>3. Max(S) \in S /\ \A y \in S : Max(S) >= y
    BY <1>2 DEF Max
  <1>4. Max(S) \in 0..MaxTime
    BY <1>1, <1>3
  <1>5. LatestTimestamp(table) = Max(S)
    BY DEF LatestTimestamp
  <1> HIDE DEF S
  <1>6. (\A row \in table : row.at \in S) /\ (\A x \in S : \E row \in table : row.at = x)
    BY DEF S
  <1> QED BY <1>1, <1>3, <1>4, <1>5, <1>6, ListenerAssumption

\* What the peer serves are rows of its table, not more than the limit, and all
\* rows since that time if these are not more than the limit.
LEMMA ServedRows ==
    ASSUME Table(peer), NEW t, NEW chosen \in Serve(t)
    PROVE  /\ chosen \subseteq Row /\ IsFiniteSet(chosen) /\ Cardinality(chosen) <= MaxServed
           /\ Cardinality(MessagesSince(peer, t)) <= MaxServed => chosen = MessagesSince(peer, t)
  <1> DEFINE rows == MessagesSince(peer, t)
             n == IF Cardinality(rows) > MaxServed THEN MaxServed ELSE Cardinality(rows)
  <1>1. chosen \in SUBSET rows /\ Cardinality(chosen) = n
    BY DEF Serve, kSubset
  <1>2. rows \in SUBSET peer
    BY DEF MessagesSince
  <1>3. IsFiniteSet(rows)
    BY <1>2, FS_Subset DEF Table
  <1>4. IsFiniteSet(chosen) /\ (Cardinality(rows) = Cardinality(chosen) => rows = chosen)
    BY <1>1, <1>3, FS_Subset
  <1>5. Cardinality(rows) \in Nat
    BY <1>3, FS_CardinalityType
  <1>6. chosen \subseteq Row
    BY <1>1, <1>2 DEF Table
  <1> HIDE DEF rows
  <1>7. Cardinality(chosen) <= MaxServed
    BY <1>1, <1>5, ListenerAssumption
  <1>8. Cardinality(rows) <= MaxServed => chosen = rows
    BY <1>1, <1>4, <1>5, ListenerAssumption
  <1> QED BY <1>4, <1>6, <1>7, <1>8 DEF rows

-----------------------------------------------------------------------------
(* Type correctness.                                                       *)

\* The invariant implies the type invariant.
LEMMA ListenerInvType == ListenerInv => TypeOK
  <1> SUFFICES ASSUME ListenerInv
               PROVE  TypeOK
    OBVIOUS
  <1>1. ASSUME NEW S, S = {} \/ \E m \in Messages : S = {m}
        PROVE  S \subseteq Messages /\ Cardinality(S) <= 1
    <2>1. CASE S = {}
      BY <2>1, FS_EmptySet
    <2>2. CASE \E m \in Messages : S = {m}
      <3>1. PICK m \in Messages : S = {m}
        BY <2>2
      <3>2. Cardinality({m}) = 1
        BY FS_Singleton
      <3> QED BY <3>1, <3>2
    <2> QED BY <1>1, <2>1, <2>2
  <1>2. live \subseteq Messages /\ Cardinality(live) <= 1
    BY <1>1 DEF ListenerInv, InHand
  <1>3. caught \subseteq Messages /\ Cardinality(caught) <= 1
    BY <1>1 DEF ListenerInv, InHand
  <1> QED BY <1>2, <1>3 DEF ListenerInv, InHand, Scalars, Table, TypeOK

\* A fresh listener.
LEMMA ListenerInit == Init => ListenerInv
  <1> SUFFICES ASSUME Init
               PROVE  ListenerInv
    OBVIOUS
  <1>1. Scalars
    <2>1. now = 0 /\ emitted = {} /\ cpc = "down" /\ since = 0 /\ neighbor = "empty"
          /\ missed = {} /\ horizon = 0
      BY DEF Init
    <2>2. whole \in BOOLEAN
      BY DEF Init
    <2> QED BY <2>1, <2>2, ListenerAssumption DEF Scalars, CpcValues
  <1>2. Table(archive) /\ Table(peer) /\ HasLatest(archive)
    BY FS_EmptySet DEF Init, Table, HasLatest
  <1>3. InHand
    BY FS_EmptySet, ListenerAssumption DEF Init, InHand
  <1> QED BY <1>1, <1>2, <1>3 DEF ListenerInv

\* Every step of the receive task, the catch-up task, the peer, the clock and a
\* crash keeps the invariant.
LEMMA ListenerStep == ListenerInv /\ [Next]_vars => ListenerInv'
  <1> SUFFICES ASSUME ListenerInv, [Next]_vars
               PROVE  ListenerInv'
    OBVIOUS
  <1>0. /\ Scalars /\ Table(archive) /\ Table(peer) /\ HasLatest(archive) /\ InHand
        /\ now \in 0..MaxTime
    BY DEF ListenerInv, Scalars
  <1>1. ASSUME UNCHANGED <<now, archive, peer>>, Scalars', InHand'
        PROVE  ListenerInv'
    BY <1>0, <1>1 DEF ListenerInv, Table, HasLatest
  <1>2. CASE Start
    <2>0. PICK found \in {archive, {}} :
            /\ horizon' = IF found = {} /\ now > Window THEN now - Window ELSE 0
            /\ since' = IF found # {} THEN LatestTimestamp(found) ELSE horizon'
      BY <1>2 DEF Start
    <2>1. horizon' \in 0..MaxTime
      BY <1>0, <2>0, ListenerAssumption
    <2>2. since' \in 0..MaxTime
      <3>1. CASE found = {}
        BY <2>0, <2>1, <3>1
      <3>2. CASE found # {}
        BY <1>0, <2>0, <3>2, LatestIs
      <3> QED BY <3>1, <3>2
    <2>3. /\ cpc = "down" /\ cpc' = "connect"
          /\ UNCHANGED <<now, peer, missed, archive, emitted, live, stream, caught, whole, neighbor>>
      BY <1>2 DEF Start, Running
    <2>4. Scalars'
      BY <1>0, <2>1, <2>2, <2>3 DEF Scalars, CpcValues
    <2>5. InHand'
      BY <1>0, <2>3 DEF InHand
    <2> QED BY <1>1, <2>3, <2>4, <2>5
  <1>3. CASE Crash
    <2>1. /\ cpc' = "down" /\ live' = {} /\ since' = 0 /\ stream' = {} /\ caught' = {}
          /\ neighbor' = "empty" /\ missed' = {}
          /\ UNCHANGED <<now, peer, horizon, archive, emitted>>
      BY <1>3 DEF Crash
    <2>2. whole' \in BOOLEAN
      BY <1>3 DEF Crash
    <2>3. Scalars'
      BY <1>0, <2>1, <2>2, ListenerAssumption DEF Scalars, CpcValues
    <2>4. InHand'
      BY <2>1, FS_EmptySet, ListenerAssumption DEF InHand
    <2> QED BY <1>1, <2>1, <2>3, <2>4
  <1>4. CASE Tick
    <2>1. /\ now < MaxTime /\ now' = now + 1
          /\ UNCHANGED <<peer, missed, horizon, archive, emitted, live, catchup>>
      BY <1>4 DEF Tick
    <2>2. Scalars'
      BY <1>0, <2>1, ListenerAssumption DEF Scalars
    <2>3. ASSUME NEW table, Table(table), table' = table
          PROVE  Table(table)'
      <3>1. \A row \in table : row.at \in Nat /\ row.at <= now
        BY <2>3 DEF Table, Row
      <3>2. now \in Nat
        BY <1>0, ListenerAssumption
      <3> QED BY <2>1, <2>3, <3>1, <3>2 DEF Table
    <2>4. Table(archive)' /\ Table(peer)'
      BY <1>0, <2>1, <2>3
    <2>5. InHand' /\ HasLatest(archive)'
      BY <1>0, <2>1 DEF InHand, HasLatest
    <2> QED BY <2>2, <2>4, <2>5 DEF ListenerInv
  <1>5. CASE NeighborUp
    BY <1>0, <1>1, <1>5 DEF NeighborUp, Scalars, InHand
  <1>6. ASSUME NEW m \in Messages, Receive(m)
        PROVE  ListenerInv'
    <2>1. /\ cpc # "down" /\ emitted' = emitted \cup {m} /\ live' = {m}
          /\ UNCHANGED <<net, archive, catchup>>
      BY <1>6 DEF Receive, Running
    <2>2. Scalars' /\ InHand'
      BY <1>0, <2>1 DEF Scalars, InHand
    <2> QED BY <1>1, <2>1, <2>2
  <1>7. ASSUME NEW m \in Messages, archive' = Store(archive, m), UNCHANGED <<now, peer>>,
               Scalars', InHand'
        PROVE  ListenerInv'
    <2>1. Table(Store(archive, m)) /\ HasLatest(Store(archive, m))
      BY <1>0, StoreTable
    <2>2. Table(archive)' /\ HasLatest(archive)' /\ Table(peer)'
      BY <1>0, <1>7, <2>1 DEF Table, HasLatest
    <2> QED BY <1>7, <2>2 DEF ListenerInv
  <1>8. CASE StoreLive
    <2>1. live # {} /\ live' = {} /\ UNCHANGED <<net, emitted, catchup>>
      BY <1>8 DEF StoreLive
    <2>2. Scalars' /\ InHand'
      BY <1>0, <2>1 DEF Scalars, InHand
    <2>3. PICK m \in Messages : live = {m}
      BY <1>0, <2>1 DEF InHand
    <2>4. archive' = Store(archive, m) \/ UNCHANGED archive
      BY <1>8, <2>3, StoreOne DEF StoreLive
    <2> QED BY <1>1, <1>7, <2>1, <2>2, <2>4
  <1>9. ASSUME NEW from \in CpcValues \ {"down", "store"}, NEW to \in CpcValues \ {"down", "store"},
               Go(from, to), whole' \in BOOLEAN, neighbor' \in {"empty", "full", "spent"}
        PROVE  ListenerInv'
    <2>1. Scalars' /\ InHand'
      BY <1>0, <1>9 DEF Go, Scalars, InHand
    <2> QED BY <1>1, <1>9, <2>1 DEF Go
  <1>10. CASE TryCandidates \/ CandidatesFail \/ GetNeighbor \/ DialNeighbor \/ GiveUp
    <2>1. whole' \in BOOLEAN /\ neighbor' \in {"empty", "full", "spent"}
      BY <1>0, <1>10 DEF TryCandidates, CandidatesFail, GetNeighbor, DialNeighbor, GiveUp, Scalars
    <2>2. \E from, to \in CpcValues \ {"down", "store"} : Go(from, to)
      BY <1>10 DEF TryCandidates, CandidatesFail, GetNeighbor, DialNeighbor, GiveUp, CpcValues
    <2> QED BY <1>9, <2>1, <2>2
  <1>11. CASE Request
    <2>1. /\ cpc = "open" /\ cpc' = "read"
          /\ stream' \in Serve(since)
          /\ UNCHANGED <<net, archive, emitted, live, since, caught, neighbor>>
      BY <1>11 DEF Request
    <2>2. whole' \in BOOLEAN
      BY <1>11 DEF Request
    <2>3. stream' \subseteq Row /\ IsFiniteSet(stream') /\ Cardinality(stream') <= MaxServed
      BY <1>0, <2>1, ServedRows
    <2>4. Scalars'
      BY <1>0, <2>1, <2>2 DEF Scalars, CpcValues
    <2>5. InHand'
      BY <1>0, <2>1, <2>3 DEF InHand
    <2> QED BY <1>1, <2>1, <2>4, <2>5
  <1>12. CASE ReadPayload
    <2>1. PICK row \in stream :
            /\ stream' = stream \ {row}
            /\ \/ /\ emitted' = emitted \cup {row.msg} /\ caught' = {row.msg}
                  /\ cpc' = "store"
               \/ UNCHANGED <<emitted, caught, cpc>>
      BY <1>12 DEF ReadPayload
    <2>2. cpc = "read" /\ UNCHANGED <<net, archive, live, since, whole, neighbor>>
      BY <1>12 DEF ReadPayload
    <2>3. row.msg \in Messages
      BY <1>0 DEF InHand, Row
    <2>4. /\ stream' \subseteq Row /\ IsFiniteSet(stream') /\ Cardinality(stream') <= MaxServed
      <3>1. stream \ {row} \in SUBSET stream
        OBVIOUS
      <3>2. /\ IsFiniteSet(stream \ {row}) /\ Cardinality(stream \ {row}) <= Cardinality(stream)
            /\ IsFiniteSet(stream) /\ Cardinality(stream) <= MaxServed
        BY <1>0, <3>1, FS_Subset DEF InHand
      <3>3. Cardinality(stream) \in Nat /\ Cardinality(stream \ {row}) \in Nat
        BY <3>2, FS_CardinalityType
      <3>4. Cardinality(stream \ {row}) <= MaxServed
        BY <3>2, <3>3, ListenerAssumption
      <3> QED BY <1>0, <2>1, <3>2, <3>4 DEF InHand
    <2>5. Scalars'
      BY <1>0, <2>1, <2>2, <2>3 DEF Scalars, CpcValues
    <2>6. InHand'
      BY <1>0, <2>1, <2>2, <2>3, <2>4 DEF InHand
    <2> QED BY <1>1, <2>2, <2>5, <2>6
  <1>13. CASE StoreCaught
    <2>1. /\ cpc = "store" /\ cpc' = "read" /\ caught' = {}
          /\ UNCHANGED <<net, emitted, live, since, stream, neighbor>>
      BY <1>13 DEF StoreCaught
    <2>2. whole' \in BOOLEAN
      BY <1>0, <1>13 DEF StoreCaught, Scalars
    <2>3. Scalars' /\ InHand'
      BY <1>0, <2>1, <2>2 DEF Scalars, CpcValues, InHand
    <2>4. PICK m \in Messages : caught = {m}
      BY <1>0, <2>1 DEF InHand
    <2>5. archive' = Store(archive, m) \/ UNCHANGED archive
      BY <1>13, <2>4, StoreOne DEF StoreCaught
    <2> QED BY <1>1, <1>7, <2>1, <2>3, <2>5
  <1>14. CASE ReadEnds
    <2>1. /\ cpc = "read" /\ cpc' = "over" /\ stream' = {}
          /\ UNCHANGED <<net, archive, emitted, live, since, caught, neighbor>>
      BY <1>14 DEF ReadEnds
    <2>2. whole' \in BOOLEAN
      BY <1>14 DEF ReadEnds
    <2>3. Scalars'
      BY <1>0, <2>1, <2>2 DEF Scalars, CpcValues
    <2>4. InHand'
      BY <1>0, <2>1, FS_EmptySet, ListenerAssumption DEF InHand
    <2> QED BY <1>1, <2>1, <2>3, <2>4
  <1>15. ASSUME NEW m \in Messages, PeerStores(m)
         PROVE  ListenerInv'
    <2>1. /\ peer' = Store(peer, m) /\ missed' \in {missed, missed \cup {m}}
          /\ UNCHANGED <<now, horizon, archive, emitted, live, catchup>>
      BY <1>15 DEF PeerStores
    <2>2. Scalars' /\ InHand'
      BY <1>0, <2>1 DEF Scalars, InHand
    <2>3. Table(Store(peer, m))
      BY <1>0, StoreTable
    <2>4. Table(peer)' /\ Table(archive)' /\ HasLatest(archive)'
      BY <1>0, <2>1, <2>3 DEF Table, HasLatest
    <2> QED BY <2>2, <2>4 DEF ListenerInv
  <1>16. CASE UNCHANGED vars
    <2>1. Scalars' /\ InHand'
      BY <1>0, <1>16 DEF vars, Scalars, InHand
    <2> QED BY <1>1, <1>16, <2>1 DEF vars
  <1> QED BY <1>2, <1>3, <1>4, <1>5, <1>6, <1>8, <1>10, <1>11, <1>12, <1>13, <1>14, <1>15, <1>16
          DEF Next, CatchupTask

\* Every variable of the listener, its archive and its catch-up keeps its type:
\* the time it catches up from is a time, and the answer of the peer is never
\* longer than the limit.
THEOREM ListenerTypeCorrect == Spec => []TypeOK
  BY ListenerInit, ListenerStep, ListenerInvType, PTL DEF Spec

-----------------------------------------------------------------------------
(* Nothing is stored that was not sent to the SSE channel.                 *)

\* Both tasks send before they store.
LEMMA EmitStep == ListenerInv /\ EmitInv /\ [Next]_vars => EmitInv'
  <1> SUFFICES ASSUME ListenerInv, EmitInv, [Next]_vars
               PROVE  EmitInv'
    OBVIOUS
  <1>0. Table(archive) /\ InHand /\ now \in 0..MaxTime
    BY DEF ListenerInv, Scalars
  <1> USE DEF EmitInv
  <1>1. ASSUME UNCHANGED <<archive, emitted, live, caught>>
        PROVE  EmitInv'
    BY <1>1
  <1>2. CASE Crash
    BY <1>2 DEF Crash
  <1>3. ASSUME NEW m \in Messages, Receive(m)
        PROVE  EmitInv'
    BY <1>3 DEF Receive
  <1>4. CASE StoreLive
    <2>1. PICK m \in Messages : live = {m}
      BY <1>0, <1>4 DEF StoreLive, InHand
    <2>2. archive' = Store(archive, m) \/ UNCHANGED archive
      BY <1>4, <2>1, StoreOne DEF StoreLive
    <2>3. Stored(archive') \subseteq Stored(archive) \cup {m}
      BY <1>0, <2>2, StoreTable
    <2> QED BY <1>4, <2>1, <2>3 DEF StoreLive
  <1>5. CASE ReadPayload
    BY <1>5 DEF ReadPayload
  <1>6. CASE StoreCaught
    <2>1. PICK m \in Messages : caught = {m}
      BY <1>0, <1>6 DEF StoreCaught, InHand
    <2>2. archive' = Store(archive, m) \/ UNCHANGED archive
      BY <1>6, <2>1, StoreOne DEF StoreCaught
    <2>3. Stored(archive') \subseteq Stored(archive) \cup {m}
      BY <1>0, <2>2, StoreTable
    <2> QED BY <1>6, <2>1, <2>3 DEF StoreCaught
  <1>7. CASE TryCandidates \/ CandidatesFail \/ GetNeighbor \/ DialNeighbor \/ GiveUp
    BY <1>1, <1>7 DEF TryCandidates, CandidatesFail, GetNeighbor, DialNeighbor, GiveUp, Go
  <1>8. ASSUME NEW m \in Messages, PeerStores(m)
        PROVE  EmitInv'
    BY <1>1, <1>8 DEF PeerStores
  <1>9. CASE Start \/ Tick \/ NeighborUp \/ Request \/ ReadEnds \/ UNCHANGED vars
    BY <1>1, <1>9 DEF Start, Tick, NeighborUp, Request, ReadEnds, vars
  <1> QED BY <1>2, <1>3, <1>4, <1>5, <1>6, <1>7, <1>8, <1>9 DEF Next, CatchupTask

\* Whatever crashes come between sending and storing, in the receive task or in
\* run_catchup, a notification in the archive was sent to the SSE channel: none
\* is withheld from the next catch-up that no subscriber was sent.
THEOREM NothingStoredUnsent == Spec => []StoredWasEmitted
  <1>1. Init => EmitInv
    BY DEF Init, EmitInv, Stored
  <1>2. EmitInv => StoredWasEmitted
    BY DEF EmitInv, StoredWasEmitted
  <1> QED BY <1>1, <1>2, ListenerInit, ListenerStep, EmitStep, PTL DEF Spec

-----------------------------------------------------------------------------
(* A complete catch-up.                                                    *)

\* A row that the peer stores while this listener is down is not older than any
\* in its archive; get_latest_timestamp at the start is therefore early enough.
LEMMA MissedStep == ListenerInv /\ MissedInv /\ [Next]_vars => MissedInv'
  <1> SUFFICES ASSUME ListenerInv, MissedInv, [Next]_vars
               PROVE  MissedInv'
    OBVIOUS
  <1>0. /\ Table(archive) /\ Table(peer) /\ HasLatest(archive) /\ InHand /\ now \in 0..MaxTime
        /\ horizon \in Nat
    BY DEF ListenerInv, Scalars
  <1>1. ASSUME UNCHANGED <<missed, peer, horizon, since>>, cpc # "down", cpc' # "down"
        PROVE  MissedInv'
    BY <1>1 DEF MissedInv, Needed
  <1>2. CASE Start
    <2>1. /\ cpc = "down" /\ cpc' = "connect" /\ UNCHANGED <<missed, peer>>
          /\ (archive # {} /\ since' = LatestTimestamp(archive)) \/ since' = horizon'
      BY <1>2 DEF Start, Running
    <2>2. ASSUME NEW row \in peer, Needed(row)'
          PROVE  row.at >= since'
      <3>1. CASE since' = horizon'
        BY <2>1, <2>2, <3>1 DEF Needed
      <3>2. CASE archive # {} /\ since' = LatestTimestamp(archive)
        <4>1. row.msg \in missed
          BY <2>1, <2>2 DEF Needed
        <4>2. \A r \in archive : r.at <= row.at
          BY <2>1, <4>1 DEF MissedInv
        <4>3. \E r \in archive : r.at = LatestTimestamp(archive)
          BY <1>0, <3>2, LatestIs
        <4>4. row.at \in Nat /\ \A r \in archive : r.at \in Nat
          BY <1>0 DEF Table, Row
        <4> QED BY <2>1, <3>2, <4>2, <4>3, <4>4
      <3> QED BY <2>1, <3>1, <3>2
    <2> QED BY <2>1, <2>2 DEF MissedInv
  <1>3. CASE Crash
    BY <1>3 DEF Crash, MissedInv
  <1>4. ASSUME NEW m \in Messages, PeerStores(m)
        PROVE  MissedInv'
    <2>1. /\ m \notin Stored(peer) /\ peer' = Store(peer, m)
          /\ missed' = (IF cpc # "down" THEN missed ELSE missed \cup {m})
          /\ UNCHANGED <<now, horizon, archive, cpc, since>>
      BY <1>4 DEF PeerStores, Running
    <2>2. Stored(peer') = Stored(peer) \cup {m}
          /\ \A row \in peer' : row \in peer \/ (row.msg = m /\ row.at = now)
      BY <1>0, <2>1, StoreTable
    <2>3. m \notin missed
      BY <2>1 DEF MissedInv
    <2>4. missed' \subseteq Stored(peer')
      BY <2>1, <2>2 DEF MissedInv
    <2>5. \A row \in peer : row.msg # m
      BY <2>1 DEF Stored
    <2>6. CASE cpc = "down"
      <3>1. \A r \in archive : r.at <= now
        BY <1>0 DEF Table
      <3>2. ASSUME NEW row \in peer', NEW r \in archive, row.msg \in missed'
            PROVE  r.at <= row.at
        BY <2>1, <2>2, <2>5, <2>6, <3>1, <3>2 DEF MissedInv
      <3> QED BY <2>1, <2>4, <2>6, <3>2 DEF MissedInv
    <2>7. CASE cpc # "down"
      <3>1. ASSUME NEW row \in peer', Needed(row)'
            PROVE  row.at >= since
        <4>1. row \in peer /\ Needed(row)
          BY <2>1, <2>2, <2>3, <2>7, <3>1 DEF Needed
        <4> QED BY <2>7, <4>1 DEF MissedInv
      <3> QED BY <2>1, <2>4, <2>7, <3>1 DEF MissedInv
    <2> QED BY <2>6, <2>7
  <1>5. CASE StoreLive
    <2>1. cpc # "down"
      BY <1>0, <1>5 DEF StoreLive, InHand
    <2> QED BY <1>1, <1>5, <2>1 DEF StoreLive
  <1>6. ASSUME NEW m \in Messages, Receive(m)
        PROVE  MissedInv'
    BY <1>1, <1>6 DEF Receive, Running
  <1>7. CASE TryCandidates \/ CandidatesFail \/ GetNeighbor \/ DialNeighbor \/ GiveUp
    BY <1>1, <1>7 DEF TryCandidates, CandidatesFail, GetNeighbor, DialNeighbor, GiveUp, Go
  <1>8. CASE Request \/ ReadPayload \/ StoreCaught \/ ReadEnds
    <2>1. cpc # "down" /\ cpc' # "down" /\ UNCHANGED <<missed, peer, horizon, since>>
      BY <1>8 DEF Request, ReadPayload, StoreCaught, ReadEnds
    <2> QED BY <1>1, <2>1
  <1>9. CASE Tick \/ NeighborUp \/ UNCHANGED vars
    BY <1>9 DEF Tick, NeighborUp, vars, MissedInv, Needed
  <1> QED BY <1>2, <1>3, <1>4, <1>5, <1>6, <1>7, <1>8, <1>9 DEF Next, CatchupTask

\* An answer that was not cut off has everything needed; each row of it is read
\* and then stored, or the catch-up does not count as complete.
LEMMA WholeStep == ListenerInv /\ MissedInv /\ WholeInv /\ [Next]_vars => WholeInv'
  <1> SUFFICES ASSUME ListenerInv, MissedInv, WholeInv, [Next]_vars
               PROVE  WholeInv'
    OBVIOUS
  <1>0. /\ Table(archive) /\ Table(peer) /\ InHand /\ now \in 0..MaxTime /\ cpc \in CpcValues
    BY DEF ListenerInv, Scalars
  <1>1. ASSUME UNCHANGED <<missed, peer, horizon, stream, caught, cpc, whole>>,
               Stored(archive) \subseteq Stored(archive')
        PROVE  WholeInv'
    BY <1>1 DEF WholeInv, Needed
  <1>2. ASSUME ~whole'
        PROVE  WholeInv'
    BY <1>2 DEF WholeInv
  <1>3. CASE Start
    <2>1. ~whole'
      BY <1>3 DEF Start, Running, WholeInv
    <2> QED BY <1>2, <2>1
  <1>4. CASE Crash
    BY <1>2, <1>4 DEF Crash
  <1>5. CASE TryCandidates \/ CandidatesFail \/ GetNeighbor \/ DialNeighbor \/ GiveUp
    <2>1. ~whole'
      BY <1>5 DEF TryCandidates, CandidatesFail, GetNeighbor, DialNeighbor, GiveUp, Go, WholeInv
    <2> QED BY <1>2, <2>1
  <1>6. CASE Request
    <2>1. /\ cpc = "open" /\ cpc' = "read" /\ stream' \in Serve(since)
          /\ whole' => Cardinality(MessagesSince(peer, since)) <= MaxServed
          /\ UNCHANGED <<net, archive, caught>>
      BY <1>6 DEF Request
    <2>2. whole' => stream' = MessagesSince(peer, since)
      BY <1>0, <2>1, ServedRows
    <2>3. ASSUME whole', NEW row \in peer, Needed(row)
          PROVE  row.msg \in Stored(stream')
      <3>1. row.at >= since
        BY <2>1, <2>3 DEF MissedInv
      <3>2. row \in stream'
        BY <2>2, <2>3, <3>1 DEF MessagesSince
      <3> QED BY <3>2 DEF Stored
    <2> QED BY <2>1, <2>3 DEF WholeInv, Needed
  <1>7. CASE ReadPayload
    <2>1. PICK row \in stream :
            /\ stream' = stream \ {row}
            /\ IF row.msg \in Accepted
               THEN /\ emitted' = emitted \cup {row.msg}
                    /\ caught' = {row.msg} /\ cpc' = "store"
               ELSE UNCHANGED <<emitted, caught, cpc>>
      BY <1>7 DEF ReadPayload
    <2>2. cpc = "read" /\ UNCHANGED <<net, archive, live, since, whole, neighbor>> /\ caught = {}
      BY <1>0, <1>7 DEF ReadPayload, InHand
    <2>3. ASSUME whole, NEW q \in peer, Needed(q)
          PROVE  q.msg \in Stored(archive) \cup Stored(stream') \cup caught'
      <3>1. q.msg \in Accepted /\ (q.msg \in Stored(archive) \/ \E r \in stream : q.msg = r.msg)
        BY <2>2, <2>3 DEF WholeInv, Needed, Stored
      <3>2. CASE q.msg \in Stored(archive)
        BY <3>2
      <3>3. CASE \E r \in stream : q.msg = r.msg
        <4>1. PICK r \in stream : q.msg = r.msg
          BY <3>3
        <4>2. CASE r = row
          BY <2>1, <3>1, <4>1, <4>2
        <4>3. CASE r # row
          BY <2>1, <4>1, <4>3 DEF Stored
        <4> QED BY <4>2, <4>3
      <3> QED BY <3>1, <3>2, <3>3
    <2>4. cpc' \in {"read", "store"}
      BY <2>1, <2>2
    <2> QED BY <2>2, <2>3, <2>4 DEF WholeInv, Needed
  <1>8. CASE StoreCaught
    <2>1. /\ cpc' = "read" /\ UNCHANGED <<net, stream>>
      BY <1>8 DEF StoreCaught
    <2>2. PICK m \in Messages : caught = {m}
      BY <1>0, <1>8 DEF StoreCaught, InHand
    <2>3. CASE whole' = FALSE
      BY <1>2, <2>3
    <2>4. CASE archive' = UNION {Store(archive, x) : x \in caught} /\ UNCHANGED whole
      <3>1. archive' = Store(archive, m)
        BY <2>2, <2>4, StoreOne
      <3>2. Stored(archive') = Stored(archive) \cup caught
        BY <1>0, <2>2, <3>1, StoreTable
      <3> QED BY <2>1, <2>4, <3>2 DEF WholeInv, Needed
    <2> QED BY <1>8, <2>3, <2>4 DEF StoreCaught
  <1>9. CASE ReadEnds
    <2>1. /\ cpc' = "over" /\ stream' = {} /\ (whole' => whole /\ stream = {})
          /\ UNCHANGED <<net, archive, caught>>
      BY <1>9 DEF ReadEnds
    <2> QED BY <2>1 DEF WholeInv, Needed
  <1>10. CASE StoreLive
    <2>1. PICK m \in Messages : live = {m}
      BY <1>0, <1>10 DEF StoreLive, InHand
    <2>2. archive' = Store(archive, m) \/ UNCHANGED archive
      BY <1>10, <2>1, StoreOne DEF StoreLive
    <2>3. Stored(archive) \subseteq Stored(archive')
      BY <1>0, <2>2, StoreTable
    <2> QED BY <1>1, <1>10, <2>3 DEF StoreLive
  <1>11. ASSUME NEW m \in Messages, PeerStores(m)
         PROVE  WholeInv'
    <2>1. /\ m \notin Stored(peer) /\ peer' = Store(peer, m)
          /\ missed' = (IF cpc # "down" THEN missed ELSE missed \cup {m})
          /\ UNCHANGED <<horizon, archive, stream, caught, cpc, whole>>
      BY <1>11 DEF PeerStores, Running
    <2>2. CASE cpc = "down"
      BY <1>2, <2>1, <2>2 DEF WholeInv
    <2>3. CASE cpc # "down"
      <3>1. \A row \in peer' : row \in peer \/ row.msg = m
        BY <1>0, <2>1, StoreTable
      <3>2. m \notin missed
        BY <2>1 DEF MissedInv
      <3>3. \A row \in peer' : Needed(row)' => row \in peer /\ Needed(row)
        BY <2>1, <2>3, <3>1, <3>2 DEF Needed
      <3> QED BY <2>1, <3>3 DEF WholeInv
    <2> QED BY <2>2, <2>3
  <1>12. ASSUME NEW m \in Messages, Receive(m)
         PROVE  WholeInv'
    BY <1>1, <1>12 DEF Receive
  <1>13. CASE Tick \/ NeighborUp \/ UNCHANGED vars
    BY <1>1, <1>13 DEF Tick, NeighborUp, vars
  <1> QED BY <1>3, <1>4, <1>5, <1>6, <1>7, <1>8, <1>9, <1>10, <1>11, <1>12, <1>13
          DEF Next, CatchupTask

\* A catch-up that was served and stored completely has brought everything the
\* peer stored while this listener was down: run_catchup starts from the time of
\* the newest row, read before the receive task runs, rows share a second, live
\* rows are stored next to it, and nothing falls between.
THEOREM CatchupComplete == Spec => []CaughtUp
  <1>1. Init => MissedInv /\ WholeInv
    BY DEF Init, MissedInv, WholeInv, Stored, Needed
  <1>2. ListenerInv /\ MissedInv /\ WholeInv => CaughtUp
    <2> SUFFICES ASSUME ListenerInv, WholeInv, cpc = "over", whole,
                        NEW row \in peer, Needed(row)
                 PROVE  row.msg \in Stored(archive)
      BY DEF CaughtUp, Needed
    <2>1. stream = {} /\ caught = {}
      BY DEF WholeInv, ListenerInv, InHand
    <2>2. Stored(stream) = {}
      BY <2>1 DEF Stored
    <2> QED BY <2>1, <2>2 DEF WholeInv
  <1> QED BY <1>1, <1>2, ListenerInit, ListenerStep, MissedStep, WholeStep, PTL DEF Spec

=============================================================================
