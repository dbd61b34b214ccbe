--------------------------- MODULE FrontEndProofs ---------------------------
(***************************************************************************)
(* Proofs about FrontEnd, for every set of urls, every bound and both      *)
(* modes.                                                                  *)
(***************************************************************************)
EXTENDS FrontEnd, FiniteSetTheorems, SequenceTheorems, TLAPS

USE DEF PingIds

(* What the statements of dbif/src/lib.rs make of a table.                 *)

\* A table's rows, one by one.
LEMMA TableRows ==
    ASSUME NEW q \in Tables
    PROVE  /\ DOMAIN q \subseteq Urls
           /\ \A u \in DOMAIN q : q[u] \in Row
           /\ q = [u \in DOMAIN q |-> q[u]]
  BY DEF Tables

\* A function on some of the urls whose values are rows is a table.
LEMMA IsTable ==
    ASSUME NEW S \in SUBSET Urls, NEW q \in [S -> Row]
    PROVE  q \in Tables
  BY DEF Tables

\* INSERT (add_ping_to_queue) yields a table with a row more.
LEMMA InsertTable ==
    ASSUME NEW q \in Tables, NEW u \in Urls, NEW n \in PingIds, NEW r \in Reasons
    PROVE  InsertPing(q, u, n, r) \in Tables
  <1> DEFINE row == [id |-> n, rowid |-> n, reason |-> r, inflight |-> FALSE, age |-> "fresh"]
             S == DOMAIN q \cup {u}
  <1>1. row \in Row
    BY DEF Row, Ages
  <1>2. S \in SUBSET Urls /\ \A v \in DOMAIN q : q[v] \in Row
    BY TableRows
  <1>3. [v \in S |-> IF v = u THEN row ELSE q[v]] \in [S -> Row]
    BY <1>1, <1>2
  <1>. QED
    BY <1>2, <1>3, IsTable DEF InsertPing

\* update_ping_in_queue keeps the set of urls and yields a table.
LEMMA UpdateTable ==
    ASSUME NEW q \in Tables, NEW u \in Urls, NEW n \in PingIds, NEW r \in Reasons
    PROVE  UpdatePing(q, u, n, r) \in Tables
  <1> DEFINE new(v) == IF v = u
                       THEN [q[v] EXCEPT !.id = n, !.reason = r,
                                         !.inflight = FALSE, !.age = "fresh"]
                       ELSE q[v]
  <1>0. \A row \in Row : [row EXCEPT !.id = n, !.reason = r, !.inflight = FALSE, !.age = "fresh"] \in Row
    BY DEF Row, Ages
  <1>1. \A v \in DOMAIN q : new(v) \in Row
    BY <1>0, TableRows
  <1>2. [v \in DOMAIN q |-> new(v)] \in [DOMAIN q -> Row]
    BY <1>1
  <1>. QED
    BY <1>2, TableRows, IsTable DEF UpdatePing

\* set_ping_as_inflight keeps the set of urls and yields a table.
LEMMA MarkTable ==
    ASSUME NEW q \in Tables, NEW u
    PROVE  SetPingAsInflight(q, u) \in Tables
  <1> DEFINE new(v) == IF v = u THEN [q[v] EXCEPT !.inflight = TRUE] ELSE q[v]
  <1>0. \A row \in Row : [row EXCEPT !.inflight = TRUE] \in Row
    BY DEF Row
  <1>1. \A v \in DOMAIN q : new(v) \in Row
    BY <1>0, TableRows
  <1>2. [v \in DOMAIN q |-> new(v)] \in [DOMAIN q -> Row]
    BY <1>1
  <1>. QED
    BY <1>2, TableRows, IsTable DEF SetPingAsInflight

\* delete_ping_from_queue yields a table.
LEMMA DeleteTable ==
    ASSUME NEW q \in Tables, NEW us
    PROVE  DeletePings(q, us) \in Tables
  <1>1. [v \in DOMAIN q \ us |-> q[v]] \in [DOMAIN q \ us -> Row]
    BY TableRows
  <1>. QED
    BY <1>1, TableRows, IsTable DEF DeletePings

\* reset_pings_in_flight keeps the set of urls and yields a table.
LEMMA ResetTable ==
    ASSUME NEW q \in Tables, NEW us
    PROVE  ResetPings(q, us) \in Tables
  <1> DEFINE new(v) == IF v \in us THEN [q[v] EXCEPT !.inflight = FALSE, !.age = "fresh"]
                       ELSE q[v]
  <1>0. \A row \in Row : [row EXCEPT !.inflight = FALSE, !.age = "fresh"] \in Row
    BY DEF Row, Ages
  <1>1. \A v \in DOMAIN q : new(v) \in Row
    BY <1>0, TableRows
  <1>2. [v \in DOMAIN q |-> new(v)] \in [DOMAIN q -> Row]
    BY <1>1
  <1>. QED
    BY <1>2, TableRows, IsTable DEF ResetPings

\* The clock only changes a row's age.
LEMMA AgeTable ==
    ASSUME NEW q \in Tables, NEW u \in DOMAIN q
    PROVE  AgePing(q, u) \in Tables
  <1>1. [q EXCEPT ![u].age = Older(@)] \in [DOMAIN q -> Row]
    BY TableRows DEF Row, Ages, Older
  <1>. QED
    BY <1>1, TableRows, IsTable DEF AgePing

-----------------------------------------------------------------------------
(* Type correctness.                                                       *)

\* Processing a writer's reply leaves a table.
LEMMA ReplyTable ==
    ASSUME queue \in Tables, NEW reply, ApplyReply(reply)
    PROVE  queue' \in Tables
  BY DeleteTable DEF ApplyReply

\* What the queue checker fetches are pings of rows.
LEMMA FetchedPings ==
    ASSUME queue \in Tables, NEW us \in SUBSET DOMAIN queue
    PROVE  {[url |-> u, id |-> queue[u].id, reason |-> queue[u].reason,
             rowid |-> queue[u].rowid] : u \in us} \in SUBSET Fetched
  BY TableRows DEF Fetched, Row

\* A set of records made of the rows of some urls is finite and has no more
\* members than there are urls.
LEMMA FetchedCount ==
    ASSUME queue \in Tables, NEW us \in SUBSET DOMAIN queue
    PROVE  LET S == {[url |-> u, id |-> queue[u].id, reason |-> queue[u].reason,
                      rowid |-> queue[u].rowid] : u \in us}
           IN  IsFiniteSet(S) /\ Cardinality(S) <= Cardinality(us)
  <1> DEFINE g(u) == [url |-> u, id |-> queue[u].id, reason |-> queue[u].reason,
                      rowid |-> queue[u].rowid]
             S == {g(u) : u \in us}
             f == [u \in us |-> g(u)]
  <1>1. IsFiniteSet(us)
    BY TableRows, QueueDbAssumption, FS_Subset
  <1>2. f \in Surjection(us, S)
    <2>1. f \in [us -> S]
      OBVIOUS
    <2>2. \A s \in S : \E u \in us : f[u] = s
      OBVIOUS
    <2> HIDE DEF f, S
    <2>. QED
      BY <2>1, <2>2 DEF Surjection
  <1> HIDE DEF f, S
  <1>3. IsFiniteSet(S) /\ Cardinality(S) <= Cardinality(us)
    BY <1>1, <1>2, FS_Surjection
  <1>. QED
    BY <1>3 DEF S

\* Every variable keeps its type in every step of handlers, queue checker,
\* writers, clock and restarts.
THEOREM TypeCorrect == Spec => []TypeOK
  <1> USE DEF TypeOK
  <1>1. Init => TypeOK
    <2>1. EmptyTable \in [{} -> Row] /\ {} \in SUBSET Urls
      BY DEF EmptyTable
    <2>2. EmptyTable \in Tables
      BY <2>1, IsTable
    <2>. QED
      BY <2>2, FS_EmptySet, QueueDbAssumption, FrontEndAssumption DEF Init, PcValues
  <1>2. TypeOK /\ [Next]_vars => TypeOK'
    <2> SUFFICES ASSUME TypeOK, [Next]_vars
                 PROVE  TypeOK'
      OBVIOUS
    <2> USE DEF loopVars, socketVars, workVars, histVars
    <2>1. ASSUME NEW u \in Urls, NEW reason \in Reasons, AddPing(u, reason)
          PROVE  TypeOK'
      <3>1. pings + 1 \in PingIds /\ pings' \in 0..MaxPings
        BY <2>1, QueueDbAssumption DEF AddPing
      <3>2. queue' \in Tables
        BY <2>1, <3>1, InsertTable DEF AddPing
      <3>3. updating' \in SUBSET Ping
        BY <2>1, <3>1 DEF AddPing, Ping
      <3>. QED
        BY <2>1, <3>1, <3>2, <3>3 DEF AddPing
    <2>2. ASSUME NEW p \in updating, UpdatePingInQueue(p)
          PROVE  TypeOK'
      <3>1. p.url \in Urls /\ p.id \in PingIds /\ p.reason \in Reasons
        BY <2>2 DEF Ping
      <3>2. queue' \in Tables
        BY <2>2, <3>1, UpdateTable DEF UpdatePingInQueue
      <3>. QED
        BY <2>2, <3>2 DEF UpdatePingInQueue
    <2>3. CASE ReceiveHive
      <3>1. queue' \in Tables
        BY <2>3, ReplyTable DEF ReceiveHive
      <3>2. hiveIn' \in Seq(Reply)
        <4>1. hiveIn' = hiveIn \/ (hiveIn # <<>> /\ hiveIn' = Tail(hiveIn))
          BY <2>3 DEF ReceiveHive
        <4>. QED
          BY <4>1, HeadTailProperties
      <3>3. pc' \in PcValues
        BY <2>3 DEF ReceiveHive, PcValues
      <3>. QED
        BY <2>3, <3>1, <3>2, <3>3 DEF ReceiveHive
    <2>4. CASE ReceiveGossip
      <3>1. queue' \in Tables
        BY <2>4, ReplyTable DEF ReceiveGossip
      <3>. QED
        BY <2>4, <3>1 DEF ReceiveGossip
    <2>5. CASE NoMoreGossip
      BY <2>5 DEF NoMoreGossip, AfterPing, PcValues, Fetched
    <2>6. CASE Fetch
      <3>1. batch' \in SUBSET Fetched
        BY <2>6, FetchedPings DEF Fetch
      <3>2. IsFiniteSet(batch') /\ Cardinality(batch') <= BatchSize
        <4>1. CASE batch' = batch
          BY <4>1
        <4>2. ASSUME NEW us \in SUBSET DOMAIN queue, Cardinality(us) <= BatchSize,
                     batch' = {[url |-> u, id |-> queue[u].id, reason |-> queue[u].reason,
                                rowid |-> queue[u].rowid] : u \in us}
              PROVE  IsFiniteSet(batch') /\ Cardinality(batch') <= BatchSize
          <5>1. IsFiniteSet(batch') /\ Cardinality(batch') <= Cardinality(us)
            BY <4>2, FetchedCount
          <5>2. IsFiniteSet(us)
            BY <4>2, TableRows, QueueDbAssumption, FS_Subset
          <5>3. Cardinality(us) \in Nat /\ Cardinality(batch') \in Nat
            BY <5>1, <5>2, FS_CardinalityType
          <5>. QED
            BY <4>2, <5>1, <5>3, QueueDbAssumption
        <4>. QED
          BY <2>6, <4>1, <4>2 DEF Fetch, GetPingsFromQueue
      <3>. QED
        BY <2>6, <3>1, <3>2 DEF Fetch, PcValues
    <2>7. CASE SendGossip
      <3>1. \A p \in batch : p.url \in Urls
        BY DEF Fetched
      <3>2. gossipOut' \in Seq(Urls) /\ handed' \in SUBSET Urls
        <4>1. \/ gossipOut' = gossipOut /\ handed' = handed
              \/ \E p \in batch : gossipOut' = Append(gossipOut, p.url)
                                  /\ handed' = handed \cup {p.url}
          BY <2>7 DEF SendGossip
        <4>2. gossipOut \in Seq(Urls) /\ handed \in SUBSET Urls
          OBVIOUS
        <4> HIDE DEF TypeOK
        <4>. QED
          BY <3>1, <4>1, <4>2, AppendProperties
      <3>3. batch' \in SUBSET Fetched /\ cur' \in SUBSET Fetched
        BY <2>7 DEF SendGossip
      <3>4. IsFiniteSet(batch') /\ Cardinality(batch') <= BatchSize
        <4>1. batch' \subseteq batch
          BY <2>7 DEF SendGossip
        <4>2. IsFiniteSet(batch') /\ Cardinality(batch') <= Cardinality(batch)
          BY <4>1, FS_Subset
        <4>3. Cardinality(batch') \in Nat /\ Cardinality(batch) \in Nat
          BY <4>2, FS_CardinalityType
        <4>. QED
          BY <4>2, <4>3, QueueDbAssumption
      <3>. QED
        BY <2>7, <3>2, <3>3, <3>4 DEF SendGossip, PcValues
    <2>8. CASE SendHive
      <3>1. \A p \in cur : p.url \in Urls /\ p.id \in PingIds
        BY DEF Fetched
      <3>2. hiveOut' \in Seq(Urls) /\ Len(hiveOut') <= HiveHwm /\ handed' \in SUBSET Urls
        BY <2>8, <3>1, FrontEndAssumption DEF SendHive
      <3>3. outstanding' \in SUBSET PingIds
        BY <2>8, <3>1 DEF SendHive
      <3>. QED
        BY <2>8, <3>2, <3>3 DEF SendHive, PcValues
    <2>9. CASE SendHiveFails
      BY <2>9, FS_EmptySet, QueueDbAssumption, FrontEndAssumption DEF SendHiveFails, PcValues
    <2>10. CASE Mark
      <3>1. queue' \in Tables
        BY <2>10, MarkTable, DeleteTable DEF Mark
      <3>. QED
        BY <2>10, <3>1 DEF Mark, PcValues
    <2>11. CASE Reset
      <3>1. queue' \in Tables
        BY <2>11, ResetTable DEF Reset
      <3>. QED
        BY <2>11, <3>1 DEF Reset, PcValues
    <2>12. CASE Restart
      <3>1. losses' \in 0..MaxLosses
        BY <2>12, FrontEndAssumption DEF Restart
      <3>2. outstanding' \subseteq outstanding
        BY <2>12, Zenon DEF Restart
      <3>3. outstanding' \in SUBSET PingIds
        BY <3>2
      <3>. QED
        BY <2>12, <3>1, <3>3, FS_EmptySet, QueueDbAssumption, FrontEndAssumption DEF Restart, PcValues
    <2>13. ASSUME NEW u \in DOMAIN queue, Tick(u)
           PROVE  TypeOK'
      <3>1. queue' \in Tables
        BY <2>13, AgeTable DEF Tick
      <3>. QED
        BY <2>13, <3>1 DEF Tick
    <2>14. CASE HiveTake
      BY <2>14, FrontEndAssumption DEF HiveTake
    <2>15. CASE HiveWrites
      BY <2>15 DEF HiveWrites, Reply, ReplyKinds
    <2>16. CASE HiveFails
      BY <2>16 DEF HiveFails, Reply, ReplyKinds
    <2>17. CASE HiveLoses
      <3>1. losses' \in 0..MaxLosses
        BY <2>17, FrontEndAssumption DEF HiveLoses
      <3>2. hiveIn' \in Seq(Reply) /\ hiveWork' \in SUBSET Urls
        <4>1. PICK u \in hiveWork :
                /\ hiveWork' = hiveWork \ {u}
                /\ \/ hiveIn' = hiveIn
                   \/ hiveIn' = Append(hiveIn, [kind |-> "block0", urls |-> {u}])
          BY <2>17 DEF HiveLoses
        <4>2. [kind |-> "block0", urls |-> {u}] \in Reply
          BY DEF Reply, ReplyKinds
        <4>3. hiveIn \in Seq(Reply) /\ hiveWork \in SUBSET Urls
          OBVIOUS
        <4> HIDE DEF TypeOK
        <4>. QED
          BY <4>1, <4>2, <4>3, AppendProperties
      <3>. QED
        BY <2>17, <3>1, <3>2 DEF HiveLoses
    <2>18. CASE GossipTake
      BY <2>18 DEF GossipTake
    <2>19. CASE GossipWrites
      <3>1. gossipIn' \in Seq(Reply) /\ gossipWork' \in SUBSET Urls
        <4>1. PICK u \in gossipWork :
                /\ gossipWork' = gossipWork \ {u}
                /\ \/ gossipIn' = gossipIn
                   \/ gossipIn' = Append(gossipIn, [kind |-> "tx", urls |-> {u}])
          BY <2>19 DEF GossipWrites
        <4>2. [kind |-> "tx", urls |-> {u}] \in Reply
          BY DEF Reply, ReplyKinds
        <4>3. gossipIn \in Seq(Reply) /\ gossipWork \in SUBSET Urls
          OBVIOUS
        <4> HIDE DEF TypeOK
        <4>. QED
          BY <4>1, <4>2, <4>3, AppendProperties
      <3>. QED
        BY <2>19, <3>1 DEF GossipWrites
    <2>20. CASE UNCHANGED vars
      BY <2>20 DEF vars
    <2>. QED
      BY <2>1, <2>2, <2>3, <2>4, <2>5, <2>6, <2>7, <2>8, <2>9, <2>10, <2>11, <2>12,
         <2>13, <2>14, <2>15, <2>16, <2>17, <2>18, <2>19, <2>20
         DEF Next, Handler, QueueChecker, Writers
  <1>. QED
    BY <1>1, <1>2, PTL DEF Spec

-----------------------------------------------------------------------------
(* Nothing is removed before it was sent.                                  *)

HandedReply == [kind : ReplyKinds, urls : SUBSET handed]

\* Everything on its way to a writer, with a writer or on its way back is
\* about a url that was put on a socket.
HandedInv ==
    /\ hiveOut \in Seq(handed)
    /\ gossipOut \in Seq(handed)
    /\ hiveIn \in Seq(HandedReply)
    /\ gossipIn \in Seq(HandedReply)
    /\ hiveWork \subseteq handed
    /\ gossipWork \subseteq handed
    /\ \A p, q \in cur : p = q
    /\ pc = "mark" => \A p \in cur : p.url \in handed

\* A reply removes urls that were handed to a writer, and nothing else.
LEMMA ReplyRemovesHanded ==
    ASSUME NEW replies \in Seq(HandedReply), replies # <<>>,
           ApplyReply(Head(replies))
    PROVE  \A u \in DOMAIN queue \ DOMAIN queue' : u \in handed
  <1>0. Head(replies) \in HandedReply
    BY HeadTailProperties
  <1>1. Head(replies).urls \subseteq handed
    BY <1>0 DEF HandedReply
  <1>2. DOMAIN queue \ DOMAIN queue' \subseteq Removes(Head(replies))
    BY DEF ApplyReply, DeletePings
  <1>. QED
    BY <1>1, <1>2 DEF Removes

\* Putting one more url on a socket keeps the invariant's typing of the pipes.
LEMMA HandedGrows ==
    ASSUME HandedInv, NEW u, handed' = handed \cup {u}
    PROVE  /\ hiveOut \in Seq(handed')
           /\ gossipOut \in Seq(handed')
           /\ hiveIn \in Seq(HandedReply')
           /\ gossipIn \in Seq(HandedReply')
           /\ Append(hiveOut, u) \in Seq(handed')
           /\ Append(gossipOut, u) \in Seq(handed')
  <1>1. handed \subseteq handed' /\ u \in handed'
    OBVIOUS
  <1>2. HandedReply \subseteq HandedReply'
    BY <1>1 DEF HandedReply
  <1>3. hiveOut \in Seq(handed') /\ gossipOut \in Seq(handed')
    BY <1>1, SeqMonotonic DEF HandedInv
  <1>4. hiveIn \in Seq(HandedReply') /\ gossipIn \in Seq(HandedReply')
    BY <1>2, SeqMonotonic DEF HandedInv
  <1>. QED
    BY <1>1, <1>3, <1>4, AppendProperties

\* Every step keeps what HandedInv says of the pipes, the writers and the
\* queue checker: they hold urls that were put on a socket, and no others.
LEMMA HandedInductive == HandedInv /\ [Next]_vars => HandedInv'
  <1> SUFFICES ASSUME HandedInv, [Next]_vars
               PROVE  HandedInv'
    OBVIOUS
  <1> USE DEF loopVars, socketVars, workVars, histVars
  <1>1. ASSUME UNCHANGED <<socketVars, workVars, handed>>, cur' \subseteq cur,
               pc' # "mark" \/ UNCHANGED pc
        PROVE  HandedInv'
    BY <1>1 DEF HandedInv, HandedReply
  <1>2. ASSUME NEW u \in Urls, NEW reason \in Reasons, AddPing(u, reason)
        PROVE  HandedInv'
    BY <1>1, <1>2 DEF AddPing
  <1>3. ASSUME NEW p \in updating, UpdatePingInQueue(p)
        PROVE  HandedInv'
    BY <1>1, <1>3 DEF UpdatePingInQueue
  <1>4. CASE ReceiveHive
    <2>1. hiveIn' = hiveIn \/ (hiveIn # <<>> /\ hiveIn' = Tail(hiveIn))
      BY <1>4 DEF ReceiveHive
    <2>2. hiveIn' \in Seq(HandedReply)
      BY <2>1, HeadTailProperties DEF HandedInv
    <2>3. pc' # "mark" /\ UNCHANGED <<cur, hiveOut, gossipOut, gossipIn, workVars, handed>>
      BY <1>4 DEF ReceiveHive
    <2>. QED
      BY <2>2, <2>3 DEF HandedInv, HandedReply
  <1>5. CASE ReceiveGossip
    <2>1. gossipIn' \in Seq(HandedReply)
      BY <1>5, HeadTailProperties DEF ReceiveGossip, HandedInv
    <2>2. UNCHANGED <<hiveOut, hiveIn, gossipOut, workVars, handed, pc, cur>>
      BY <1>5 DEF ReceiveGossip
    <2>. QED
      BY <2>1, <2>2 DEF HandedInv, HandedReply
  <1>6. CASE NoMoreGossip
    BY <1>1, <1>6 DEF NoMoreGossip, AfterPing
  <1>7. CASE Fetch
    BY <1>1, <1>7 DEF Fetch
  <1>8. CASE SendGossip
    <2>1. PICK p \in batch :
            IF GossipEnabled /\ Len(gossipOut) < GossipHwm
            THEN gossipOut' = Append(gossipOut, p.url) /\ handed' = handed \cup {p.url}
            ELSE UNCHANGED <<gossipOut, handed>>
      BY <1>8 DEF SendGossip
    <2>2. pc' # "mark" /\ UNCHANGED <<hiveOut, hiveIn, gossipIn, workVars>>
          /\ \A q, t \in cur' : q = t
      BY <1>8 DEF SendGossip
    <2>3. CASE UNCHANGED <<gossipOut, handed>>
      BY <2>2, <2>3 DEF HandedInv, HandedReply
    <2>4. CASE gossipOut' = Append(gossipOut, p.url) /\ handed' = handed \cup {p.url}
      BY <2>2, <2>4, HandedGrows DEF HandedInv
    <2>. QED
      BY <2>1, <2>3, <2>4
  <1>9. CASE SendHive
    <2>1. PICK p \in cur : hiveOut' = Append(hiveOut, p.url) /\ handed' = handed \cup {p.url}
      BY <1>9 DEF SendHive
    <2>. QED
      BY <1>9, <2>1, HandedGrows DEF SendHive, HandedInv
  <1>10. CASE SendHiveFails
    BY <1>10, EmptySeq DEF SendHiveFails, HandedInv, HandedReply
  <1>11. CASE Mark
    BY <1>1, <1>11 DEF Mark
  <1>12. CASE Reset
    BY <1>1, <1>12 DEF Reset
  <1>13. CASE Restart
    BY <1>13, EmptySeq DEF Restart, HandedInv, HandedReply
  <1>14. ASSUME NEW u \in DOMAIN queue, Tick(u)
         PROVE  HandedInv'
    BY <1>1, <1>14 DEF Tick
  <1>15. CASE HiveTake
    <2>1. Head(hiveOut) \in handed /\ Tail(hiveOut) \in Seq(handed)
      BY <1>15, HeadTailProperties DEF HiveTake, HandedInv
    <2>. QED
      BY <1>15, <2>1 DEF HiveTake, HandedInv, HandedReply
  <1>16. CASE HiveWrites
    <2>1. PICK done \in SUBSET hiveWork :
            /\ hiveIn' = Append(hiveIn, [kind |-> "tx", urls |-> done])
            /\ hiveWork' = hiveWork \ done
      BY <1>16 DEF HiveWrites
    <2>2. [kind |-> "tx", urls |-> done] \in HandedReply
      BY DEF HandedInv, HandedReply, ReplyKinds
    <2>3. hiveIn' \in Seq(HandedReply)
      BY <2>1, <2>2, AppendProperties DEF HandedInv
    <2>. QED
      BY <1>16, <2>1, <2>3 DEF HiveWrites, HandedInv, HandedReply
  <1>17. CASE HiveFails
    <2>1. PICK u \in hiveWork :
            /\ hiveIn' = Append(hiveIn, [kind |-> "error", urls |-> {u}])
            /\ hiveWork' = hiveWork \ {u}
      BY <1>17 DEF HiveFails
    <2>2. [kind |-> "error", urls |-> {u}] \in HandedReply
      BY DEF HandedInv, HandedReply, ReplyKinds
    <2>3. hiveIn' \in Seq(HandedReply)
      BY <2>1, <2>2, AppendProperties DEF HandedInv
    <2>. QED
      BY <1>17, <2>1, <2>3 DEF HiveFails, HandedInv, HandedReply
  <1>18. CASE HiveLoses
    <2>1. PICK u \in hiveWork :
            /\ \/ hiveIn' = hiveIn
               \/ hiveIn' = Append(hiveIn, [kind |-> "block0", urls |-> {u}])
            /\ hiveWork' = hiveWork \ {u}
      BY <1>18 DEF HiveLoses
    <2>2. [kind |-> "block0", urls |-> {u}] \in HandedReply
      BY DEF HandedInv, HandedReply, ReplyKinds
    <2>3. hiveIn' \in Seq(HandedReply)
      <3>1. hiveIn \in Seq(HandedReply)
        BY DEF HandedInv
      <3>. QED
        BY <2>1, <2>2, <3>1, AppendProperties
    <2>. QED
      BY <1>18, <2>1, <2>3 DEF HiveLoses, HandedInv, HandedReply
  <1>19. CASE GossipTake
    <2>1. Head(gossipOut) \in handed /\ Tail(gossipOut) \in Seq(handed)
      BY <1>19, HeadTailProperties DEF GossipTake, HandedInv
    <2>. QED
      BY <1>19, <2>1 DEF GossipTake, HandedInv, HandedReply
  <1>20. CASE GossipWrites
    <2>1. PICK u \in gossipWork :
            /\ gossipWork' = gossipWork \ {u}
            /\ \/ gossipIn' = gossipIn
               \/ gossipIn' = Append(gossipIn, [kind |-> "tx", urls |-> {u}])
      BY <1>20 DEF GossipWrites
    <2>2. [kind |-> "tx", urls |-> {u}] \in HandedReply
      BY DEF HandedInv, HandedReply, ReplyKinds
    <2>3. gossipIn' \in Seq(HandedReply)
      <3>1. gossipIn \in Seq(HandedReply)
        BY DEF HandedInv
      <3>. QED
        BY <2>1, <2>2, <3>1, AppendProperties
    <2>. QED
      BY <1>20, <2>1, <2>3 DEF GossipWrites, HandedInv, HandedReply
  <1>21. CASE UNCHANGED vars
    BY <1>1, <1>21 DEF vars
  <1>. QED
    BY <1>2, <1>3, <1>4, <1>5, <1>6, <1>7, <1>8, <1>9, <1>10, <1>11, <1>12,
       <1>13, <1>14, <1>15, <1>16, <1>17, <1>18, <1>19, <1>20, <1>21
       DEF Next, Handler, QueueChecker, Writers

\* The pipes are empty to begin with.
LEMMA HandedInitially == Init => HandedInv
  BY EmptySeq DEF Init, HandedInv

\* In every step the rows that go are rows whose url was put on a socket.
LEMMA RemovesHanded ==
    HandedInv /\ [Next]_vars => \A u \in DOMAIN queue \ DOMAIN queue' : u \in handed
  <1> DEFINE Removal == \A u \in DOMAIN queue \ DOMAIN queue' : u \in handed
  <1> SUFFICES ASSUME HandedInv, [Next]_vars
               PROVE  Removal
    OBVIOUS
  <1> USE DEF loopVars, socketVars, workVars, histVars
  <1>1. ASSUME NEW u \in Urls, NEW reason \in Reasons, AddPing(u, reason)
        PROVE  Removal
    BY <1>1 DEF AddPing, InsertPing
  <1>2. ASSUME NEW p \in updating, UpdatePingInQueue(p)
        PROVE  Removal
    BY <1>2 DEF UpdatePingInQueue, UpdatePing
  <1>3. CASE ReceiveHive
    BY <1>3, ReplyRemovesHanded DEF ReceiveHive, HandedInv
  <1>4. CASE ReceiveGossip
    BY <1>4, ReplyRemovesHanded DEF ReceiveGossip, HandedInv
  <1>5. CASE Mark
    BY <1>5 DEF Mark, HandedInv, DeletePings, SetPingAsInflight
  <1>6. CASE Reset
    BY <1>6 DEF Reset, ResetPings
  <1>7. ASSUME NEW u \in DOMAIN queue, Tick(u)
        PROVE  Removal
    BY <1>7 DEF Tick, AgePing
  <1>8. CASE NoMoreGossip \/ Fetch \/ SendGossip \/ SendHive \/ SendHiveFails
             \/ Restart \/ Writers \/ UNCHANGED vars
    BY <1>8 DEF NoMoreGossip, Fetch, SendGossip, SendHive, SendHiveFails, Restart, vars,
                Writers, HiveTake, HiveWrites, HiveFails, HiveLoses, GossipTake, GossipWrites
  <1>. QED
    BY <1>1, <1>2, <1>3, <1>4, <1>5, <1>6, <1>7, <1>8 DEF Next, Handler, QueueChecker

\* Whatever is lost, answered late, answered twice or restarted, a row only
\* leaves the table after its url was put on a socket.
THEOREM RemovedAfterSend == Spec => RemovedOnlyAfterSend
  BY HandedInitially, HandedInductive, RemovesHanded, PTL DEF Spec, RemovedOnlyAfterSend

\* A handler on its way from the failed INSERT to the UPDATE loses its row
\* only to the removal of a ping of the same url that was sent.
THEOREM UpdateFindsRow == Spec => []UpdateFindsRowOrSent
  <1>1. Init => UpdateFindsRowOrSent
    BY DEF Init, UpdateFindsRowOrSent
  <1>2. UpdateFindsRowOrSent /\ HandedInv /\ [Next]_vars => UpdateFindsRowOrSent'
    <2> SUFFICES ASSUME UpdateFindsRowOrSent, HandedInv, [Next]_vars
                 PROVE  UpdateFindsRowOrSent'
      OBVIOUS
    <2> USE DEF loopVars, socketVars, workVars, histVars
    <2>1. \A u \in DOMAIN queue \ DOMAIN queue' : u \in handed
      BY RemovesHanded
    <2>2. handed \subseteq handed'
      <3>1. CASE SendGossip \/ SendHive
        BY <3>1 DEF SendGossip, SendHive
      <3>2. CASE ReceiveHive \/ ReceiveGossip \/ NoMoreGossip \/ Fetch \/ SendHiveFails
                 \/ Mark \/ Reset \/ Restart \/ Writers \/ Handler \/ UNCHANGED vars
                 \/ \E u \in DOMAIN queue : Tick(u)
        BY <3>2 DEF ReceiveHive, ReceiveGossip, NoMoreGossip, Fetch, SendHiveFails, Mark,
                    Reset, Restart, vars, Tick, Handler, AddPing, UpdatePingInQueue, Writers,
                    HiveTake, HiveWrites, HiveFails, HiveLoses, GossipTake, GossipWrites
      <3>. QED
        BY <3>1, <3>2 DEF Next, QueueChecker
    <2>3. ASSUME NEW u \in Urls, NEW reason \in Reasons, AddPing(u, reason)
          PROVE  UpdateFindsRowOrSent'
      <3>1. CASE updating' = updating
        BY <2>1, <2>2, <3>1 DEF UpdateFindsRowOrSent
      <3>2. CASE /\ u \in DOMAIN queue \/ DbMayFail
                 /\ updating' = updating \cup
                        {[url |-> u, id |-> pings + 1, reason |-> reason]}
                 /\ UNCHANGED queue
        BY <2>2, <3>2 DEF UpdateFindsRowOrSent
      <3>. QED
        BY <2>3, <3>1, <3>2 DEF AddPing
    <2>4. CASE updating' \subseteq updating
      BY <2>1, <2>2, <2>4 DEF UpdateFindsRowOrSent
    <2>5. CASE QueueChecker \/ Writers \/ Restart \/ UNCHANGED vars
               \/ (\E u \in DOMAIN queue : Tick(u))
               \/ \E p \in updating : UpdatePingInQueue(p)
      <3>1. updating' \subseteq updating
        BY <2>5 DEF QueueChecker, ReceiveHive, ReceiveGossip, NoMoreGossip, Fetch, SendGossip,
                    SendHive, SendHiveFails, Mark, Reset, Restart, vars, Tick,
                    UpdatePingInQueue, Writers, HiveTake, HiveWrites, HiveFails, HiveLoses,
                    GossipTake, GossipWrites
      <3>. QED
        BY <2>4, <3>1
    <2>. QED
      BY <2>3, <2>5 DEF Next, Handler
  <1>. QED
    BY <1>1, <1>2, HandedInitially, HandedInductive, PTL DEF Spec

-----------------------------------------------------------------------------
(* A ping is not sent again while it is outstanding.                       *)

\* No ping is newer than the last accepted request.
FreshIds ==
    /\ \A u \in DOMAIN queue : queue[u].id <= pings
    /\ \A p \in updating \cup batch \cup cur : p.id <= pings
    /\ \A i \in outstanding : i <= pings

\* Where the queue checker holds no ping.
IdlePcs == {"hive1", "gossip1", "fetch", "sendGossip", "reset"}

\* A ping is in one place: a row, a handler, or (as a copy of a row of its
\* own url) the queue checker's batch or hands.
OneOwner ==
    /\ \A u, v \in DOMAIN queue : queue[u].id = queue[v].id => u = v
    /\ \A p, q \in updating : p.id = q.id => p = q
    /\ \A p \in updating : \A u \in DOMAIN queue : queue[u].id # p.id
    /\ \A p \in updating : \A q \in batch \cup cur : q.id # p.id
    /\ \A p, q \in batch : p.id = q.id => p = q
    /\ \A p \in batch, q \in cur : p.id # q.id
    /\ \A p, q \in cur : p = q
    /\ pc \in IdlePcs => cur = {}
    /\ \A p \in batch \cup cur : \A u \in DOMAIN queue : queue[u].id = p.id => u = p.url

\* What may still be sent is not outstanding.  The exception is the row whose
\* ping was sent and is not yet marked.
NotOutstanding ==
    /\ \A p \in updating : p.id \notin outstanding
    /\ \A p \in batch : p.id \notin outstanding
    /\ pc = "sendHive" => \A p \in cur : p.id \notin outstanding
    /\ \A u \in DOMAIN queue : ~queue[u].inflight /\ queue[u].id \in outstanding =>
          pc = "mark" /\ \E p \in cur : p.id = queue[u].id

SendInv == FreshIds /\ OneOwner /\ NotOutstanding

\* Deleting rows, by a reply or in ephemeral mode, keeps SendInv.
LEMMA DeleteKeepsSendInv ==
    ASSUME SendInv, NEW us, queue' = DeletePings(queue, us),
           UNCHANGED <<pings, updating, batch, cur, outstanding>>,
           pc = "mark" => pc' = "mark" \/ \A p \in cur : p.url \in us,
           pc' = "sendHive" => pc = "sendHive",
           pc' \in IdlePcs => pc \in IdlePcs
    PROVE  SendInv'
  <1>1. /\ DOMAIN queue' \subseteq DOMAIN queue
        /\ \A u \in DOMAIN queue' : queue'[u] = queue[u] /\ u \notin us
    BY DEF DeletePings
  <1>2. FreshIds' /\ OneOwner'
    BY <1>1 DEF SendInv, FreshIds, OneOwner
  <1>3. NotOutstanding'
    BY <1>1 DEF SendInv, NotOutstanding, OneOwner
  <1>. QED
    BY <1>2, <1>3 DEF SendInv

\* A step that leaves the table and the queue checker's pings alone keeps it.
LEMMA StutterKeepsSendInv ==
    ASSUME SendInv, UNCHANGED <<queue, pings, updating, batch, cur, outstanding>>,
           pc = "mark" => pc' = "mark",
           pc' = "sendHive" => pc = "sendHive",
           pc' \in IdlePcs => pc \in IdlePcs
    PROVE  SendInv'
  BY DEF SendInv, FreshIds, OneOwner, NotOutstanding

\* Every step keeps SendInv: ids are fresh, a ping has one owner among the
\* table, the handlers and the checker's snapshot, and what is about to be
\* sent is not outstanding.
LEMMA SendInductive == TypeOK /\ SendInv /\ [Next]_vars => SendInv'
  <1> SUFFICES ASSUME TypeOK, SendInv, [Next]_vars
               PROVE  SendInv'
    OBVIOUS
  <1> USE DEF loopVars, socketVars, workVars, histVars
  <1>0. /\ \A u \in DOMAIN queue : queue[u] \in Row
        /\ pings \in Nat
        /\ outstanding \subseteq PingIds
        /\ updating \subseteq Ping /\ batch \subseteq Fetched /\ cur \subseteq Fetched
    BY TableRows, QueueDbAssumption DEF TypeOK
  <1>1. ASSUME NEW u \in Urls, NEW reason \in Reasons, AddPing(u, reason)
        PROVE  SendInv'
    <2>1. UNCHANGED <<pc, batch, cur, outstanding>> /\ pings' = pings + 1
      BY <1>1 DEF AddPing
    <2>2. CASE u \notin DOMAIN queue /\ queue' = InsertPing(queue, u, pings + 1, reason)
               /\ UNCHANGED updating
      <3>1. /\ DOMAIN queue' = DOMAIN queue \cup {u}
            /\ queue'[u].id = pings + 1 /\ ~queue'[u].inflight
            /\ \A v \in DOMAIN queue : queue'[v] = queue[v]
        BY <2>2 DEF InsertPing
      <3>2. FreshIds'
        BY <1>0, <2>1, <2>2, <3>1 DEF SendInv, FreshIds, Row, Ping, Fetched
      <3>3. OneOwner'
        BY <1>0, <2>1, <2>2, <3>1 DEF SendInv, FreshIds, OneOwner, Row, Ping, Fetched
      <3>4. NotOutstanding'
        BY <1>0, <2>1, <2>2, <3>1 DEF SendInv, FreshIds, NotOutstanding
      <3>. QED
        BY <3>2, <3>3, <3>4 DEF SendInv
    <2>3. CASE UNCHANGED queue /\
               \/ UNCHANGED updating
               \/ updating' = updating \cup {[url |-> u, id |-> pings + 1, reason |-> reason]}
      <3> DEFINE new == [url |-> u, id |-> pings + 1, reason |-> reason]
      <3>1. updating' \subseteq updating \cup {new} /\ new.id = pings + 1
        BY <2>3
      <3> HIDE DEF new
      <3>2. FreshIds'
        BY <1>0, <2>1, <2>3, <3>1 DEF SendInv, FreshIds, Row, Ping, Fetched
      <3>3. OneOwner'
        BY <1>0, <2>1, <2>3, <3>1 DEF SendInv, FreshIds, OneOwner, Row, Ping, Fetched
      <3>4. NotOutstanding'
        BY <1>0, <2>1, <2>3, <3>1 DEF SendInv, FreshIds, NotOutstanding
      <3>. QED
        BY <3>2, <3>3, <3>4 DEF SendInv
    <2>. QED
      BY <1>1, <2>2, <2>3 DEF AddPing
  <1>2. ASSUME NEW p \in updating, UpdatePingInQueue(p)
        PROVE  SendInv'
    <2>1. UNCHANGED <<pc, batch, cur, outstanding, pings>> /\ updating' = updating \ {p}
      BY <1>2 DEF UpdatePingInQueue
    <2>2. CASE UNCHANGED queue
      BY <2>1, <2>2 DEF SendInv, FreshIds, OneOwner, NotOutstanding
    <2>3. CASE queue' = UpdatePing(queue, p.url, p.id, p.reason)
      <3>1. /\ DOMAIN queue' = DOMAIN queue
            /\ \A v \in DOMAIN queue : v # p.url => queue'[v] = queue[v]
        BY <2>3 DEF UpdatePing
      <3>2. p.url \in DOMAIN queue => queue'[p.url].id = p.id /\ ~queue'[p.url].inflight
        BY <1>0, <2>3 DEF UpdatePing, Row
      <3>3. FreshIds'
        BY <1>0, <2>1, <3>1, <3>2 DEF SendInv, FreshIds
      <3>4. OneOwner'
        BY <1>0, <2>1, <3>1, <3>2 DEF SendInv, OneOwner
      <3>5. NotOutstanding'
        BY <1>0, <2>1, <3>1, <3>2 DEF SendInv, NotOutstanding
      <3>. QED
        BY <3>3, <3>4, <3>5 DEF SendInv
    <2>. QED
      BY <1>2, <2>2, <2>3 DEF UpdatePingInQueue
  <1>3. CASE ReceiveHive
    BY <1>3, DeleteKeepsSendInv, StutterKeepsSendInv DEF ReceiveHive, ApplyReply, IdlePcs
  <1>4. CASE ReceiveGossip
    BY <1>4, DeleteKeepsSendInv, StutterKeepsSendInv DEF ReceiveGossip, ApplyReply
  <1>5. CASE NoMoreGossip
    <2>1. /\ pc # "mark" /\ pc' # "sendHive"
          /\ UNCHANGED <<queue, pings, updating, batch, outstanding>>
          /\ (cur' = cur /\ pc \in IdlePcs) \/ cur' = {}
      BY <1>5 DEF NoMoreGossip, AfterPing, IdlePcs
    <2>. QED
      BY <2>1 DEF SendInv, FreshIds, OneOwner, NotOutstanding
  <1>6. CASE Fetch
    <2>1. /\ pc = "fetch" /\ pc' # "sendHive"
          /\ UNCHANGED <<queue, pings, updating, cur, outstanding>>
      BY <1>6 DEF Fetch
    <2>2. CASE UNCHANGED batch
      BY <2>1, <2>2, StutterKeepsSendInv DEF IdlePcs
    <2>3. ASSUME NEW us \in SUBSET DOMAIN queue, GetPingsFromQueue(queue, us),
                 batch' = {[url |-> u, id |-> queue[u].id, reason |-> queue[u].reason,
                            rowid |-> queue[u].rowid] : u \in us}
          PROVE  SendInv'
      <3>1. cur = {}
        BY <2>1 DEF SendInv, OneOwner, IdlePcs
      <3>2. \A p \in batch' : /\ p.url \in DOMAIN queue
                              /\ p.id = queue[p.url].id
                              /\ ~queue[p.url].inflight
                              /\ p = [url |-> p.url, id |-> queue[p.url].id,
                                      reason |-> queue[p.url].reason,
                                      rowid |-> queue[p.url].rowid]
        BY <2>3 DEF GetPingsFromQueue, Sendable
      <3>3. FreshIds'
        BY <2>1, <3>1, <3>2 DEF SendInv, FreshIds
      <3>4. OneOwner'
        BY <2>1, <3>1, <3>2 DEF SendInv, OneOwner
      <3>5. NotOutstanding'
        BY <2>1, <3>1, <3>2 DEF SendInv, NotOutstanding
      <3>. QED
        BY <3>3, <3>4, <3>5 DEF SendInv
    <2>. QED
      BY <1>6, <2>2, <2>3 DEF Fetch
  <1>7. CASE SendGossip
    <2>1. PICK p \in batch : batch' = batch \ {p} /\ cur' = {p}
      BY <1>7 DEF SendGossip
    <2>2. pc = "sendGossip" /\ pc' = "sendHive"
          /\ UNCHANGED <<queue, pings, updating, outstanding>>
      BY <1>7 DEF SendGossip
    <2>3. FreshIds'
      BY <2>1, <2>2 DEF SendInv, FreshIds
    <2>4. OneOwner'
      BY <2>1, <2>2 DEF SendInv, OneOwner, IdlePcs
    <2>5. NotOutstanding'
      BY <2>1, <2>2 DEF SendInv, NotOutstanding
    <2>. QED
      BY <2>3, <2>4, <2>5 DEF SendInv
  <1>8. CASE SendHive
    <2>1. PICK p \in cur : outstanding' = outstanding \cup {p.id}
      BY <1>8 DEF SendHive
    <2>2. pc = "sendHive" /\ pc' = "mark" /\ UNCHANGED <<queue, pings, updating, batch, cur>>
      BY <1>8 DEF SendHive
    <2>3. FreshIds'
      BY <2>1, <2>2 DEF SendInv, FreshIds
    <2>4. OneOwner'
      BY <2>2 DEF SendInv, OneOwner, IdlePcs
    <2>5. NotOutstanding'
      BY <2>1, <2>2 DEF SendInv, NotOutstanding, OneOwner
    <2>. QED
      BY <2>3, <2>4, <2>5 DEF SendInv
  <1>9. CASE SendHiveFails
    BY <1>9 DEF SendHiveFails, SendInv, FreshIds, OneOwner, NotOutstanding
  <1>10. CASE Mark
    <2>1. pc = "mark" /\ pc' = "hive2" /\ UNCHANGED <<pings, updating, batch, cur>>
      BY <1>10 DEF Mark
    <2>2. PICK p \in cur :
            \/ queue' = DeletePings(queue, {p.url}) /\ UNCHANGED outstanding
            \/ queue' = SetPingAsInflight(queue, p.url) /\ UNCHANGED outstanding
            \/ outstanding' = outstanding \ {p.id} /\ UNCHANGED queue
      BY <1>10 DEF Mark
    <2>3. \A q \in cur : q = p
      BY DEF SendInv, OneOwner
    <2>4. CASE queue' = DeletePings(queue, {p.url}) /\ UNCHANGED outstanding
      BY <2>1, <2>3, <2>4, DeleteKeepsSendInv DEF IdlePcs
    <2>5. CASE queue' = SetPingAsInflight(queue, p.url) /\ UNCHANGED outstanding
      <3>1. /\ DOMAIN queue' = DOMAIN queue
            /\ \A v \in DOMAIN queue : v # p.url => queue'[v] = queue[v]
        BY <2>5 DEF SetPingAsInflight
      <3>2. p.url \in DOMAIN queue => /\ queue'[p.url].id = queue[p.url].id
                                      /\ queue'[p.url].inflight
        BY <1>0, <2>5 DEF SetPingAsInflight, Row
      <3>3. FreshIds' /\ OneOwner'
        BY <2>1, <2>5, <3>1, <3>2 DEF SendInv, FreshIds, OneOwner, IdlePcs
      <3>4. NotOutstanding'
        BY <2>1, <2>3, <2>5, <3>1, <3>2 DEF SendInv, NotOutstanding, OneOwner
      <3>. QED
        BY <3>3, <3>4 DEF SendInv
    <2>6. CASE outstanding' = outstanding \ {p.id} /\ UNCHANGED queue
      BY <2>1, <2>3, <2>6 DEF SendInv, FreshIds, OneOwner, NotOutstanding, IdlePcs
    <2>. QED
      BY <2>2, <2>4, <2>5, <2>6
  <1>11. CASE Reset
    <2>1. /\ pc = "reset" /\ pc' = "hive1"
          /\ UNCHANGED <<pings, updating, batch, cur>>
      BY <1>11 DEF Reset
    <2>2. CASE UNCHANGED <<queue, outstanding>>
      BY <2>1, <2>2, StutterKeepsSendInv DEF IdlePcs
    <2>3. ASSUME NEW us \in SUBSET DOMAIN queue, queue' = ResetPings(queue, us),
                 outstanding' = outstanding \ {queue[u].id : u \in us}
          PROVE  SendInv'
      <3>1. /\ DOMAIN queue' = DOMAIN queue
            /\ \A v \in DOMAIN queue : v \notin us => queue'[v] = queue[v]
        BY <2>3 DEF ResetPings
      <3>2. \A v \in us : queue'[v].id = queue[v].id
        BY <1>0, <2>3 DEF ResetPings, Row
      <3>3. FreshIds' /\ OneOwner'
        BY <2>1, <2>3, <3>1, <3>2 DEF SendInv, FreshIds, OneOwner, IdlePcs
      <3>4. NotOutstanding'
        BY <2>1, <2>3, <3>1, <3>2 DEF SendInv, NotOutstanding
      <3>. QED
        BY <3>3, <3>4 DEF SendInv
    <2>. QED
      BY <1>11, <2>2, <2>3 DEF Reset, ResetChoices, Overdue
  <1>12. CASE Restart
    <2>1. /\ UNCHANGED <<queue, pings>> /\ pc' = "hive1"
          /\ updating' = {} /\ batch' = {} /\ cur' = {}
          /\ outstanding' = IF pc = "mark" THEN outstanding \ {p.id : p \in cur} ELSE outstanding
      BY <1>12 DEF Restart
    <2>2. FreshIds' /\ OneOwner'
      BY <2>1 DEF SendInv, FreshIds, OneOwner
    <2>3. NotOutstanding'
      BY <2>1 DEF SendInv, NotOutstanding
    <2>. QED
      BY <2>2, <2>3 DEF SendInv
  <1>13. ASSUME NEW u \in DOMAIN queue, Tick(u)
         PROVE  SendInv'
    <2>1. UNCHANGED <<pc, pings, updating, batch, cur, outstanding>> /\ queue' = AgePing(queue, u)
      BY <1>13 DEF Tick
    <2>2. /\ DOMAIN queue' = DOMAIN queue
          /\ \A v \in DOMAIN queue : /\ queue'[v].id = queue[v].id
                                     /\ queue'[v].inflight = queue[v].inflight
      BY <1>0, <2>1 DEF AgePing, Row
    <2>. QED
      BY <2>1, <2>2 DEF SendInv, FreshIds, OneOwner, NotOutstanding
  <1>14. CASE Writers
    BY <1>14, StutterKeepsSendInv
       DEF Writers, HiveTake, HiveWrites, HiveFails, HiveLoses, GossipTake, GossipWrites
  <1>15. CASE UNCHANGED vars
    BY <1>15, StutterKeepsSendInv DEF vars
  <1>. QED
    BY <1>1, <1>2, <1>3, <1>4, <1>5, <1>6, <1>7, <1>8, <1>9, <1>10, <1>11, <1>12,
       <1>13, <1>14, <1>15 DEF Next, Handler, QueueChecker

\* SendInv holds of the front-end in every reachable state.
LEMMA SendInvariant == Spec => []SendInv
  <1>1. Init => SendInv
    BY DEF Init, EmptyTable, SendInv, FreshIds, OneOwner, NotOutstanding
  <1>. QED
    BY <1>1, SendInductive, TypeCorrect, PTL DEF Spec

\* The queue checker never puts on the hive socket a ping that it put there
\* before and that nothing re-armed since, although it works on a snapshot of
\* the table that handlers and replies change under it.
THEOREM NoDoubleSendTheorem == Spec => []NoDoubleSend
  <1>1. SendInv => NoDoubleSend
    BY DEF SendInv, NotOutstanding, NoDoubleSend
  <1>. QED
    BY <1>1, SendInvariant, PTL

\* In ephemeral mode no row is in flight: the marking step deletes instead.
NoneInFlight == Ephemeral => \A u \in DOMAIN queue : ~queue[u].inflight

\* In ephemeral mode no statement that the front-end runs marks a row.
LEMMA NoneInFlightInductive == TypeOK /\ NoneInFlight /\ [Next]_vars => NoneInFlight'
  <1> SUFFICES ASSUME TypeOK, NoneInFlight, [Next]_vars, Ephemeral
               PROVE  \A u \in DOMAIN queue' : ~queue'[u].inflight
    BY DEF NoneInFlight
  <1> USE DEF loopVars, socketVars, workVars, histVars
  <1>0. \A u \in DOMAIN queue : queue[u] \in Row /\ ~queue[u].inflight
    BY TableRows DEF TypeOK, NoneInFlight
  <1>1. CASE UNCHANGED queue
    BY <1>0, <1>1
  <1>2. ASSUME NEW us, queue' = DeletePings(queue, us)
        PROVE  \A u \in DOMAIN queue' : ~queue'[u].inflight
    BY <1>0, <1>2 DEF DeletePings
  <1>3. ASSUME NEW u \in Urls, NEW reason \in Reasons, AddPing(u, reason)
        PROVE  \A v \in DOMAIN queue' : ~queue'[v].inflight
    BY <1>0, <1>1, <1>3 DEF AddPing, InsertPing
  <1>4. ASSUME NEW p \in updating, UpdatePingInQueue(p)
        PROVE  \A v \in DOMAIN queue' : ~queue'[v].inflight
    <2>1. CASE queue' = UpdatePing(queue, p.url, p.id, p.reason)
      BY <1>0, <2>1 DEF UpdatePing, Row
    <2>. QED
      BY <1>1, <1>4, <2>1 DEF UpdatePingInQueue
  <1>5. CASE ReceiveHive \/ ReceiveGossip
    BY <1>1, <1>2, <1>5 DEF ReceiveHive, ReceiveGossip, ApplyReply
  <1>6. CASE Mark
    BY <1>1, <1>2, <1>6 DEF Mark
  <1>7. CASE Reset
    BY <1>1, <1>7 DEF Reset
  <1>8. ASSUME NEW u \in DOMAIN queue, Tick(u)
        PROVE  \A v \in DOMAIN queue' : ~queue'[v].inflight
    BY <1>0, <1>8 DEF Tick, AgePing, Row
  <1>9. CASE NoMoreGossip \/ Fetch \/ SendGossip \/ SendHive \/ SendHiveFails
             \/ Restart \/ Writers \/ UNCHANGED vars
    BY <1>1, <1>9 DEF NoMoreGossip, Fetch, SendGossip, SendHive, SendHiveFails, Restart, vars,
                Writers, HiveTake, HiveWrites, HiveFails, HiveLoses, GossipTake, GossipWrites
  <1>. QED
    BY <1>3, <1>4, <1>5, <1>6, <1>7, <1>8, <1>9 DEF Next, Handler, QueueChecker

\* In ephemeral mode a ping that was sent and is past the marking step has no
\* row left, unless its deletion failed.
THEOREM EphemeralForgetsTheorem == Spec => []EphemeralForgets
  <1>1. Init => NoneInFlight
    BY DEF Init, EmptyTable, NoneInFlight
  <1>2. NoneInFlight /\ SendInv => EphemeralForgets
    BY DEF NoneInFlight, SendInv, NotOutstanding, EphemeralForgets
  <1>. QED
    BY <1>1, <1>2, NoneInFlightInductive, SendInvariant, TypeCorrect, PTL DEF Spec
-----------------------------------------------------------------------------
(* The front-end implements the abstract queue of module PingQueue.        *)

\* What the queue checker has fetched is still in the table, or left it because
\* it was put on a socket meanwhile.
FetchedInv == \A p \in batch \cup cur : p.url \in DOMAIN queue \cup handed

\* The three ways in which a step of the front-end changes the abstract queue.
Accepts == \E u \in Urls : DOMAIN queue' = DOMAIN queue \cup {u} /\ UNCHANGED handed
Hands == /\ DOMAIN queue' = DOMAIN queue
         /\ \E p \in batch \cup cur : handed' = handed \cup {p.url}
Drops == DOMAIN queue' \subseteq DOMAIN queue /\ UNCHANGED handed

\* Every step does one of these: no step of the code both adds or removes a row
\* and puts a url on a socket.
LEMMA StepKinds == [Next]_vars => Accepts \/ Hands \/ Drops
  <1> SUFFICES ASSUME [Next]_vars
               PROVE  Accepts \/ Hands \/ Drops
    OBVIOUS
  <1> USE DEF loopVars, socketVars, workVars, histVars
  <1>1. ASSUME NEW u \in Urls, NEW reason \in Reasons, AddPing(u, reason)
        PROVE  Accepts \/ Drops
    BY <1>1 DEF AddPing, InsertPing, Accepts, Drops
  <1>2. ASSUME NEW p \in updating, UpdatePingInQueue(p)
        PROVE  Drops
    BY <1>2 DEF UpdatePingInQueue, UpdatePing, Drops
  <1>3. CASE ReceiveHive \/ ReceiveGossip
    BY <1>3 DEF ReceiveHive, ReceiveGossip, ApplyReply, DeletePings, Drops
  <1>4. CASE SendGossip
    BY <1>4 DEF SendGossip, Hands, Drops
  <1>5. CASE SendHive
    BY <1>5 DEF SendHive, Hands
  <1>6. CASE Mark
    BY <1>6 DEF Mark, DeletePings, SetPingAsInflight, Drops
  <1>7. CASE Reset
    BY <1>7 DEF Reset, ResetPings, Drops
  <1>8. ASSUME NEW u \in DOMAIN queue, Tick(u)
        PROVE  Drops
    BY <1>8 DEF Tick, AgePing, Drops
  <1>9. CASE NoMoreGossip \/ Fetch \/ SendHiveFails \/ Restart \/ Writers \/ UNCHANGED vars
    BY <1>9 DEF NoMoreGossip, Fetch, SendHiveFails, Restart, vars, Drops,
                Writers, HiveTake, HiveWrites, HiveFails, HiveLoses, GossipTake, GossipWrites
  <1>. QED
    BY <1>1, <1>2, <1>3, <1>4, <1>5, <1>6, <1>7, <1>8, <1>9 DEF Next, Handler, QueueChecker

\* A url that has a row, or was put on a socket, is so ever after.
LEMMA KnownGrows ==
    ASSUME HandedInv, [Next]_vars
    PROVE  DOMAIN queue \cup handed \subseteq DOMAIN queue' \cup handed'
  <1>1. \A u \in DOMAIN queue \ DOMAIN queue' : u \in handed
    BY RemovesHanded
  <1>2. handed \subseteq handed'
    BY StepKinds DEF Accepts, Hands, Drops
  <1>. QED
    BY <1>1, <1>2

\* The batch is a snapshot, and stays one of urls with a row or on a socket.
LEMMA FetchedInductive == HandedInv /\ FetchedInv /\ [Next]_vars => FetchedInv'
  <1> SUFFICES ASSUME HandedInv, FetchedInv, [Next]_vars
               PROVE  FetchedInv'
    OBVIOUS
  <1>1. DOMAIN queue \cup handed \subseteq DOMAIN queue' \cup handed'
    BY KnownGrows
  <1>2. CASE batch' \cup cur' \subseteq batch \cup cur
    BY <1>1, <1>2 DEF FetchedInv
  <1>3. CASE Fetch
    <2>1. CASE UNCHANGED batch
      BY <1>2, <1>3, <2>1 DEF Fetch
    <2>2. ASSUME NEW us \in SUBSET DOMAIN queue,
                 batch' = {[url |-> u, id |-> queue[u].id, reason |-> queue[u].reason,
                            rowid |-> queue[u].rowid] : u \in us}
          PROVE  FetchedInv'
      <3>1. \A p \in batch' : p.url \in DOMAIN queue
        BY <2>2
      <3>2. UNCHANGED cur
        BY <1>3 DEF Fetch
      <3>. QED
        BY <1>1, <3>1, <3>2 DEF FetchedInv
    <2>. QED
      BY <1>3, <2>1, <2>2 DEF Fetch
  <1>4. CASE SendGossip
    BY <1>2, <1>4 DEF SendGossip
  <1>5. CASE NoMoreGossip
    BY <1>2, <1>5 DEF NoMoreGossip, AfterPing
  <1>6. CASE SendHiveFails \/ Restart
    BY <1>2, <1>6 DEF SendHiveFails, Restart
  <1>7. CASE Handler \/ Writers \/ ReceiveHive \/ ReceiveGossip \/ SendHive \/ Mark \/ Reset
             \/ (\E u \in DOMAIN queue : Tick(u)) \/ UNCHANGED vars
    <2>1. UNCHANGED <<batch, cur>>
      BY <1>7 DEF loopVars, Handler, AddPing, UpdatePingInQueue, ReceiveHive, ReceiveGossip,
                  SendHive, Mark, Reset, Tick, vars, Writers, HiveTake, HiveWrites, HiveFails,
                  HiveLoses, GossipTake, GossipWrites
    <2>. QED
      BY <1>2, <2>1
  <1>. QED
    BY <1>3, <1>4, <1>5, <1>6, <1>7 DEF Next, QueueChecker

\* A step of the front-end is a step of the abstract queue or none.
LEMMA StepRefines ==
    TypeOK /\ HandedInv /\ FetchedInv /\ [Next]_vars
        => [Queue!Next]_<<DOMAIN queue, handed>>
  <1> SUFFICES ASSUME TypeOK, HandedInv, FetchedInv, [Next]_vars
               PROVE  Queue!Next
    OBVIOUS
  <1>0. DOMAIN queue \subseteq Urls /\ handed \subseteq Urls
    BY TableRows DEF TypeOK, Tables
  <1>1. CASE Accepts
    BY <1>1 DEF Accepts, Queue!Next, Queue!Accept
  <1>2. CASE Hands
    <2>1. PICK p \in batch \cup cur : handed' = handed \cup {p.url}
      BY <1>2 DEF Hands
    <2>2. p.url \in DOMAIN queue \cup handed
      BY DEF FetchedInv
    <2>3. Queue!HandOver(p.url)
      BY <1>2, <2>1, <2>2 DEF Hands, Queue!HandOver
    <2>. QED
      BY <1>0, <2>2, <2>3 DEF Queue!Next
  <1>3. CASE Drops
    <2> DEFINE us == DOMAIN queue \ DOMAIN queue'
    <2>1. us \subseteq DOMAIN queue \cap handed
      BY RemovesHanded
    <2>2. DOMAIN queue' = DOMAIN queue \ us /\ UNCHANGED handed
      BY <1>3 DEF Drops
    <2>3. Queue!Remove(us)
      BY <2>1, <2>2 DEF Queue!Remove
    <2>. QED
      BY <1>0, <2>1, <2>3 DEF Queue!Next
  <1>. QED
    BY <1>1, <1>2, <1>3, StepKinds

\* The front-end implements the abstract queue: in every behaviour of the web
\* handler, the queue checker and the writers, with losses and restarts, what
\* was accepted stays pending until it was handed over.
THEOREM FrontEndImplements == Spec => ImplementsPingQueue
  <1>1. Init => Queue!Init
    BY DEF Init, Queue!Init, EmptyTable
  <1>2. Init => FetchedInv
    BY DEF Init, FetchedInv
  <1>. QED
    BY <1>1, <1>2, TypeCorrect, HandedInitially, HandedInductive, FetchedInductive, StepRefines,
       PTL DEF Spec, ImplementsPingQueue, Queue!Spec
=============================================================================
