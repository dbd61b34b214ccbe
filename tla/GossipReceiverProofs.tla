------------------------ MODULE GossipReceiverProofs ------------------------
(***************************************************************************)
(* Proofs about GossipReceiver, for every queue limit and every number of  *)
(* events and waiters.                                                     *)
(***************************************************************************)
EXTENDS GossipReceiver, SequenceTheorems, TLAPS

\* A waiter whose receiver was dropped is still a waiter (AllDead).
LEMMA AllDeadType ==
    ASSUME NEW s \in Seq(Waiter)
    PROVE  AllDead(s) \in Seq(Waiter) /\ Len(AllDead(s)) = Len(s)
BY DEF AllDead, Waiter

\* What the two VecDeques do: popping the oldest entry, pushing a new one.
LEMMA PopPush ==
    ASSUME NEW S, NEW s \in Seq(S), NEW e \in S
    PROVE  /\ Append(s, e) \in Seq(S)
           /\ Len(Append(s, e)) = Len(s) + 1
           /\ Append(s, e) # <<>>
           /\ s # <<>> => Head(s) \in S /\ Tail(s) \in Seq(S) /\ Len(Tail(s)) = Len(s) - 1
BY HeadTailProperties, AppendProperties, EmptySeq

\* The entries of the queues are event numbers.
LEMMA EventsAreNumbers ==
    ASSUME NEW s \in Seq(EventIds)
    PROVE  \A i \in DOMAIN s : s[i] \in Nat
<1>1. \A i \in DOMAIN s : s[i] \in EventIds
  BY ElementOfSeq
<1>2. \A e \in EventIds : e \in Nat
  BY DEF EventIds
<1> QED
  BY <1>1, <1>2

\* At most HashLimit hashes are kept (the push and remove(0) of run()).
LEMMA RecordHashType ==
    ASSUME hashes \in Seq(EventIds), Len(hashes) <= HashLimit,
           NEW q \in Seq(EventIds), NEW isMessage \in BOOLEAN,
           RecordHash(q, isMessage)
    PROVE  hashes' \in Seq(EventIds) /\ Len(hashes') <= HashLimit
<1>1. CASE q # <<>> /\ isMessage
  <2>1. Len(q) \in 1..Len(q) /\ q[Len(q)] \in EventIds
    BY <1>1, EmptySeq
  <2> DEFINE more == Append(hashes, q[Len(q)])
  <2>2. /\ more \in Seq(EventIds) /\ Len(more) = Len(hashes) + 1
        /\ more # <<>>
    BY <2>1, PopPush
  <2>3. Tail(more) \in Seq(EventIds) /\ Len(Tail(more)) = Len(hashes)
    BY <2>2, HeadTailProperties
  <2>4. hashes' = IF Len(more) > HashLimit THEN Tail(more) ELSE more
    BY <1>1 DEF RecordHash
  <2> HIDE DEF more
  <2> QED
    BY <2>2, <2>3, <2>4, GossipReceiverAssumption
<1>2. CASE ~(q # <<>> /\ isMessage)
  BY <1>2 DEF RecordHash
<1> QED
  BY <1>1, <1>2

\* Sending an event to a waiter keeps the task's and the histories' types.
LEMMA SendEventType ==
    ASSUME TypeOK, NEW w \in Waiter, NEW e \in EventIds, SendEvent(w, e)
    PROVE  /\ task' \in TaskStates
           /\ delivered' \in Seq(EventIds)
           /\ dropped' \in SUBSET EventIds
<1>1. CASE w = "live"
  <2>1. Append(delivered, e) \in Seq(EventIds)
    BY AppendProperties DEF TypeOK
  <2> QED
    BY <1>1, <2>1 DEF TypeOK, SendEvent, TaskStates
<1>2. CASE w # "live"
  BY <1>2 DEF TypeOK, SendEvent
<1> QED
  BY <1>1, <1>2

\* Every step of the actor and of the task keeps the types.
LEMMA TypeInductive == TypeOK /\ [Next]_vars => TypeOK'
<1> SUFFICES ASSUME TypeOK, [Next]_vars PROVE TypeOK'
  OBVIOUS
<1> USE GossipReceiverAssumption
<1>1. CASE Ask
  <2>1. "live" \in Waiter
    BY DEF Waiter
  <2>2. mailbox' \in Seq(Waiter)
    BY <1>1, <2>1, PopPush DEF Ask, TypeOK
  <2> QED
    BY <1>1, <2>2 DEF Ask, TypeOK, TaskStates
<1>2. CASE Timeout
  <2>1. mailbox' \in Seq(Waiter) /\ waiters' \in Seq(Waiter)
    BY <1>2, AllDeadType DEF Timeout, TypeOK
  <2> QED
    BY <1>2, <2>1 DEF Timeout, TypeOK, TaskStates
<1>3. CASE RegisterNext
  <2>1. Head(mailbox) \in Waiter /\ mailbox' \in Seq(Waiter)
    BY <1>3, HeadTailProperties DEF RegisterNext, TypeOK
  <2>2. CASE msgQueue # <<>>
    <3>1. /\ Head(msgQueue) \in EventIds
          /\ msgQueue' \in Seq(EventIds) /\ Len(msgQueue') <= QueueLimit + 1
      <4>1. /\ Head(msgQueue) \in EventIds /\ Tail(msgQueue) \in Seq(EventIds)
            /\ Len(Tail(msgQueue)) = Len(msgQueue) - 1
        BY <2>2, HeadTailProperties DEF TypeOK
      <4>2. msgQueue' = Tail(msgQueue)
        BY <1>3, <2>2 DEF RegisterNext
      <4>3. Len(msgQueue) \in Nat /\ Len(msgQueue) <= QueueLimit + 1
        BY DEF TypeOK
      <4> QED
        BY <4>1, <4>2, <4>3
    <3>2. SendEvent(Head(mailbox), Head(msgQueue))
      BY <1>3, <2>2 DEF RegisterNext
    <3>3. /\ task' \in TaskStates /\ delivered' \in Seq(EventIds)
          /\ dropped' \in SUBSET EventIds
      BY <2>1, <3>1, <3>2, SendEventType
    <3> QED
      BY <1>3, <2>1, <2>2, <3>1, <3>3 DEF RegisterNext, TypeOK
  <2>3. CASE msgQueue = <<>>
    <3>1. waiters' \in Seq(Waiter)
      BY <1>3, <2>1, <2>3, PopPush DEF RegisterNext, TypeOK
    <3> QED
      BY <1>3, <2>1, <2>3, <3>1 DEF RegisterNext, TypeOK
  <2> QED
    BY <2>2, <2>3
<1>4. ASSUME NEW isMessage \in BOOLEAN, Arrive(isMessage) PROVE TypeOK'
  <2>1. /\ arrived + 1 \in EventIds /\ arrived' \in 0..MaxEvents
        /\ messages' \in SUBSET EventIds
    BY <1>4 DEF Arrive, TypeOK, EventIds
  <2>2. CASE QueueEvent(isMessage)
    <3>1. msgQueue' \in Seq(EventIds) /\ Len(msgQueue') <= QueueLimit + 1
      BY <2>1, <2>2, PopPush DEF QueueEvent, TypeOK
    <3>2. hashes' \in Seq(EventIds) /\ Len(hashes') <= HashLimit
      BY <2>2, <3>1, RecordHashType DEF QueueEvent, TypeOK
    <3> QED
      BY <1>4, <2>1, <2>2, <3>1, <3>2 DEF Arrive, QueueEvent, TypeOK
  <2>3. CASE HandEvent(isMessage)
    <3> DEFINE q == Append(msgQueue, arrived + 1)
    <3>1. q \in Seq(EventIds) /\ q # <<>> /\ Len(q) = Len(msgQueue) + 1
      BY <2>1, PopPush DEF TypeOK
    <3>2. Head(q) \in EventIds /\ Tail(q) \in Seq(EventIds) /\ Len(Tail(q)) = Len(q) - 1
      BY <3>1, HeadTailProperties
    <3>3. /\ waiters' = Tail(waiters) /\ waiters # <<>>
          /\ SendEvent(Head(waiters), Head(q)) /\ msgQueue' = Tail(q)
          /\ RecordHash(Tail(q), isMessage) /\ UNCHANGED running
      BY <2>3 DEF HandEvent
    <3> HIDE DEF q
    <3>4. waiters' \in Seq(Waiter) /\ Head(waiters) \in Waiter
      BY <3>3, HeadTailProperties DEF TypeOK
    <3>5. hashes' \in Seq(EventIds) /\ Len(hashes') <= HashLimit
      BY <3>2, <3>3, RecordHashType DEF TypeOK
    <3>6. /\ task' \in TaskStates /\ delivered' \in Seq(EventIds)
          /\ dropped' \in SUBSET EventIds
      BY <3>2, <3>3, <3>4, SendEventType
    <3>7. msgQueue' \in Seq(EventIds) /\ Len(msgQueue') <= QueueLimit + 1
      BY <3>1, <3>2, <3>3 DEF TypeOK
    <3> QED
      <4>1. mailbox' \in Seq(Waiter) /\ running' \in BOOLEAN
        BY <1>4, <3>3 DEF Arrive, TypeOK
      <4> QED
        BY <2>1, <3>4, <3>5, <3>6, <3>7, <4>1 DEF TypeOK
  <2>4. CASE QueueOverflows
    <3>1. msgQueue' \in Seq(EventIds) /\ Len(msgQueue') <= QueueLimit + 1
      BY <2>4, EmptySeq DEF QueueOverflows
    <3>2. running' \in BOOLEAN /\ mailbox' = mailbox
      BY <1>4, <2>4 DEF Arrive, QueueOverflows
    <3> QED
      BY <2>1, <2>4, <3>1, <3>2 DEF QueueOverflows, TypeOK
  <2> QED
    BY <1>4, <2>2, <2>3, <2>4 DEF Arrive
<1>5. CASE StreamEnds
  <2>1. /\ msgQueue' \in Seq(EventIds) /\ Len(msgQueue') <= QueueLimit + 1
        /\ waiters' \in Seq(Waiter)
    BY <1>5, EmptySeq DEF StreamEnds
  <2>2. running' \in BOOLEAN /\ task' \in TaskStates
    BY <1>5 DEF StreamEnds, TypeOK, TaskStates
  <2> QED
    BY <1>5, <2>1, <2>2 DEF StreamEnds, TypeOK
<1>6. CASE RequestLost
  BY <1>6 DEF RequestLost, TypeOK, TaskStates
<1>7. CASE UNCHANGED vars
  BY <1>7 DEF vars, TypeOK
<1> QED
  BY <1>1, <1>2, <1>3, <1>4, <1>5, <1>6, <1>7 DEF Next

\* The types of the actor's queues hold for ever: in particular msg_queue
\* never holds more than its limit and one event.
THEOREM ReceiverTypeCorrect == Spec => []TypeOK
<1>1. Init => TypeOK
  BY GossipReceiverAssumption DEF Init, TypeOK, TaskStates
<1> QED
  BY <1>1, TypeInductive, PTL DEF Spec

-----------------------------------------------------------------------------
\* The event numbers say when an event arrived.  With QueueEmptyWhileParked, this
\* makes InOrder inductive: an event that is handed over at once is newer
\* than all that was delivered, and nothing is queued.
ArrivalInv ==
    /\ InOrder
    /\ \A i \in DOMAIN delivered : delivered[i] <= arrived
    /\ \A i \in DOMAIN msgQueue : msgQueue[i] <= arrived

OrderInv == TypeOK /\ QueueEmptyWhileParked /\ ArrivalInv

\* A waiter is parked only if no event is queued, and an event that finds a
\* waiter is not queued.
LEMMA QueueEmptyInductive ==
    TypeOK /\ QueueEmptyWhileParked /\ [Next]_vars => QueueEmptyWhileParked'
<1> SUFFICES ASSUME TypeOK, QueueEmptyWhileParked, [Next]_vars PROVE QueueEmptyWhileParked'
  OBVIOUS
<1>1. CASE Ask \/ RequestLost \/ UNCHANGED vars
  BY <1>1 DEF Ask, RequestLost, vars, QueueEmptyWhileParked
<1>2. CASE Timeout
  <2>1. waiters = <<>> => waiters' = <<>>
    BY <1>2, AllDeadType, EmptySeq DEF Timeout, TypeOK
  <2> QED
    BY <1>2, <2>1 DEF Timeout, QueueEmptyWhileParked
<1>3. CASE RegisterNext
  BY <1>3 DEF RegisterNext, QueueEmptyWhileParked
<1>4. ASSUME NEW isMessage \in BOOLEAN, Arrive(isMessage) PROVE QueueEmptyWhileParked'
  <2>1. CASE QueueEvent(isMessage) \/ QueueOverflows
    BY <2>1 DEF QueueEvent, QueueOverflows, QueueEmptyWhileParked
  <2>2. CASE HandEvent(isMessage)
    <3>1. msgQueue' = Tail(Append(msgQueue, arrived + 1)) /\ msgQueue = <<>>
      BY <2>2 DEF HandEvent, QueueEmptyWhileParked
    <3>2. Tail(Append(<<>>, arrived + 1)) = <<>>
      OBVIOUS
    <3> QED
      BY <3>1, <3>2 DEF QueueEmptyWhileParked
  <2> QED
    BY <1>4, <2>1, <2>2 DEF Arrive
<1>5. CASE StreamEnds
  BY <1>5 DEF StreamEnds, QueueEmptyWhileParked
<1> QED
  BY <1>1, <1>2, <1>3, <1>4, <1>5 DEF Next

\* Handing an event that is newer than everything delivered and older than
\* everything queued keeps the order, whoever waits for it.
LEMMA SendKeepsOrder ==
    ASSUME NEW w \in Waiter, NEW e \in EventIds, SendEvent(w, e),
           delivered \in Seq(EventIds), Increasing(delivered),
           \A i \in DOMAIN delivered : delivered[i] < e
    PROVE  /\ Increasing(delivered')
           /\ \A i \in DOMAIN delivered' : delivered'[i] <= e
<1>1. CASE w = "live"
  <2>1. delivered' = Append(delivered, e)
    BY <1>1 DEF SendEvent
  <2>2. /\ DOMAIN delivered' = 1..(Len(delivered) + 1)
        /\ DOMAIN delivered = 1..Len(delivered)
        /\ \A i \in 1..Len(delivered) : delivered'[i] = delivered[i]
        /\ delivered'[Len(delivered) + 1] = e
    BY <2>1, AppendProperties
  <2>3. \A i \in 1..Len(delivered) : delivered[i] \in Nat
    BY <2>2, EventsAreNumbers
  <2>4. Len(delivered) \in Nat /\ e \in Nat
    BY DEF EventIds
  <2> QED
    BY <2>2, <2>3, <2>4 DEF Increasing
<1>2. CASE w # "live"
  <2>1. delivered' = delivered
    BY <1>2 DEF SendEvent
  <2>2. \A i \in DOMAIN delivered : delivered[i] \in Nat
    BY EventsAreNumbers
  <2> QED
    BY <2>1, <2>2 DEF Increasing, EventIds
<1> QED
  BY <1>1, <1>2

\* Taking the oldest event off the queue leaves younger ones, in order.
LEMMA TailKeepsOrder ==
    ASSUME NEW q \in Seq(EventIds), q # <<>>, Increasing(q)
    PROVE  /\ Increasing(Tail(q))
           /\ \A j \in DOMAIN Tail(q) : Head(q) < Tail(q)[j]
           /\ \A j \in DOMAIN Tail(q) : \E i \in DOMAIN q : Tail(q)[j] = q[i]
           /\ \E i \in DOMAIN q : Head(q) = q[i]
<1>1. /\ Tail(q) \in Seq(EventIds) /\ Len(Tail(q)) = Len(q) - 1
      /\ \A i \in 1..Len(Tail(q)) : Tail(q)[i] = q[i + 1]
      /\ Head(q) = q[1] /\ Len(q) \in Nat /\ Len(q) # 0
  BY HeadTailProperties, EmptySeq
<1>2. /\ DOMAIN Tail(q) = 1..(Len(q) - 1) /\ DOMAIN q = 1..Len(q)
      /\ 1 \in DOMAIN q
      /\ \A i \in 1..(Len(q) - 1) : i + 1 \in DOMAIN q /\ 1 < i + 1
  BY <1>1
<1> QED
  BY <1>1, <1>2 DEF Increasing

\* Every step keeps delivered and queued events in the order of arrival.
LEMMA ArrivalInductive == OrderInv /\ [Next]_vars => ArrivalInv'
<1> SUFFICES ASSUME TypeOK, QueueEmptyWhileParked, ArrivalInv, [Next]_vars PROVE ArrivalInv'
  BY DEF OrderInv
<1>1. CASE Ask \/ Timeout \/ RequestLost \/ UNCHANGED vars
  BY <1>1 DEF Ask, Timeout, RequestLost, vars, ArrivalInv, InOrder, Increasing
<1>2. CASE RegisterNext
  <2>1. CASE msgQueue # <<>>
    <3> DEFINE e == Head(msgQueue)
    <3>1. /\ SendEvent(Head(mailbox), e) /\ msgQueue' = Tail(msgQueue)
          /\ arrived' = arrived /\ Head(mailbox) \in Waiter /\ e \in EventIds
      BY <1>2, <2>1, HeadTailProperties DEF RegisterNext, TypeOK
    <3>2. /\ Increasing(msgQueue')
          /\ \A j \in DOMAIN msgQueue' : e < msgQueue'[j]
          /\ \A j \in DOMAIN msgQueue' : \E i \in DOMAIN msgQueue : msgQueue'[j] = msgQueue[i]
          /\ \E i \in DOMAIN msgQueue : e = msgQueue[i]
      BY <2>1, <3>1, TailKeepsOrder DEF TypeOK, ArrivalInv, InOrder
    <3> HIDE DEF e
    <3>3. /\ e <= arrived
          /\ \A i \in DOMAIN delivered : delivered[i] < e
      BY <3>2 DEF ArrivalInv, InOrder
    <3>4. /\ Increasing(delivered')
          /\ \A i \in DOMAIN delivered' : delivered'[i] <= e
      BY <3>1, <3>3, SendKeepsOrder DEF TypeOK, ArrivalInv, InOrder
    <3>5. /\ delivered' \in Seq(EventIds) /\ msgQueue' \in Seq(EventIds)
          /\ e \in Nat /\ arrived \in Nat
      BY <3>1, TypeInductive DEF TypeOK, EventIds
    <3>6. /\ \A i \in DOMAIN delivered' : delivered'[i] \in Nat
          /\ \A i \in DOMAIN msgQueue' : msgQueue'[i] \in Nat
      BY <3>5, EventsAreNumbers
    <3>7. \A j \in DOMAIN msgQueue' : msgQueue'[j] <= arrived
      BY <3>2 DEF ArrivalInv
    <3> QED
      BY <3>1, <3>2, <3>3, <3>4, <3>5, <3>6, <3>7 DEF ArrivalInv, InOrder
  <2>2. CASE msgQueue = <<>>
    BY <1>2, <2>2 DEF RegisterNext, ArrivalInv, InOrder, Increasing
  <2> QED
    BY <2>1, <2>2
<1>3. ASSUME NEW isMessage \in BOOLEAN, Arrive(isMessage) PROVE ArrivalInv'
  <2>1. /\ arrived' = arrived + 1 /\ arrived \in Nat /\ arrived + 1 \in EventIds
    BY <1>3, GossipReceiverAssumption DEF Arrive, TypeOK, EventIds
  <2>2. /\ \A i \in DOMAIN delivered : delivered[i] \in Nat
        /\ \A i \in DOMAIN msgQueue : msgQueue[i] \in Nat
    BY EventsAreNumbers DEF TypeOK
  <2>3. CASE QueueEvent(isMessage)
    <3>1. msgQueue' = Append(msgQueue, arrived + 1) /\ delivered' = delivered
      BY <2>3 DEF QueueEvent
    <3>2. /\ DOMAIN msgQueue' = 1..(Len(msgQueue) + 1)
          /\ DOMAIN msgQueue = 1..Len(msgQueue)
          /\ \A i \in 1..Len(msgQueue) : msgQueue'[i] = msgQueue[i]
          /\ msgQueue'[Len(msgQueue) + 1] = arrived + 1
          /\ Len(msgQueue) \in Nat
      BY <2>1, <3>1, AppendProperties DEF TypeOK
    <3>3. /\ Increasing(msgQueue')
          /\ \A i \in DOMAIN msgQueue' : msgQueue'[i] <= arrived + 1
      BY <2>1, <2>2, <3>2 DEF ArrivalInv, InOrder, Increasing
    <3>4. \A i \in DOMAIN delivered, j \in DOMAIN msgQueue' : delivered[i] < msgQueue'[j]
      BY <2>1, <2>2, <3>2 DEF ArrivalInv, InOrder
    <3>5. \A i \in DOMAIN delivered : delivered[i] <= arrived + 1
      BY <2>1, <2>2 DEF ArrivalInv
    <3> QED
      BY <2>1, <3>1, <3>3, <3>4, <3>5 DEF ArrivalInv, InOrder
  <2>4. CASE HandEvent(isMessage)
    <3>1. msgQueue = <<>> /\ Head(waiters) \in Waiter
      BY <2>4, HeadTailProperties DEF HandEvent, QueueEmptyWhileParked, TypeOK
    <3>2. /\ Head(Append(<<>>, arrived + 1)) = arrived + 1
          /\ Tail(Append(<<>>, arrived + 1)) = <<>>
      OBVIOUS
    <3>3. SendEvent(Head(waiters), arrived + 1) /\ msgQueue' = <<>>
      BY <2>4, <3>1, <3>2 DEF HandEvent
    <3>4. \A i \in DOMAIN delivered : delivered[i] < arrived + 1
      BY <2>1, <2>2 DEF ArrivalInv
    <3>5. /\ Increasing(delivered')
          /\ \A i \in DOMAIN delivered' : delivered'[i] <= arrived + 1
      BY <2>1, <3>1, <3>3, <3>4, SendKeepsOrder DEF TypeOK, ArrivalInv, InOrder
    <3> QED
      BY <2>1, <3>3, <3>5 DEF ArrivalInv, InOrder, Increasing
  <2>5. CASE QueueOverflows
    <3>1. msgQueue' = <<>> /\ delivered' = delivered
      BY <2>5 DEF QueueOverflows
    <3> QED
      BY <2>1, <2>2, <3>1 DEF ArrivalInv, InOrder, Increasing
  <2> QED
    BY <1>3, <2>3, <2>4, <2>5 DEF Arrive
<1>4. CASE StreamEnds
  BY <1>4 DEF StreamEnds, ArrivalInv, InOrder, Increasing
<1> QED
  BY <1>1, <1>2, <1>3, <1>4 DEF Next

\* OrderInv, which TypeOK, QueueEmptyWhileParked and ArrivalInv make inductive,
\* holds of the receiver actor.
LEMMA OrderInvariant == Spec => []OrderInv
<1>1. Init => OrderInv
  BY GossipReceiverAssumption
     DEF Init, OrderInv, TypeOK, TaskStates, QueueEmptyWhileParked, ArrivalInv, InOrder, Increasing
<1>2. OrderInv /\ [Next]_vars => OrderInv'
  BY TypeInductive, QueueEmptyInductive, ArrivalInductive DEF OrderInv
<1> QED
  BY <1>1, <1>2, PTL DEF Spec

\* Whatever times out, no event lies in msg_queue while a waiter is parked.
THEOREM QueueEmptyTheorem == Spec => []QueueEmptyWhileParked
<1>1. OrderInv => QueueEmptyWhileParked
  BY DEF OrderInv
<1> QED
  BY <1>1, OrderInvariant, PTL

\* Whatever times out, the receive task sees the events that reach it in the
\* order in which they arrived, and none twice.
THEOREM InOrderTheorem == Spec => []InOrder
<1>1. OrderInv => InOrder
  BY DEF OrderInv, ArrivalInv
<1> QED
  BY <1>1, OrderInvariant, PTL

-----------------------------------------------------------------------------
\* What was recorded has arrived.  This makes HashesInOrder inductive: the hash
\* that is recorded is the newest event's, or none, because with QueueEmptyWhileParked
\* the queue is empty once its waiter is served.
HashInv ==
    /\ HashesInOrder
    /\ \A i \in DOMAIN hashes : hashes[i] <= arrived

\* Appending a message that is newer than those recorded, and removing the
\* oldest if there are too many, keeps order and membership (run's push and
\* remove(0)).
LEMMA RecordNewest ==
    ASSUME NEW e \in EventIds, NEW M, e \in M,
           hashes \in Seq(EventIds), Increasing(hashes),
           \A i \in DOMAIN hashes : hashes[i] \in M /\ hashes[i] < e,
           hashes' = LET more == Append(hashes, e)
                     IN  IF Len(more) > HashLimit THEN Tail(more) ELSE more
    PROVE  /\ Increasing(hashes')
           /\ \A i \in DOMAIN hashes' : hashes'[i] \in M /\ hashes'[i] <= e
<1> DEFINE more == Append(hashes, e)
<1>1. /\ more \in Seq(EventIds) /\ more # <<>>
      /\ DOMAIN more = 1..(Len(hashes) + 1)
      /\ DOMAIN hashes = 1..Len(hashes)
      /\ \A i \in 1..Len(hashes) : more[i] = hashes[i]
      /\ more[Len(hashes) + 1] = e
      /\ Len(hashes) \in Nat
  BY PopPush, AppendProperties
<1>2. hashes' = IF Len(more) > HashLimit THEN Tail(more) ELSE more
  OBVIOUS
<1> HIDE DEF more
<1>3. e \in Nat /\ \A i \in DOMAIN hashes : hashes[i] \in Nat
  BY EventsAreNumbers DEF EventIds
<1>4. Increasing(more)
  BY <1>1, <1>3 DEF Increasing
<1>5. \A i \in DOMAIN more : more[i] \in M /\ more[i] <= e
  BY <1>1, <1>3
<1>6. CASE Len(more) > HashLimit
  <2>1. /\ Increasing(Tail(more))
        /\ \A j \in DOMAIN Tail(more) : \E i \in DOMAIN more : Tail(more)[j] = more[i]
    BY <1>1, <1>4, TailKeepsOrder
  <2>2. hashes' = Tail(more)
    BY <1>2, <1>6
  <2> QED
    BY ONLY <1>5, <2>1, <2>2
<1>7. CASE ~(Len(more) > HashLimit)
  BY <1>2, <1>4, <1>5, <1>7
<1> QED
  BY <1>6, <1>7

\* Every step keeps the recorded hashes in the order of arrival.
LEMMA HashInductive == OrderInv /\ HashInv /\ [Next]_vars => HashInv'
<1> SUFFICES ASSUME TypeOK, QueueEmptyWhileParked, HashInv, [Next]_vars PROVE HashInv'
  BY DEF OrderInv
<1>1. CASE UNCHANGED <<hashes, messages, arrived>>
  BY <1>1 DEF HashInv, HashesInOrder, Increasing
<1>2. ASSUME NEW isMessage \in BOOLEAN, Arrive(isMessage) PROVE HashInv'
  <2>1. /\ arrived' = arrived + 1 /\ arrived \in Nat /\ arrived + 1 \in EventIds
        /\ messages \subseteq messages'
    BY <1>2, GossipReceiverAssumption DEF Arrive, TypeOK, EventIds
  <2>2. \A i \in DOMAIN hashes : hashes[i] \in Nat
    BY EventsAreNumbers DEF TypeOK
  <2>3. CASE UNCHANGED hashes
    BY <2>1, <2>2, <2>3 DEF HashInv, HashesInOrder, Increasing
  <2>4. CASE QueueEvent(isMessage)
    <3> DEFINE q == Append(msgQueue, arrived + 1)
    <3>1. q # <<>> /\ q[Len(q)] = arrived + 1
      BY <2>1, PopPush, AppendProperties DEF TypeOK
    <3>2. RecordHash(q, isMessage)
      BY <2>4 DEF QueueEvent
    <3> HIDE DEF q
    <3>3. CASE isMessage
      <4>1. hashes' = LET more == Append(hashes, arrived + 1)
                      IN  IF Len(more) > HashLimit THEN Tail(more) ELSE more
        BY <3>1, <3>2, <3>3 DEF RecordHash
      <4>2. arrived + 1 \in messages'
        BY <1>2, <3>3 DEF Arrive
      <4>3. \A i \in DOMAIN hashes : hashes[i] \in messages' /\ hashes[i] < arrived + 1
        BY <2>1, <2>2 DEF HashInv, HashesInOrder
      <4>4. hashes \in Seq(EventIds) /\ Increasing(hashes)
        BY DEF TypeOK, HashInv, HashesInOrder
      <4>5. /\ Increasing(hashes')
            /\ \A i \in DOMAIN hashes' : hashes'[i] \in messages' /\ hashes'[i] <= arrived + 1
        BY <2>1, <4>1, <4>2, <4>3, <4>4, RecordNewest
      <4> QED
        BY <2>1, <4>5 DEF HashInv, HashesInOrder
    <3>4. CASE ~isMessage
      BY <2>3, <3>2, <3>4 DEF RecordHash
    <3> QED
      BY <3>3, <3>4
  <2>5. CASE HandEvent(isMessage)
    <3>1. msgQueue = <<>>
      BY <2>5 DEF HandEvent, QueueEmptyWhileParked
    <3>2. Tail(Append(<<>>, arrived + 1)) = <<>>
      OBVIOUS
    <3>3. RecordHash(<<>>, isMessage)
      BY <2>5, <3>1, <3>2 DEF HandEvent
    <3> QED
      BY <2>3, <3>3 DEF RecordHash
  <2>6. CASE QueueOverflows
    BY <2>3, <2>6 DEF QueueOverflows
  <2> QED
    BY <1>2, <2>4, <2>5, <2>6 DEF Arrive
<1> QED
  BY <1>1, <1>2 DEF Next, Ask, Timeout, RegisterNext, StreamEnds, RequestLost, vars

\* Whatever is served or times out between, the hashes that go into DHT records
\* are messages', each once, in the order in which they arrived.
THEOREM HashesInOrderTheorem == Spec => []HashesInOrder
<1>1. Init => HashInv
  BY DEF Init, HashInv, HashesInOrder, Increasing
<1>2. HashInv => HashesInOrder
  BY DEF HashInv
<1> QED
  BY <1>1, <1>2, OrderInvariant, HashInductive, PTL DEF Spec

-----------------------------------------------------------------------------
(* The receiver implements module EventFeed.                               *)

NoLive(s) == \A i \in DOMAIN s : s[i] # "live"
OneLive(s) == \A i, j \in DOMAIN s : s[i] = "live" /\ s[j] = "live" => i = j

\* The call of next() that waits now has exactly one live oneshot sender, in the
\* actor's mailbox or among its waiters, and no other call has one.  Without
\* this an event could be sent to a call that has returned, one call could get
\* two, and what is sent to a dead sender could not be charged to a timeout.
\* A stopped actor has no waiters, and only then a call has failed.
LiveInv ==
    /\ task # "waiting" => NoLive(mailbox) /\ NoLive(waiters)
    /\ task = "waiting" => ~NoLive(mailbox) \/ ~NoLive(waiters)
    /\ OneLive(mailbox) /\ OneLive(waiters)
    /\ NoLive(mailbox) \/ NoLive(waiters)
    /\ ~running => waiters = <<>>
    /\ task = "ended" => ~running

FeedInv == TypeOK /\ LiveInv

\* Without waiters there is no live one.
LEMMA LiveEmpty ==
    ASSUME NEW s, s = <<>>
    PROVE  NoLive(s) /\ OneLive(s)
BY DEF NoLive, OneLive

\* A timeout leaves no live sender.
LEMMA LiveDead ==
    ASSUME NEW s \in Seq(Waiter)
    PROVE  NoLive(AllDead(s)) /\ OneLive(AllDead(s))
BY DEF NoLive, OneLive, AllDead

\* Adding a sender (push_front of register_next, or the actor's mailbox).
LEMMA LiveAppend ==
    ASSUME NEW s \in Seq(Waiter), NEW w \in Waiter
    PROVE  /\ NoLive(s) => OneLive(Append(s, w))
           /\ NoLive(s) /\ w # "live" => NoLive(Append(s, w))
           /\ OneLive(s) /\ w # "live" => OneLive(Append(s, w))
           /\ w = "live" \/ ~NoLive(s) => ~NoLive(Append(s, w))
<1>1. /\ DOMAIN Append(s, w) = 1..(Len(s) + 1) /\ DOMAIN s = 1..Len(s) /\ Len(s) \in Nat
      /\ \A i \in 1..Len(s) : Append(s, w)[i] = s[i]
      /\ Append(s, w)[Len(s) + 1] = w
  BY AppendProperties
<1>2. \A i \in DOMAIN Append(s, w) : i \in DOMAIN s \/ i = Len(s) + 1
  BY <1>1
<1> QED
  BY <1>1, <1>2 DEF NoLive, OneLive

\* Taking the oldest sender (pop_back).
LEMMA LiveTail ==
    ASSUME NEW s \in Seq(Waiter), s # <<>>
    PROVE  /\ NoLive(s) => NoLive(Tail(s)) /\ Head(s) # "live"
           /\ OneLive(s) => OneLive(Tail(s))
           /\ OneLive(s) /\ Head(s) = "live" => NoLive(Tail(s))
           /\ ~NoLive(s) /\ Head(s) # "live" => ~NoLive(Tail(s))
<1>1. /\ Tail(s) \in Seq(Waiter) /\ Len(Tail(s)) = Len(s) - 1
      /\ \A i \in 1..Len(Tail(s)) : Tail(s)[i] = s[i + 1]
      /\ Head(s) = s[1] /\ Len(s) \in Nat /\ Len(s) # 0
  BY HeadTailProperties, EmptySeq
<1>2. /\ DOMAIN Tail(s) = 1..(Len(s) - 1) /\ DOMAIN s = 1..Len(s) /\ 1 \in DOMAIN s
      /\ \A i \in 1..(Len(s) - 1) : i + 1 \in DOMAIN s /\ i + 1 # 1 /\ i \in Nat
  BY <1>1
<1>3. ASSUME ~NoLive(s), Head(s) # "live"
      PROVE  ~NoLive(Tail(s))
  <2>1. PICK i \in DOMAIN s : s[i] = "live"
    BY <1>3 DEF NoLive
  <2>2. i # 1 /\ i - 1 \in DOMAIN Tail(s) /\ (i - 1) + 1 = i
    BY <1>1, <1>2, <1>3, <2>1
  <2>3. Tail(s)[i - 1] = "live"
    BY <1>1, <1>2, <2>1, <2>2
  <2> QED
    BY <2>2, <2>3 DEF NoLive
<1> QED
  BY <1>1, <1>2, <1>3 DEF NoLive, OneLive

\* Where there is a live sender there is a sender.
LEMMA LiveLen ==
    ASSUME NEW s \in Seq(Waiter)
    PROVE  Len(s) \in Nat /\ (~NoLive(s) => Len(s) >= 1)
BY DEF NoLive

\* Only a call that waits has a live sender (the step of SendEvent).
LEMMA SendToCaller ==
    ASSUME LiveInv, NEW w \in Waiter, NEW e, SendEvent(w, e),
           w = "live" => task = "waiting"
    PROVE  \/ /\ w = "live" /\ task = "waiting" /\ task' = "idle"
              /\ delivered' = Append(delivered, e) /\ dropped' = dropped
           \/ /\ w = "dead" /\ dropped' = dropped \cup {e}
              /\ task' = task /\ delivered' = delivered
BY DEF SendEvent, Waiter

\* Every step keeps at most one live sender, that of the waiting call.
LEMMA LiveInductive == FeedInv /\ [Next]_vars => LiveInv'
<1> SUFFICES ASSUME TypeOK, LiveInv, [Next]_vars PROVE LiveInv'
  BY DEF FeedInv
<1>0. mailbox \in Seq(Waiter) /\ waiters \in Seq(Waiter)
  BY DEF TypeOK
<1>1. CASE Ask
  <2>1. "live" \in Waiter
    BY DEF Waiter
  <2>2. NoLive(mailbox) /\ NoLive(waiters) /\ OneLive(waiters) /\ waiters' = waiters
    BY <1>1 DEF Ask, LiveInv
  <2>3. CASE running
    <3>1. mailbox' = Append(mailbox, "live") /\ task' = "waiting" /\ running'
      BY <1>1, <2>3 DEF Ask
    <3>2. OneLive(mailbox') /\ ~NoLive(mailbox')
      BY <1>0, <2>1, <2>2, <3>1, LiveAppend
    <3> QED
      BY <2>2, <3>1, <3>2 DEF LiveInv
  <2>4. CASE ~running
    BY <1>1, <2>4 DEF Ask, LiveInv
  <2> QED
    BY <2>3, <2>4
<1>2. CASE Timeout
  <2>1. mailbox' = AllDead(mailbox) /\ waiters' = AllDead(waiters)
    BY <1>2 DEF Timeout
  <2>2. NoLive(mailbox') /\ OneLive(mailbox') /\ NoLive(waiters') /\ OneLive(waiters')
    BY <1>0, <2>1, LiveDead
  <2>3. waiters = <<>> => waiters' = <<>>
    BY <1>0, <2>1, AllDeadType, EmptySeq
  <2>4. task' \in {"idle", "gaveUp"} /\ running' = running
    BY <1>2 DEF Timeout
  <2> QED
    BY <2>2, <2>3, <2>4 DEF LiveInv
<1>3. CASE RegisterNext
  <2> DEFINE w == Head(mailbox)
  <2>1. mailbox # <<>> /\ mailbox' = Tail(mailbox) /\ running /\ running' = running
    BY <1>3 DEF RegisterNext
  <2>2. w \in Waiter
    BY <1>0, <2>1, HeadTailProperties
  <2>3. /\ NoLive(mailbox) => NoLive(mailbox') /\ w # "live"
        /\ OneLive(mailbox') /\ (w = "live" => NoLive(mailbox'))
        /\ ~NoLive(mailbox) /\ w # "live" => ~NoLive(mailbox')
    BY <1>0, <2>1, LiveTail DEF LiveInv
  <2>4. w = "live" => task = "waiting" /\ NoLive(waiters)
    BY <2>3 DEF LiveInv
  <2>5. CASE msgQueue # <<>>
    <3>1. SendEvent(w, Head(msgQueue)) /\ waiters' = waiters
      BY <1>3, <2>5 DEF RegisterNext
    <3> HIDE DEF w
    <3>2. \/ w = "live" /\ task' = "idle"
          \/ w = "dead" /\ task' = task
      BY <2>2, <2>4, <3>1, SendToCaller
    <3>3. CASE w = "live" /\ task' = "idle"
      BY <2>1, <2>3, <2>4, <3>1, <3>3 DEF LiveInv
    <3>4. CASE w = "dead" /\ task' = task
      BY <2>1, <2>3, <3>1, <3>4 DEF LiveInv
    <3> QED
      BY <3>2, <3>3, <3>4
  <2>6. CASE msgQueue = <<>>
    <3>1. waiters' = Append(waiters, w) /\ task' = task
      BY <1>3, <2>6 DEF RegisterNext
    <3> HIDE DEF w
    <3>2. /\ NoLive(waiters) => OneLive(waiters')
          /\ NoLive(waiters) /\ w # "live" => NoLive(waiters')
          /\ OneLive(waiters) /\ w # "live" => OneLive(waiters')
          /\ w = "live" \/ ~NoLive(waiters) => ~NoLive(waiters')
      BY <1>0, <2>2, <3>1, LiveAppend
    <3>3. CASE w = "live"
      BY <2>1, <2>3, <2>4, <3>1, <3>2, <3>3 DEF LiveInv
    <3>4. CASE w # "live"
      BY <2>1, <2>3, <3>1, <3>2, <3>4 DEF LiveInv
    <3> QED
      BY <3>3, <3>4
  <2> QED
    BY <2>5, <2>6
<1>4. ASSUME NEW isMessage \in BOOLEAN, Arrive(isMessage) PROVE LiveInv'
  <2>1. running /\ mailbox' = mailbox
    BY <1>4 DEF Arrive
  <2>2. CASE QueueEvent(isMessage)
    BY <2>1, <2>2 DEF QueueEvent, LiveInv
  <2>3. CASE HandEvent(isMessage)
    <3> DEFINE w == Head(waiters)
               e == Head(Append(msgQueue, arrived + 1))
    <3>1. /\ waiters # <<>> /\ waiters' = Tail(waiters) /\ SendEvent(w, e)
          /\ running' = running
      BY <2>3 DEF HandEvent
    <3>2. w \in Waiter
      BY <1>0, <3>1, HeadTailProperties
    <3>3. /\ NoLive(waiters) => NoLive(waiters') /\ w # "live"
          /\ OneLive(waiters') /\ (w = "live" => NoLive(waiters'))
          /\ ~NoLive(waiters) /\ w # "live" => ~NoLive(waiters')
      BY <1>0, <3>1, LiveTail DEF LiveInv
    <3>4. w = "live" => task = "waiting" /\ NoLive(mailbox)
      BY <3>3 DEF LiveInv
    <3> HIDE DEF w, e
    <3>5. \/ w = "live" /\ task' = "idle"
          \/ w = "dead" /\ task' = task
      BY <3>1, <3>2, <3>4, SendToCaller
    <3>6. CASE w = "live" /\ task' = "idle"
      BY <2>1, <3>1, <3>3, <3>4, <3>6 DEF LiveInv
    <3>7. CASE w = "dead" /\ task' = task
      BY <2>1, <3>1, <3>3, <3>7 DEF LiveInv
    <3> QED
      BY <3>5, <3>6, <3>7
  <2>4. CASE QueueOverflows
    BY <2>1, <2>4 DEF QueueOverflows, LiveInv
  <2> QED
    BY <1>4, <2>2, <2>3, <2>4 DEF Arrive
<1>5. CASE StreamEnds
  <2>1. /\ waiters' = <<>> /\ ~running' /\ mailbox' = mailbox
        /\ task' = IF NoLive(waiters) THEN task ELSE "ended"
    BY <1>5 DEF StreamEnds, NoLive
  <2>2. NoLive(waiters') /\ OneLive(waiters')
    BY <2>1, LiveEmpty
  <2> QED
    BY <2>1, <2>2 DEF LiveInv
<1>6. CASE RequestLost
  <2>1. /\ mailbox' = <<>> /\ waiters' = waiters /\ waiters = <<>> /\ ~running'
        /\ task' = "ended"
    BY <1>6 DEF RequestLost, LiveInv
  <2>2. NoLive(mailbox') /\ OneLive(mailbox') /\ NoLive(waiters') /\ OneLive(waiters')
    BY <2>1, LiveEmpty
  <2> QED
    BY <2>1, <2>2 DEF LiveInv
<1>7. CASE UNCHANGED vars
  BY <1>7 DEF vars, LiveInv
<1> QED
  BY <1>1, <1>2, <1>3, <1>4, <1>5, <1>6, <1>7 DEF Next

\* Every step of the actor and of the task is a step of the feed, or none.
LEMMA FeedStep == FeedInv /\ [Next]_vars => [Feed!Next]_(Feed!vars)
<1> SUFFICES ASSUME TypeOK, LiveInv, [Next]_vars
             PROVE  Feed!Next \/ UNCHANGED Feed!vars
  BY DEF FeedInv
<1>0. /\ mailbox \in Seq(Waiter) /\ waiters \in Seq(Waiter)
      /\ Len(mailbox) \in Nat /\ Len(waiters) \in Nat
      /\ ~NoLive(mailbox) => Len(mailbox) >= 1
      /\ ~NoLive(waiters) => Len(waiters) >= 1
  BY LiveLen DEF TypeOK
<1>1. CASE Ask
  <2>1. CASE running
    <3>1. /\ mailbox' = Append(mailbox, "live") /\ waiters' = waiters
          /\ task = "idle" /\ task' = "waiting"
      BY <1>1, <2>1 DEF Ask
    <3>2. Len(mailbox') = Len(mailbox) + 1
      BY <1>0, <3>1, AppendProperties DEF Waiter
    <3>3. Abandoned' = Abandoned
      BY <1>0, <3>1, <3>2 DEF Abandoned
    <3> QED
      BY <1>1, <2>1, <3>3 DEF Ask, Feed!Next, Feed!Call
  <2>2. CASE ~running
    <3>1. Abandoned' = Abandoned
      BY <1>1, <2>2 DEF Ask, Abandoned
    <3> QED
      BY <1>1, <2>2, <3>1 DEF Ask, Feed!Next, Feed!Call
  <2> QED
    BY <2>1, <2>2
<1>2. CASE Timeout
  <2>1. Len(mailbox') = Len(mailbox) /\ Len(waiters') = Len(waiters)
    BY <1>0, <1>2, AllDeadType DEF Timeout
  <2>2. Abandoned' = Abandoned + 1
    BY <1>0, <1>2, <2>1 DEF Timeout, Abandoned
  <2> QED
    BY <1>2, <2>2 DEF Timeout, Feed!Next, Feed!Leave
<1>3. CASE RegisterNext
  <2>1. CASE msgQueue # <<>>
    <3> DEFINE w == Head(mailbox)
    <3>1. /\ SendEvent(w, Head(msgQueue)) /\ msgQueue' = Tail(msgQueue)
          /\ running /\ running' = running /\ arrived' = arrived /\ mailbox # <<>>
          /\ mailbox' = Tail(mailbox) /\ waiters' = waiters
      BY <1>3, <2>1 DEF RegisterNext
    <3>2. w \in Waiter
      BY <3>1, HeadTailProperties DEF TypeOK
    <3>3. w = "live" => task = "waiting"
      BY <3>1, LiveTail DEF TypeOK, LiveInv
    <3>5. Len(mailbox') = Len(mailbox) - 1
      BY <1>0, <3>1, HeadTailProperties
    <3>6. w # "live" /\ task = "waiting" => ~NoLive(Tail(mailbox)) \/ ~NoLive(waiters)
      BY <1>0, <3>1, LiveTail DEF LiveInv
    <3>7. w # "live" /\ task = "waiting" => Len(mailbox) + Len(waiters) >= 2
      <4>1. Tail(mailbox) \in Seq(Waiter) /\ Len(Tail(mailbox)) = Len(mailbox) - 1
        BY <1>0, <3>1, HeadTailProperties
      <4>2. ~NoLive(Tail(mailbox)) => Len(Tail(mailbox)) >= 1
        BY <4>1, LiveLen
      <4>3. Len(mailbox) >= 1
        BY <1>0, <3>1, EmptySeq
      <4> HIDE DEF w
      <4> QED
        BY <1>0, <3>6, <4>1, <4>2, <4>3
    <3>8. Len(mailbox) >= 1
      BY <1>0, <3>1, EmptySeq
    <3> HIDE DEF w
    <3>9. \/ w = "live" /\ task = "waiting" /\ task' = "idle"
             /\ delivered' = Append(delivered, Head(msgQueue)) /\ dropped' = dropped
          \/ w = "dead" /\ task' = task /\ delivered' = delivered
             /\ dropped' = dropped \cup {Head(msgQueue)}
      BY <3>1, <3>2, <3>3, SendToCaller
    <3>10. /\ w = "live" => Abandoned' = Abandoned
           /\ w = "dead" => Abandoned > 0 /\ Abandoned' = Abandoned - 1
      <4>1. CASE w = "live" /\ task = "waiting" /\ task' = "idle"
        BY <1>0, <3>1, <3>5, <3>8, <4>1 DEF Abandoned
      <4>2. CASE w = "dead" /\ task' = task
        <5>1. Len(waiters') = Len(waiters)
          BY <3>1
        <5>2. CASE task = "waiting"
          BY <1>0, <3>5, <3>7, <4>2, <5>1, <5>2 DEF Abandoned
        <5>3. CASE task # "waiting"
          BY <1>0, <3>5, <3>8, <4>2, <5>1, <5>3 DEF Abandoned
        <5> QED
          BY <5>2, <5>3
      <4> QED
        BY <3>9, <4>1, <4>2
    <3>4. Feed!Settle(msgQueue)
      BY <2>1, <3>1, <3>9, <3>10 DEF Feed!Settle
    <3> QED
      BY <3>1, <3>4 DEF Feed!Next, Feed!Return
  <2>2. CASE msgQueue = <<>>
    <3>1. /\ mailbox # <<>> /\ mailbox' = Tail(mailbox) /\ task' = task
          /\ waiters' = Append(waiters, Head(mailbox))
      BY <1>3, <2>2 DEF RegisterNext
    <3>2. Len(mailbox') = Len(mailbox) - 1 /\ Len(waiters') = Len(waiters) + 1
      BY <1>0, <3>1, HeadTailProperties, AppendProperties
    <3>3. Abandoned' = Abandoned
      BY <1>0, <3>1, <3>2 DEF Abandoned
    <3> QED
      BY <1>3, <2>2, <3>3 DEF RegisterNext, Feed!vars
  <2> QED
    BY <2>1, <2>2
<1>4. ASSUME NEW isMessage \in BOOLEAN, Arrive(isMessage) PROVE Feed!Next
  <2>1. running /\ arrived' = arrived + 1 /\ mailbox' = mailbox
    BY <1>4 DEF Arrive
  <2>2. CASE QueueEvent(isMessage)
    <3>1. Abandoned' = Abandoned
      BY <2>1, <2>2 DEF QueueEvent, Abandoned
    <3> QED
      BY <2>1, <2>2, <3>1 DEF QueueEvent, Feed!Next, Feed!Arrive
  <2>3. CASE HandEvent(isMessage)
    <3> DEFINE w == Head(waiters)
               q == Append(msgQueue, arrived + 1)
    <3>1. /\ waiters # <<>> /\ SendEvent(w, Head(q)) /\ msgQueue' = Tail(q)
          /\ running' = running /\ waiters' = Tail(waiters)
      BY <2>3 DEF HandEvent
    <3>2. w \in Waiter
      BY <3>1, HeadTailProperties DEF TypeOK
    <3>3. w = "live" => task = "waiting"
      BY <3>1, LiveTail DEF TypeOK, LiveInv
    <3>4. q # <<>>
      <4>1. arrived + 1 \in EventIds
        BY <1>4, GossipReceiverAssumption DEF Arrive, TypeOK, EventIds
      <4> QED
        BY <4>1, PopPush DEF TypeOK
    <3>6. Len(waiters') = Len(waiters) - 1 /\ Len(waiters) >= 1
      BY <1>0, <3>1, HeadTailProperties, EmptySeq
    <3>7. w # "live" /\ task = "waiting" => ~NoLive(Tail(waiters)) \/ ~NoLive(mailbox)
      BY <1>0, <3>1, LiveTail DEF LiveInv
    <3>8. w # "live" /\ task = "waiting" => Len(mailbox) + Len(waiters) >= 2
      <4>1. Tail(waiters) \in Seq(Waiter) /\ Len(Tail(waiters)) = Len(waiters) - 1
        BY <1>0, <3>1, HeadTailProperties
      <4>2. ~NoLive(Tail(waiters)) => Len(Tail(waiters)) >= 1
        BY <4>1, LiveLen
      <4> HIDE DEF w
      <4> QED
        BY <1>0, <3>6, <3>7, <4>1, <4>2
    <3> HIDE DEF w, q
    <3>9. \/ w = "live" /\ task = "waiting" /\ task' = "idle"
             /\ delivered' = Append(delivered, Head(q)) /\ dropped' = dropped
          \/ w = "dead" /\ task' = task /\ delivered' = delivered
             /\ dropped' = dropped \cup {Head(q)}
      BY <3>1, <3>2, <3>3, SendToCaller
    <3>10. /\ w = "live" => Abandoned' = Abandoned
           /\ w = "dead" => Abandoned > 0 /\ Abandoned' = Abandoned - 1
      <4>1. CASE w = "live" /\ task = "waiting" /\ task' = "idle"
        BY <1>0, <2>1, <3>6, <4>1 DEF Abandoned
      <4>2. CASE w = "dead" /\ task' = task
        <5>1. Len(mailbox') = Len(mailbox)
          BY <2>1
        <5>2. CASE task = "waiting"
          BY <1>0, <3>6, <3>8, <4>2, <5>1, <5>2 DEF Abandoned
        <5>3. CASE task # "waiting"
          BY <1>0, <3>6, <4>2, <5>1, <5>3 DEF Abandoned
        <5> QED
          BY <5>2, <5>3
      <4> QED
        BY <3>9, <4>1, <4>2
    <3>5. Feed!Settle(q)
      BY <3>1, <3>4, <3>9, <3>10 DEF Feed!Settle
    <3> QED
      BY <2>1, <3>1, <3>5 DEF Feed!Next, Feed!Arrive, q
  <2>4. CASE QueueOverflows
    <3>1. Abandoned' = Abandoned /\ Abandoned \in 0..Abandoned
      BY <1>0, <2>1, <2>4 DEF QueueOverflows, Abandoned, LiveInv
    <3> QED
      BY <2>1, <2>4, <3>1 DEF QueueOverflows, Feed!Next, Feed!Close
  <2> QED
    BY <1>4, <2>2, <2>3, <2>4 DEF Arrive
<1>5. CASE StreamEnds
  <2>1. task' = task \/ (task = "waiting" /\ task' = "ended")
    BY <1>5 DEF StreamEnds, LiveInv, NoLive
  <2>2. /\ waiters' = <<>> /\ mailbox' = mailbox
        /\ task' = IF NoLive(waiters) THEN task ELSE "ended"
    BY <1>5 DEF StreamEnds, NoLive
  <2>3. Len(waiters') = 0
    BY <2>2
  <2>4. Abandoned' \in 0..Abandoned
    BY <1>0, <2>2, <2>3 DEF Abandoned, LiveInv
  <2> QED
    BY <1>5, <2>1, <2>4 DEF StreamEnds, Feed!Next, Feed!Close
<1>6. CASE RequestLost
  <2>1. mailbox' = <<>> /\ waiters' = <<>> /\ task = "waiting" /\ task' = "ended"
    BY <1>6 DEF RequestLost, LiveInv
  <2>2. Len(mailbox') = 0 /\ Len(waiters') = 0
    BY <2>1
  <2>3. Abandoned' \in 0..Abandoned
    BY <1>0, <2>1, <2>2 DEF Abandoned, LiveInv
  <2> QED
    BY <1>6, <2>3 DEF RequestLost, Feed!Next, Feed!Fail
<1>7. CASE UNCHANGED vars
  BY <1>7 DEF vars, Abandoned, Feed!vars
<1> QED
  BY <1>1, <1>2, <1>3, <1>4, <1>5, <1>6, <1>7 DEF Next

\* The actor, its mailbox and its waiters implement the feed that next()
\* promises, for every queue limit and however calls time out: while the actor
\* runs, no more events are lost than calls timed out.
THEOREM ReceiverImplementsFeed == Spec => ImplementsEventFeed
<1>1. Init => FeedInv /\ Feed!Init
  BY GossipReceiverAssumption
     DEF Init, FeedInv, TypeOK, TaskStates, LiveInv, NoLive, OneLive, Abandoned, Feed!Init
<1>2. FeedInv /\ [Next]_vars => FeedInv'
  BY TypeInductive, LiveInductive DEF FeedInv
<1> QED
  BY <1>1, <1>2, FeedStep, PTL DEF Spec, ImplementsEventFeed, Feed!Spec
=============================================================================
