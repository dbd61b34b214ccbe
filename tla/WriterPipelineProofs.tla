------------------------ MODULE WriterPipelineProofs ------------------------
(***************************************************************************)
(* Theorems about WriterPipeline, for every number of groups, pings,       *)
(* announcements and failures and every size of the queues.                *)
(***************************************************************************)
EXTENDS WriterPipeline, SequenceTheorems, FiniteSetTheorems, TLAPS

-----------------------------------------------------------------------------
(* Queues.                                                                 *)

\* push_back adds one entry.
LEMMA EntriesAppend ==
    ASSUME NEW S, NEW s \in Seq(S), NEW e \in S
    PROVE  /\ Append(s, e) \in Seq(S) /\ Len(Append(s, e)) = Len(s) + 1
           /\ Entries(Append(s, e)) = Entries(s) \cup {e}
  BY AppendProperties DEF Entries

\* pop_front takes the first entry and leaves the others.
LEMMA EntriesTail ==
    ASSUME NEW S, NEW s \in Seq(S), s # <<>>
    PROVE  /\ Head(s) \in S /\ Tail(s) \in Seq(S) /\ Len(Tail(s)) = Len(s) - 1
           /\ Entries(s) = {Head(s)} \cup Entries(Tail(s))
  <1>1. /\ Head(s) \in S /\ Tail(s) \in Seq(S) /\ Len(Tail(s)) = Len(s) - 1
        /\ Len(s) \in Nat \ {0} /\ Head(s) = s[1] /\ DOMAIN s = 1..Len(s)
        /\ DOMAIN Tail(s) = 1..(Len(s) - 1)
    BY HeadTailProperties, EmptySeq
  <1>2. \A i \in 1..(Len(s) - 1) : Tail(s)[i] = s[i + 1]
    BY <1>1, HeadTailProperties
  <1>3. Entries(s) \subseteq {Head(s)} \cup Entries(Tail(s))
    <2> SUFFICES ASSUME NEW x \in Entries(s), x # Head(s)
                 PROVE  x \in Entries(Tail(s))
      OBVIOUS
    <2>1. PICK i \in 1..Len(s) : x = s[i]
      BY <1>1 DEF Entries
    <2>2. i - 1 \in 1..(Len(s) - 1) /\ (i - 1) + 1 = i
      BY <1>1, <2>1
    <2>3. x = Tail(s)[i - 1]
      BY <1>2, <2>1, <2>2
    <2> QED BY <1>1, <2>2, <2>3 DEF Entries
  <1>4. Entries(Tail(s)) \subseteq Entries(s)
    BY <1>1, <1>2 DEF Entries
  <1>5. Head(s) \in Entries(s)
    BY <1>1 DEF Entries
  <1> QED BY <1>1, <1>3, <1>4, <1>5

\* The entries of a queue are of its type.
LEMMA EntriesType ==
    ASSUME NEW S, NEW s \in Seq(S)
    PROVE  Entries(s) \subseteq S
  BY DEF Entries

\* A queue that was emptied.
LEMMA EntriesEmpty ==
    ASSUME NEW S, NEW s, s = <<>>
    PROVE  s \in Seq(S) /\ Len(s) = 0 /\ Entries(s) = {} /\ Increasing(s)
  BY DEF Entries, Increasing

\* The order survives the push of a larger number.
LEMMA IncreasingAppend ==
    ASSUME NEW s \in Seq(Nat), NEW e \in Nat, Increasing(s), \A p \in Entries(s) : p < e
    PROVE  Increasing(Append(s, e))
  <1>1. /\ DOMAIN Append(s, e) = 1..(Len(s) + 1) /\ DOMAIN s = 1..Len(s) /\ Len(s) \in Nat
        /\ \A i \in 1..Len(s) : Append(s, e)[i] = s[i] /\ s[i] \in Nat
        /\ Append(s, e)[Len(s) + 1] = e
    BY AppendProperties
  <1>2. SUFFICES ASSUME NEW i \in 1..(Len(s) + 1), NEW j \in 1..(Len(s) + 1), i < j
                 PROVE  Append(s, e)[i] < Append(s, e)[j]
    BY <1>1 DEF Increasing
  <1>3. i \in 1..Len(s) /\ s[i] < e
    BY <1>1, <1>2 DEF Entries
  <1>4. CASE j \in 1..Len(s)
    BY <1>1, <1>2, <1>3, <1>4 DEF Increasing
  <1>5. CASE j = Len(s) + 1
    BY <1>1, <1>3, <1>5
  <1> QED BY <1>1, <1>4, <1>5

\* An ordered queue stays so without its first entry, which is the smallest and
\* not among the others.
LEMMA IncreasingTail ==
    ASSUME NEW s \in Seq(Nat), s # <<>>, Increasing(s)
    PROVE  Increasing(Tail(s)) /\ \A p \in Entries(Tail(s)) : Head(s) < p
  <1>1. /\ Len(s) \in Nat \ {0} /\ Head(s) = s[1] /\ DOMAIN s = 1..Len(s)
        /\ DOMAIN Tail(s) = 1..(Len(s) - 1)
    BY EmptySeq, HeadTailProperties
  <1>2. \A i \in 1..(Len(s) - 1) : Tail(s)[i] = s[i + 1] /\ i + 1 \in 1..Len(s) /\ i + 1 > 1
    BY <1>1, HeadTailProperties
  <1>3. Increasing(Tail(s))
    BY <1>1, <1>2 DEF Increasing
  <1>4. ASSUME NEW p \in Entries(Tail(s))
        PROVE  Head(s) < p
    <2>1. PICK i \in 1..(Len(s) - 1) : p = Tail(s)[i]
      BY <1>1 DEF Entries
    <2>2. p = s[i + 1] /\ i + 1 \in DOMAIN s /\ 1 \in DOMAIN s /\ 1 < i + 1
      BY <1>1, <1>2, <2>1
    <2> QED BY <1>1, <2>2 DEF Increasing
  <1> QED BY <1>3, <1>4

-----------------------------------------------------------------------------
(* Type correctness.                                                       *)

\* The pings of a group are pings of the batch.
LEMMA GroupOfType ==
    ASSUME NEW ps \in Seq(Ping), NEW g
    PROVE  /\ GroupOf(ps, g) \in SUBSET PingIds
           /\ GroupOf(ps, g) \subseteq {p.id : p \in Entries(ps)}
  <1>1. Entries(ps) \subseteq Ping
    BY EntriesType
  <1> QED BY <1>1 DEF GroupOf, Ping

\* A queue of the payloads made so far is one of those made a payload later.
LEMMA PayloadsGrow ==
    ASSUME NEW n \in Nat, NEW s \in Seq(1..n), NEW S \in SUBSET (1..n)
    PROVE  s \in Seq(1..(n + 1)) /\ S \in SUBSET (1..(n + 1))
  <1>1. 1..n \subseteq 1..(n + 1)
    OBVIOUS
  <1> QED BY <1>1, SeqMonotonic

\* The writer starts with empty queues.
LEMMA PipelineInit == Init => TypeOK
  <1> USE WriterPipelineAssumption DEF TypeOK, Payloads, ZpcValues, BpcValues
  <1> SUFFICES ASSUME Init
               PROVE  TypeOK
    OBVIOUS
  <1>1. pending \in Seq(Ping) /\ channel \in Seq(1..made) /\ retryQueue \in Seq(1..made)
        /\ Len(channel) = 0 /\ Len(retryQueue) = 0
    BY EntriesEmpty DEF Init
  <1>2. /\ zpc \in ZpcValues /\ bpc \in BpcValues /\ todo \in [Groups -> SUBSET PingIds] /\ made \in Nat
        /\ hand = {} /\ sent = {} /\ lost = {} /\ failures = 0
        /\ acked = {} /\ offered = {} /\ reached = {}
        /\ broadcastOk \in BOOLEAN /\ cooldown \in BOOLEAN /\ notified \in BOOLEAN
        /\ requested \in BOOLEAN /\ forced \in BOOLEAN /\ shutdown \in BOOLEAN
        /\ received = 0 /\ announces = 0 /\ failed = 0 /\ requests = 0
    BY DEF Init
  <1> QED BY <1>1, <1>2

\* Every variable of the ZeroMQ thread, the channel and the broadcast task keeps
\* its type: the channel and the retry queue never exceed their capacity and the
\* count of failures stays below the one that leads to a reconnect.
THEOREM PipelineTypeCorrect == Spec => []TypeOK
  <1> USE WriterPipelineAssumption DEF TypeOK, Payloads, ZpcValues, BpcValues
  <1>1. Init => TypeOK
    BY PipelineInit
  <1>2. TypeOK /\ [Next]_vars => TypeOK'
    <2> SUFFICES ASSUME TypeOK, [Next]_vars
                 PROVE  TypeOK'
      OBVIOUS
    <2> USE DEF zmqVars, taskVars, flagVars, countVars, answerVars
    <2>1. ASSUME NEW ps \in Seq(Ping), BeginFlush(ps)
          PROVE  todo' \in [Groups -> SUBSET PingIds] /\ broadcastOk' \in BOOLEAN
      BY <2>1, GroupOfType DEF BeginFlush
    <2>2. CASE ZmqTop
      <3>1. todo' \in [Groups -> SUBSET PingIds] /\ broadcastOk' \in BOOLEAN
        BY <2>1, <2>2 DEF ZmqTop
      <3> QED BY <2>2, <3>1 DEF ZmqTop
    <2>3. CASE ZmqRecv
      <3>1. pending' \in Seq(Ping) /\ received' \in 0..MaxPings
        <4>1. CASE UNCHANGED <<pending, received>>
          BY <4>1
        <4>2. CASE received < MaxPings /\ received' = received + 1
                   /\ \E g \in Groups :
                         pending' = Append(pending, [id |-> received + 1, group |-> g])
          <5>1. \A g \in Groups : [id |-> received + 1, group |-> g] \in Ping
            BY <4>2 DEF Ping, PingIds
          <5> QED BY <4>2, <5>1
        <4> QED BY <2>3, <4>1, <4>2 DEF ZmqRecv
      <3>2. todo' \in [Groups -> SUBSET PingIds] /\ broadcastOk' \in BOOLEAN
        <4>1. ASSUME BeginFlush(pending')
              PROVE  todo' \in [Groups -> SUBSET PingIds] /\ broadcastOk' \in BOOLEAN
          BY <3>1, <4>1, GroupOfType DEF BeginFlush
        <4> QED BY <2>3, <4>1 DEF ZmqRecv
      <3>3. zpc' \in ZpcValues
        BY <2>3 DEF ZmqRecv
      <3> QED BY <2>3, <3>1, <3>2, <3>3 DEF ZmqRecv
    <2>4. ASSUME NEW g \in Groups, SendChunk(g)
          PROVE  TypeOK'
      <3>1. todo' \in [Groups -> SUBSET PingIds]
        BY <2>4 DEF SendChunk
      <3>5. offered' \in SUBSET PingIds /\ reached' \in SUBSET PingIds
        BY <2>4, Zenon DEF SendChunk
      <3>2. made' = made + 1 /\ made + 1 \in 1..(made + 1)
        BY <2>4 DEF SendChunk
      <3>3. channel \in Seq(1..made') /\ retryQueue \in Seq(1..made')
            /\ hand \in SUBSET (1..made') /\ sent \in SUBSET (1..made')
            /\ lost \in SUBSET (1..made')
        BY <3>2, PayloadsGrow
      <3>4. channel' \in Seq(1..made') /\ Len(channel') <= ChannelCap
            /\ lost' \in SUBSET (1..made') /\ broadcastOk' \in BOOLEAN
        <4>1. CASE Len(channel) < ChannelCap /\ channel' = Append(channel, made + 1)
                   /\ broadcastOk' = TRUE /\ UNCHANGED lost
          BY <3>2, <3>3, <4>1, EntriesAppend
        <4>2. CASE broadcastOk' = (broadcastOk \/ bpc # "exited")
                   /\ lost' = lost \cup {made + 1} /\ UNCHANGED channel
          BY <3>2, <3>3, <4>2
        <4> QED BY <2>4, <4>1, <4>2 DEF SendChunk
      <3> QED BY <2>4, <3>1, <3>2, <3>3, <3>4, <3>5 DEF SendChunk
    <2>5. CASE EndFlush
      <3>1. {p.id : p \in Entries(pending)} \subseteq PingIds
        <4>1. Entries(pending) \subseteq Ping
          BY EntriesType
        <4> QED BY <4>1 DEF Ping
      <3>2. pending' \in Seq(Ping)
        BY <2>5, EntriesEmpty DEF EndFlush
      <3> QED BY <2>5, <3>1, <3>2 DEF EndFlush
    <2>6. CASE Announce
      <3>1. made' = made + 1 /\ made + 1 \in 1..(made + 1)
        BY <2>6 DEF Announce
      <3>2. channel \in Seq(1..made') /\ retryQueue \in Seq(1..made')
            /\ hand \in SUBSET (1..made') /\ sent \in SUBSET (1..made')
            /\ lost \in SUBSET (1..made')
        BY <3>1, PayloadsGrow
      <3>3. channel' \in Seq(1..made') /\ Len(channel') <= ChannelCap
        BY <2>6, <3>1, <3>2, EntriesAppend DEF Announce
      <3> QED BY <2>6, <3>1, <3>2, <3>3 DEF Announce
    <2>7. ASSUME NEW force \in BOOLEAN, Request(force)
          PROVE  TypeOK'
      BY <2>7 DEF Request
    <2>8. CASE CooldownEnds
      BY <2>8 DEF CooldownEnds
    <2>9. CASE Shutdown
      BY <2>9 DEF Shutdown
    <2>10. CASE ProcessExits
      <3>1. channel' \in Seq(1..made) /\ Len(channel') = 0
            /\ retryQueue' \in Seq(1..made) /\ Len(retryQueue') = 0
        BY <2>10, EntriesEmpty DEF ProcessExits
      <3>2. Entries(channel) \subseteq 1..made /\ Entries(retryQueue) \subseteq 1..made
        BY EntriesType
      <3>3. lost' \in SUBSET (1..made) /\ hand' \in SUBSET (1..made)
        BY <2>10, <3>2 DEF ProcessExits
      <3>4. /\ zpc' = "stopped" /\ bpc' = "exited"
            /\ UNCHANGED <<pending, todo, broadcastOk, failures, cooldown, flagVars, shutdown,
                           countVars, made, sent, answerVars>>
        BY <2>10 DEF ProcessExits
      <3> QED BY <3>1, <3>3, <3>4
    <2>11. CASE TakePayload
      <3>2. Entries(channel) \subseteq 1..made /\ Entries(retryQueue) \subseteq 1..made
        BY EntriesType
      <3>3. channel # <<>>
        BY <2>11 DEF TakePayload
      <3>4. /\ Head(channel) \in 1..made /\ Tail(channel) \in Seq(1..made)
            /\ Len(Tail(channel)) <= ChannelCap
        BY <3>3, EntriesTail
      <3>5. /\ channel' \in Seq(1..made) /\ Len(channel') <= ChannelCap
            /\ retryQueue' \in Seq(1..made) /\ Len(retryQueue') <= MaxRetryQueue
        <4>1. ASSUME channel' = <<>>, retryQueue' = <<>>
              PROVE  channel' \in Seq(1..made) /\ Len(channel') = 0
                     /\ retryQueue' \in Seq(1..made) /\ Len(retryQueue') = 0
          BY <4>1, EntriesEmpty
        <4>2. CASE channel' = <<>> /\ retryQueue' = <<>>
          BY <4>1, <4>2
        <4>3. CASE channel' = Tail(channel) /\ UNCHANGED retryQueue
          BY <3>4, <4>3
        <4> QED BY <2>11, <4>2, <4>3 DEF TakePayload
      <3>6. hand' \in SUBSET (1..made) /\ lost' \in SUBSET (1..made) /\ bpc' \in BpcValues
        BY <2>11, <3>2, <3>4 DEF TakePayload
      <3>7. UNCHANGED <<zmqVars, failures, cooldown, flagVars, shutdown, countVars, made, sent,
                        answerVars>>
        BY <2>11 DEF TakePayload
      <3> QED BY <3>5, <3>6, <3>7
    <2>12. CASE BroadcastSucceeds
      BY <2>12 DEF BroadcastSucceeds
    <2>13. CASE BroadcastFails
      <3>1. /\ retryQueue' \in Seq(1..made) /\ Len(retryQueue') <= MaxRetryQueue
            /\ lost' \in SUBSET (1..made)
        <4>1. PICK p \in hand :
                \/ /\ Len(retryQueue) < MaxRetryQueue
                   /\ retryQueue' = Append(retryQueue, p)
                   /\ UNCHANGED lost
                \/ /\ lost' = lost \cup {p}
                   /\ UNCHANGED retryQueue
          BY <2>13 DEF BroadcastFails, KeepForRetry
        <4>2. p \in 1..made
          BY <4>1
        <4>3. Append(retryQueue, p) \in Seq(1..made)
              /\ Len(Append(retryQueue, p)) = Len(retryQueue) + 1
          BY <4>2, EntriesAppend
        <4>4. CASE Len(retryQueue) < MaxRetryQueue /\ retryQueue' = Append(retryQueue, p)
                   /\ UNCHANGED lost
          BY <4>3, <4>4
        <4>5. CASE lost' = lost \cup {p} /\ UNCHANGED retryQueue
          BY <4>2, <4>5
        <4> QED BY <4>1, <4>4, <4>5
      <3>2. failures' \in 0..(ReconnectAfter - 1) /\ bpc' \in BpcValues
        BY <2>13 DEF BroadcastFails
      <3> QED BY <2>13, <3>1, <3>2 DEF BroadcastFails
    <2>14. CASE TakeRequest
      BY <2>14 DEF TakeRequest
    <2>15. CASE Reconnect
      <3>1. cooldown' \in BOOLEAN
        BY <2>15, Zenon DEF Reconnect
      <3> QED BY <2>15, <3>1 DEF Reconnect
    <2>16. CASE Replay
      <3>1. ASSUME retryQueue # <<>>
            PROVE  /\ Head(retryQueue) \in 1..made /\ Tail(retryQueue) \in Seq(1..made)
                   /\ Len(Tail(retryQueue)) <= MaxRetryQueue
        BY <3>1, EntriesTail
      <3>2. sent' \in SUBSET (1..made) /\ retryQueue' \in Seq(1..made)
            /\ Len(retryQueue') <= MaxRetryQueue
        BY <2>16, <3>1 DEF Replay, ReplaySucceeds, ReplayFails
      <3>3. failed' \in 0..MaxFailures /\ cooldown' \in BOOLEAN /\ bpc' \in BpcValues
        <4>1. CASE bpc' = "select" /\ cooldown' = TRUE /\ UNCHANGED <<retryQueue, sent, failed>>
          BY <4>1
        <4>2. CASE ReplaySucceeds
          BY <4>2 DEF ReplaySucceeds
        <4>3. CASE ReplayFails
          BY <4>3 DEF ReplayFails
        <4> QED BY <2>16, <4>1, <4>2, <4>3 DEF Replay
      <3>4. UNCHANGED <<zmqVars, channel, hand, failures, flagVars, shutdown, received,
                        announces, requests, made, lost, answerVars>>
        BY <2>16 DEF Replay
      <3> QED BY <3>2, <3>3, <3>4
    <2>17. CASE UNCHANGED vars
      BY <2>17 DEF vars
    <2> QED BY <2>2, <2>3, <2>4, <2>5, <2>6, <2>7, <2>8, <2>9, <2>10, <2>11, <2>12, <2>13,
               <2>14, <2>15, <2>16, <2>17
            DEF Next, ZmqThread, BroadcastTask, OtherTasks
  <1> QED BY <1>1, <1>2, PTL DEF Spec

-----------------------------------------------------------------------------
(* Payloads are conserved and stay in order.                               *)

\* The broadcast task holds a payload exactly while it is broadcasting one.
HandInv ==
    /\ bpc = "sending" => \E p \in Payloads : hand = {p}
    /\ bpc # "sending" => hand = {}

\* Conserved, place by place.
Placed(C, H, R, S, L, n) ==
    /\ C \cup H \cup R \cup S \cup L = 1..n
    /\ C \cap H = {} /\ C \cap R = {} /\ C \cap S = {} /\ C \cap L = {}
    /\ H \cap R = {} /\ H \cap S = {} /\ H \cap L = {}
    /\ R \cap S = {} /\ R \cap L = {}
    /\ S \cap L = {}

PlacedInv == Placed(Entries(channel), hand, Entries(retryQueue), sent, lost, made)

PayloadInv == TypeOK /\ HandInv /\ PlacedInv /\ QueuesInOrder

\* A new payload goes to the channel or is given up.
LEMMA PlacedNew ==
    ASSUME NEW C, NEW H, NEW R, NEW S, NEW L, NEW n \in Nat, Placed(C, H, R, S, L, n)
    PROVE  /\ Placed(C \cup {n + 1}, H, R, S, L, n + 1)
           /\ Placed(C, H, R, S, L \cup {n + 1}, n + 1)
  <1>1. n + 1 \notin 1..n /\ 1..(n + 1) = (1..n) \cup {n + 1}
    OBVIOUS
  <1> HIDE DEF Placed
  <1>2. n + 1 \notin C /\ n + 1 \notin H /\ n + 1 \notin R /\ n + 1 \notin S /\ n + 1 \notin L
    BY <1>1 DEF Placed
  <1> QED BY <1>1, <1>2 DEF Placed

\* rx.recv() moves a payload from the channel to the task's hand.
LEMMA PlacedTake ==
    ASSUME NEW C, NEW R, NEW S, NEW L, NEW n, NEW x, NEW C2, Placed(C, {}, R, S, L, n),
           C = {x} \cup C2, x \notin C2
    PROVE  Placed(C2, {x}, R, S, L, n)
  BY DEF Placed

\* What is in hand is broadcast, queued for a retry or given up.
LEMMA PlacedHand ==
    ASSUME NEW C, NEW H, NEW R, NEW S, NEW L, NEW n, Placed(C, H, R, S, L, n)
    PROVE  /\ Placed(C, {}, R \cup H, S, L, n)
           /\ Placed(C, {}, R, S \cup H, L, n)
           /\ Placed(C, {}, R, S, L \cup H, n)
           /\ Placed({}, {}, {}, S, L \cup H \cup C \cup R, n)
  BY DEF Placed

\* A replay moves a payload from the retry queue to the broadcast ones.
LEMMA PlacedReplay ==
    ASSUME NEW C, NEW H, NEW R, NEW S, NEW L, NEW n, NEW x, NEW R2, Placed(C, H, R, S, L, n),
           R = {x} \cup R2, x \notin R2
    PROVE  Placed(C, H, R2, S \cup {x}, L, n)
  BY DEF Placed

\* Conserved says what PlacedInv says.
LEMMA PlacedConserved == PlacedInv => Conserved
  <1> DEFINE places == <<Entries(channel), hand, Entries(retryQueue), sent, lost>>
  <1>1. DOMAIN places = {1, 2, 3, 4, 5}
    OBVIOUS
  <1>2. /\ places[1] = Entries(channel) /\ places[2] = hand /\ places[3] = Entries(retryQueue)
        /\ places[4] = sent /\ places[5] = lost
    OBVIOUS
  <1> HIDE DEF places
  <1>3. Entries(places) = {places[1], places[2], places[3], places[4], places[5]}
    BY <1>1 DEF Entries
  <1> SUFFICES ASSUME PlacedInv
               PROVE  /\ UNION Entries(places) = 1..made
                      /\ \A i, j \in DOMAIN places : i # j => places[i] \cap places[j] = {}
    BY DEF Conserved, places
  <1>4. UNION Entries(places) = 1..made
    <2>1. UNION Entries(places)
            = Entries(channel) \cup hand \cup Entries(retryQueue) \cup sent \cup lost
      BY <1>2, <1>3
    <2> QED BY <2>1 DEF PlacedInv, Placed
  <1>5. \A i, j \in {1, 2, 3, 4, 5} : i # j => places[i] \cap places[j] = {}
    BY <1>2 DEF PlacedInv, Placed
  <1> QED BY <1>1, <1>4, <1>5

\* The payload numbers are those of PayloadInv's queues: naturals.
LEMMA QueuesOfNat ==
    ASSUME PayloadInv
    PROVE  /\ channel \in Seq(Nat) /\ retryQueue \in Seq(Nat) /\ hand \in SUBSET Nat
           /\ made \in Nat /\ Entries(channel) \subseteq 1..made
           /\ Entries(retryQueue) \subseteq 1..made /\ hand \subseteq 1..made
  <1>1. /\ made \in Nat /\ channel \in Seq(1..made) /\ retryQueue \in Seq(1..made)
        /\ hand \subseteq 1..made
    BY DEF PayloadInv, TypeOK, Payloads
  <1>2. 1..made \subseteq Nat
    BY <1>1
  <1>3. channel \in Seq(Nat) /\ retryQueue \in Seq(Nat)
    BY <1>1, <1>2, SeqMonotonic
  <1> QED BY <1>1, <1>2, <1>3, EntriesType

\* A payload that is made goes behind all others in the channel.
LEMMA PushKeepsOrder ==
    ASSUME PayloadInv, channel' = Append(channel, made + 1), UNCHANGED <<retryQueue, hand>>
    PROVE  /\ Entries(channel') = Entries(channel) \cup {made + 1}
           /\ QueuesInOrder'
  <1>1. /\ Entries(channel') = Entries(channel) \cup {made + 1}
    BY QueuesOfNat, EntriesAppend
  <1>2. \A p \in Entries(channel) \cup Entries(retryQueue) \cup hand : p < made + 1
    BY QueuesOfNat
  <1>3. Increasing(channel) /\ Increasing(retryQueue)
    BY DEF PayloadInv, QueuesInOrder
  <1>4. Increasing(Append(channel, made + 1))
    BY <1>2, <1>3, QueuesOfNat, IncreasingAppend
  <1>5. Increasing(channel')
    BY <1>4
  <1>6. \A p \in Entries(retryQueue) \cup hand, q \in Entries(channel) \cup {made + 1} : p < q
    BY <1>2 DEF PayloadInv, QueuesInOrder
  <1> QED BY <1>1, <1>3, <1>5, <1>6 DEF PayloadInv, QueuesInOrder

\* Every action keeps the payloads in their places and in order.
LEMMA PayloadStep == PayloadInv /\ TypeOK' /\ [Next]_vars => PayloadInv'
  <1> SUFFICES ASSUME PayloadInv, TypeOK', [Next]_vars
               PROVE  HandInv' /\ PlacedInv' /\ QueuesInOrder'
    BY DEF PayloadInv
  <1> USE DEF zmqVars, taskVars, flagVars, countVars, answerVars
  <1>0. QueuesInOrder /\ PlacedInv /\ HandInv
    BY DEF PayloadInv
  <1>1. ASSUME UNCHANGED <<channel, hand, retryQueue, sent, lost, made>>,
               bpc' = "sending" <=> bpc = "sending"
        PROVE  HandInv' /\ PlacedInv' /\ QueuesInOrder'
    BY <1>0, <1>1 DEF HandInv, PlacedInv, QueuesInOrder, Payloads
  <1>2. ASSUME channel' = Append(channel, made + 1), made' = made + 1,
                UNCHANGED <<bpc, hand, retryQueue, sent, lost>>
         PROVE  HandInv' /\ PlacedInv' /\ QueuesInOrder'
    <2>1. Entries(channel') = Entries(channel) \cup {made + 1} /\ QueuesInOrder'
      BY <1>2, PushKeepsOrder
    <2>2. Placed(Entries(channel) \cup {made + 1}, hand, Entries(retryQueue), sent, lost, made + 1)
      BY <1>0, PlacedNew, QueuesOfNat DEF PlacedInv
    <2>3. PlacedInv'
      BY <1>2, <2>1, <2>2 DEF PlacedInv
    <2>4. made \in Nat /\ bpc' = bpc /\ hand' = hand /\ made' = made + 1
      BY <1>2, QueuesOfNat
    <2>5. HandInv'
      BY <1>0, <2>4 DEF HandInv, Payloads
    <2> QED BY <2>1, <2>3, <2>5
  <1>3. ASSUME NEW g \in Groups, SendChunk(g)
        PROVE  HandInv' /\ PlacedInv' /\ QueuesInOrder'
    <2>1. made' = made + 1 /\ UNCHANGED <<bpc, hand, retryQueue, sent>>
      BY <1>3 DEF SendChunk
    <2>2. HandInv'
      <3>1. made \in Nat /\ 1..made \subseteq 1..made'
        BY <2>1, QueuesOfNat
      <3> QED BY <1>0, <2>1, <3>1 DEF HandInv, Payloads
    <2>3. CASE channel' = Append(channel, made + 1) /\ UNCHANGED lost
      BY <1>2, <2>1, <2>3
    <2>4. CASE lost' = lost \cup {made + 1} /\ UNCHANGED channel
      <3>1. QueuesInOrder'
        BY <1>0, <2>1, <2>4 DEF QueuesInOrder
      <3> QED BY <1>0, <2>1, <2>2, <2>4, <3>1, PlacedNew, QueuesOfNat DEF PlacedInv
    <2> QED BY <1>3, <2>3, <2>4 DEF SendChunk
  <1>4. CASE Announce
    <2>1. made' = made + 1 /\ UNCHANGED <<bpc, hand, retryQueue, sent, lost>>
          /\ channel' = Append(channel, made + 1)
      BY <1>4 DEF Announce
    <2> QED BY <1>2, <2>1
  <1>5. ASSUME channel' = <<>>, retryQueue' = <<>>, hand' = {}, bpc' = "exited",
               UNCHANGED <<sent, made>>,
               lost' = lost \cup hand \cup Entries(channel) \cup Entries(retryQueue)
        PROVE  HandInv' /\ PlacedInv' /\ QueuesInOrder'
    <2>1. Entries(channel') = {} /\ Entries(retryQueue') = {} /\ Increasing(channel')
          /\ Increasing(retryQueue')
      BY <1>5, EntriesEmpty
    <2>2. PlacedInv'
      <3>1. Placed({}, {}, {}, sent,
                   lost \cup hand \cup Entries(channel) \cup Entries(retryQueue), made)
        BY <1>0, PlacedHand DEF PlacedInv
      <3>2. /\ hand' = {} /\ sent' = sent /\ made' = made
            /\ lost' = lost \cup hand \cup Entries(channel) \cup Entries(retryQueue)
        BY <1>5
      <3> QED BY <2>1, <3>1, <3>2 DEF PlacedInv
    <2>3. HandInv'
      BY <1>5 DEF HandInv
    <2> QED BY <1>5, <2>1, <2>2, <2>3 DEF QueuesInOrder
  <1>6. CASE ProcessExits
    BY <1>5, <1>6 DEF ProcessExits
  <1>7. CASE TakePayload
    <2>1. hand = {} /\ channel # <<>>
      BY <1>0, <1>7 DEF TakePayload, HandInv
    <2>2. CASE shutdown /\ bpc' = "exited" /\ channel' = <<>> /\ retryQueue' = <<>>
               /\ lost' = lost \cup Entries(channel) \cup Entries(retryQueue)
               /\ UNCHANGED hand
      <3>1. UNCHANGED <<sent, made>>
        BY <1>7 DEF TakePayload
      <3> QED BY <1>5, <2>1, <2>2, <3>1
    <2>3. CASE bpc' = "sending" /\ hand' = {Head(channel)} /\ channel' = Tail(channel)
               /\ UNCHANGED <<lost, retryQueue>>
      <3>1. UNCHANGED <<sent, made>>
        BY <1>7 DEF TakePayload
      <3>2. /\ Head(channel) \in Nat
            /\ Entries(channel) = {Head(channel)} \cup Entries(Tail(channel))
        BY <2>1, QueuesOfNat, EntriesTail
      <3>3. /\ Increasing(Tail(channel))
            /\ \A p \in Entries(Tail(channel)) : Head(channel) < p
        BY <1>0, <2>1, QueuesOfNat, IncreasingTail DEF QueuesInOrder
      <3>4. Head(channel) \notin Entries(Tail(channel))
        BY <3>2, <3>3
      <3>5. Placed(Entries(channel), {}, Entries(retryQueue), sent, lost, made)
        BY <1>0, <2>1 DEF PlacedInv
      <3>6. Placed(Entries(Tail(channel)), {Head(channel)}, Entries(retryQueue), sent, lost, made)
        BY <3>2, <3>4, <3>5, PlacedTake
      <3>7. PlacedInv'
        BY <2>3, <3>1, <3>6 DEF PlacedInv
      <3>8. Head(channel) \in 1..made
        BY <3>2, QueuesOfNat
      <3>9. HandInv'
        BY <2>3, <3>1, <3>8 DEF HandInv, Payloads
      <3>10. QueuesInOrder'
        BY <1>0, <2>3, <3>2, <3>3 DEF QueuesInOrder
      <3> QED BY <3>7, <3>9, <3>10
    <2> QED BY <1>7, <2>2, <2>3 DEF TakePayload
  <1>8. CASE BroadcastSucceeds
    <2>1. /\ bpc' = "select" /\ sent' = sent \cup hand /\ hand' = {}
          /\ UNCHANGED <<channel, retryQueue, made, lost>>
      BY <1>8 DEF BroadcastSucceeds
    <2>2. HandInv'
      BY <2>1 DEF HandInv
    <2>3. QueuesInOrder'
      BY <1>0, <2>1 DEF QueuesInOrder
    <2> QED BY <1>0, <2>1, <2>2, <2>3, PlacedHand DEF PlacedInv
  <1>9. CASE BroadcastFails
    <2>1. /\ hand' = {} /\ bpc' # "sending" /\ UNCHANGED <<channel, made, sent>>
      BY <1>9 DEF BroadcastFails
    <2>2. HandInv'
      BY <2>1 DEF HandInv
    <2>3. PICK p \in hand :
            \/ retryQueue' = Append(retryQueue, p) /\ UNCHANGED lost
            \/ lost' = lost \cup {p} /\ UNCHANGED retryQueue
      BY <1>9 DEF BroadcastFails, KeepForRetry
    <2>4. hand = {p} /\ p \in Nat
      BY <1>0, <1>9, <2>3, QueuesOfNat DEF BroadcastFails, HandInv
    <2>5. CASE retryQueue' = Append(retryQueue, p) /\ UNCHANGED lost
      <3>1. Entries(Append(retryQueue, p)) = Entries(retryQueue) \cup {p}
        BY <2>4, QueuesOfNat, EntriesAppend
      <3>2. Increasing(Append(retryQueue, p))
        BY <1>0, <2>4, QueuesOfNat, IncreasingAppend DEF QueuesInOrder
      <3>3. QueuesInOrder'
        BY <1>0, <2>1, <2>4, <2>5, <3>1, <3>2 DEF QueuesInOrder
      <3>4. Placed(Entries(channel), {}, Entries(retryQueue) \cup {p}, sent, lost, made)
        BY <1>0, <2>4, PlacedHand DEF PlacedInv
      <3>5. Entries(retryQueue') = Entries(retryQueue) \cup {p}
        BY <2>5, <3>1
      <3>6. UNCHANGED <<channel, sent, lost, made>> /\ hand' = {}
        BY <2>1, <2>5
      <3>7. PlacedInv'
        BY <3>4, <3>5, <3>6 DEF PlacedInv
      <3> QED BY <2>2, <3>3, <3>7
    <2>6. CASE lost' = lost \cup {p} /\ UNCHANGED retryQueue
      <3>1. QueuesInOrder'
        BY <1>0, <2>1, <2>6 DEF QueuesInOrder
      <3> QED BY <1>0, <2>1, <2>2, <2>4, <2>6, <3>1, PlacedHand DEF PlacedInv
    <2> QED BY <2>3, <2>5, <2>6
  <1>10. CASE Replay
    <2>1. UNCHANGED <<channel, hand, made, lost>> /\ bpc' # "sending" /\ bpc # "sending"
      BY <1>10 DEF Replay, ReplaySucceeds, ReplayFails
    <2>2. CASE UNCHANGED <<retryQueue, sent>>
      BY <1>1, <2>1, <2>2
    <2>3. CASE retryQueue # <<>> /\ ReplaySucceeds
      <3>1. /\ sent' = sent \cup {Head(retryQueue)} /\ retryQueue' = Tail(retryQueue)
            /\ retryQueue # <<>>
        BY <2>3 DEF ReplaySucceeds
      <3>2. /\ Head(retryQueue) \in Nat
            /\ Entries(retryQueue) = {Head(retryQueue)} \cup Entries(Tail(retryQueue))
        BY <3>1, QueuesOfNat, EntriesTail
      <3>3. /\ Increasing(Tail(retryQueue))
            /\ \A p \in Entries(Tail(retryQueue)) : Head(retryQueue) < p
        BY <1>0, <3>1, QueuesOfNat, IncreasingTail DEF QueuesInOrder
      <3>4. Head(retryQueue) \notin Entries(Tail(retryQueue))
        BY <3>2, <3>3
      <3>5. Placed(Entries(channel), hand, Entries(Tail(retryQueue)),
                   sent \cup {Head(retryQueue)}, lost, made)
        BY <1>0, <3>2, <3>4, PlacedReplay DEF PlacedInv
      <3>6. PlacedInv'
        BY <2>1, <3>1, <3>5 DEF PlacedInv
      <3>7. QueuesInOrder'
        BY <1>0, <2>1, <3>1, <3>2, <3>3 DEF QueuesInOrder
      <3>8. HandInv'
        BY <1>0, <2>1 DEF HandInv
      <3> QED BY <3>6, <3>7, <3>8
    <2> QED BY <1>10, <2>2, <2>3 DEF Replay, ReplayFails
  <1>11. CASE ZmqTop \/ ZmqRecv \/ EndFlush \/ CooldownEnds \/ Shutdown \/ UNCHANGED vars
    BY <1>1, <1>11 DEF ZmqTop, ZmqRecv, EndFlush, CooldownEnds, Shutdown, vars
  <1>12. CASE TakeRequest \/ Reconnect
    BY <1>1, <1>12 DEF TakeRequest, Reconnect
  <1>13. ASSUME NEW force \in BOOLEAN, Request(force)
         PROVE  HandInv' /\ PlacedInv' /\ QueuesInOrder'
    BY <1>1, <1>13 DEF Request
  <1> QED BY <1>3, <1>4, <1>6, <1>7, <1>8, <1>9, <1>10, <1>11, <1>12, <1>13
          DEF Next, ZmqThread, BroadcastTask, OtherTasks

\* The pipeline starts empty.
LEMMA PayloadInit == Init => PayloadInv
  <1> SUFFICES ASSUME Init
               PROVE  PayloadInv
    OBVIOUS
  <1>1. TypeOK
    BY PipelineInit
  <1>2. Entries(channel) = {} /\ Entries(retryQueue) = {} /\ Increasing(channel)
        /\ Increasing(retryQueue)
    BY EntriesEmpty DEF Init
  <1>3. hand = {} /\ sent = {} /\ lost = {} /\ 1..made = {} /\ bpc = "select"
    BY DEF Init
  <1> QED BY <1>1, <1>2, <1>3 DEF PayloadInv, HandInv, PlacedInv, Placed, QueuesInOrder

\* Every payload that was made is in exactly one place: no interleaving of the
\* ZeroMQ thread's try_send, the broadcast task's push_back, pop_front and
\* push_front, its reconnects and the writer's exit loses or duplicates one.
THEOREM PayloadsConserved == Spec => []Conserved
  <1>1. TypeOK' /\ PayloadInv /\ [Next]_vars => PayloadInv'
    BY PayloadStep
  <1>2. PayloadInv => Conserved
    BY PlacedConserved DEF PayloadInv
  <1> QED BY <1>1, <1>2, PayloadInit, PipelineTypeCorrect, PTL DEF Spec

\* The channel and the retry queue hold payloads in the order in which they were
\* made, and everything that waits for a retry is older than everything that
\* waits in the channel, whatever fails and whatever is replayed.
THEOREM PipelineInOrder == Spec => []QueuesInOrder
  <1>1. TypeOK' /\ PayloadInv /\ [Next]_vars => PayloadInv'
    BY PayloadStep
  <1>2. PayloadInv => QueuesInOrder
    BY DEF PayloadInv
  <1> QED BY <1>1, <1>2, PayloadInit, PipelineTypeCorrect, PTL DEF Spec

-----------------------------------------------------------------------------
(* Answers and losses.                                                     *)

\* What flush_batch has done so far: what it has yet to put in a payload is of
\* its batch, the rest of the batch was offered to the channel, and broadcast_ok
\* says that a payload of this batch found the broadcast task alive.
AnswerInv ==
    /\ \A g \in Groups : todo[g] \subseteq {p.id : p \in Entries(pending)}
    /\ zpc \in {"flush", "lastFlush"} =>
          /\ \A p \in Entries(pending) : p.id \in todo[p.group] \cup offered
          /\ broadcastOk => \E p \in Entries(pending) : p.id \in reached

\* The broadcast task only ends when the writer stops.
ExitInv == TypeOK /\ (bpc = "exited" => shutdown)

\* At its beginning flush_batch has its whole batch to send.
LEMMA BeginAnswers ==
    ASSUME pending' \in Seq(Ping), BeginFlush(pending')
    PROVE  AnswerInv'
  <1>1. /\ todo' = [g \in Groups |-> GroupOf(pending', g)]
        /\ broadcastOk' = FALSE
    BY DEF BeginFlush
  <1>2. \A g \in Groups : todo'[g] \subseteq {p.id : p \in Entries(pending')}
    BY <1>1, GroupOfType
  <1>3. \A p \in Entries(pending') : p.group \in Groups
    BY EntriesType DEF Ping
  <1>4. \A p \in Entries(pending') : p.id \in GroupOf(pending', p.group)
    BY DEF GroupOf
  <1>5. \A p \in Entries(pending') : p.id \in todo'[p.group]
    BY <1>1, <1>3, <1>4
  <1> QED BY <1>1, <1>2, <1>5 DEF AnswerInv

\* Every action keeps the account of the flush.
LEMMA AnswerStep == AnswerInv /\ TypeOK /\ TypeOK' /\ [Next]_vars => AnswerInv'
  <1> SUFFICES ASSUME AnswerInv, TypeOK, TypeOK', [Next]_vars
               PROVE  AnswerInv'
    OBVIOUS
  <1> USE DEF zmqVars, taskVars, flagVars, countVars, answerVars
  <1>0. pending \in Seq(Ping) /\ pending' \in Seq(Ping)
    BY DEF TypeOK
  <1>1. ASSUME UNCHANGED <<pending, todo, broadcastOk, offered, reached>>,
               zpc' \in {"flush", "lastFlush"} => zpc \in {"flush", "lastFlush"}
        PROVE  AnswerInv'
    BY <1>1 DEF AnswerInv
  <1>2. CASE ZmqTop
    <2>1. CASE BeginFlush(pending)
      <3>1. BeginFlush(pending')
        BY <1>2, <2>1 DEF ZmqTop
      <3> QED BY <1>0, <3>1, BeginAnswers
    <2>2. CASE zpc' \in {"recv", "stopped"} /\ UNCHANGED <<todo, broadcastOk>>
      BY <1>1, <1>2, <2>2 DEF ZmqTop
    <2> QED BY <1>2, <2>1, <2>2 DEF ZmqTop
  <1>3. CASE ZmqRecv
    <2>1. CASE BeginFlush(pending')
      BY <1>0, <2>1, BeginAnswers
    <2>2. CASE zpc' = "top" /\ UNCHANGED <<todo, broadcastOk>>
      <3>1. Entries(pending) \subseteq Entries(pending')
        <4>1. CASE UNCHANGED pending
          BY <4>1
        <4>2. CASE \E g \in Groups : pending' = Append(pending, [id |-> received + 1, group |-> g])
          <5>1. PICK g \in Groups : pending' = Append(pending, [id |-> received + 1, group |-> g])
            BY <4>2
          <5>2. [id |-> received + 1, group |-> g] \in Ping
            <6>1. received + 1 \in PingIds
              BY <1>0, <1>3, <5>1, WriterPipelineAssumption DEF ZmqRecv, TypeOK, PingIds
            <6> QED BY <6>1 DEF Ping
          <5> QED BY <1>0, <5>1, <5>2, EntriesAppend
        <4> QED BY <1>3, <4>1, <4>2 DEF ZmqRecv
      <3> QED BY <2>2, <3>1 DEF AnswerInv
    <2> QED BY <1>3, <2>1, <2>2 DEF ZmqRecv
  <1>4. ASSUME NEW g \in Groups, SendChunk(g)
        PROVE  AnswerInv'
    <2>1. PICK chunk \in SUBSET todo[g] :
            /\ IsChunk(chunk, todo[g])
            /\ todo' = [todo EXCEPT ![g] = @ \ chunk]
            /\ offered' = offered \cup chunk
            /\ reached' = IF bpc = "exited" THEN reached ELSE reached \cup chunk
      BY <1>4 DEF SendChunk
    <2>2. /\ zpc \in {"flush", "lastFlush"} /\ todo[g] # {}
          /\ UNCHANGED <<zpc, pending>>
          /\ broadcastOk' => broadcastOk \/ bpc # "exited"
      BY <1>4 DEF SendChunk
    <2>3. chunk # {}
      <3>1. SUFFICES ASSUME chunk = {}
                     PROVE  FALSE
        OBVIOUS
      <3>2. Cardinality(chunk) = 0 /\ chunk # todo[g]
        BY <2>2, <3>1, FS_EmptySet
      <3> QED BY <2>1, <3>2, WriterPipelineAssumption DEF IsChunk
    <2>4. todo \in [Groups -> SUBSET PingIds]
      BY DEF TypeOK
    <2>5. \A h \in Groups : todo'[h] = IF h = g THEN todo[g] \ chunk ELSE todo[h]
      BY <2>1, <2>4
    <2>6. \A h \in Groups : todo'[h] \subseteq {p.id : p \in Entries(pending')}
      BY <2>2, <2>5 DEF AnswerInv
    <2>7. \A p \in Entries(pending) : p.group \in Groups
      BY <1>0, EntriesType DEF Ping
    <2>8. \A p \in Entries(pending') : p.id \in todo'[p.group] \cup offered'
      BY <2>1, <2>2, <2>5, <2>7 DEF AnswerInv
    <2>9. ASSUME broadcastOk'
          PROVE  \E p \in Entries(pending') : p.id \in reached'
      <3>1. CASE bpc = "exited"
        <4>1. reached' = reached /\ pending' = pending /\ broadcastOk
          BY <2>1, <2>2, <2>9, <3>1
        <4> QED BY <2>2, <4>1 DEF AnswerInv
      <3>2. CASE bpc # "exited"
        <4>1. PICK i \in chunk : TRUE
          BY <2>3
        <4>2. i \in reached' /\ pending' = pending
          BY <2>1, <2>2, <3>2, <4>1
        <4>3. \E p \in Entries(pending) : p.id = i
          BY <2>1, <4>1 DEF AnswerInv
        <4> QED BY <4>2, <4>3
      <3> QED BY <3>1, <3>2
    <2> QED BY <2>6, <2>8, <2>9 DEF AnswerInv
  <1>5. CASE EndFlush
    <2>1. /\ \A g \in Groups : todo'[g] = {}
          /\ zpc' \notin {"flush", "lastFlush"}
      BY <1>5 DEF EndFlush
    <2> QED BY <2>1 DEF AnswerInv
  <1>6. CASE Announce \/ CooldownEnds \/ Shutdown \/ ProcessExits \/ UNCHANGED vars
    BY <1>1, <1>6 DEF Announce, CooldownEnds, Shutdown, ProcessExits, vars
  <1>7. CASE BroadcastTask
    BY <1>1, <1>7 DEF BroadcastTask, TakePayload, BroadcastSucceeds, BroadcastFails, TakeRequest,
                      Reconnect, Replay
  <1>8. ASSUME NEW force \in BOOLEAN, Request(force)
        PROVE  AnswerInv'
    BY <1>1, <1>8 DEF Request
  <1> QED BY <1>2, <1>3, <1>4, <1>5, <1>6, <1>7, <1>8 DEF Next, ZmqThread, OtherTasks

\* A ping that is answered over ZeroMQ was put in a payload and offered to the
\* channel, and some payload of its batch found the broadcast task alive: no
\* batch is answered that the channel refused as a whole, however the flush
\* interleaves with the end of the broadcast task.  (flush_batch.)
THEOREM AnswersFollowOffers == Spec => AnsweredWasOffered
  <1> DEFINE Offered == \A i \in acked' \ acked :
                          /\ i \in offered
                          /\ \E p \in Entries(pending) : p.id \in reached
  <1>1. Init => AnswerInv
    <2> SUFFICES ASSUME Init
                 PROVE  AnswerInv
      OBVIOUS
    <2> QED BY DEF Init, AnswerInv
  <1>2. AnswerInv /\ TypeOK /\ TypeOK' /\ [Next]_vars => AnswerInv'
    BY AnswerStep
  <1>3. AnswerInv /\ TypeOK /\ [Next]_vars => [Offered]_vars
    <2> SUFFICES ASSUME AnswerInv, TypeOK, [Next]_vars, NEW i \in acked' \ acked
                 PROVE  /\ i \in offered
                        /\ \E p \in Entries(pending) : p.id \in reached
      BY Zenon
    <2> USE DEF zmqVars, taskVars, flagVars, countVars, answerVars
    <2>1. CASE EndFlush
      <3>1. PICK replied \in SUBSET {p.id : p \in Entries(pending)} :
              /\ ~broadcastOk => replied = {}
              /\ acked' = acked \cup replied
        BY <2>1 DEF EndFlush
      <3>2. i \in replied /\ broadcastOk
        BY <3>1
      <3>3. PICK p \in Entries(pending) : p.id = i
        BY <3>1, <3>2
      <3>4. p.group \in Groups
        <4>1. pending \in Seq(Ping)
          BY DEF TypeOK
        <4>2. p \in Ping
          BY <3>3, <4>1, EntriesType
        <4> QED BY <4>2 DEF Ping
      <3>5. zpc \in {"flush", "lastFlush"} /\ todo[p.group] = {}
        BY <2>1, <3>4 DEF EndFlush
      <3> QED BY <3>2, <3>3, <3>5 DEF AnswerInv
    <2>2. CASE ZmqTop \/ ZmqRecv \/ Announce \/ CooldownEnds \/ Shutdown \/ ProcessExits
               \/ UNCHANGED vars
      BY <2>2 DEF ZmqTop, ZmqRecv, Announce, CooldownEnds, Shutdown, ProcessExits, vars
    <2>3. CASE BroadcastTask
      BY <2>3 DEF BroadcastTask, TakePayload, BroadcastSucceeds, BroadcastFails, TakeRequest,
                  Reconnect, Replay
    <2>4. ASSUME NEW g \in Groups, SendChunk(g)
          PROVE  FALSE
      BY <2>4 DEF SendChunk
    <2>5. ASSUME NEW force \in BOOLEAN, Request(force)
          PROVE  FALSE
      BY <2>5 DEF Request
    <2> QED BY <2>1, <2>2, <2>3, <2>4, <2>5 DEF Next, ZmqThread, OtherTasks
  <1>4. [][Offered]_vars => AnsweredWasOffered
    BY DEF AnsweredWasOffered
  <1> QED BY <1>1, <1>2, <1>3, <1>4, PipelineTypeCorrect, PTL DEF Spec

\* A payload is given up only when the channel or the retry queue is full or the
\* writer stops: no failed reconnect and no failed broadcast drops one.
THEOREM LossesHaveReason == Spec => LossHasReason
  <1> DEFINE Reason == lost' # lost => \/ Len(channel) = ChannelCap
                                       \/ Len(retryQueue) = MaxRetryQueue
                                       \/ shutdown
  <1> USE DEF zmqVars, taskVars, flagVars, countVars, answerVars
  <1>1. Init => ExitInv
    BY PipelineInit DEF Init, ExitInv
  <1>2. ExitInv /\ TypeOK' /\ [Next]_vars => ExitInv'
    <2> SUFFICES ASSUME ExitInv, TypeOK', [Next]_vars
                 PROVE  bpc' = "exited" => shutdown'
      BY DEF ExitInv
    <2>1. CASE ZmqTop \/ ZmqRecv \/ EndFlush \/ Announce \/ CooldownEnds \/ Shutdown
               \/ ProcessExits \/ UNCHANGED vars
      BY <2>1 DEF ExitInv, ZmqTop, ZmqRecv, EndFlush, Announce, CooldownEnds, Shutdown,
                  ProcessExits, vars
    <2>2. CASE BroadcastTask
      BY <2>2 DEF ExitInv, BroadcastTask, TakePayload, BroadcastSucceeds, BroadcastFails,
                  TakeRequest, Reconnect, Replay, ReplaySucceeds, ReplayFails
    <2>3. ASSUME NEW g \in Groups, SendChunk(g)
          PROVE  bpc' = "exited" => shutdown'
      BY <2>3 DEF ExitInv, SendChunk
    <2>4. ASSUME NEW force \in BOOLEAN, Request(force)
          PROVE  bpc' = "exited" => shutdown'
      BY <2>4 DEF ExitInv, Request
    <2> QED BY <2>1, <2>2, <2>3, <2>4 DEF Next, ZmqThread, OtherTasks
  <1>3. ExitInv /\ [Next]_vars => Reason
    <2> SUFFICES ASSUME ExitInv, [Next]_vars
                 PROVE  Reason
      OBVIOUS
    <2>1. CASE ZmqTop \/ ZmqRecv \/ EndFlush \/ Announce \/ CooldownEnds \/ Shutdown
               \/ ProcessExits \/ UNCHANGED vars
      BY <2>1 DEF ZmqTop, ZmqRecv, EndFlush, Announce, CooldownEnds, Shutdown, ProcessExits,
                  vars
    <2>2. CASE BroadcastTask
      BY <2>2 DEF BroadcastTask, TakePayload, BroadcastSucceeds, BroadcastFails, KeepForRetry,
                  TakeRequest, Reconnect, Replay
    <2>3. ASSUME NEW g \in Groups, SendChunk(g)
          PROVE  Reason
      BY <2>3 DEF ExitInv, SendChunk
    <2>4. ASSUME NEW force \in BOOLEAN, Request(force)
          PROVE  Reason
      BY <2>4 DEF Request
    <2> QED BY <2>1, <2>2, <2>3, <2>4 DEF Next, ZmqThread, OtherTasks
  <1>4. ExitInv /\ [Next]_vars => [Reason]_vars
    BY <1>3
  <1> QED BY <1>1, <1>2, <1>4, PipelineTypeCorrect, PTL DEF Spec, LossHasReason

=============================================================================
