------------------------- MODULE PeerRegistryProofs -------------------------
(***************************************************************************)
(* Proofs about PeerRegistry, for every set of nodes and every bound.      *)
(***************************************************************************)
EXTENDS PeerRegistry, FiniteSetTheorems, TLAPS

\* The samples kept of a node stay within MaxHistory (PeerRegistry::update).
LEMMA AddSampleBounded ==
    ASSUME NEW k \in 0..MaxHistory
    PROVE  AddSample(k) \in 0..MaxHistory
<1> DEFINE S == {k + 1, MaxHistory}
<1>1. k + 1 \in Nat /\ MaxHistory \in Nat
  BY RegistryAssumption
<1>2. \E x \in S : \A y \in S : x <= y
  <2>1. CASE k + 1 <= MaxHistory
    BY <1>1, <2>1
  <2>2. CASE ~(k + 1 <= MaxHistory)
    BY <1>1, <2>2
  <2> QED
    BY <2>1, <2>2
<1>3. Min(S) \in S /\ \A y \in S : Min(S) <= y
  BY <1>2 DEF Min
<1>4. AddSample(k) = Min(S)
  BY DEF AddSample
<1> HIDE DEF S
<1>5. Min(S) = k + 1 \/ Min(S) = MaxHistory
  BY <1>3 DEF S
<1>6. Min(S) <= MaxHistory
  BY <1>3 DEF S
<1> QED
  BY <1>1, <1>4, <1>5, <1>6

-----------------------------------------------------------------------------
\* Writing an announcement into the map (the insert of update).
LEMMA InsertType ==
    ASSUME TypeOK, NEW a \in Announce, Insert(a)
    PROVE  /\ DOMAIN peers' = DOMAIN peers \cup {a.node}
           /\ DOMAIN peers' \subseteq Nodes
           /\ \A n \in DOMAIN peers' : peers'[n] \in PeerState
<1>1. a.node \in Nodes /\ a.neighbors \in SUBSET Nodes
  BY DEF Announce
<1>2. [neighbors |-> a.neighbors, age |-> "active"] \in PeerState
  BY <1>1 DEF PeerState, Ages
<1>3. DOMAIN peers \subseteq Nodes /\ \A n \in DOMAIN peers : peers[n] \in PeerState
  BY DEF TypeOK
<1>4. DOMAIN peers' = DOMAIN peers \cup {a.node}
  BY DEF Insert
<1>5. \A n \in DOMAIN peers' : peers'[n] = IF n = a.node
                                           THEN [neighbors |-> a.neighbors, age |-> "active"]
                                           ELSE peers[n]
  BY DEF Insert
<1> QED
  BY <1>1, <1>2, <1>3, <1>4, <1>5

\* Only active nodes are suggested something.
LEMMA TargetsAreNodes ==
    ASSUME TypeOK, NEW main
    PROVE  Targets(Adjacency, main) \subseteq Nodes
BY DEF TypeOK, Targets, Adjacency, Active

\* Every step of the monitor keeps the types, and the number of updates.
LEMMA RegistryInductive == TypeOK /\ [Next]_vars => TypeOK'
<1> SUFFICES ASSUME TypeOK, [Next]_vars PROVE TypeOK'
  OBVIOUS
<1> USE RegistryAssumption
<1>1. ASSUME NEW a \in Announce, RecordSample(a) PROVE TypeOK'
  <2>1. a.node \in Nodes /\ history[a.node] \in 0..MaxHistory
    BY DEF Announce, TypeOK
  <2>2. history' \in [Nodes -> 0..MaxHistory]
    BY <1>1, <2>1, AddSampleBounded DEF RecordSample, TypeOK
  <2>3. /\ updating' \in SUBSET Announce
        /\ IsFiniteSet(updating') /\ Cardinality(updating') <= 2
    <3>1. updating' = updating \cup {a} /\ a \notin updating /\ Cardinality(updating) < 2
      BY <1>1 DEF RecordSample
    <3>2. updating \in SUBSET Announce /\ IsFiniteSet(updating) /\ Cardinality(updating) \in Nat
      BY FS_CardinalityType DEF TypeOK
    <3>3. IsFiniteSet(updating \cup {a}) /\ Cardinality(updating \cup {a}) = Cardinality(updating) + 1
      BY <3>1, <3>2, FS_AddElement
    <3> QED
      BY <3>1, <3>2, <3>3
  <2>4. announces' \in 0..MaxAnnounces
    BY <1>1 DEF RecordSample, TypeOK
  <2> QED
    BY <1>1, <2>2, <2>3, <2>4 DEF RecordSample, TypeOK
<1>2. ASSUME NEW a \in Announce, InsertPeer(a) PROVE TypeOK'
  <2>1. DOMAIN peers' \subseteq Nodes /\ \A n \in DOMAIN peers' : peers'[n] \in PeerState
    BY <1>2, InsertType DEF InsertPeer
  <2>2. /\ updating' \in SUBSET Announce
        /\ IsFiniteSet(updating') /\ Cardinality(updating') <= 2
    <3>1. updating' = updating \ {a} /\ a \in updating
      BY <1>2 DEF InsertPeer
    <3>2. updating \in SUBSET Announce /\ IsFiniteSet(updating) /\ Cardinality(updating) \in Nat
          /\ Cardinality(updating) <= 2
      BY FS_CardinalityType DEF TypeOK
    <3>3. IsFiniteSet(updating \ {a}) /\ Cardinality(updating \ {a}) = Cardinality(updating) - 1
      BY <3>1, <3>2, FS_RemoveElement
    <3> QED
      BY <3>1, <3>2, <3>3
  <2> QED
    BY <1>2, <2>1, <2>2 DEF InsertPeer, TypeOK
<1>3. ASSUME NEW a \in Announce, UpdateNoMetrics(a) PROVE TypeOK'
  <2>1. DOMAIN peers' \subseteq Nodes /\ \A n \in DOMAIN peers' : peers'[n] \in PeerState
    BY <1>3, InsertType DEF UpdateNoMetrics
  <2>2. announces' \in 0..MaxAnnounces
    BY <1>3 DEF UpdateNoMetrics, TypeOK
  <2> QED
    BY <1>3, <2>1, <2>2 DEF UpdateNoMetrics, TypeOK
<1>4. CASE PruneStale
  <2>1. DOMAIN peers' \subseteq Nodes /\ \A n \in DOMAIN peers' : peers'[n] \in PeerState
    BY <1>4 DEF PruneStale, TypeOK
  <2>2. history' \in [Nodes -> 0..MaxHistory]
    BY <1>4 DEF PruneStale, TypeOK
  <2> QED
    BY <1>4, <2>1, <2>2 DEF PruneStale, TypeOK
<1>5. CASE Suggest
  <2>1. recent' \subseteq Nodes
    BY <1>5, TargetsAreNodes DEF Suggest, TypeOK
  <2> QED
    BY <1>5, <2>1 DEF Suggest, TypeOK
<1>6. ASSUME NEW n \in DOMAIN peers, Age(n) PROVE TypeOK'
  <2>1. peers[n] \in PeerState
    BY DEF TypeOK
  <2>2. [peers[n] EXCEPT !.age = IF @ = "active" THEN "stale" ELSE "old"] \in PeerState
    BY <2>1 DEF PeerState, Ages
  <2>3. /\ DOMAIN peers' = DOMAIN peers
        /\ \A m \in DOMAIN peers :
               peers'[m] = IF m = n
                           THEN [peers[n] EXCEPT !.age = IF @ = "active" THEN "stale" ELSE "old"]
                           ELSE peers[m]
    BY <1>6 DEF Age
  <2>4. DOMAIN peers' \subseteq Nodes /\ \A m \in DOMAIN peers' : peers'[m] \in PeerState
    BY <2>2, <2>3 DEF TypeOK
  <2>5. agings' \in 0..MaxAging
    BY <1>6 DEF Age, TypeOK
  <2> QED
    BY <1>6, <2>4, <2>5 DEF Age, TypeOK
<1>7. ASSUME NEW n \in Nodes, RateLimitEnds(n) PROVE TypeOK'
  BY <1>7 DEF RateLimitEnds, TypeOK
<1>8. CASE UNCHANGED vars
  BY <1>8 DEF vars, TypeOK
<1> QED
  BY <1>1, <1>2, <1>3, <1>4, <1>5, <1>6, <1>7, <1>8 DEF Next

\* The registry the monitor starts with has the types.
LEMMA RegistryInitially == Init => TypeOK
<1> SUFFICES ASSUME Init PROVE TypeOK
  OBVIOUS
<1> USE RegistryAssumption
<1>1. PICK known \in SUBSET Nodes :
        \E links \in SUBSET {e \in SUBSET known : Cardinality(e) = 2} :
          /\ peers = [n \in known |->
                          [neighbors |-> {m \in known \ {n} : {m, n} \in links},
                           age |-> "active"]]
          /\ history = [n \in Nodes |-> IF n \in known THEN 1 ELSE 0]
  BY Zenon DEF Init
<1>2. DOMAIN peers \subseteq Nodes /\ \A n \in DOMAIN peers : peers[n] \in PeerState
  BY <1>1 DEF PeerState, Ages
<1>3. history \in [Nodes -> 0..MaxHistory]
  BY <1>1
<1>4. updating \in SUBSET Announce /\ IsFiniteSet(updating) /\ Cardinality(updating) <= 2
  BY FS_EmptySet DEF Init
<1>5. updating = {} /\ recent \subseteq Nodes
      /\ announces \in 0..MaxAnnounces /\ agings \in 0..MaxAging
  BY DEF Init
<1> QED
  BY <1>2, <1>3, <1>4, <1>5 DEF TypeOK

\* The monitor's map, its histories, the update in progress and the rate limit
\* keep their types; no node has more than MaxHistory samples.
THEOREM RegistryTypeCorrect == Spec => []TypeOK
  BY RegistryInitially, RegistryInductive, PTL DEF Spec

-----------------------------------------------------------------------------
\* Every step keeps each history with its peer, or with the update that is
\* about to insert the peer.
LEMMA HistoryOwnedInductive ==
    TypeOK /\ HistoryOwned /\ [Next]_vars => HistoryOwned'
<1> SUFFICES ASSUME TypeOK, HistoryOwned, [Next]_vars PROVE HistoryOwned'
  OBVIOUS
<1>1. ASSUME NEW a \in Announce, RecordSample(a) PROVE HistoryOwned'
  <2>1. a.node \in Nodes /\ updating' = updating \cup {a} /\ peers' = peers
    BY <1>1 DEF RecordSample, Announce
  <2>2. \A n \in Nodes : n # a.node => history'[n] = history[n]
    BY <1>1, <2>1 DEF RecordSample, TypeOK
  <2> QED
    BY <2>1, <2>2 DEF HistoryOwned
<1>2. ASSUME NEW a \in Announce, InsertPeer(a) PROVE HistoryOwned'
  <2>1. updating' = updating \ {a}
    BY <1>2 DEF InsertPeer
  <2>2. DOMAIN peers' = DOMAIN peers \cup {a.node} /\ history' = history
    BY <1>2 DEF InsertPeer, Insert
  <2> QED
    BY <2>1, <2>2 DEF HistoryOwned
<1>3. ASSUME NEW a \in Announce, UpdateNoMetrics(a) PROVE HistoryOwned'
  <2>1. /\ DOMAIN peers' = DOMAIN peers \cup {a.node}
        /\ history' = history /\ updating' = updating
    BY <1>3 DEF UpdateNoMetrics, Insert
  <2> QED
    BY <2>1 DEF HistoryOwned
<1>4. CASE PruneStale
  <2>1. \A n \in Nodes : n \notin DOMAIN peers' => history'[n] = 0
    BY <1>4 DEF PruneStale
  <2> QED
    BY <2>1 DEF HistoryOwned
<1>5. CASE Suggest
  BY <1>5 DEF Suggest, HistoryOwned
<1>6. ASSUME NEW n \in DOMAIN peers, Age(n) PROVE HistoryOwned'
  <2>1. DOMAIN peers' = DOMAIN peers /\ history' = history /\ updating' = updating
    BY <1>6 DEF Age
  <2> QED
    BY <2>1 DEF HistoryOwned
<1>7. ASSUME NEW n \in Nodes, RateLimitEnds(n) PROVE HistoryOwned'
  BY <1>7 DEF RateLimitEnds, HistoryOwned
<1>8. CASE UNCHANGED vars
  BY <1>8 DEF vars, HistoryOwned
<1> QED
  BY <1>1, <1>2, <1>3, <1>4, <1>5, <1>6, <1>7, <1>8 DEF Next

\* The histories do not outlive their peers, although a prune may come between
\* the two locks of an update.
THEOREM HistoryOwnedTheorem == Spec => []HistoryOwned
<1>1. Init => HistoryOwned
  BY DEF Init, HistoryOwned
<1> QED
  BY <1>1, RegistryInitially, RegistryInductive, HistoryOwnedInductive, PTL DEF Spec
-----------------------------------------------------------------------------
(* Induction.  The theorems of module NaturalsInduction have an operator   *)
(* for a parameter, which no prover can find; this one has a set.          *)

\* A set of numbers with 0, and with the successor of each of its numbers, has
\* them all.  If not, one of the intervals 0..n with n outside is the smallest,
\* because inclusion of finite sets is well-founded.
LEMMA SetInduction ==
    ASSUME NEW T \in SUBSET Nat, 0 \in T, \A n \in T : n + 1 \in T
    PROVE  \A n \in Nat : n \in T
<1> SUFFICES ASSUME NEW k \in Nat, k \notin T PROVE FALSE
  OBVIOUS
<1> DEFINE R == StrictSubsetOrdering(Nat)
           B == {I \in FiniteSubsetsOf(Nat) : \E n \in Nat \ T : I = 0..n}
<1>1. \A n \in Nat \ T : 0..n \in B
  <2>1. \A n \in Nat : IsFiniteSet(0..n) /\ 0..n \in SUBSET Nat
    BY FS_Interval
  <2> QED
    BY <2>1 DEF FiniteSubsetsOf
<1>2. IsWellFoundedOn(R, FiniteSubsetsOf(Nat))
  BY FS_StrictSubsetOrderingWellFounded
<1>3. B # {} /\ B \subseteq FiniteSubsetsOf(Nat)
  BY <1>1
<1>4. PICK x \in B : \A y \in B : ~(<<y, x>> \in R)
  BY <1>2, <1>3, WFMin
<1>5. PICK n \in Nat \ T : x = 0..n
  OBVIOUS
<1>6. n - 1 \in Nat \ T
  OBVIOUS
<1>7. 0..(n - 1) \in B
  BY <1>1, <1>6
<1>8. /\ 0..(n - 1) \subseteq 0..n /\ 0..(n - 1) # 0..n
      /\ 0..(n - 1) \in SUBSET Nat /\ 0..n \in SUBSET Nat
  OBVIOUS
<1>9. <<0..(n - 1), 0..n>> \in R
  BY <1>8 DEF StrictSubsetOrdering
<1> QED
  BY <1>4, <1>5, <1>7, <1>9

-----------------------------------------------------------------------------
(* bfs_component: the search finds the connected component.                *)

\* A finite graph, as analyze_topology builds it.
IsGraph(adj) ==
    /\ IsFiniteSet(DOMAIN adj)
    /\ \A v \in DOMAIN adj : adj[v] \subseteq DOMAIN adj

\* Edges go both ways.
IsUndirected(adj) == \A v, w \in DOMAIN adj : w \in adj[v] => v \in adj[w]

\* A set of nodes that no edge leaves.
IsClosed(adj, S) == S \subseteq DOMAIN adj /\ \A v \in S : adj[v] \subseteq S

\* The first n rounds of a search from s.
AreRounds(adj, s, n, g) ==
    g = [d \in 0..n |-> IF d = 0 THEN {s} ELSE g[d - 1] \cup Around(adj, g[d - 1])]

\* A search can go on for any number of rounds: the recursion is well-founded.
LEMMA RoundsExist ==
    ASSUME NEW adj, NEW s
    PROVE  \A n \in Nat : \E g : AreRounds(adj, s, n, g)
<1> DEFINE T == {n \in Nat : \E g : AreRounds(adj, s, n, g)}
<1>1. 0 \in T
  <2>1. AreRounds(adj, s, 0, [d \in 0..0 |-> {s}])
    BY DEF AreRounds
  <2> QED
    BY <2>1
<1>2. ASSUME NEW n \in T PROVE n + 1 \in T
  <2>1. PICK g : AreRounds(adj, s, n, g)
    OBVIOUS
  <2> DEFINE h == [d \in 0..(n + 1) |-> IF d = n + 1 THEN g[n] \cup Around(adj, g[n]) ELSE g[d]]
  <2>2. \A d \in 0..(n + 1) :
          h[d] = IF d = 0 THEN {s} ELSE h[d - 1] \cup Around(adj, h[d - 1])
    <3> SUFFICES ASSUME NEW d \in 0..(n + 1)
                 PROVE  h[d] = IF d = 0 THEN {s} ELSE h[d - 1] \cup Around(adj, h[d - 1])
      OBVIOUS
    <3>1. CASE d = n + 1
      <4>1. h[d] = g[n] \cup Around(adj, g[n]) /\ h[d - 1] = g[n] /\ d # 0
        BY <3>1
      <4> QED
        BY <4>1
    <3>2. CASE d # n + 1 /\ d # 0
      <4>1. d \in 0..n /\ d - 1 \in 0..n /\ h[d] = g[d] /\ h[d - 1] = g[d - 1]
        BY <3>2
      <4>2. g[d] = g[d - 1] \cup Around(adj, g[d - 1])
        BY <2>1, <3>2, <4>1 DEF AreRounds
      <4> QED
        BY <3>2, <4>1, <4>2
    <3>3. CASE d = 0
      <4>1. h[d] = g[0] /\ 0 \in 0..n
        BY <3>3
      <4>2. g[0] = {s}
        BY <2>1, <4>1 DEF AreRounds
      <4> QED
        BY <3>3, <4>1, <4>2
    <3> QED
      BY <3>1, <3>2, <3>3
  <2>3. h = [d \in 0..(n + 1) |-> h[d]]
    OBVIOUS
  <2> HIDE DEF h
  <2>4. AreRounds(adj, s, n + 1, h)
    BY <2>2, <2>3, Zenon DEF AreRounds
  <2> QED
    BY <2>4
<1> HIDE DEF T
<1>3. T \in SUBSET Nat
  BY DEF T
<1>4. \A n \in Nat : n \in T
  BY <1>1, <1>2, <1>3, SetInduction
<1> QED
  BY <1>4 DEF T

\* What the rounds of a search in a graph contain.
LEMMA RoundsAre ==
    ASSUME NEW adj, IsGraph(adj), NEW s
    PROVE  LET r == Rounds(adj, s)
               last == Cardinality(DOMAIN adj)
           IN  /\ last \in Nat
               /\ r[0] = {s}
               /\ \A d \in 1..last : r[d] = r[d - 1] \cup Around(adj, r[d - 1])
<1> DEFINE r == Rounds(adj, s)
           last == Cardinality(DOMAIN adj)
<1>1. last \in Nat
  BY FS_CardinalityType DEF IsGraph
<1>2. \E g : AreRounds(adj, s, last, g)
  BY <1>1, RoundsExist
<1>3. r = CHOOSE g : AreRounds(adj, s, last, g)
  BY DEF Rounds, AreRounds
<1>4. AreRounds(adj, s, last, r)
  BY <1>2, <1>3
<1>5. r = [d \in 0..last |-> IF d = 0 THEN {s} ELSE r[d - 1] \cup Around(adj, r[d - 1])]
  BY <1>4 DEF AreRounds
<1> HIDE DEF r, last
<1>6. r[0] = {s}
  BY <1>1, <1>5
<1>7. ASSUME NEW d \in 1..last PROVE r[d] = r[d - 1] \cup Around(adj, r[d - 1])
  <2>1. d \in 0..last /\ d # 0
    BY <1>1
  <2> QED
    BY <1>5, <2>1
<1>8. /\ last \in Nat /\ r[0] = {s}
      /\ \A d \in 1..last : r[d] = r[d - 1] \cup Around(adj, r[d - 1])
  BY <1>1, <1>6, <1>7
<1> QED
  BY <1>8 DEF r, last

\* The search stays within any set that no edge leaves, and keeps what it found.
LEMMA RoundsStay ==
    ASSUME NEW adj, IsGraph(adj), NEW S, IsClosed(adj, S), NEW s \in S
    PROVE  \A d \in 0..Cardinality(DOMAIN adj) :
              s \in Rounds(adj, s)[d] /\ Rounds(adj, s)[d] \subseteq S
<1> DEFINE r == Rounds(adj, s)
           last == Cardinality(DOMAIN adj)
           T == {d \in Nat : d <= last => s \in r[d] /\ r[d] \subseteq S}
<1>1. /\ last \in Nat /\ r[0] = {s}
      /\ \A d \in 1..last : r[d] = r[d - 1] \cup Around(adj, r[d - 1])
  BY RoundsAre
<1> HIDE DEF r, last
<1>2. 0 \in T
  BY <1>1
<1>3. ASSUME NEW d \in T PROVE d + 1 \in T
  <2>1. CASE d + 1 <= last
    <3>1. d + 1 \in 1..last /\ (d + 1) - 1 = d /\ d <= last /\ d \in Nat
      BY <1>1, <2>1
    <3>2. r[d + 1] = r[d] \cup Around(adj, r[d])
      BY <1>1, <3>1
    <3>3. s \in r[d] /\ r[d] \subseteq S
      BY <3>1
    <3>4. Around(adj, r[d]) \subseteq S
      BY <3>3 DEF Around, IsClosed
    <3> QED
      BY <3>1, <3>2, <3>3, <3>4
  <2>2. CASE ~(d + 1 <= last)
    BY <2>2
  <2> QED
    BY <2>1, <2>2
<1>4. \A d \in Nat : d \in T
  <2>1. T \in SUBSET Nat
    OBVIOUS
  <2> HIDE DEF T
  <2> QED
    BY <1>2, <1>3, <2>1, SetInduction
<1>5. \A d \in 0..last : s \in r[d] /\ r[d] \subseteq S
  BY <1>1, <1>4
<1> QED
  BY <1>5 DEF r, last

\* A search of as many rounds as there are nodes is complete: until no edge
\* leaves what was found, every round finds a node more.
LEMMA RoundsClose ==
    ASSUME NEW adj, IsGraph(adj), NEW s \in DOMAIN adj
    PROVE  IsClosed(adj, Component(adj, s))
<1> DEFINE r == Rounds(adj, s)
           last == Cardinality(DOMAIN adj)
           T == {d \in Nat : d <= last => IsClosed(adj, r[d]) \/ Cardinality(r[d]) >= d + 1}
<1>1. /\ last \in Nat /\ r[0] = {s}
      /\ \A d \in 1..last : r[d] = r[d - 1] \cup Around(adj, r[d - 1])
  BY RoundsAre
<1>2. IsClosed(adj, DOMAIN adj)
  BY DEF IsClosed, IsGraph
<1>3. \A d \in 0..last : r[d] \subseteq DOMAIN adj
  BY <1>2, RoundsStay
<1>4. \A d \in 0..last :
         IsFiniteSet(r[d]) /\ Cardinality(r[d]) \in Nat /\ Cardinality(r[d]) <= last
  BY <1>3, FS_Subset, FS_CardinalityType DEF IsGraph
<1> HIDE DEF r, last
<1>5. 0 \in T
  <2>1. Cardinality(r[0]) = 1
    BY <1>1, FS_Singleton
  <2> QED
    BY <2>1
<1>6. ASSUME NEW d \in T PROVE d + 1 \in T
  <2> SUFFICES ASSUME d + 1 <= last
               PROVE  IsClosed(adj, r[d + 1]) \/ Cardinality(r[d + 1]) >= (d + 1) + 1
    OBVIOUS
  <2>1. d + 1 \in 1..last /\ (d + 1) - 1 = d /\ d \in 0..last /\ d + 1 \in 0..last /\ d \in Nat
    BY <1>1
  <2>2. r[d + 1] = r[d] \cup Around(adj, r[d])
    BY <1>1, <2>1
  <2>3. CASE IsClosed(adj, r[d])
    <3>1. Around(adj, r[d]) \subseteq r[d]
      BY <2>3 DEF Around, IsClosed
    <3>2. r[d + 1] = r[d]
      BY <2>2, <3>1
    <3> QED
      BY <2>3, <3>2
  <2>4. CASE ~IsClosed(adj, r[d])
    <3>1. PICK w \in Around(adj, r[d]) : w \notin r[d]
      BY <1>3, <2>1, <2>4 DEF IsClosed, Around
    <3>2. Cardinality(r[d] \cup {w}) = Cardinality(r[d]) + 1
      BY <1>4, <2>1, <3>1, FS_AddElement
    <3>3. r[d] \cup {w} \in SUBSET r[d + 1]
      BY <2>2, <3>1
    <3>4. Cardinality(r[d] \cup {w}) <= Cardinality(r[d + 1])
      BY <1>4, <2>1, <3>3, FS_Subset
    <3>5. Cardinality(r[d]) >= d + 1
      BY <2>1, <2>4
    <3>6. Cardinality(r[d]) \in Nat /\ Cardinality(r[d + 1]) \in Nat
      BY <1>4, <2>1
    <3> QED
      BY <2>1, <3>2, <3>4, <3>5, <3>6
  <2> QED
    BY <2>3, <2>4
<1>7. \A d \in Nat : d \in T
  <2>1. T \in SUBSET Nat
    OBVIOUS
  <2> HIDE DEF T
  <2> QED
    BY <1>5, <1>6, <2>1, SetInduction
<1>8. IsClosed(adj, r[last])
  <2>1. last \in 0..last
    BY <1>1
  <2>2. IsClosed(adj, r[last]) \/ Cardinality(r[last]) >= last + 1
    BY <1>1, <1>7, <2>1
  <2> QED
    BY <1>1, <1>4, <2>1, <2>2
<1> QED
  BY <1>8 DEF Component, r, last

\* bfs_component finds all nodes that can be reached, and no others: its result
\* is the smallest set with the start that no edge leaves, in every graph.
THEOREM SearchIsComplete ==
    ASSUME NEW adj, IsGraph(adj), NEW s \in DOMAIN adj
    PROVE  /\ s \in Component(adj, s)
           /\ IsClosed(adj, Component(adj, s))
           /\ \A S : IsClosed(adj, S) /\ s \in S => Component(adj, s) \subseteq S
<1>1. Cardinality(DOMAIN adj) \in 0..Cardinality(DOMAIN adj)
  BY FS_CardinalityType DEF IsGraph
<1>2. IsClosed(adj, DOMAIN adj)
  BY DEF IsClosed, IsGraph
<1>3. s \in Component(adj, s)
  BY <1>1, <1>2, RoundsStay DEF Component
<1>4. ASSUME NEW S, IsClosed(adj, S), s \in S PROVE Component(adj, s) \subseteq S
  BY <1>1, <1>4, RoundsStay DEF Component
<1> QED
  BY <1>3, <1>4, RoundsClose

\* In an undirected graph the search finds the same from wherever in a component
\* it starts.
LEMMA SameComponent ==
    ASSUME NEW adj, IsGraph(adj), IsUndirected(adj),
           NEW s \in DOMAIN adj, NEW t \in Component(adj, s)
    PROVE  Component(adj, t) = Component(adj, s)
<1>1. t \in DOMAIN adj
  BY SearchIsComplete DEF IsClosed
<1>2. Component(adj, t) \subseteq Component(adj, s)
  BY <1>1, SearchIsComplete
<1>3. s \in Component(adj, t)
  <2> SUFFICES ASSUME s \notin Component(adj, t) PROVE FALSE
    OBVIOUS
  <2> DEFINE rest == Component(adj, s) \ Component(adj, t)
  <2>1. IsClosed(adj, Component(adj, s)) /\ IsClosed(adj, Component(adj, t))
    BY <1>1, SearchIsComplete
  <2>2. IsClosed(adj, rest)
    BY <2>1 DEF IsClosed, IsUndirected
  <2>3. s \in rest
    BY SearchIsComplete
  <2>4. t \in rest
    BY <2>2, <2>3, SearchIsComplete
  <2> QED
    BY <1>1, <2>4, SearchIsComplete
<1>4. Component(adj, s) \subseteq Component(adj, t)
  BY <1>1, <1>3, SearchIsComplete
<1> QED
  BY <1>2, <1>4

-----------------------------------------------------------------------------
(* analyze_topology: what follows its suggestions is connected.            *)

\* The graph of the active peers is one: however they contradict each other,
\* an edge that one end announces is an edge.
LEMMA AdjacencyIsGraph ==
    ASSUME TypeOK
    PROVE  IsGraph(Adjacency) /\ IsUndirected(Adjacency) /\ DOMAIN Adjacency = Active
<1>1. Active \in SUBSET Nodes
  BY DEF TypeOK, Active
<1>2. IsFiniteSet(Active)
  BY <1>1, FS_Subset, RegistryAssumption
<1>3. /\ DOMAIN Adjacency = Active
      /\ \A v \in Active : Adjacency[v] = {m \in Active : \/ m \in peers[v].neighbors
                                                          \/ v \in peers[m].neighbors}
  BY DEF Adjacency
<1> QED
  BY <1>2, <1>3 DEF IsGraph, IsUndirected

\* Somebody is suggested if there is a candidate: TopCount is positive.
LEMMA TopIsSomeone ==
    ASSUME NEW b, NEW candidates, IsFiniteSet(candidates), candidates # {},
           NEW S \in TopBetweenness(b, candidates)
    PROVE  \E m \in candidates : m \in S
<1> DEFINE both == {TopCount, Cardinality(candidates)}
<1>1. Cardinality(candidates) \in Nat /\ Cardinality(candidates) # 0
  BY FS_CardinalityType, FS_EmptySet
<1>2. TopCount \in Nat /\ TopCount # 0
  BY TopologyAssumption
<1>3. \E x \in both : \A y \in both : x <= y
  <2>1. CASE TopCount <= Cardinality(candidates)
    BY <1>1, <1>2, <2>1
  <2>2. CASE ~(TopCount <= Cardinality(candidates))
    BY <1>1, <1>2, <2>2
  <2> QED
    BY <2>1, <2>2
<1>4. Min(both) \in both
  BY <1>3 DEF Min
<1>5. S \in SUBSET candidates /\ Cardinality(S) = Min(both)
  BY DEF TopBetweenness
<1> HIDE DEF both
<1>6. Cardinality(S) # 0
  BY <1>1, <1>2, <1>4, <1>5 DEF both
<1>7. S # {}
  BY <1>6, FS_EmptySet
<1> QED
  BY <1>5, <1>7

\* Joining somebody of one component from every node outside connects a graph.
LEMMA JoiningConnects ==
    ASSUME NEW adj, IsGraph(adj), IsUndirected(adj),
           NEW s \in DOMAIN adj,
           NEW choice \in [DOMAIN adj \ Component(adj, s) -> SUBSET DOMAIN adj],
           \A n \in DOMAIN adj \ Component(adj, s) :
               \E m \in Component(adj, s) : m \in choice[n]
    PROVE  Components(Joined(adj, choice)) = {DOMAIN adj}
<1> DEFINE main == Component(adj, s)
           new == Joined(adj, choice)
<1>1. /\ DOMAIN new = DOMAIN adj
      /\ DOMAIN choice = DOMAIN adj \ main
      /\ \A n \in DOMAIN adj :
            new[n] = adj[n] \cup (IF n \in DOMAIN choice THEN choice[n] ELSE {})
                            \cup {m \in DOMAIN choice : n \in choice[m]}
  BY DEF Joined
<1>2. /\ main \subseteq DOMAIN adj
      /\ \A t \in main : Component(adj, t) = main
  BY SearchIsComplete, SameComponent DEF IsClosed
<1> HIDE DEF main, new
<1>3. IsGraph(new)
  BY <1>1 DEF IsGraph
<1>4. ASSUME NEW S, IsClosed(new, S), NEW x \in S PROVE DOMAIN adj \subseteq S
  <2>1. S \subseteq DOMAIN adj /\ \A v \in S : new[v] \subseteq S
    BY <1>1, <1>4 DEF IsClosed
  <2>2. IsClosed(adj, S)
    BY <1>1, <2>1 DEF IsClosed
  <2>3. \E t \in main : t \in S
    <3>1. CASE x \in main
      BY <3>1
    <3>2. CASE x \notin main
      <4>1. x \in DOMAIN choice
        BY <1>1, <2>1, <3>2
      <4>2. PICK m \in main : m \in choice[x]
        BY <1>1, <4>1 DEF main
      <4>3. m \in new[x]
        BY <1>1, <2>1, <4>1, <4>2
      <4> QED
        BY <2>1, <4>2, <4>3
    <3> QED
      BY <3>1, <3>2
  <2>4. main \subseteq S
    BY <1>2, <2>2, <2>3, SearchIsComplete
  <2>5. ASSUME NEW z \in DOMAIN adj, z \notin main PROVE z \in S
    <3>1. z \in DOMAIN choice
      BY <1>1, <2>5
    <3>2. PICK m \in main : m \in choice[z]
      BY <1>1, <3>1 DEF main
    <3>3. m \in DOMAIN adj /\ m \in S
      BY <1>2, <2>4, <3>2
    <3>4. z \in new[m]
      BY <1>1, <3>1, <3>2, <3>3
    <3> QED
      BY <2>1, <3>3, <3>4
  <2> QED
    BY <2>4, <2>5
<1>5. \A x \in DOMAIN adj : Component(new, x) = DOMAIN adj
  <2> SUFFICES ASSUME NEW x \in DOMAIN adj PROVE Component(new, x) = DOMAIN adj
    OBVIOUS
  <2>1. x \in Component(new, x) /\ IsClosed(new, Component(new, x))
    BY <1>1, <1>3, SearchIsComplete
  <2>2. Component(new, x) \subseteq DOMAIN adj
    BY <1>1, <2>1 DEF IsClosed
  <2> QED
    BY <1>4, <2>1, <2>2
<1>6. Components(new) = {Component(new, x) : x \in DOMAIN adj}
  BY <1>1 DEF Components
<1>7. Components(new) = {DOMAIN adj}
  BY <1>5, <1>6
<1> QED
  BY <1>7 DEF new

\* In every state of the monitor, for every number of nodes and every choice
\* between ties: nodes that follow the suggestions of one analysis are connected.
THEOREM FollowedConnectsTheorem == Spec => []FollowedConnects
<1>1. TypeOK => FollowedConnects
  <2> SUFFICES ASSUME TypeOK,
                      NEW main \in MainComponents(Adjacency),
                      NEW choice \in [DOMAIN Adjacency \ main -> SUBSET DOMAIN Adjacency],
                      \A n \in DOMAIN Adjacency \ main :
                          choice[n] \in Suggestions(Adjacency, main, n)
               PROVE  Cardinality(Components(Joined(Adjacency, choice))) = 1
    BY DEF FollowedConnects
  <2> DEFINE adj == Adjacency
  <2>1. IsGraph(adj) /\ IsUndirected(adj)
    BY AdjacencyIsGraph
  <2>2. PICK s \in DOMAIN adj : main = Component(adj, s)
    BY DEF MainComponents, Components
  <2> HIDE DEF adj
  <2>3. main \in SUBSET DOMAIN adj /\ main # {} /\ IsFiniteSet(main)
    <3>1. main \in SUBSET DOMAIN adj /\ main # {}
      BY <2>1, <2>2, SearchIsComplete DEF IsClosed
    <3> QED
      BY <2>1, <3>1, FS_Subset DEF IsGraph
  <2>4. ASSUME NEW n \in DOMAIN adj \ main PROVE \E m \in main : m \in choice[n]
    <3>1. choice[n] \in Suggestions(adj, main, n)
      BY DEF adj
    <3>2. choice[n] \in TopBetweenness(Betweenness(adj), main)
      BY <3>1 DEF Suggestions
    <3> QED
      BY <2>3, <3>2, TopIsSomeone
  <2>5. choice \in [DOMAIN adj \ Component(adj, s) -> SUBSET DOMAIN adj]
    BY <2>2 DEF adj
  <2>6. Components(Joined(adj, choice)) = {DOMAIN adj}
    BY <2>1, <2>2, <2>4, <2>5, JoiningConnects
  <2>7. Cardinality({DOMAIN adj}) = 1
    BY FS_Singleton
  <2> QED
    BY <2>6, <2>7 DEF adj
<1> QED
  BY <1>1, RegistryTypeCorrect, PTL
=============================================================================
