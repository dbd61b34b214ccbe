------------------------------ MODULE Topology ------------------------------
(***************************************************************************)
(* gossip-monitor/src/topology.rs: what the monitor computes from a        *)
(* snapshot of the swarm.  A graph is a function `adj' from the active     *)
(* nodes to their neighbours.                                              *)
(*                                                                         *)
(* The code iterates over hash sets and maps.  Where the order does not    *)
(* matter to the result a definition ignores it; where it does (ties), the *)
(* definition is the set of all results.  Betweenness is a float there and *)
(* a multiple of 1/(2 * Scale) here: Scale must be a multiple of the       *)
(* number of shortest paths between any two nodes.                         *)
(***************************************************************************)
EXTENDS Integers, Sequences, FiniteSets, FiniteSetsExt

CONSTANTS
    TopCount,   \* how many peers a suggestion names (3)
    Scale       \* bound: the denominator of betweenness values

ASSUME TopologyAssumption == TopCount \in Nat \ {0} /\ Scale \in Nat \ {0}

-----------------------------------------------------------------------------
(* Breadth-first search.                                                   *)

Around(adj, S) == UNION {adj[v] : v \in S}

\* The nodes found in the first d rounds of the search.
Rounds(adj, s) ==
    LET found[d \in 0..Cardinality(DOMAIN adj)] ==
            IF d = 0 THEN {s} ELSE found[d - 1] \cup Around(adj, found[d - 1])
    IN found

\* bfs_component
Component(adj, s) == Rounds(adj, s)[Cardinality(DOMAIN adj)]
Components(adj) == {Component(adj, s) : s \in DOMAIN adj}

-----------------------------------------------------------------------------
(* compute_betweenness: Brandes' algorithm.                                *)

\* The nodes at each distance from s.
Levels(adj, s) ==
    LET rounds == Rounds(adj, s)
    IN [d \in DOMAIN rounds |-> IF d = 0 THEN {s} ELSE rounds[d] \ rounds[d - 1]]

\* Mutant: the count of the last predecessor replaces those of the others.
PathCountsOfOne(adj, level) == [d \in DOMAIN level |-> [w \in level[d] |-> 1]]

\* sigma: the shortest paths to each node, from those to the level before.
PathCounts(adj, level) ==
    LET sigma[d \in DOMAIN level] ==
            [w \in level[d] |->
                IF d = 0 THEN 1
                ELSE MapThenSumSet(LAMBDA v : sigma[d - 1][v], level[d - 1] \cap adj[w])]
    IN sigma

\* What one source s adds to each node: delta sums up the dependencies, from
\* the farthest level back.  The source itself is left out.
Dependencies(adj, s) ==
    LET level == Levels(adj, s)
        sigma == PathCounts(adj, level)
        last == Cardinality(DOMAIN adj)
        delta[d \in 0..last] ==
            [v \in level[d] |->
                IF d = last THEN 0
                ELSE MapThenSumSet(
                        LAMBDA w : (sigma[d][v] * (Scale + delta[d + 1][w]))
                                        \div sigma[d + 1][w],
                        level[d + 1] \cap adj[v])]
    IN [v \in DOMAIN adj |->
            LET at == {d \in 1..last : v \in level[d]}
            IN MapThenSumSet(LAMBDA d : delta[d][v], at)]

\* In units of 1/(2 * Scale): the code halves the sum.
Betweenness(adj) ==
    LET from == [s \in DOMAIN adj |-> Dependencies(adj, s)]
    IN [v \in DOMAIN adj |-> MapThenSumSet(LAMBDA s : from[s][v], DOMAIN adj)]

\* top_betweenness, given the candidates that remain: any choice between ties.
TopBetweenness(b, candidates) ==
    {S \in SUBSET candidates :
        /\ Cardinality(S) = Min({TopCount, Cardinality(candidates)})
        /\ \A v \in S, w \in candidates \ S : b[v] >= b[w]}

-----------------------------------------------------------------------------
(* analyze_topology.                                                       *)

\* max_by_key: any of the largest components.
MainComponents(adj) ==
    {C \in Components(adj) : \A D \in Components(adj) : Cardinality(D) <= Cardinality(C)}

\* cluster_density > 0.8 and external_reach < 0.3
IsolatedClique(adj, n) ==
    LET k == Cardinality(adj[n])
        among == Cardinality({p \in adj[n] \X adj[n] : p[2] \in adj[p[1]]})
        twoHop == Around(adj, adj[n]) \ (adj[n] \cup {n})
    IN /\ 5 * among > 4 * k * (k - 1)
       /\ 10 * Cardinality(twoHop) < 3 * (Cardinality(DOMAIN adj) - 1)

\* The nodes that get a suggestion when `main' is taken for the main component.
Targets(adj, main) ==
    {n \in DOMAIN adj : \/ n \notin main
                        \/ Cardinality(adj[n]) < 2
                        \/ IsolatedClique(adj, n)}

\* Mutant: the candidates are not restricted to the main component.
SuggestionsOfAll(adj, main, n) ==
    LET b == Betweenness(adj) IN
    IF n \in main THEN TopBetweenness(b, DOMAIN adj \ (adj[n] \cup {n}))
    ELSE TopBetweenness(b, DOMAIN adj \ Component(adj, n))

\* What a target may be suggested.
Suggestions(adj, main, n) ==
    LET b == Betweenness(adj) IN
    IF n \in main THEN TopBetweenness(b, DOMAIN adj \ (adj[n] \cup {n}))
    ELSE TopBetweenness(b, main)
=============================================================================
