---------------------------- MODULE PeerRegistry ----------------------------
(***************************************************************************)
(* The gossip-monitor: the registry of peers that the receive task fills   *)
(* from announcements, its pruning, and the task that analyses the         *)
(* topology and suggests peers to badly connected nodes.                   *)
(*                                                                         *)
(* The registry keeps peers and their metric histories behind two locks.   *)
(* An update takes them one after the other, history first; after a        *)
(* reconnect the receive tasks of two generations may each be in one.      *)
(* snapshot and prune_stale hold the lock on the peers all the while.      *)
(***************************************************************************)
EXTENDS Topology

CONSTANTS
    Nodes,          \* the nodes that announce themselves
    MaxHistory,     \* MAX_HISTORY_SAMPLES (60)
    MaxAnnounces,   \* bound: announcements received after the first ones
    MaxAging        \* bound: how often a peer crosses a threshold of age

ASSUME RegistryAssumption ==
    /\ IsFiniteSet(Nodes)
    /\ MaxHistory \in Nat \ {0} /\ MaxAnnounces \in Nat /\ MaxAging \in Nat

VARIABLES
    peers,      \* the map: what each known node last announced, and its age
    history,    \* number of metric samples of each node
    updating,   \* the updates between their two locks
    recent,     \* last_suggest: the nodes to which something was suggested in
                \* the last 300 s
    announces, agings

vars == <<peers, history, updating, recent, announces, agings>>

\* last_seen: at most 600 s ago, at most 1800 s, more.
Ages == {"active", "stale", "old"}
Announce == {a \in [node : Nodes, neighbors : SUBSET Nodes] : a.node \notin a.neighbors}
PeerState == [neighbors : SUBSET Nodes, age : Ages]

TypeOK ==
    /\ DOMAIN peers \subseteq Nodes
    /\ \A n \in DOMAIN peers : peers[n] \in PeerState
    /\ history \in [Nodes -> 0..MaxHistory]
    /\ updating \in SUBSET Announce
    /\ IsFiniteSet(updating) /\ Cardinality(updating) <= 2
    /\ recent \subseteq Nodes
    /\ announces \in 0..MaxAnnounces /\ agings \in 0..MaxAging

\* The monitor has heard of some nodes, whose announcements agree: an empty
\* registry is one case.  Contradictions come with later announcements.
Init ==
    /\ \E known \in SUBSET Nodes : \E links \in SUBSET {e \in SUBSET known : Cardinality(e) = 2} :
        /\ peers = [n \in known |->
                        [neighbors |-> {m \in known \ {n} : {m, n} \in links},
                         age |-> "active"]]
        /\ history = [n \in Nodes |-> IF n \in known THEN 1 ELSE 0]
    /\ updating = {} /\ recent = {}
    /\ announces = 0 /\ agings = 0

-----------------------------------------------------------------------------
(* The registry: swarm.rs.                                                 *)

Insert(a) ==
    peers' = [n \in DOMAIN peers \cup {a.node} |->
                IF n = a.node THEN [neighbors |-> a.neighbors, age |-> "active"]
                ELSE peers[n]]

\* Mutant: old samples are kept.
AddSampleAlways(k) == k + 1
AddSample(k) == Min({k + 1, MaxHistory})

\* The first half of update: the announcement has metrics.
RecordSample(a) ==
    /\ Cardinality(updating) < 2 /\ a \notin updating /\ announces < MaxAnnounces
    /\ announces' = announces + 1
    /\ history' = [history EXCEPT ![a.node] = AddSample(@)]
    /\ updating' = updating \cup {a}
    /\ UNCHANGED <<peers, recent, agings>>

\* The second half.
InsertPeer(a) ==
    /\ a \in updating
    /\ Insert(a)
    /\ updating' = updating \ {a}
    /\ UNCHANGED <<history, recent, announces, agings>>

\* An update without metrics leaves the history alone.
UpdateNoMetrics(a) ==
    /\ Cardinality(updating) < 2 /\ announces < MaxAnnounces
    /\ announces' = announces + 1
    /\ Insert(a)
    /\ UNCHANGED <<history, updating, recent, agings>>

\* Mutant: the histories are left behind.
PruneStalePeersOnly ==
    LET kept == {n \in DOMAIN peers : peers[n].age # "old"} IN
    /\ kept # DOMAIN peers
    /\ peers' = [n \in kept |-> peers[n]]
    /\ UNCHANGED <<history, updating, recent, announces, agings>>

\* prune_stale, every 300 s.
PruneStale ==
    LET kept == {n \in DOMAIN peers : peers[n].age # "old"} IN
    /\ kept # DOMAIN peers
    /\ peers' = [n \in kept |-> peers[n]]
    /\ history' = [n \in Nodes |-> IF n \in kept THEN history[n] ELSE 0]
    /\ UNCHANGED <<updating, recent, announces, agings>>

-----------------------------------------------------------------------------
(* The suggestions: main.rs.                                               *)

\* snapshot and step 1 of analyze_topology: the active peers, and an edge
\* wherever one of two active peers names the other.
Active == {n \in DOMAIN peers : peers[n].age = "active"}
Adjacency ==
    [n \in Active |-> {m \in Active : \/ m \in peers[n].neighbors
                                      \/ n \in peers[m].neighbors}]

\* One round of the task.  It works on its own snapshot and shares nothing else
\* with the registry, so a round is one step.  A suggestion that could not be
\* broadcast is not remembered, and tried again in the next round.
Suggest ==
    /\ \/ Active = {} /\ UNCHANGED recent
       \/ \E main \in MainComponents(Adjacency) :
          \E sent \in SUBSET (Targets(Adjacency, main) \ recent) :
            recent' = recent \cup sent
    /\ UNCHANGED <<peers, history, updating, announces, agings>>

-----------------------------------------------------------------------------
(* Time.                                                                   *)

Age(n) ==
    /\ agings < MaxAging /\ agings' = agings + 1
    /\ peers[n].age # "old"
    /\ peers' = [peers EXCEPT ![n].age = IF @ = "active" THEN "stale" ELSE "old"]
    /\ UNCHANGED <<history, updating, recent, announces>>

RateLimitEnds(n) ==
    /\ n \in recent
    /\ recent' = recent \ {n}
    /\ UNCHANGED <<peers, history, updating, announces, agings>>

-----------------------------------------------------------------------------
Next ==
    \/ \E a \in Announce : RecordSample(a) \/ InsertPeer(a) \/ UpdateNoMetrics(a)
    \/ PruneStale
    \/ Suggest
    \/ \E n \in DOMAIN peers : Age(n)
    \/ \E n \in Nodes : RateLimitEnds(n)

Spec == Init /\ [][Next]_vars

-----------------------------------------------------------------------------
(* Properties.                                                             *)

\* The histories, which have a lock and a map of their own, do not outlive
\* their peers, even if a prune comes between the two halves of an update: the
\* monitor does not fill its memory with peers that are gone.
\* (PeerRegistry::update and prune_stale.)
HistoryOwned ==
    \A n \in Nodes : history[n] > 0 => n \in DOMAIN peers \/ \E a \in updating : a.node = n

\* The graph that comes about when nodes join what they were suggested.
Joined(adj, choice) ==
    [n \in DOMAIN adj |->
        adj[n] \cup (IF n \in DOMAIN choice THEN choice[n] ELSE {})
               \cup {m \in DOMAIN choice : n \in choice[m]}]

\* If the nodes outside the main component follow the suggestions of one
\* analysis, whichever component and nodes it prefers among equals, all active
\* nodes are connected, however contradictory and out of date the announcements
\* are.  (analyze_topology.)
FollowedConnects ==
    LET adj == Adjacency IN
    \A main \in MainComponents(adj) :
        LET others == DOMAIN adj \ main IN
        \A choice \in {f \in [others -> SUBSET DOMAIN adj] :
                          \A n \in others : f[n] \in Suggestions(adj, main, n)} :
            Cardinality(Components(Joined(adj, choice))) = 1

\* The shortest paths between two nodes, by trying every path.
Paths(s, t) ==
    {p \in UNION {[1..k -> Nodes] : k \in 2..Cardinality(Nodes)} :
        /\ p[1] = s /\ p[Len(p)] = t
        /\ \A i, j \in DOMAIN p : p[i] = p[j] => i = j}
AllPaths == [st \in Nodes \X Nodes |-> Paths(st[1], st[2])]
ShortestPaths(adj, s, t) ==
    LET paths == {p \in AllPaths[s, t] :
                    \A i \in 1..(Len(p) - 1) : p[i] \in DOMAIN adj /\ p[i + 1] \in adj[p[i]]}
    IN {p \in paths : \A q \in paths : Len(p) <= Len(q)}

\* compute_betweenness counts, for each node, the share of the shortest paths
\* between any two other nodes that lead through it.
BetweennessRight ==
    LET adj == Adjacency
        b == Betweenness(adj)
        pairs == {st \in (DOMAIN adj) \X (DOMAIN adj) : st[1] # st[2]}
        shortest == [st \in pairs |-> ShortestPaths(adj, st[1], st[2])]
        Share(v, st) ==
            LET through == {p \in shortest[st] : v \in {p[i] : i \in DOMAIN p}} IN
            IF v \in {st[1], st[2]} \/ through = {} THEN 0
            ELSE (Scale * Cardinality(through)) \div Cardinality(shortest[st])
    IN \A v \in DOMAIN adj : b[v] = MapThenSumSet(LAMBDA st : Share(v, st), pairs)
=============================================================================
