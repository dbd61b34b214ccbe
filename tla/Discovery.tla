------------------------------ MODULE Discovery ------------------------------
(***************************************************************************)
(* dtt-fork: how nodes of a topic find one another through the DHT.        *)
(*                                                                         *)
(* Every minute has its own slot in the DHT.  A bootstrapping node reads   *)
(* the slots of two minutes; without a record it publishes its own, with   *)
(* records it joins their publishers and the peers they list, until it has *)
(* a neighbour.  The publisher actor publishes all the while.  The merge   *)
(* actors, which the three programs of this repository leave out           *)
(* (subscribe_and_join_bootstrap_only), join more nodes later.             *)
(*                                                                         *)
(* The DHT is external: a read may miss any record, a write may fail, and  *)
(* may replace the records of others in the slot.  So is iroh-gossip: a    *)
(* request to join may or may not make two nodes neighbours, and they may  *)
(* lose each other.  Slots are known by their age in minutes.              *)
(***************************************************************************)
EXTENDS Naturals, FiniteSets

CONSTANTS
    Nodes,           \* the nodes of the topic
    MaxRecords,      \* MAX_BOOTSTRAP_RECORDS (10)
    MinNeighbors,    \* a node with fewer (4) takes itself for a bubble
    MergeActors,     \* ~skip_merge_actors
    Monitored,       \* does a monitor the nodes trust send suggestions?
    MaxDrops         \* bound: how often two nodes lose each other

ASSUME DiscoveryAssumption ==
    /\ IsFiniteSet(Nodes)
    /\ MaxRecords \in Nat /\ MinNeighbors \in Nat /\ MaxDrops \in Nat
    /\ MergeActors \in BOOLEAN /\ Monitored \in BOOLEAN

VARIABLES
    slots,      \* the publishers of the records readable in each slot
    links,      \* the neighbours
    past,       \* all who ever were, whom a record may still list
    asked,      \* requests to join that are under way
    bpc,        \* where the bootstrap of each node is
    last,       \* last_published_unix_minute: "never", this minute, or "old"
    drops       \* how many links were lost

vars == <<slots, links, past, asked, bpc, last, drops>>

Ages == 0..2
Pairs == {{n, m} : n, m \in Nodes} \ {{n} : n \in Nodes}

TypeOK ==
    /\ slots \in [Ages -> SUBSET Nodes]
    /\ links \subseteq past /\ past \subseteq Pairs
    /\ asked \subseteq Pairs
    /\ bpc \in [Nodes -> {"read", "join", "late", "done"}]
    /\ last \in [Nodes -> {"never", "now", "old"}]
    /\ drops \in 0..MaxDrops

Init ==
    /\ slots = [k \in Ages |-> {}]
    /\ links = {} /\ past = {} /\ asked = {}
    /\ bpc = [n \in Nodes |-> "read"]
    /\ last = [n \in Nodes |-> "never"] /\ drops = 0

Neighbors(n) == {m \in Nodes : {n, m} \in links /\ m # n}
Joined(n) == Neighbors(n) # {}
Listed(m) == {p \in Nodes : {m, p} \in past /\ p # m}

-----------------------------------------------------------------------------
(* crypto/record.rs: get_records and publish_record.                       *)

\* What a node may read in a slot: any records but its own.
\* Mutant: the filter is the wrong way round.
GetOwnRecords(n, k) == SUBSET (slots[k] \cap {n})
GetRecords(n, k) == SUBSET (slots[k] \ {n})

\* A slot that seems full is left alone.
Publish(n, k) ==
    \/ /\ \E seen \in GetRecords(n, k) : Cardinality(seen) >= MaxRecords
       /\ UNCHANGED slots
    \/ \E seen \in GetRecords(n, k), kept \in SUBSET slots[k] :
        /\ Cardinality(seen) < MaxRecords
        /\ slots' = [slots EXCEPT ![k] = kept \cup {n}]
PublishFails == UNCHANGED slots

\* The nodes that records lead to: their publishers and the peers they list.
Leads(seen) == SUBSET (seen \cup UNION {Listed(m) : m \in seen}) \ {{}}

\* join_peers.  The bootstrap and the overlap merge may ask the node itself.
Ask(n, nodes) == asked' = asked \cup ({{n, t} : t \in nodes} \cap Pairs)

-----------------------------------------------------------------------------
(* topic/bootstrap.rs                                                      *)

\* A task is spawned to publish a record without peers, once per minute: in
\* the first round for the minute before.  It runs on its own, but since reads
\* miss records anyway it makes no difference when it gets to write.
Spawn(n) ==
    LET k == IF last[n] = "never" THEN 1 ELSE 0 IN
    IF last[n] = "now" THEN UNCHANGED <<slots, last>>
    ELSE /\ Publish(n, k) \/ PublishFails
         /\ last' = [last EXCEPT ![n] = IF k = 1 THEN "old" ELSE "now"]

\* The same, for a minute that has passed while the node tried to join.
SpawnLate(n) ==
    LET k == IF last[n] = "never" THEN 2 ELSE 1 IN
    /\ Publish(n, k) \/ PublishFails
    /\ last' = [last EXCEPT ![n] = "old"]

\* The first round looks at the two minutes before this one, later rounds at
\* the last minute and this one.
Looks(n) == IF last[n] = "never" THEN {2, 1} ELSE {1, 0}

BootstrapDone(n) ==
    /\ bpc[n] # "done" /\ Joined(n)
    /\ bpc' = [bpc EXCEPT ![n] = "done"]
    /\ UNCHANGED <<slots, links, past, asked, last, drops>>

FindNothing(n) ==
    /\ bpc[n] = "read" /\ ~Joined(n)
    /\ \A k \in Looks(n) : {} \in GetRecords(n, k)
    /\ Spawn(n)
    /\ UNCHANGED <<links, past, asked, bpc, drops>>

\* The nodes are asked one by one, until one becomes a neighbour: some of them.
FindRecords(n) ==
    /\ bpc[n] = "read" /\ ~Joined(n)
    /\ \E seen \in UNION {GetRecords(n, k) : k \in Looks(n)} :
        /\ seen # {}
        /\ \E nodes \in Leads(seen) : Ask(n, nodes)
    /\ bpc' = [bpc EXCEPT ![n] = "join"]
    /\ UNCHANGED <<slots, links, past, last, drops>>

JoinedNobody(n) ==
    /\ ~Joined(n)
    /\ \/ bpc[n] = "join" /\ Spawn(n)
       \/ bpc[n] = "late" /\ SpawnLate(n)
    /\ bpc' = [bpc EXCEPT ![n] = "read"]
    /\ UNCHANGED <<links, past, asked, drops>>

-----------------------------------------------------------------------------
(* topic/publisher.rs and merge/*.rs                                       *)

PublisherTick(n) ==
    /\ Publish(n, 0) \/ PublishFails
    /\ UNCHANGED <<links, past, asked, bpc, last, drops>>

Merge(n, seen) ==
    /\ MergeActors /\ seen # {}
    /\ \E nodes \in Leads(seen) : Ask(n, nodes)
    /\ UNCHANGED <<slots, links, past, bpc, last, drops>>

\* Mutant: the comparison is the wrong way round.
BubbleMergeLarge(n) ==
    /\ Cardinality(Neighbors(n)) >= MinNeighbors
    /\ \E k \in {0, 1} : \E seen \in GetRecords(n, k) : Merge(n, seen)
BubbleMerge(n) ==
    /\ Cardinality(Neighbors(n)) < MinNeighbors
    /\ \E k \in {0, 1} : \E seen \in GetRecords(n, k) : Merge(n, seen)

\* Records with a message hash in common with this node: any, here.
OverlapMerge(n) ==
    \E k \in {0, 1} : \E seen \in GetRecords(n, k) : Merge(n, seen)

\* A signed suggestion for this node, less than 300 s old and from a monitor it
\* trusts, is followed: module PeerRegistry has what monitors suggest.
FollowSuggestion(n) ==
    /\ Monitored
    /\ \E nodes \in SUBSET (Nodes \ {n}) \ {{}} : Ask(n, nodes)
    /\ UNCHANGED <<slots, links, past, bpc, last, drops>>

-----------------------------------------------------------------------------
(* The environment.                                                        *)

\* The next minute.  (An attempt to join takes seconds: at most one passes.  It
\* goes on with the minute it began in; if the node has published in it, all
\* that is left to do is to read again.)
Minute ==
    /\ slots' = [k \in Ages |-> IF k = 0 THEN {} ELSE slots[k - 1]]
    /\ last' = [n \in Nodes |-> IF last[n] = "never" THEN "never" ELSE "old"]
    /\ \A n \in Nodes : bpc[n] # "late"
    /\ bpc' = [n \in Nodes |-> CASE bpc[n] # "join" -> bpc[n]
                                 [] bpc[n] = "join" /\ last[n] = "now" -> "read"
                                 [] OTHER -> "late"]
    /\ UNCHANGED <<links, past, asked, drops>>

Connect(p) ==
    /\ p \in asked
    /\ asked' = asked \ {p}
    /\ links' = links \cup {p} /\ past' = past \cup {p}
    /\ UNCHANGED <<slots, bpc, last, drops>>

Refuse(p) ==
    /\ p \in asked
    /\ asked' = asked \ {p}
    /\ UNCHANGED <<slots, links, past, bpc, last, drops>>

Drop(p) ==
    /\ p \in links /\ drops < MaxDrops /\ drops' = drops + 1
    /\ links' = links \ {p}
    /\ UNCHANGED <<slots, past, asked, bpc, last>>

-----------------------------------------------------------------------------
BootstrapStep(n) ==
    BootstrapDone(n) \/ FindNothing(n) \/ FindRecords(n) \/ JoinedNobody(n)
Next ==
    \/ \E n \in Nodes :
        \/ BootstrapStep(n) \/ PublisherTick(n)
        \/ BubbleMerge(n) \/ OverlapMerge(n) \/ FollowSuggestion(n)
    \/ \E p \in Pairs : Connect(p) \/ Refuse(p) \/ Drop(p)
    \/ Minute

Spec == Init /\ [][Next]_vars

\* Tasks run; writes, reads and joins that are tried again and again succeed
\* now and then, with each of the others.
Fairness ==
    /\ WF_vars(Minute)
    /\ \A n \in Nodes :
        /\ WF_vars(BootstrapStep(n))
        /\ SF_vars(PublisherTick(n) /\ n \in slots'[0])
        /\ SF_vars(FindRecords(n))
        /\ \A m \in Nodes \ {n} : SF_vars(BubbleMerge(n) /\ {n, m} \in asked' \ asked)
    /\ \A p \in Pairs : SF_vars(Connect(p))

FairSpec == Spec /\ Fairness

-----------------------------------------------------------------------------
\* Every bootstrap ends, in whatever order nodes start, read and publish, and
\* whichever records replace others.
BootstrapEnds == \A n \in Nodes : <>(bpc[n] = "done")

\* A set of nodes that no link leaves.
Closed(S) == \A p \in links : p \cap S = {} \/ p \subseteq S
Connected == \A S \in SUBSET Nodes : Closed(S) => S \in {{}, Nodes}

\* With the merge actors, a network of less than MinNeighbors + 1 nodes becomes
\* and stays connected, even if links are lost after bootstrap has ended.
Heals == MergeActors => <>[]Connected

=============================================================================
