-------------------------------- MODULE Trust --------------------------------
(***************************************************************************)
(* How trust in publishers spreads.  Every gossip-writer and               *)
(* gossip-listener keeps a set of trusted publisher keys, loaded from a    *)
(* file when it starts.  It broadcasts the whole set as a signed           *)
(* PeerEndorse now and then, adds the keys of a PeerEndorse whose sender   *)
(* it trusts (a writer only with AUTO_TRUST_ENDORSEMENTS), and then        *)
(* rewrites its file: created empty, a line for each key.  A listener      *)
(* shows and archives only the notifications of trusted senders, or all of *)
(* them while its set is empty.                                            *)
(*                                                                         *)
(* A node is known by its key, and its signatures cannot be forged.        *)
(* Endorsements are delivered at any time, in any order, more than once or *)
(* never; a node may crash at any point and be started again.  Errors of   *)
(* the file are ignored by the code: a file that cannot be created is not  *)
(* written, a key that cannot be written is left out, and a file that      *)
(* cannot be read counts as empty.                                         *)
(***************************************************************************)
EXTENDS Naturals

CONSTANTS
    Nodes,         \* the keys of the nodes
    Writers,       \* those that run a gossip-writer; the others listen
    AutoTrust,     \* the writers with AUTO_TRUST_ENDORSEMENTS
    Configured,    \* the keys each operator has written into the file
    Reliance,      \* the pairs <<n, k>> with a chain of configured keys from n to k
    MaxCrashes     \* bound: crashes of all nodes together

ASSUME TrustAssumption ==
    /\ Writers \subseteq Nodes /\ AutoTrust \subseteq Writers
    /\ Configured \in [Nodes -> SUBSET Nodes]
    /\ MaxCrashes \in Nat

\* Reliance is the transitive closure of the configuration.
IsChain(R) ==
    /\ \A n \in Nodes : \A k \in Configured[n] : <<n, k>> \in R
    /\ \A n, m, k \in Nodes : (<<n, m>> \in R /\ <<m, k>> \in R) => <<n, k>> \in R
ASSUME RelianceAssumption ==
    /\ Reliance \subseteq Nodes \X Nodes
    /\ IsChain(Reliance)
    /\ \A R \in SUBSET Reliance : IsChain(R) => R = Reliance

VARIABLES
    trusted,     \* trusted_publishers of each node
    file,        \* the keys in its file
    save,        \* the progress of its receive task with a new key
    unwritten,   \* the keys it has still to write
    sent,        \* the endorsements broadcast so far
    stale,       \* nodes whose file, by an error, may not hold what they trust
    torn,        \* nodes that came back with less than they had trusted
    crashes      \* how many crashes there were

vars == <<trusted, file, save, unwritten, sent, stale, torn, crashes>>

Endorsement == [sender : Nodes, keys : SUBSET Nodes]

TypeOK ==
    /\ trusted \in [Nodes -> SUBSET Nodes] /\ file \in [Nodes -> SUBSET Nodes]
    /\ save \in [Nodes -> {"idle", "create", "write"}]
    /\ unwritten \in [Nodes -> SUBSET Nodes]
    /\ sent \subseteq Endorsement
    /\ stale \subseteq Nodes /\ torn \subseteq Nodes
    /\ crashes \in 0..MaxCrashes
    /\ \A n \in Nodes : /\ save[n] = "create" => trusted[n] # {}
                        /\ save[n] = "write" <=> unwritten[n] # {}

Init ==
    /\ trusted = Configured /\ file = Configured
    /\ save = [n \in Nodes |-> "idle"] /\ unwritten = [n \in Nodes |-> {}]
    /\ sent = {} /\ stale = {} /\ torn = {} /\ crashes = 0

-----------------------------------------------------------------------------
(* Endorsements.                                                           *)

\* The periodic broadcast; a node that trusts nobody skips it.
\* Mutant: a node that trusts just one key skips it too.
EndorseSeveral(n) ==
    /\ sent' = IF \E k, l \in trusted[n] : k # l
               THEN sent \cup {[sender |-> n, keys |-> trusted[n]]} ELSE sent
    /\ UNCHANGED <<trusted, file, save, unwritten, stale, torn, crashes>>
Endorse(n) ==
    /\ trusted[n] # {}
    /\ sent' = sent \cup {[sender |-> n, keys |-> trusted[n]]}
    /\ UNCHANGED <<trusted, file, save, unwritten, stale, torn, crashes>>
WriterEndorse(n) == n \in Writers /\ Endorse(n)
ListenerEndorse(n) == n \notin Writers /\ Endorse(n)

\* The receive task adds the keys, and saves if one of them is new.
\* Mutant: the sender is not looked up.
AddKeysOfAnyone(n, e) ==
    /\ save[n] = "idle" /\ e.sender # n
    /\ ~(e.keys \subseteq trusted[n])
    /\ trusted' = [trusted EXCEPT ![n] = @ \cup e.keys]
    /\ save' = [save EXCEPT ![n] = "create"]
    /\ UNCHANGED <<file, unwritten, sent, stale, torn, crashes>>
\* Mutant: the keys are not saved.
AddKeysUnsaved(n, e) ==
    /\ save[n] = "idle" /\ e.sender # n
    /\ e.sender \in trusted[n]
    /\ ~(e.keys \subseteq trusted[n])
    /\ trusted' = [trusted EXCEPT ![n] = @ \cup e.keys]
    /\ UNCHANGED <<file, save, unwritten, sent, stale, torn, crashes>>
AddKeys(n, e) ==
    /\ save[n] = "idle" /\ e.sender # n
    /\ e.sender \in trusted[n]
    /\ ~(e.keys \subseteq trusted[n])
    /\ trusted' = [trusted EXCEPT ![n] = @ \cup e.keys]
    /\ save' = [save EXCEPT ![n] = "create"]
    /\ UNCHANGED <<file, unwritten, sent, stale, torn, crashes>>
WriterHears(n, e) == n \in AutoTrust /\ AddKeys(n, e)
ListenerHears(n, e) == n \notin Writers /\ AddKeys(n, e)

-----------------------------------------------------------------------------
(* save_trusted_publishers, under a read lock on the set.                  *)

CreateFile(n) ==
    /\ save[n] = "create"
    /\ save' = [save EXCEPT ![n] = "write"]
    /\ file' = [file EXCEPT ![n] = {}]
    /\ unwritten' = [unwritten EXCEPT ![n] = trusted[n]]
    /\ stale' = stale \ {n}
    /\ UNCHANGED <<trusted, sent, torn, crashes>>
CreateFails(n) ==
    /\ save[n] = "create"
    /\ save' = [save EXCEPT ![n] = "idle"]
    /\ stale' = stale \cup {n}
    /\ UNCHANGED <<trusted, file, unwritten, sent, torn, crashes>>

\* The next key of the set; the save is over when there is none left.
\* Mutant: the save is over after one key.
KeyDoneStops(n, k) ==
    /\ save[n] = "write" /\ k \in unwritten[n]
    /\ unwritten' = [unwritten EXCEPT ![n] = @ \ {k}]
    /\ save' = [save EXCEPT ![n] = "idle"]
    /\ UNCHANGED <<trusted, sent, torn, crashes>>
KeyDone(n, k) ==
    /\ save[n] = "write" /\ k \in unwritten[n]
    /\ unwritten' = [unwritten EXCEPT ![n] = @ \ {k}]
    /\ save' = [save EXCEPT ![n] = IF unwritten[n] = {k} THEN "idle" ELSE "write"]
    /\ UNCHANGED <<trusted, sent, torn, crashes>>
WriteKey(n, k) ==
    /\ KeyDone(n, k)
    /\ file' = [file EXCEPT ![n] = @ \cup {k}] /\ UNCHANGED stale
WriteFails(n, k) ==
    /\ KeyDone(n, k)
    /\ stale' = stale \cup {n} /\ UNCHANGED file

\* load_trusted_publishers at the start that follows a crash.
\* Mutant: the file is not read.
LoadNothing(n) == {}
Load(n) == file[n]

Restart(n) ==
    /\ crashes < MaxCrashes /\ crashes' = crashes + 1
    /\ save' = [save EXCEPT ![n] = "idle"]
    /\ unwritten' = [unwritten EXCEPT ![n] = {}]
    /\ UNCHANGED <<file, sent>>
Crash(n) ==
    /\ Restart(n)
    /\ trusted' = [trusted EXCEPT ![n] = Load(n)]
    /\ stale' = stale \ {n}
    /\ torn' = IF save[n] = "idle" /\ n \notin stale THEN torn ELSE torn \cup {n}
CrashUnread(n) ==
    /\ Restart(n)
    /\ trusted' = [trusted EXCEPT ![n] = {}]
    /\ stale' = stale \cup {n} /\ torn' = torn \cup {n}

\* The filter on notifications, in the listener's receive task and catch-up.
Passes(n, k) == trusted[n] = {} \/ k \in trusted[n]

-----------------------------------------------------------------------------
Node(n) ==
    \/ WriterEndorse(n) \/ ListenerEndorse(n)
    \/ \E e \in sent : WriterHears(n, e) \/ ListenerHears(n, e)
    \/ CreateFile(n) \/ CreateFails(n)
    \/ \E k \in Nodes : WriteKey(n, k) \/ WriteFails(n, k)
Next == \E n \in Nodes : Node(n) \/ Crash(n) \/ CrashUnread(n)

Spec == Init /\ [][Next]_vars

\* Each node endorses again and again, saves come to an end, and an
\* endorsement that stays new to a node reaches it in the end.
Fairness ==
    \A n \in Nodes :
        /\ WF_vars(WriterEndorse(n)) /\ WF_vars(ListenerEndorse(n))
        /\ WF_vars(CreateFile(n) \/ CreateFails(n))
        /\ WF_vars(\E k \in Nodes : WriteKey(n, k) \/ WriteFails(n, k))
        /\ SF_vars(\E e \in sent : WriterHears(n, e) \/ ListenerHears(n, e))

FairSpec == Spec /\ Fairness

-----------------------------------------------------------------------------
\* Safety: every key a node trusts, has in its file or endorses comes to it
\* along a chain of operators each of whom has configured the next, whatever
\* the order in which endorsements travel and nodes crash.
ChainOfTrust ==
    /\ \A n \in Nodes : \A k \in trusted[n] \cup file[n] : <<n, k>> \in Reliance
    /\ \A e \in sent : \A k \in e.keys : <<e.sender, k>> \in Reliance

\* A listener whose operator has configured trusted publishers lets no
\* notification pass whose sender it has no chain to, unless it was restarted
\* in the middle of a save, after a save that failed, or with a file that it
\* could not read.
OnlyVouchedPass ==
    \A n \in Nodes \ torn :
        Configured[n] # {} => \A k \in Nodes : Passes(n, k) => <<n, k>> \in Reliance

\* A node loses trust in a key only if it is restarted in the middle of a save,
\* after an error of the last save, or with a file that it cannot read.
ForgetsOnlyUnsaved ==
    [][\A n \in Nodes : \/ trusted[n] \subseteq trusted'[n]
                        \/ save[n] # "idle" \/ n \in stale
                        \/ n \in stale']_vars

\* Liveness: unless a node came back with less than it had, every node that
\* follows endorsements ends up with every key along its chains (if all nodes
\* follow them).
TrustSpreads ==
    <>[](torn # {} \/ \A p \in Reliance : p[2] \in trusted[p[1]])

=============================================================================
