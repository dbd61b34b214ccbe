----------------------------- MODULE TrustProofs -----------------------------
(***************************************************************************)
(* Proofs about module Trust, for every set of nodes, every configuration  *)
(* and any number of crashes.                                              *)
(***************************************************************************)
EXTENDS Trust, TLAPS

\* Every variable of the nodes keeps its type.
THEOREM TrustTypeCorrect == Spec => []TypeOK
  <1>1. Init => TypeOK
    BY TrustAssumption DEF Init, TypeOK
  <1>2. TypeOK /\ [Next]_vars => TypeOK'
    <2> SUFFICES ASSUME TypeOK, [Next]_vars
                 PROVE  TypeOK'
      OBVIOUS
    <2>1. ASSUME NEW n \in Nodes, Endorse(n)
          PROVE  TypeOK'
      BY <2>1 DEF Endorse, TypeOK, Endorsement
    <2>2. ASSUME NEW n \in Nodes, NEW e \in sent, AddKeys(n, e)
          PROVE  TypeOK'
      BY <2>2 DEF AddKeys, TypeOK, Endorsement
    <2>3. ASSUME NEW n \in Nodes, CreateFile(n) \/ CreateFails(n)
          PROVE  TypeOK'
      BY <2>3 DEF CreateFile, CreateFails, TypeOK
    <2>4. ASSUME NEW n \in Nodes, NEW k \in Nodes, WriteKey(n, k) \/ WriteFails(n, k)
          PROVE  TypeOK'
      <3>1. KeyDone(n, k)
        BY <2>4 DEF WriteKey, WriteFails
      <3>2. file' \in [Nodes -> SUBSET Nodes] /\ stale' \subseteq Nodes
        BY <2>4 DEF WriteKey, WriteFails, TypeOK
      <3>. QED
        BY <3>1, <3>2 DEF KeyDone, TypeOK
    <2>5. ASSUME NEW n \in Nodes, Crash(n) \/ CrashUnread(n)
          PROVE  TypeOK'
      BY <2>5, TrustAssumption DEF Crash, CrashUnread, Restart, Load, TypeOK
    <2>6. CASE UNCHANGED vars
      BY <2>6 DEF vars, TypeOK
    <2>. QED
      BY <2>1, <2>2, <2>3, <2>4, <2>5, <2>6
         DEF Next, Node, WriterEndorse, ListenerEndorse, WriterHears, ListenerHears
  <1>. QED
    BY <1>1, <1>2, PTL DEF Spec

-----------------------------------------------------------------------------
(* Trust follows chains of configured keys.                                *)

\* The keys that are still to be written are trusted keys as well.
ChainInv ==
    /\ ChainOfTrust
    /\ \A n \in Nodes : \A k \in unwritten[n] : <<n, k>> \in Reliance

\* An endorsement extends a chain by the chains of its sender.
LEMMA ChainInductive == TypeOK /\ ChainInv /\ [Next]_vars => ChainInv'
  <1> SUFFICES ASSUME TypeOK, ChainInv, [Next]_vars
               PROVE  ChainInv'
    OBVIOUS
  <1> USE DEF ChainInv, ChainOfTrust, TypeOK
  <1>1. ASSUME NEW n \in Nodes, Endorse(n)
        PROVE  ChainInv'
    BY <1>1 DEF Endorse
  <1>2. ASSUME NEW n \in Nodes, NEW e \in sent, AddKeys(n, e)
        PROVE  ChainInv'
    <2>1. e.sender \in Nodes /\ e.keys \subseteq Nodes /\ <<n, e.sender>> \in Reliance
      BY <1>2 DEF AddKeys, Endorsement
    <2>2. \A k \in e.keys : <<e.sender, k>> \in Reliance
      OBVIOUS
    <2>3. \A k \in e.keys : <<n, k>> \in Reliance
      BY <2>1, <2>2, RelianceAssumption DEF IsChain
    <2>. QED
      BY <1>2, <2>3 DEF AddKeys
  <1>3. ASSUME NEW n \in Nodes, CreateFile(n) \/ CreateFails(n)
        PROVE  ChainInv'
    BY <1>3 DEF CreateFile, CreateFails
  <1>4. ASSUME NEW n \in Nodes, NEW k \in Nodes, WriteKey(n, k) \/ WriteFails(n, k)
        PROVE  ChainInv'
    BY <1>4 DEF WriteKey, WriteFails, KeyDone
  <1>5. ASSUME NEW n \in Nodes, Crash(n) \/ CrashUnread(n)
        PROVE  ChainInv'
    BY <1>5 DEF Crash, CrashUnread, Restart, Load
  <1>6. CASE UNCHANGED vars
    BY <1>6 DEF vars
  <1>. QED
    BY <1>1, <1>2, <1>3, <1>4, <1>5, <1>6
       DEF Next, Node, WriterEndorse, ListenerEndorse, WriterHears, ListenerHears

\* Operators' files are where every chain starts.
LEMMA ChainInitially == Init => ChainInv
  BY TrustAssumption, RelianceAssumption DEF Init, ChainInv, ChainOfTrust, IsChain

\* Whatever the order in which endorsements travel and nodes crash, a node
\* trusts, saves and endorses only keys to which a chain of operators leads.
THEOREM ChainTheorem == Spec => []ChainOfTrust
  <1>1. ChainInv => ChainOfTrust
    BY DEF ChainInv
  <1>. QED
    BY <1>1, ChainInitially, ChainInductive, TrustTypeCorrect, PTL DEF Spec

-----------------------------------------------------------------------------
(* What a crash can undo.                                                  *)

\* Unless there was an error, between saves the file holds what the node trusts;
\* during a save, the rest is still to be written.
SaveInv ==
    \A n \in Nodes \ stale :
        /\ save[n] = "idle" => file[n] = trusted[n]
        /\ save[n] = "write" => file[n] \cup unwritten[n] = trusted[n]

\* A save ends with the last key, and a crash between good saves loses nothing.
LEMMA SaveInductive == TypeOK /\ SaveInv /\ [Next]_vars => SaveInv'
  <1> SUFFICES ASSUME TypeOK, SaveInv, [Next]_vars
               PROVE  SaveInv'
    OBVIOUS
  <1> USE DEF SaveInv, TypeOK
  <1>1. ASSUME NEW n \in Nodes, Endorse(n)
        PROVE  SaveInv'
    BY <1>1 DEF Endorse
  <1>2. ASSUME NEW n \in Nodes, NEW e \in sent, AddKeys(n, e)
        PROVE  SaveInv'
    BY <1>2 DEF AddKeys
  <1>3. ASSUME NEW n \in Nodes, CreateFile(n) \/ CreateFails(n)
        PROVE  SaveInv'
    BY <1>3 DEF CreateFile, CreateFails
  <1>4. ASSUME NEW n \in Nodes, NEW k \in Nodes, WriteKey(n, k) \/ WriteFails(n, k)
        PROVE  SaveInv'
    <2>1. /\ save[n] = "write" /\ k \in unwritten[n] /\ UNCHANGED trusted
          /\ unwritten' = [unwritten EXCEPT ![n] = @ \ {k}]
          /\ save' = [save EXCEPT ![n] = IF unwritten[n] = {k} THEN "idle" ELSE "write"]
      BY <1>4 DEF WriteKey, WriteFails, KeyDone
    <2>2. CASE WriteKey(n, k)
      <3>1. file' = [file EXCEPT ![n] = @ \cup {k}] /\ stale' = stale
        BY <2>2 DEF WriteKey
      <3>. QED
        BY <2>1, <3>1
    <2>3. CASE WriteFails(n, k)
      <3>1. file' = file /\ stale' = stale \cup {n}
        BY <2>3 DEF WriteFails
      <3>. QED
        BY <2>1, <3>1
    <2>. QED
      BY <1>4, <2>2, <2>3
  <1>5. ASSUME NEW n \in Nodes, Crash(n) \/ CrashUnread(n)
        PROVE  SaveInv'
    BY <1>5 DEF Crash, CrashUnread, Restart, Load
  <1>6. CASE UNCHANGED vars
    BY <1>6 DEF vars
  <1>. QED
    BY <1>1, <1>2, <1>3, <1>4, <1>5, <1>6
       DEF Next, Node, WriterEndorse, ListenerEndorse, WriterHears, ListenerHears

\* A node starts with the keys of its file.
LEMMA SaveInitially == Init => SaveInv
  BY TrustAssumption DEF Init, SaveInv

\* What a node does not forget: all it has loaded, and all it has saved well.
LEMMA StepForgets ==
    TypeOK /\ SaveInv /\ [Next]_vars
        => \A n \in Nodes : \/ trusted[n] \subseteq trusted'[n]
                            \/ save[n] # "idle" \/ n \in stale
                            \/ n \in stale'
  <1> SUFFICES ASSUME TypeOK, SaveInv, [Next]_vars,
                      NEW m \in Nodes, save[m] = "idle", m \notin stale, m \notin stale'
               PROVE  trusted[m] \subseteq trusted'[m]
    OBVIOUS
  <1>1. ASSUME NEW n \in Nodes, NEW e \in sent, AddKeys(n, e)
        PROVE  trusted[m] \subseteq trusted'[m]
    BY <1>1 DEF AddKeys, TypeOK
  <1>2. ASSUME NEW n \in Nodes, Crash(n) \/ CrashUnread(n)
        PROVE  trusted[m] \subseteq trusted'[m]
    BY <1>2 DEF Crash, CrashUnread, Load, TypeOK, SaveInv
  <1>3. ASSUME NEW n \in Nodes,
               \/ Endorse(n) \/ CreateFile(n) \/ CreateFails(n)
               \/ \E k \in Nodes : WriteKey(n, k) \/ WriteFails(n, k)
        PROVE  trusted[m] \subseteq trusted'[m]
    BY <1>3 DEF Endorse, CreateFile, CreateFails, WriteKey, WriteFails, KeyDone
  <1>4. CASE UNCHANGED vars
    BY <1>4 DEF vars
  <1>. QED
    BY <1>1, <1>2, <1>3, <1>4
       DEF Next, Node, WriterEndorse, ListenerEndorse, WriterHears, ListenerHears

\* A node loses trust in a key only if it is restarted in the middle of
\* save_trusted_publishers, after an error of its last save, or with a file that
\* load_trusted_publishers cannot read.
THEOREM ForgetsTheorem == Spec => ForgetsOnlyUnsaved
  BY SaveInitially, SaveInductive, StepForgets, TrustTypeCorrect, PTL DEF Spec, ForgetsOnlyUnsaved

-----------------------------------------------------------------------------
(* The listener's filter.                                                  *)

\* A node that never came back with less than it had still trusts what its operator has
\* configured.
ConfiguredInv == \A n \in Nodes \ torn : Configured[n] \subseteq trusted[n]

\* Trust is never taken back but by a restart, which after a good save brings the
\* same keys back from the file.
LEMMA ConfiguredInductive ==
    TypeOK /\ SaveInv /\ ConfiguredInv /\ [Next]_vars => ConfiguredInv'
  <1> SUFFICES ASSUME TypeOK, SaveInv, ConfiguredInv, [Next]_vars
               PROVE  ConfiguredInv'
    OBVIOUS
  <1> USE DEF ConfiguredInv
  <1>1. ASSUME NEW n \in Nodes, NEW e \in sent, AddKeys(n, e)
        PROVE  ConfiguredInv'
    BY <1>1 DEF AddKeys, TypeOK
  <1>2. ASSUME NEW n \in Nodes, Crash(n) \/ CrashUnread(n)
        PROVE  ConfiguredInv'
    BY <1>2 DEF Crash, CrashUnread, Load, TypeOK, SaveInv
  <1>3. ASSUME NEW n \in Nodes,
               \/ Endorse(n) \/ CreateFile(n) \/ CreateFails(n)
               \/ \E k \in Nodes : WriteKey(n, k) \/ WriteFails(n, k)
        PROVE  ConfiguredInv'
    BY <1>3 DEF Endorse, CreateFile, CreateFails, WriteKey, WriteFails, KeyDone
  <1>4. CASE UNCHANGED vars
    BY <1>4 DEF vars
  <1>. QED
    BY <1>1, <1>2, <1>3, <1>4
       DEF Next, Node, WriterEndorse, ListenerEndorse, WriterHears, ListenerHears

\* Unless a listener was restarted in the middle of a save, after a save that
\* failed or with an unreadable file, its filter, with configured publishers,
\* lets only senders pass to whom a chain leads: its set is never empty, which
\* would let everyone pass.
THEOREM VouchedTheorem == Spec => []OnlyVouchedPass
  <1>1. Init => ConfiguredInv
    BY TrustAssumption DEF Init, ConfiguredInv
  <1>2. ConfiguredInv /\ ChainInv => OnlyVouchedPass
    BY DEF ConfiguredInv, ChainInv, ChainOfTrust, OnlyVouchedPass, Passes
  <1>. QED
    BY <1>1, <1>2, ChainInitially, ChainInductive, SaveInitially, SaveInductive,
       ConfiguredInductive, TrustTypeCorrect, PTL DEF Spec
=============================================================================
