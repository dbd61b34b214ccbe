---------------------------- MODULE MCReceiveTask ----------------------------
(* Small instances of ReceiveTask.  The peers are interchangeable. *)
EXTENDS ReceiveTask, TLC

PeerSymmetry == Permutations(Peers)
=============================================================================
