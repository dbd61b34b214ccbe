----------------------------- MODULE MCListener -----------------------------
(* Small instances of Listener.  Accepted notifications are interchangeable. *)
EXTENDS Listener, TLC

AcceptedSymmetry == Permutations(Accepted)
=============================================================================
