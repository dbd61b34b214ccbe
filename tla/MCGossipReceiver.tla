-------------------------- MODULE MCGossipReceiver --------------------------
(* GossipReceiver for TLC; the bounds are in the configurations. *)
EXTENDS GossipReceiver, TLC
=============================================================================
