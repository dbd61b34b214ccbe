----------------------------- MODULE MCGossipNode -----------------------------
(* Small instances of GossipNode. *)
EXTENDS GossipNode
=============================================================================
