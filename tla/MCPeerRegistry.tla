--------------------------- MODULE MCPeerRegistry ---------------------------
(* Small instances of PeerRegistry.  The nodes are interchangeable. *)
EXTENDS PeerRegistry, TLC

NodeSymmetry == Permutations(Nodes)
=============================================================================
