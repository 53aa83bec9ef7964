----------------------------- MODULE MCRaftNode -----------------------------
(* RaftNode for TLC: the servers, and the piggyback slots, are            *)
(* interchangeable.                                                        *)
EXTENDS RaftNode, TLC

Symmetry == Permutations(Node) \cup Permutations(Slot)
=============================================================================
