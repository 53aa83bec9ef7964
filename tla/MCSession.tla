----------------------------- MODULE MCSession -----------------------------
(* Session for TLC: one key and one value, created, read and deleted; the  *)
(* nodes, and the clients, are interchangeable.                            *)
EXTENDS Session, TLC

Create == [type : {"create"}, key : Key, value : Value]
Reads  == [type : {"read"}, key : Key]
Delete == [type : {"delete"}, key : Key]

CreateAndRead == Create \cup Reads
CreateReadDelete == Create \cup Reads \cup Delete

Symmetry == Permutations(Node) \cup Permutations(Client)
=============================================================================
