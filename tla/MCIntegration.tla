---------------------------- MODULE MCIntegration ----------------------------
(* Integration for TLC: the workers are interchangeable.                   *)
EXTENDS Integration

Symmetry == Permutations(Worker)
=============================================================================
