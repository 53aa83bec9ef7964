------------------------------ MODULE TaskFarm ------------------------------
(***************************************************************************)
(* What Client::Integrate of tasks/integration/master.cpp promises: the    *)
(* integral is the sum of the pieces, each added once, and it is returned  *)
(* when the last piece is in.                                              *)
(***************************************************************************)
EXTENDS Naturals

CONSTANT Task   \* the pieces of the integral

VARIABLES sum,      \* how often each piece was added to the result
          returned  \* Integrate has returned the result

Init ==
  /\ sum = [t \in Task |-> 0]
  /\ returned = FALSE

Add(t) ==
  /\ ~returned
  /\ sum[t] = 0
  /\ sum' = [sum EXCEPT ![t] = 1]
  /\ UNCHANGED returned

Return ==
  /\ ~returned
  /\ \A t \in Task : sum[t] = 1
  /\ returned' = TRUE
  /\ UNCHANGED sum

Next == (\E t \in Task : Add(t)) \/ Return

Spec == Init /\ [][Next]_<<sum, returned>>

=============================================================================
