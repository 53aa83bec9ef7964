---------------------------- MODULE ReplicatedLog ----------------------------
(***************************************************************************)
(* What a replicated state machine promises to whoever calls it: the       *)
(* replicas process one sequence of commands, each a prefix of it, and a   *)
(* call is answered with the result of its own command at a position that  *)
(* some replica has processed.                                             *)
(*                                                                         *)
(* RaftNode implements it as long as no second node is elected.            *)
(***************************************************************************)
EXTENDS SequencesExt

CONSTANTS Replica, Command

VARIABLES processed, \* what each replica has processed
          answered   \* the commands answered, and the positions they have

vars == <<processed, answered>>

Init ==
  /\ processed = [r \in Replica |-> <<>>]
  /\ answered = {}

\* A replica goes on, with several commands at once perhaps, where nobody has
\* processed anything else.
Process(r) ==
  /\ IsStrictPrefix(processed[r], processed'[r])
  /\ \A q \in Replica \ {r} :
       /\ processed'[q] = processed[q]
       /\ IsPrefix(processed[q], processed'[r]) \/ IsPrefix(processed'[r], processed[q])
  /\ UNCHANGED answered

Answer(r) ==
  /\ \E i \in DOMAIN processed[r] :
       answered' = answered \cup {[command |-> processed[r][i], position |-> i]}
  /\ UNCHANGED processed

Next == \E r \in Replica : Process(r) \/ Answer(r)

Spec == Init /\ [][Next]_vars
=============================================================================
