----------------------------- MODULE MCGateway -----------------------------
(***************************************************************************)
(* Instances of Gateway for TLC: messages and a STOP of one customer.      *)
(***************************************************************************)
EXTENDS Gateway, TLC

CONSTANTS m1, m2, stop

MCKind == [e \in Event |-> IF e = stop THEN "opt_out" ELSE "sms"]

MCPhone == [e \in Event |-> "customer"]

Symmetry == Permutations(Process) \cup Permutations({m1, m2})
=============================================================================
