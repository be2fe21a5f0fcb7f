----------------------------- MODULE MCCaseDesk -----------------------------
(***************************************************************************)
(* Instances of CaseDesk for TLC.                                          *)
(***************************************************************************)
EXTENDS CaseDesk, TLC

Symmetry ==
  Permutations(CaseId) \cup Permutations(Account) \cup Permutations(Process)
=============================================================================
