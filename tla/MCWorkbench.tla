---------------------------- MODULE MCWorkbench ----------------------------
(***************************************************************************)
(* The five parts of the workbench side, which share the database and no   *)
(* row of it: cases, accounts, policy slots under review, what the copilot *)
(* learns, and integration health. A behaviour is one of one part: the     *)
(* others stand still, so the state spaces add up rather than multiply.    *)
(***************************************************************************)
EXTENDS CaseDesk, Accounts, PolicyReview, CopilotLearning, IntegrationProbe, TLC

VARIABLE part

workbenchVars ==
  <<part, vars, accountsVars, policyVars, learningVars, probeVars>>

\* A part that stands still has one initial state.
WorkbenchInit ==
  /\ part \in {"cases", "accounts", "policy", "learning", "probes"}
  /\ Init /\ AccountsInit /\ PolicyInit /\ LearningInit /\ ProbeInit
  /\ part # "learning" =>
       /\ copilotEnv = [learning |-> FALSE, inject |-> FALSE]
       /\ workerEnv = [learning |-> FALSE, key |-> FALSE]
  /\ part # "probes" => configured = {}

CasesMove ==
  /\ part = "cases" /\ Next
  /\ UNCHANGED <<part, accountsVars, policyVars, learningVars, probeVars>>
AccountsMove ==
  /\ part = "accounts" /\ AccountsNext
  /\ UNCHANGED <<part, vars, policyVars, learningVars, probeVars>>
PolicyMoves ==
  /\ part = "policy" /\ PolicyNext
  /\ UNCHANGED <<part, vars, accountsVars, learningVars, probeVars>>
LearningMoves ==
  /\ part = "learning" /\ LearningNext
  /\ UNCHANGED <<part, vars, accountsVars, policyVars, probeVars>>
ProbesMove ==
  /\ part = "probes" /\ ProbeNext
  /\ UNCHANGED <<part, vars, accountsVars, policyVars, learningVars>>

WorkbenchNext ==
  CasesMove \/ AccountsMove \/ PolicyMoves \/ LearningMoves \/ ProbesMove

WorkbenchSpec == WorkbenchInit /\ [][WorkbenchNext]_workbenchVars

WorkbenchSymmetry ==
  Permutations(CaseId) \cup Permutations(Account) \cup Permutations(Process)
=============================================================================
