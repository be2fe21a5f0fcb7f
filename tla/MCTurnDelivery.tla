--------------------------- MODULE MCTurnDelivery ---------------------------
(***************************************************************************)
(* Instances of TurnDelivery for TLC.                                      *)
(***************************************************************************)
EXTENDS TurnDelivery, TLC

CONSTANTS sms, email

MCKind == [e \in Event |-> IF e = email THEN "email" ELSE "sms"]

MCBackoff == [n \in 1..3 |-> 2^n]

MCMaxAttempts ==
  [t \in {"agent_turn", "l6_review", "retention", "ingest", "integration_probe",
           "honored_rate"} |-> 2]

WorkerSymmetry == Permutations(TurnWorker)

JobSymmetry == Permutations(JobId)

(***************************************************************************)
(* For liveness the clock must not run out: it moves only while a row      *)
(* waits for it, which loses no behaviour that a row could notice, and     *)
(* MaxTime is out of its reach.                                            *)
(***************************************************************************)
ClockMatters ==
  \E j \in Queue!Rows :
    \/ job[j].status \in Queue!Claimable /\ job[j].run_at > now
    \/ job[j].status = "running" /\ ~Queue!Expired(j)

LiveNext ==
  \/ \E e \in Event : Accept(e)
  \/ \E w \in TurnWorker : WorkerStep(w) \/ WorkerFault(w) \/ WorkerStarts(w)
  \/ \E r \in Route : RouteStep(r)
  \/ \E j \in JobId : SupervisorReplays(j)
  \/ ClockMatters /\ Clock

LiveSpec ==
  /\ Init
  /\ [][LiveNext]_vars
  /\ Fairness
  /\ WF_vars(ClockMatters /\ Clock)
=============================================================================
