----------------------------- MODULE MCJobQueue -----------------------------
(***************************************************************************)
(* Instances of JobQueue for TLC.                                          *)
(***************************************************************************)
EXTENDS JobQueue, TLC

\* _BACKOFF_BASE = 2
MCBackoff == [n \in 1..3 |-> 2^n]

\* One attempt for the types enqueued with max_attempts=1.
MCMaxAttempts ==
  [t \in JobType |-> IF t \in {"ingest", "l6_review"} THEN 1 ELSE 2]

MCInterval == [t \in {"retention"} |-> 3]

NoInterval == [t \in {} |-> 0]

Symmetry ==
  Permutations(JobId) \cup Permutations(TurnWorker) \cup Permutations(BackgroundWorker)
=============================================================================
