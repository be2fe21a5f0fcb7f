--------------------------- MODULE JobQueueProofs ---------------------------
(***************************************************************************)
(* Proofs about JobQueue, for every set of workers and jobs and every      *)
(* lease, backoff and attempt budget.                                      *)
(***************************************************************************)
EXTENDS JobQueue, TLAPS

\* The typed table with its own bookkeeping: what a release needs in order to
\* look up the backoff of the attempt that ended.
TableInv == TypeOK /\ AttemptsAccounted

\* What makes locked_at a sound fencing credential.
LeaseInv == FenceAdmitsOnlyTheHolder /\ HolderOrExpired

\* Releasing a running row (_release) yields a consistent row that waits or is
\* dead, without a lease.
LEMMA ReleasedRow ==
  ASSUME NEW row \in Row, RowConsistent(row), row.status = "running", now \in Nat
  PROVE  /\ Released(row) \in Row
         /\ RowConsistent(Released(row))
         /\ Released(row).status \in {"failed", "dead"}
         /\ Released(row).type = row.type
         /\ Released(row).payload = row.payload
         /\ Released(row).key = row.key
<1>1. /\ row.type \in JobType /\ row.attempts \in Nat
      /\ row.max_attempts \in Nat /\ row.run_at \in Nat
      /\ row.attempts \in 1..MaxAttempts[row.type]
  BY ConstantsAssumption DEF Row, RowConsistent
<1>2. now + Backoff[row.attempts] \in Nat
  BY <1>1, ConstantsAssumption
<1>3. CASE row.attempts >= row.max_attempts
  <2>1. Released(row) = Updated(row, "dead", row.attempts, row.run_at, NULL, NULL)
    BY <1>3 DEF Released
  <2>2. Released(row) \in Row
    BY <1>1, <1>3, <2>1 DEF Updated, Row, Status
  <2>3. RowConsistent(Released(row))
    BY <1>1, <1>3, <2>1 DEF Updated, RowConsistent, Claimable
  <2> QED
    BY <2>1, <2>2, <2>3 DEF Updated
<1>4. CASE ~(row.attempts >= row.max_attempts)
  <2>1. Released(row) = Updated(row, "failed", row.attempts,
                                now + Backoff[row.attempts], NULL, NULL)
    BY <1>4 DEF Released
  <2>2. Released(row) \in Row
    BY <1>1, <1>2, <1>4, <2>1 DEF Updated, Row, Status
  <2>3. RowConsistent(Released(row))
    BY <1>1, <1>2, <1>4, <2>1 DEF Updated, RowConsistent, Claimable
  <2> QED
    BY <2>1, <2>2, <2>3 DEF Updated
<1> QED
  BY <1>3, <1>4

\* A freshly inserted row (insert_job) is consistent.
LEMMA NewRowConsistent ==
  ASSUME NEW t \in JobType, NEW p \in Payload \cup {NULL}, NEW k \in Key \cup {NULL},
         now \in Nat
  PROVE  NewRow(t, p, k) \in Row /\ RowConsistent(NewRow(t, p, k))
<1>1. MaxAttempts[t] \in Nat \ {0}
  BY ConstantsAssumption
<1> QED
  BY <1>1 DEF NewRow, Row, RowConsistent, Status, Claimable

\* claim: a waiting row with attempts to spare becomes a consistent leased row.
LEMMA ClaimedRow ==
  ASSUME NEW row \in Row, RowConsistent(row), row.status \in Claimable,
         NEW w \in Worker, now \in Nat
  PROVE  Claimed(row, w) \in Row /\ RowConsistent(Claimed(row, w))
<1>1. /\ row.attempts \in Nat /\ row.max_attempts \in Nat
      /\ row.attempts < row.max_attempts
  BY DEF Row, RowConsistent
<1>2. Claimed(row, w) \in Row
  BY <1>1 DEF Claimed, Updated, Row, Status
<1>3. NULL # now /\ NULL # w
  BY ConstantsAssumption
<1>4. RowConsistent(Claimed(row, w))
  BY <1>1, <1>3 DEF Claimed, Updated, RowConsistent, Claimable
<1> QED
  BY <1>2, <1>4

\* complete: a running row becomes a consistent row without a lease.
LEMMA SucceededRow ==
  ASSUME NEW row \in Row, RowConsistent(row), row.status = "running"
  PROVE  Succeeded(row) \in Row /\ RowConsistent(Succeeded(row))
<1>1. Succeeded(row) \in Row
  BY DEF Succeeded, Updated, Row, Status
<1>2. RowConsistent(Succeeded(row))
  BY DEF Succeeded, Updated, RowConsistent, Claimable
<1> QED
  BY <1>1, <1>2

\* replay_dead_job: a dead row becomes a consistent row with a full budget.
LEMMA RequeuedRow ==
  ASSUME NEW row \in Row, RowConsistent(row), now \in Nat
  PROVE  Requeued(row) \in Row /\ RowConsistent(Requeued(row))
<1>1. row.type \in JobType /\ MaxAttempts[row.type] \in Nat \ {0}
  BY ConstantsAssumption DEF Row
<1>2. Requeued(row) \in Row
  BY DEF Requeued, Updated, Row, Status
<1>3. RowConsistent(Requeued(row))
  BY <1>1 DEF Requeued, Updated, RowConsistent, Claimable
<1> QED
  BY <1>2, <1>3

\* Writing one consistent row keeps the whole table typed and consistent.
LEMMA PutRow ==
  ASSUME TableInv, NEW j \in JobId, NEW row \in Row, RowConsistent(row),
         job' = [job EXCEPT ![j] = row]
  PROVE  job' \in [JobId -> Row \cup {NULL}] /\ AttemptsAccounted'
<1>1. job' \in [JobId -> Row \cup {NULL}]
  BY DEF TableInv, TypeOK
<1>2. ASSUME NEW i \in Rows' PROVE RowConsistent(job'[i])
  BY <1>2 DEF TableInv, TypeOK, AttemptsAccounted, Rows
<1> QED
  BY <1>1, <1>2 DEF AttemptsAccounted

\* An insert, or its dedupe no-op, keeps the table typed and consistent.
LEMMA InsertKeepsTable ==
  ASSUME TableInv, NEW t \in JobType, NEW p \in Payload \cup {NULL},
         NEW k \in Key \cup {NULL}, insert_job(t, p, k)
  PROVE  job' \in [JobId -> Row \cup {NULL}] /\ AttemptsAccounted'
<1>1. CASE KeyTaken(k)
  BY <1>1 DEF insert_job, TableInv, TypeOK, AttemptsAccounted, Rows
<1>2. CASE ~KeyTaken(k)
  <2>1. PICK j \in JobId \ Rows : job' = [job EXCEPT ![j] = NewRow(t, p, k)]
    BY <1>2 DEF insert_job
  <2>2. now \in Nat
    BY DEF TableInv, TypeOK
  <2> QED
    BY <2>1, <2>2, NewRowConsistent, PutRow
<1> QED
  BY <1>1, <1>2

\* The end of a poll leaves every worker's local state well typed.
LEMMA EndPollKeepsLocals ==
  ASSUME TypeOK, NEW w \in Worker, NEW next \in {"down", "sweep"}, EndPoll(w, next)
  PROVE  /\ pc' \in [Worker -> {"down", "sweep", "tick", "claim", "run"}]
         /\ held' \in [Worker -> Job \cup {NULL}]
         /\ tick' \in [Worker -> [moment: Nat, left: SUBSET Scheduled]]
         /\ \A v \in Worker : held'[v] # NULL <=> pc'[v] = "run"
<1>1. NoTick \in [moment: Nat, left: SUBSET Scheduled]
  BY DEF NoTick
<1> QED
  BY <1>1 DEF TypeOK, EndPoll

\* A worker that passes the fence holds a running row of the table.
LEMMA FencedRow ==
  ASSUME TableInv, NEW w \in Worker, pc[w] = "run", Fenced(w)
  PROVE  /\ held[w].id \in JobId
         /\ job[held[w].id] \in Row
         /\ RowConsistent(job[held[w].id])
         /\ job[held[w].id].status = "running"
BY DEF TableInv, TypeOK, AttemptsAccounted, Fenced, HasStatus, Rows, Job

\* Moving the clock or a worker between its own steps leaves the table as it is.
LEMMA SameTable ==
  ASSUME TableInv, job' = job
  PROVE  job' \in [JobId -> Row \cup {NULL}] /\ AttemptsAccounted'
BY DEF TableInv, TypeOK, AttemptsAccounted, Rows

\* reclaim_expired_leases keeps the whole table typed and consistent.
LEMMA SweepKeepsTable ==
  ASSUME TableInv,
         job' = [j \in JobId |-> IF Expired(j) THEN Released(job[j]) ELSE job[j]]
  PROVE  job' \in [JobId -> Row \cup {NULL}] /\ AttemptsAccounted'
<1>1. ASSUME NEW j \in JobId, Expired(j)
      PROVE  /\ job[j] \in Row /\ RowConsistent(job[j])
             /\ job[j].status = "running" /\ now \in Nat
  BY <1>1 DEF TableInv, TypeOK, AttemptsAccounted, Expired, HasStatus, Rows
<1>2. ASSUME NEW j \in JobId, Expired(j)
      PROVE  job'[j] \in Row /\ RowConsistent(job'[j])
  <2>1. job'[j] = Released(job[j])
    BY <1>2
  <2> QED
    BY <1>1, <1>2, <2>1, ReleasedRow
<1>3. ASSUME NEW j \in JobId, ~Expired(j)
      PROVE  job'[j] = job[j]
  BY <1>3
<1>4. \A j \in JobId : job'[j] \in Row \cup {NULL}
  BY <1>2, <1>3 DEF TableInv, TypeOK
<1>5. job' \in [JobId -> Row \cup {NULL}]
  BY <1>4
<1>6. ASSUME NEW j \in Rows' PROVE RowConsistent(job'[j])
  BY <1>2, <1>3, <1>6 DEF TableInv, AttemptsAccounted, Rows
<1> QED
  BY <1>5, <1>6 DEF AttemptsAccounted

\* The key a tick derives from its moment is a dedupe key.
LEMMA ScheduleKeyType ==
  ASSUME NEW t \in Scheduled, NEW m \in Nat
  PROVE  ScheduleKey(t, m) \in Key
<1>1. Interval[t] \in Nat \ {0} /\ t \in JobType
  BY ConstantsAssumption DEF JobType
<1>2. m \div Interval[t] \in Nat
  BY <1>1
<1> QED
  BY <1>1, <1>2 DEF ScheduleKey, Key

\* The table bookkeeping is inductive.
LEMMA TableStep ==
  ASSUME TableInv, [Next]_vars
  PROVE  TableInv'
<1> USE DEF TableInv
<1>1. CASE \E t \in EnqueuedType, p \in Payload : Enqueue(t, p)
  <2>1. PICK t \in EnqueuedType, p \in Payload : Enqueue(t, p)
    BY <1>1
  <2>2. job' \in [JobId -> Row \cup {NULL}] /\ AttemptsAccounted'
    BY <2>1, InsertKeepsTable, ConstantsAssumption DEF Enqueue
  <2> QED
    BY <2>1, <2>2 DEF Enqueue, TypeOK
<1>2. CASE \E j \in JobId : Replay(j)
  <2>1. PICK j \in JobId : Replay(j)
    BY <1>2
  <2>2. job[j] \in Row /\ RowConsistent(job[j]) /\ now \in Nat
    BY <2>1 DEF Replay, ReplayAllowed, HasStatus, Rows, TypeOK, AttemptsAccounted
  <2>3. job' \in [JobId -> Row \cup {NULL}] /\ AttemptsAccounted'
    BY <2>1, <2>2, RequeuedRow, PutRow DEF Replay
  <2> QED
    BY <2>1, <2>3 DEF Replay, TypeOK
<1>3. ASSUME NEW w \in Worker, Sweep(w) PROVE TableInv'
  <2>1. job' \in [JobId -> Row \cup {NULL}] /\ AttemptsAccounted'
    BY <1>3, SweepKeepsTable DEF Sweep
  <2>2. [moment |-> now, left |-> Scheduled] \in [moment: Nat, left: SUBSET Scheduled]
    BY DEF TypeOK
  <2>3. tick' \in [Worker -> [moment: Nat, left: SUBSET Scheduled]]
    BY <1>3, <2>2 DEF Sweep, TypeOK
  <2>4. /\ pc' \in [Worker -> {"down", "sweep", "tick", "claim", "run"}]
        /\ \A v \in Worker : held'[v] # NULL <=> pc'[v] = "run"
    BY <1>3 DEF Sweep, TypeOK
  <2> QED
    BY <1>3, <2>1, <2>3, <2>4 DEF Sweep, TypeOK
<1>4. ASSUME NEW w \in Worker, NEW t \in Scheduled, TickSchedule(w, t) PROVE TableInv'
  <2>1. tick[w].moment \in Nat /\ tick[w].left \in SUBSET Scheduled
    BY DEF TypeOK
  <2>2. t \in JobType
    BY ConstantsAssumption DEF JobType
  <2>3. ScheduleKey(t, tick[w].moment) \in Key
    BY <2>1, ScheduleKeyType
  <2>4. job' \in [JobId -> Row \cup {NULL}] /\ AttemptsAccounted'
    BY <1>4, <2>2, <2>3, InsertKeepsTable DEF TickSchedule
  <2>5. tick' \in [Worker -> [moment: Nat, left: SUBSET Scheduled]]
    BY <1>4, <2>1 DEF TickSchedule, TypeOK
  <2> QED
    BY <1>4, <2>4, <2>5 DEF TickSchedule, TypeOK
<1>5. ASSUME NEW w \in Worker, TickDone(w) PROVE TableInv'
  <2>1. job' \in [JobId -> Row \cup {NULL}] /\ AttemptsAccounted'
    BY <1>5, SameTable DEF TickDone
  <2>2. NoTick \in [moment: Nat, left: SUBSET Scheduled]
    BY DEF NoTick
  <2> QED
    BY <1>5, <2>1, <2>2 DEF TickDone, TypeOK
<1>6. ASSUME NEW w \in Worker, NEW j \in JobId, Claim(w, j) PROVE TableInv'
  <2>1. /\ job[j] \in Row /\ RowConsistent(job[j])
        /\ job[j].status \in Claimable /\ now \in Nat
    BY <1>6 DEF Claim, Due, Rows, TypeOK, AttemptsAccounted
  <2>2. job' \in [JobId -> Row \cup {NULL}] /\ AttemptsAccounted'
    BY <1>6, <2>1, ClaimedRow, PutRow DEF Claim
  <2>3. [id |-> j, lease |-> now] \in Job /\ [id |-> j, lease |-> now] # NULL
    BY <2>1, ConstantsAssumption DEF Job
  <2> QED
    BY <1>6, <2>2, <2>3 DEF Claim, TypeOK
<1>7. ASSUME NEW w \in Worker, ClaimNothing(w) \/ PollError(w) \/ Exit(w) PROVE TableInv'
  <2>1. job' = job /\ UNCHANGED <<now, replays>>
    BY <1>7 DEF ClaimNothing, PollError, Exit
  <2>2. \E next \in {"down", "sweep"} : EndPoll(w, next)
    BY <1>7 DEF ClaimNothing, PollError, Exit
  <2> QED
    BY <2>1, <2>2, EndPollKeepsLocals, SameTable DEF TypeOK
<1>8. ASSUME NEW w \in Worker, Complete(w) PROVE TableInv'
  <2>1. job' \in [JobId -> Row \cup {NULL}] /\ AttemptsAccounted'
    <3>1. CASE Fenced(w)
      <4>1. job' = [job EXCEPT ![held[w].id] = Succeeded(job[held[w].id])]
        BY <1>8, <3>1 DEF Complete
      <4> QED
        BY <1>8, <3>1, <4>1, FencedRow, SucceededRow, PutRow DEF Complete
    <3>2. CASE ~Fenced(w)
      BY <1>8, <3>2, SameTable DEF Complete
    <3> QED
      BY <3>1, <3>2
  <2> QED
    BY <1>8, <2>1, EndPollKeepsLocals DEF Complete, TypeOK
<1>9. ASSUME NEW w \in Worker, Fail(w) PROVE TableInv'
  <2>1. job' \in [JobId -> Row \cup {NULL}] /\ AttemptsAccounted'
    <3>1. CASE Fenced(w)
      <4>1. job' = [job EXCEPT ![held[w].id] = Released(job[held[w].id])]
        BY <1>9, <3>1 DEF Fail
      <4>2. now \in Nat
        BY DEF TypeOK
      <4> QED
        BY <1>9, <3>1, <4>1, <4>2, FencedRow, ReleasedRow, PutRow DEF Fail
    <3>2. CASE ~Fenced(w)
      BY <1>9, <3>2, SameTable DEF Fail
    <3> QED
      BY <3>1, <3>2
  <2> QED
    BY <1>9, <2>1, EndPollKeepsLocals DEF Fail, TypeOK
<1>10. ASSUME NEW w \in Worker, Start(w) PROVE TableInv'
  BY <1>10, SameTable DEF Start, TypeOK
<1>11. CASE AdvanceClock
  BY <1>11, SameTable DEF AdvanceClock, TypeOK
<1>12. CASE UNCHANGED vars
  BY <1>12, SameTable DEF vars, TypeOK
<1> QED
  BY <1>1, <1>2, <1>3, <1>4, <1>5, <1>6, <1>7, <1>8, <1>9, <1>10, <1>11, <1>12
     DEF Next, WorkerStep, WorkerFault

\* Every reachable job table is well typed and its bookkeeping is right: in
\* particular claim never starts an attempt beyond max_attempts, and a row
\* has a lease exactly while it runs.
THEOREM TableCorrect == Spec => [](TypeOK /\ AttemptsAccounted)
<1>1. Init => TableInv
  BY DEF Init, TableInv, TypeOK, AttemptsAccounted, Rows, NoTick
<1>2. TableInv /\ [Next]_vars => TableInv'
  BY TableStep
<1>3. TableInv => TypeOK /\ AttemptsAccounted
  BY DEF TableInv
<1> QED
  BY <1>1, <1>2, <1>3, PTL DEF Spec

\* What LeaseInv says of one worker.
LeaseOK(w) ==
  pc[w] = "run" => /\ Fenced(w) => job[held[w].id].locked_by = w
                   /\ Fenced(w) \/ held[w].lease + LeaseSeconds < now

\* The fencing invariant, worker by worker.
LEMMA LeaseInvPerWorker == LeaseInv <=> \A w \in Worker : LeaseOK(w)
BY DEF LeaseInv, FenceAdmitsOnlyTheHolder, HolderOrExpired, LeaseOK

\* A worker that does not move keeps its lease status while its row is the
\* same, or while its row is not running either before or after the step.
LEMMA LeaseFrame ==
  ASSUME TableInv, NEW w \in Worker, LeaseOK(w),
         pc'[w] = pc[w], held'[w] = held[w], now' \in Nat, now' >= now,
         pc[w] = "run" => \/ job'[held[w].id] = job[held[w].id]
                          \/ ~HasStatus(held[w].id, {"running"}) /\
                             ~HasStatus(held[w].id, {"running"})'
  PROVE  LeaseOK(w)'
<1>1. CASE pc[w] # "run"
  BY <1>1 DEF LeaseOK
<1>2. CASE pc[w] = "run"
  <2>1. held[w].id \in JobId /\ held[w].lease \in Nat /\ now \in Nat /\ LeaseSeconds \in Nat
    BY <1>2, ConstantsAssumption DEF TableInv, TypeOK, Job
  <2>2. Fenced(w)' <=> Fenced(w)
    BY <1>2, <2>1 DEF Fenced, HasStatus, Rows
  <2>3. Fenced(w) => job'[held[w].id] = job[held[w].id]
    BY <1>2 DEF Fenced
  <2> QED
    BY <1>2, <2>1, <2>2, <2>3 DEF LeaseOK
<1> QED
  BY <1>1, <1>2

\* A worker that is not in a job body has no lease to speak of.
LEMMA NoLease == ASSUME NEW w \in Worker, pc'[w] # "run" PROVE LeaseOK(w)'
BY DEF LeaseOK

\* The fencing credential stays sound: a claim needs a row that nobody can
\* still pass the fence of, so every other worker on it has overrun its lease
\* and holds an older locked_at than the new one.
LEMMA LeaseStep ==
  ASSUME TableInv, LeaseInv, [Next]_vars
  PROVE  LeaseInv'
<1> SUFFICES ASSUME NEW v \in Worker PROVE LeaseOK(v)'
  BY LeaseInvPerWorker DEF LeaseInv, FenceAdmitsOnlyTheHolder, HolderOrExpired, LeaseOK
<1>a. LeaseOK(v)
  BY LeaseInvPerWorker
<1>b. now \in Nat /\ LeaseSeconds \in Nat
  BY ConstantsAssumption DEF TableInv, TypeOK
<1>i. ASSUME NEW t, NEW p, NEW k, insert_job(t, p, k), UNCHANGED <<now, pc, held>>
      PROVE  LeaseOK(v)'
  <2>1. CASE job' = job
    BY <1>a, <1>b, <1>i, <2>1, LeaseFrame
  <2>2. CASE \E j \in JobId \ Rows : job' = [job EXCEPT ![j] = NewRow(t, p, k)]
    <3>1. PICK j \in JobId \ Rows : job' = [job EXCEPT ![j] = NewRow(t, p, k)]
      BY <2>2
    <3>2. job'[j].status = "queued" /\ \A i \in JobId : i # j => job'[i] = job[i]
      BY <3>1 DEF TableInv, TypeOK, NewRow
    <3>3. pc[v] = "run" => held[v].id \in JobId
      BY DEF TableInv, TypeOK, Job
    <3> QED
      BY <1>a, <1>b, <1>i, <3>1, <3>2, <3>3, LeaseFrame DEF HasStatus, Rows
  <2> QED
    BY <1>i, <2>1, <2>2 DEF insert_job
<1>1. CASE \E t \in EnqueuedType, p \in Payload : Enqueue(t, p)
  BY <1>1, <1>i DEF Enqueue
<1>2. CASE \E j \in JobId : Replay(j)
  <2>1. PICK j \in JobId : Replay(j)
    BY <1>2
  <2>2. /\ job[j].status = "dead" /\ job'[j].status = "queued"
        /\ \A i \in JobId : i # j => job'[i] = job[i]
    BY <2>1 DEF Replay, ReplayAllowed, HasStatus, TableInv, TypeOK, Requeued, Updated
  <2>3. pc[v] = "run" => held[v].id \in JobId
    BY DEF TableInv, TypeOK, Job
  <2> QED
    BY <1>a, <1>b, <2>1, <2>2, <2>3, LeaseFrame DEF HasStatus, Rows, Replay
<1>3. ASSUME NEW w \in Worker, Sweep(w) PROVE LeaseOK(v)'
  <2>0. now' = now /\ held' = held
    BY <1>3 DEF Sweep
  <2>1. CASE v = w
    BY <1>3, <2>1, NoLease DEF Sweep, TableInv, TypeOK
  <2>2. CASE v # w /\ pc[v] = "run" /\ Expired(held[v].id)
    <3>1. held[v].id \in JobId
      BY <2>2 DEF TableInv, TypeOK, Job
    <3>2. job'[held[v].id] = Released(job[held[v].id])
      BY <1>3, <2>2, <3>1 DEF Sweep
    <3>3. job'[held[v].id].status \in {"failed", "dead"}
      BY <2>2, <3>1, <3>2, <1>b, ReleasedRow
         DEF Expired, HasStatus, Rows, TableInv, TypeOK, AttemptsAccounted
    <3>4. ~Fenced(v)'
      BY <2>0, <3>3 DEF Fenced, HasStatus
    <3>5. held[v].lease + LeaseSeconds < now
      BY <1>a, <2>2 DEF LeaseOK, Fenced, Expired
    <3> QED
      BY <2>0, <3>4, <3>5 DEF LeaseOK
  <2>3. CASE v # w /\ ~(pc[v] = "run" /\ Expired(held[v].id))
    <3>1. pc'[v] = pc[v]
      BY <1>3, <2>3 DEF Sweep, TableInv, TypeOK
    <3>2. pc[v] = "run" => job'[held[v].id] = job[held[v].id]
      BY <1>3, <2>3 DEF Sweep, TableInv, TypeOK, Job
    <3> QED
      BY <1>a, <1>b, <2>0, <3>1, <3>2, LeaseFrame
  <2> QED
    BY <2>1, <2>2, <2>3
<1>4. ASSUME NEW w \in Worker, NEW t \in Scheduled, TickSchedule(w, t) PROVE LeaseOK(v)'
  BY <1>4, <1>i DEF TickSchedule
<1>5. ASSUME NEW w \in Worker, TickDone(w) PROVE LeaseOK(v)'
  <2>1. CASE v = w
    BY <1>5, <2>1, NoLease DEF TickDone, TableInv, TypeOK
  <2>2. CASE v # w
    BY <1>a, <1>b, <1>5, <2>2, LeaseFrame DEF TickDone, TableInv, TypeOK
  <2> QED
    BY <2>1, <2>2
<1>6. ASSUME NEW w \in Worker, NEW j \in JobId, Claim(w, j) PROVE LeaseOK(v)'
  <2>0. /\ job[j].status \in Claimable /\ j \in Rows
        /\ now' = now
        /\ job' = [job EXCEPT ![j] = Claimed(job[j], w)]
        /\ held' = [held EXCEPT ![w] = [id |-> j, lease |-> now]]
        /\ pc' = [pc EXCEPT ![w] = "run"]
    BY <1>6 DEF Claim, Due
  <2>1. /\ job'[j].locked_at = now /\ job'[j].locked_by = w
        /\ job'[j].status = "running" /\ job'[j] # NULL
        /\ \A i \in JobId : i # j => job'[i] = job[i]
    <3>1. Claimed(job[j], w) \in Row
      BY <1>b, <2>0, ClaimedRow DEF TableInv, TypeOK, AttemptsAccounted, Rows
    <3> QED
      BY <2>0, <3>1, ConstantsAssumption DEF TableInv, TypeOK, Claimed, Updated
  <2>2. CASE v = w
    <3>1. held'[v].id = j /\ held'[v].lease = now
      BY <2>0, <2>2 DEF TableInv, TypeOK
    <3>2. Fenced(v)' /\ job'[held'[v].id].locked_by = v
      BY <2>1, <2>2, <3>1 DEF Fenced, HasStatus, Rows
    <3> QED
      BY <3>2 DEF LeaseOK
  <2>3. CASE v # w /\ pc[v] = "run" /\ held[v].id = j
    <3>1. ~Fenced(v)
      BY <2>0, <2>3 DEF Fenced, HasStatus, Claimable
    <3>2. held[v].lease + LeaseSeconds < now /\ held[v].lease \in Nat
      BY <1>a, <2>3, <3>1 DEF LeaseOK, TableInv, TypeOK, Job
    <3>3. held'[v] = held[v] /\ pc'[v] = pc[v]
      BY <2>0, <2>3 DEF TableInv, TypeOK
    <3>4. ~Fenced(v)'
      BY <1>b, <2>1, <2>3, <3>2, <3>3 DEF Fenced
    <3> QED
      BY <2>0, <3>2, <3>3, <3>4 DEF LeaseOK
  <2>4. CASE v # w /\ ~(pc[v] = "run" /\ held[v].id = j)
    <3>1. pc'[v] = pc[v] /\ held'[v] = held[v]
      BY <2>0, <2>4 DEF TableInv, TypeOK
    <3>2. pc[v] = "run" => job'[held[v].id] = job[held[v].id]
      BY <2>1, <2>4 DEF TableInv, TypeOK, Job
    <3> QED
      BY <1>a, <1>b, <2>0, <3>1, <3>2, LeaseFrame
  <2> QED
    BY <2>2, <2>3, <2>4
<1>7. ASSUME NEW w \in Worker, ClaimNothing(w) \/ PollError(w) \/ Exit(w) PROVE LeaseOK(v)'
  <2>1. job' = job /\ now' = now
    BY <1>7 DEF ClaimNothing, PollError, Exit
  <2>2. \E next \in {"down", "sweep"} : EndPoll(w, next)
    BY <1>7 DEF ClaimNothing, PollError, Exit
  <2>3. CASE v = w
    BY <2>2, <2>3, NoLease DEF EndPoll, TableInv, TypeOK
  <2>4. CASE v # w
    <3>1. pc'[v] = pc[v] /\ held'[v] = held[v]
      BY <2>2, <2>4 DEF EndPoll, TableInv, TypeOK
    <3> QED
      BY <1>a, <1>b, <2>1, <3>1, LeaseFrame
  <2> QED
    BY <2>3, <2>4
<1>8. ASSUME NEW w \in Worker, Complete(w) \/ Fail(w) PROVE LeaseOK(v)'
  <2>0. EndPoll(w, "sweep") /\ now' = now /\ pc[w] = "run"
    BY <1>8 DEF Complete, Fail
  <2>1. CASE v = w
    BY <2>0, <2>1, NoLease DEF EndPoll, TableInv, TypeOK
  <2>2. CASE v # w
    <3>1. pc'[v] = pc[v] /\ held'[v] = held[v]
      BY <2>0, <2>2 DEF EndPoll, TableInv, TypeOK
    <3>2. CASE ~Fenced(w)
      BY <1>8, <1>a, <1>b, <2>0, <3>1, <3>2, LeaseFrame DEF Complete, Fail
    <3>3. CASE Fenced(w)
      <4>1. job[held[w].id].locked_by = w /\ held[w].id \in JobId
        BY <2>0, <3>3, FencedRow DEF LeaseInv, FenceAdmitsOnlyTheHolder
      <4>2. \A i \in JobId : i # held[w].id => job'[i] = job[i]
        BY <1>8, <3>3 DEF Complete, Fail, TableInv, TypeOK
      <4>3. CASE pc[v] = "run" /\ held[v].id = held[w].id
        <5>1. ~Fenced(v)
          BY <1>a, <2>2, <4>1, <4>3 DEF LeaseOK
        <5>2. job'[held[w].id].status \in {"succeeded", "failed", "dead"}
          <6>1. CASE Complete(w)
            BY <3>3, <4>1, <6>1 DEF Complete, TableInv, TypeOK, Succeeded, Updated
          <6>2. CASE Fail(w)
            <7>1. job'[held[w].id] = Released(job[held[w].id])
              BY <3>3, <4>1, <6>2 DEF Fail, TableInv, TypeOK
            <7> QED
              BY <1>b, <2>0, <3>3, <7>1, FencedRow, ReleasedRow
          <6> QED
            BY <1>8, <6>1, <6>2
        <5>3. ~Fenced(v)'
          BY <3>1, <4>3, <5>2 DEF Fenced, HasStatus
        <5>4. held[v].lease + LeaseSeconds < now
          BY <1>a, <4>3, <5>1 DEF LeaseOK
        <5> QED
          BY <2>0, <3>1, <5>3, <5>4 DEF LeaseOK
      <4>4. CASE ~(pc[v] = "run" /\ held[v].id = held[w].id)
        <5>1. pc[v] = "run" => job'[held[v].id] = job[held[v].id]
          BY <4>2, <4>4 DEF TableInv, TypeOK, Job
        <5> QED
          BY <1>a, <1>b, <2>0, <3>1, <5>1, LeaseFrame
      <4> QED
        BY <4>3, <4>4
    <3> QED
      BY <3>2, <3>3
  <2> QED
    BY <2>1, <2>2
<1>9. ASSUME NEW w \in Worker, Start(w) PROVE LeaseOK(v)'
  <2>1. CASE v = w
    BY <1>9, <2>1, NoLease DEF Start, TableInv, TypeOK
  <2>2. CASE v # w
    BY <1>a, <1>b, <1>9, <2>2, LeaseFrame DEF Start, TableInv, TypeOK
  <2> QED
    BY <2>1, <2>2
<1>10. CASE AdvanceClock
  BY <1>a, <1>b, <1>10, LeaseFrame DEF AdvanceClock
<1>11. CASE UNCHANGED vars
  BY <1>a, <1>b, <1>11, LeaseFrame DEF vars
<1> QED
  BY <1>1, <1>2, <1>3, <1>4, <1>5, <1>6, <1>7, <1>8, <1>9, <1>10, <1>11
     DEF Next, WorkerStep, WorkerFault

\* locked_at works as a fencing token, for any number of workers and any
\* lease: at most the worker a running row names can pass _FENCE_SQL, and a
\* worker that cannot pass it any more has overrun its lease.
THEOREM FencingCorrect == Spec => [](FenceAdmitsOnlyTheHolder /\ HolderOrExpired)
<1>1. Init => LeaseInv
  BY DEF Init, LeaseInv, FenceAdmitsOnlyTheHolder, HolderOrExpired
<1>2. Spec => []TableInv
  BY TableCorrect, PTL DEF TableInv
<1>3. TableInv /\ LeaseInv /\ [Next]_vars => LeaseInv'
  BY LeaseStep
<1>4. LeaseInv => FenceAdmitsOnlyTheHolder /\ HolderOrExpired
  BY DEF LeaseInv
<1> QED
  BY <1>1, <1>2, <1>3, <1>4, PTL DEF Spec

\* HolderOrExpired by itself: no second worker runs a job body before the
\* first one's LeaseSeconds have passed.
THEOREM NoEarlyTakeover == Spec => []HolderOrExpired
BY FencingCorrect, PTL

(***************************************************************************)
(* What one step does to one row                                           *)
(***************************************************************************)

\* The five UPDATEs and the INSERT of job_queue.py, each with the condition
\* under which it reaches row j.
RowInserted(j) ==
  /\ j \notin Rows
  /\ \E t \in JobType, p \in Payload \cup {NULL}, k \in Key \cup {NULL} :
       ~KeyTaken(k) /\ job' = [job EXCEPT ![j] = NewRow(t, p, k)]

RowReplayed(j) ==
  HasStatus(j, {"dead"}) /\ job'[j] = Requeued(job[j]) /\ replays' = replays + 1

RowClaimed(j) ==
  /\ HasStatus(j, Claimable)
  /\ \E w \in Worker : /\ job[j].type \in Allowlist(w)
                       /\ job'[j] = Claimed(job[j], w)

RowReported(j) ==
  \E w \in Worker :
    /\ pc[w] = "run" /\ held[w].id = j /\ pc'[w] = "sweep" /\ Fenced(w)
    /\ job'[j] \in {Succeeded(job[j]), Released(job[j])}

RowSwept(j) == Expired(j) /\ job'[j] = Released(job[j])

RowStep(j) ==
  \/ job'[j] = job[j]
  \/ RowInserted(j)
  \/ RowReplayed(j)
  \/ RowClaimed(j)
  \/ RowReported(j)
  \/ RowSwept(j)

\* An insert touches the row it creates and no other.
LEMMA InsertStep ==
  ASSUME TableInv, NEW t \in JobType, NEW p \in Payload \cup {NULL},
         NEW k \in Key \cup {NULL}, insert_job(t, p, k), NEW j \in JobId
  PROVE  job'[j] = job[j] \/ RowInserted(j)
<1>1. CASE KeyTaken(k)
  BY <1>1 DEF insert_job
<1>2. CASE ~KeyTaken(k)
  <2>1. PICK i \in JobId \ Rows : job' = [job EXCEPT ![i] = NewRow(t, p, k)]
    BY <1>2 DEF insert_job
  <2>2. CASE i = j
    BY <1>2, <2>1, <2>2 DEF RowInserted
  <2>3. CASE i # j
    BY <2>1, <2>3 DEF TableInv, TypeOK
  <2> QED
    BY <2>2, <2>3
<1> QED
  BY <1>1, <1>2

\* No step of any process does anything else to a row.
LEMMA EveryRowStep ==
  ASSUME TableInv, [Next]_vars, NEW j \in JobId
  PROVE  RowStep(j)
<1>1. CASE \E t \in EnqueuedType, p \in Payload : Enqueue(t, p)
  BY <1>1, InsertStep, ConstantsAssumption DEF Enqueue, RowStep
<1>2. CASE \E i \in JobId : Replay(i)
  BY <1>2 DEF Replay, ReplayAllowed, RowStep, RowReplayed, TableInv, TypeOK
<1>3. ASSUME NEW w \in Worker, Sweep(w) PROVE RowStep(j)
  BY <1>3 DEF Sweep, RowStep, RowSwept
<1>4. ASSUME NEW w \in Worker, NEW t \in Scheduled, TickSchedule(w, t) PROVE RowStep(j)
  <2>1. t \in JobType /\ tick[w].moment \in Nat
    BY ConstantsAssumption DEF JobType, TableInv, TypeOK
  <2>2. ScheduleKey(t, tick[w].moment) \in Key
    BY <2>1, ScheduleKeyType
  <2> QED
    BY <1>4, <2>1, <2>2, InsertStep DEF TickSchedule, RowStep
<1>5. ASSUME NEW w \in Worker, TickDone(w) \/ ClaimNothing(w) \/ PollError(w) \/
                               Exit(w) \/ Start(w)
      PROVE  RowStep(j)
  BY <1>5 DEF TickDone, ClaimNothing, PollError, Exit, Start, RowStep
<1>6. ASSUME NEW w \in Worker, NEW i \in JobId, Claim(w, i) PROVE RowStep(j)
  <2>1. /\ HasStatus(i, Claimable) /\ job[i].type \in Allowlist(w)
        /\ job' = [job EXCEPT ![i] = Claimed(job[i], w)]
    BY <1>6 DEF Claim, Due, HasStatus
  <2> QED
    BY <2>1 DEF RowStep, RowClaimed, TableInv, TypeOK
<1>7. ASSUME NEW w \in Worker, Complete(w) \/ Fail(w) PROVE RowStep(j)
  <2>1. pc[w] = "run" /\ pc'[w] = "sweep"
    BY <1>7 DEF Complete, Fail, EndPoll, TableInv, TypeOK
  <2>2. CASE ~Fenced(w) \/ held[w].id # j
    BY <1>7, <2>2 DEF Complete, Fail, RowStep, TableInv, TypeOK
  <2>3. CASE Fenced(w) /\ held[w].id = j
    <3>1. job'[j] \in {Succeeded(job[j]), Released(job[j])}
      BY <1>7, <2>3 DEF Complete, Fail, TableInv, TypeOK
    <3> QED
      BY <2>1, <2>3, <3>1 DEF RowStep, RowReported
  <2> QED
    BY <2>2, <2>3
<1>8. CASE AdvanceClock \/ UNCHANGED vars
  BY <1>8 DEF AdvanceClock, vars, RowStep
<1> QED
  BY <1>1, <1>2, <1>3, <1>4, <1>5, <1>6, <1>7, <1>8 DEF Next, WorkerStep, WorkerFault

\* Whatever is done to a row, its type, its payload and its dedupe key stay.
LEMMA RowIdentity ==
  ASSUME TableInv, NEW j \in Rows, RowStep(j)
  PROVE  /\ j \in Rows'
         /\ job'[j].type = job[j].type
         /\ job'[j].payload = job[j].payload
         /\ job'[j].key = job[j].key
<1>0. /\ j \in JobId /\ job[j] \in Row /\ NULL \notin Row
      /\ RowConsistent(job[j]) /\ now \in Nat
  BY ConstantsAssumption DEF Rows, TableInv, TypeOK, AttemptsAccounted
<1>1. CASE job'[j] = job[j]
  BY <1>1 DEF Rows
<1>2. CASE RowInserted(j)
  BY <1>2 DEF RowInserted
<1>3. ASSUME NEW s, NEW a, NEW r, NEW l, NEW b, job'[j] = Updated(job[j], s, a, r, l, b)
      PROVE  /\ job'[j].type = job[j].type
             /\ job'[j].payload = job[j].payload
             /\ job'[j].key = job[j].key
  BY <1>3 DEF Updated
<1>4. CASE RowReplayed(j) \/ RowClaimed(j) \/ RowReported(j) \/ RowSwept(j)
  <2>1. \E s, a, r, l, b : job'[j] = Updated(job[j], s, a, r, l, b)
    BY <1>4 DEF RowReplayed, RowClaimed, RowReported, RowSwept,
                Requeued, Claimed, Succeeded, Released
  <2>2. job'[j] \in Row
    <3>1. CASE RowReplayed(j)
      BY <1>0, <3>1, RequeuedRow DEF RowReplayed
    <3>2. CASE RowClaimed(j)
      BY <1>0, <3>2, ClaimedRow DEF RowClaimed, HasStatus
    <3>3. CASE RowReported(j)
      BY <1>0, <3>3, SucceededRow, ReleasedRow DEF RowReported, Fenced, HasStatus
    <3>4. CASE RowSwept(j)
      BY <1>0, <3>4, ReleasedRow DEF RowSwept, Expired, HasStatus
    <3> QED
      BY <1>4, <3>1, <3>2, <3>3, <3>4
  <2> QED
    BY <1>0, <1>3, <2>1, <2>2 DEF Rows
<1> QED
  BY <1>1, <1>2, <1>4 DEF RowStep

\* Each change of a row, by the status it leaves and the status it gives.
LEMMA StatusOfRowStep ==
  ASSUME TableInv, NEW j \in Rows
  PROVE  /\ RowReplayed(j) => /\ job[j].status = "dead" /\ job'[j].status = "queued"
                              /\ job'[j].attempts = 0
         /\ RowClaimed(j) => /\ job[j].status \in Claimable
                             /\ job'[j].status = "running"
         /\ RowReported(j) => /\ job[j].status = "running"
                              /\ job'[j].status \in {"succeeded", "failed", "dead"}
         /\ RowSwept(j) => /\ job[j].status = "running"
                           /\ job'[j].status \in {"failed", "dead"}
<1>0. job[j] \in Row /\ RowConsistent(job[j]) /\ now \in Nat
  BY DEF Rows, TableInv, TypeOK, AttemptsAccounted
<1>1. RowReplayed(j) => /\ job[j].status = "dead" /\ job'[j].status = "queued"
                        /\ job'[j].attempts = 0
  BY DEF RowReplayed, HasStatus, Requeued, Updated
<1>2. RowClaimed(j) => /\ job[j].status \in Claimable
                       /\ job'[j].status = "running"
  BY DEF RowClaimed, HasStatus, Claimed, Updated
<1>3. RowReported(j) => job[j].status = "running"
  BY DEF RowReported, Fenced, HasStatus
<1>4. RowSwept(j) => job[j].status = "running"
  BY DEF RowSwept, Expired, HasStatus
<1>5. Succeeded(job[j]).status = "succeeded"
  BY DEF Succeeded, Updated
<1>6. RowReported(j) => job'[j].status \in {"succeeded", "failed", "dead"}
  BY <1>0, <1>3, <1>5, ReleasedRow DEF RowReported
<1>7. RowSwept(j) => job'[j].status \in {"failed", "dead"}
  BY <1>0, <1>4, ReleasedRow DEF RowSwept
<1> QED
  BY <1>1, <1>2, <1>3, <1>4, <1>6, <1>7

\* What SettledStaysSettled demands of a step.
SettledStep ==
  \A j \in Rows :
    /\ j \in Rows'
    /\ job'[j].type = job[j].type
    /\ job'[j].payload = job[j].payload
    /\ job'[j].key = job[j].key
    /\ job[j].status = "succeeded" => job'[j] = job[j]
    /\ job[j].status = "dead" =>
         \/ job'[j] = job[j]
         \/ /\ job'[j].status = "queued"
            /\ job'[j].attempts = 0
            /\ replays' = replays + 1

\* What OnlyTheHolderFinishes demands of a step.
FinishStep ==
  \A j \in Rows :
    job[j].status = "running" /\ job'[j] # job[j] =>
      \/ /\ job'[j].status \in {"succeeded", "failed", "dead"}
         /\ LET w == job[j].locked_by IN
              pc[w] = "run" /\ held[w].id = j /\ pc'[w] = "sweep"
      \/ /\ job'[j].status \in {"failed", "dead"}
         /\ job[j].locked_at + LeaseSeconds < now

\* Every step is a SettledStep: only a replay takes a row out of dead.
LEMMA SettledStepHolds ==
  ASSUME TableInv, [Next]_vars
  PROVE  SettledStep
<1> SUFFICES ASSUME NEW j \in Rows
             PROVE  /\ j \in Rows'
                    /\ job'[j].type = job[j].type
                    /\ job'[j].payload = job[j].payload
                    /\ job'[j].key = job[j].key
                    /\ job[j].status = "succeeded" => job'[j] = job[j]
                    /\ job[j].status = "dead" =>
                         \/ job'[j] = job[j]
                         \/ /\ job'[j].status = "queued"
                            /\ job'[j].attempts = 0
                            /\ replays' = replays + 1
  BY DEF SettledStep
<1>1. j \in JobId /\ RowStep(j)
  BY EveryRowStep DEF Rows
<1>2. CASE job'[j] = job[j]
  BY <1>1, <1>2, RowIdentity
<1>3. CASE job'[j] # job[j]
  <2>1. RowReplayed(j) \/ RowClaimed(j) \/ RowReported(j) \/ RowSwept(j)
    BY <1>1, <1>3 DEF RowStep, RowInserted
  <2>2. job[j].status # "succeeded"
    BY <2>1, StatusOfRowStep DEF Claimable
  <2>3. job[j].status = "dead" => RowReplayed(j)
    BY <2>1, StatusOfRowStep DEF Claimable
  <2> QED
    BY <1>1, <2>2, <2>3, RowIdentity, StatusOfRowStep DEF RowReplayed
<1> QED
  BY <1>2, <1>3

\* Every step is a FinishStep: whoever passes the fence is the row's locked_by.
LEMMA FinishStepHolds ==
  ASSUME TableInv, LeaseInv, [Next]_vars
  PROVE  FinishStep
<1> SUFFICES ASSUME NEW j \in Rows, job[j].status = "running", job'[j] # job[j]
             PROVE  \/ /\ job'[j].status \in {"succeeded", "failed", "dead"}
                       /\ LET w == job[j].locked_by IN
                            pc[w] = "run" /\ held[w].id = j /\ pc'[w] = "sweep"
                    \/ /\ job'[j].status \in {"failed", "dead"}
                       /\ job[j].locked_at + LeaseSeconds < now
  BY DEF FinishStep
<1>1. RowStep(j)
  BY EveryRowStep DEF Rows
<1>2. RowReported(j) \/ RowSwept(j)
  BY <1>1, StatusOfRowStep DEF RowStep, RowInserted, Claimable
<1>3. CASE RowReported(j)
  <2>1. PICK w \in Worker : pc[w] = "run" /\ held[w].id = j /\ pc'[w] = "sweep" /\ Fenced(w)
    BY <1>3 DEF RowReported
  <2>2. job[j].locked_by = w
    BY <2>1 DEF LeaseInv, FenceAdmitsOnlyTheHolder
  <2> QED
    BY <1>3, <2>1, <2>2, StatusOfRowStep
<1>4. CASE RowSwept(j)
  BY <1>4, StatusOfRowStep DEF RowSwept, Expired
<1> QED
  BY <1>2, <1>3, <1>4

\* No slow worker resurrects or overwrites a job: in every step of every
\* behaviour a settled row stays settled, and a running row is changed by the
\* worker it names or by a sweep after its lease (complete, fail, _release).
THEOREM SettlementCorrect == Spec => SettlementIsFenced
<1>1. Spec => []TableInv
  BY TableCorrect, PTL DEF TableInv
<1>2. Spec => []LeaseInv
  BY FencingCorrect, PTL DEF LeaseInv
<1>3. TableInv /\ [Next]_vars => [SettledStep]_vars
  BY SettledStepHolds
<1>4. TableInv /\ LeaseInv /\ [Next]_vars => [FinishStep]_vars
  BY FinishStepHolds
<1>5. [][SettledStep]_vars => SettledStaysSettled
  BY DEF SettledStep, SettledStaysSettled
<1>6. [][FinishStep]_vars => OnlyTheHolderFinishes
  BY DEF FinishStep, OnlyTheHolderFinishes
<1> QED
  BY <1>1, <1>2, <1>3, <1>4, <1>5, <1>6, PTL DEF Spec, SettlementIsFenced

(***************************************************************************)
(* Isolation of the two worker tiers                                       *)
(***************************************************************************)

\* Every running row was claimed by a worker that may run its type.
LeasedByItsTier ==
  \A j \in Rows :
    job[j].status = "running" => job[j].type \in Allowlist(job[j].locked_by)

\* LeasedByItsTier is inductive: claim is the only step that gives a lease.
LEMMA TierStep ==
  ASSUME TableInv, LeasedByItsTier, [Next]_vars
  PROVE  LeasedByItsTier'
<1> SUFFICES ASSUME NEW j \in Rows', job'[j].status = "running"
             PROVE  job'[j].type \in Allowlist(job'[j].locked_by)
  BY DEF LeasedByItsTier, Allowlist
<1>0. j \in JobId /\ RowStep(j)
  BY EveryRowStep DEF Rows
<1>1. CASE job'[j] = job[j]
  BY <1>0, <1>1 DEF LeasedByItsTier, Rows
<1>2. CASE RowInserted(j)
  BY <1>0, <1>2 DEF RowInserted, NewRow, TableInv, TypeOK
<1>3. CASE RowReplayed(j) \/ RowReported(j) \/ RowSwept(j)
  <2>1. j \in Rows
    BY <1>3 DEF RowReplayed, RowReported, RowSwept, Fenced, Expired, HasStatus
  <2> QED
    BY <1>3, <2>1, StatusOfRowStep
<1>4. CASE RowClaimed(j)
  BY <1>4 DEF RowClaimed, Claimed, Updated
<1> QED
  BY <1>0, <1>1, <1>2, <1>3, <1>4 DEF RowStep

\* FR-9 for any number of workers of either kind: a running customer turn is
\* leased to a turn worker, and a turn worker's lease is always on a customer
\* turn (claim's job-type filter).
THEOREM IsolationCorrect == Spec => []ClaimIsolation
<1>1. Init => LeasedByItsTier
  BY DEF Init, LeasedByItsTier, Rows
<1>2. Spec => []TableInv
  BY TableCorrect, PTL DEF TableInv
<1>3. TableInv /\ LeasedByItsTier /\ [Next]_vars => LeasedByItsTier'
  BY TierStep
<1>4. TableInv /\ LeasedByItsTier => ClaimIsolation
  <2> SUFFICES ASSUME TableInv, LeasedByItsTier, NEW j \in Rows, job[j].status = "running"
               PROVE  job[j].type = AgentTurn <=> job[j].locked_by \in TurnWorker
    BY DEF ClaimIsolation
  <2>1. job[j].type \in Allowlist(job[j].locked_by)
    BY DEF LeasedByItsTier
  <2> QED
    BY <2>1 DEF Allowlist, AgentTurn, BackgroundType
<1> QED
  BY <1>1, <1>2, <1>3, <1>4, PTL DEF Spec
=============================================================================
