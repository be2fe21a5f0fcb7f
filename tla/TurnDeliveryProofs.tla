------------------------- MODULE TurnDeliveryProofs -------------------------
(***************************************************************************)
(* Proofs about TurnDelivery: a customer turn is a behaviour of the queue  *)
(* and of the send record it is made of, and what is proved of those two   *)
(* carries over to turns.  For any events, workers, jobs and route calls.  *)
(***************************************************************************)
EXTENDS TurnDelivery, TLAPS

\* The two components with what is proved about them.
QueueP == INSTANCE JobQueueProofs WITH
            Payload <- Event, BackgroundWorker <- {},
            EnqueuedType <- {"agent_turn"}, Interval <- [t \in {} |-> 0]

SendP == INSTANCE OutboundProofs

\* The assumptions of the two components follow from those of the composition.
LEMMA QueueAssumptions == QueueP!ConstantsAssumption
<1>1. QueueP!JobType = Queue!JobType /\ QueueP!Row = Queue!Row /\ QueueP!Job = Queue!Job
      /\ QueueP!Key = Queue!Key
  BY DEF QueueP!JobType, Queue!JobType, QueueP!Row, Queue!Row, QueueP!Job, Queue!Job,
         QueueP!Key, Queue!Key, QueueP!AgentTurn, Queue!AgentTurn, QueueP!BackgroundType,
         Queue!BackgroundType, QueueP!Status, Queue!Status, QueueP!Worker, Queue!Worker
<1>2. {"agent_turn"} \subseteq QueueP!JobType
  BY DEF QueueP!JobType, QueueP!AgentTurn
<1>3. QueueP!Scheduled = {}
  BY DEF QueueP!Scheduled
<1>4. QueueP!Worker = TurnWorker
  BY DEF QueueP!Worker
<1> QED
  BY <1>1, <1>2, <1>3, <1>4, TurnAssumption

LEMMA SendAssumptions == SendP!OutboundAssumption
BY TurnAssumption

(***************************************************************************)
(* The queue                                                               *)
(***************************************************************************)

\* Every step of a turn is a step of the queue or leaves the queue alone.
LEMMA QueueStep ==
  ASSUME [Next]_vars
  PROVE  [Queue!Next]_Queue!vars
<1>1. CASE UNCHANGED vars
  BY <1>1 DEF vars, Queue!vars
<1>2. ASSUME NEW e \in Event, Accept(e) PROVE Queue!Next
  BY <1>2 DEF Accept, Queue!Next
<1>3. ASSUME NEW w \in TurnWorker, WorkerStep(w) PROVE [Queue!Next]_Queue!vars
  <2>1. w \in Queue!Worker
    BY DEF Queue!Worker
  <2>2. CASE WorkerRuns(w) \/ Delivery(w)
    BY <2>2 DEF WorkerRuns, Delivery, queueVars, Queue!vars
  <2>3. CASE WorkerSweeps(w) \/ WorkerClaims(w) \/ WorkerFindsNothing(w) \/ Report(w)
    <3>1. Queue!WorkerStep(w)
      BY <2>3 DEF WorkerSweeps, WorkerClaims, WorkerFindsNothing, Report, Queue!WorkerStep
    <3> QED
      BY <2>1, <3>1 DEF Queue!Next
  <2> QED
    BY <1>3, <2>2, <2>3 DEF WorkerStep
<1>4. ASSUME NEW w \in TurnWorker, WorkerFault(w) \/ WorkerStarts(w)
      PROVE  [Queue!Next]_Queue!vars
  <2>1. w \in Queue!Worker
    BY DEF Queue!Worker
  <2>2. CASE DeliveryFault(w)
    BY <2>2 DEF DeliveryFault, queueVars, Queue!vars
  <2>3. CASE PollFails(w) \/ WorkerExits(w) \/ WorkerStarts(w)
    <3>1. Queue!WorkerFault(w) \/ Queue!Start(w)
      BY <2>3 DEF PollFails, WorkerExits, WorkerStarts, Queue!WorkerFault
    <3> QED
      BY <2>1, <3>1 DEF Queue!Next
  <2> QED
    BY <1>4, <2>2, <2>3 DEF WorkerFault
<1>5. ASSUME NEW r \in Route, RouteStep(r) PROVE UNCHANGED Queue!vars
  BY <1>5 DEF RouteStep, RouteRuns, Delivery, DeliveryFault, RouteEnds, queueVars,
               Queue!vars
<1>6. ASSUME NEW j \in JobId, SupervisorReplays(j) PROVE Queue!Next
  BY <1>6 DEF SupervisorReplays, Queue!Next
<1>7. CASE Clock
  BY <1>7 DEF Clock, Queue!Next
<1> QED
  BY <1>1, <1>2, <1>3, <1>4, <1>5, <1>6, <1>7 DEF Next

\* run_once, persist_accepted_inbound and the replay use the queue's own
\* operations and nothing else: a turn is a behaviour of JobQueue.
THEOREM QueueRefined == Spec => ImplementsQueue
<1>1. Init => Queue!Init
  BY DEF Init
<1>2. [Next]_vars => [Queue!Next]_Queue!vars
  BY QueueStep
<1> QED
  BY <1>1, <1>2, PTL DEF Spec, ImplementsQueue, Queue!Spec

\* The two instances of JobQueue say the same, so what its proofs establish is
\* about the queue of TurnDelivery.
LEMMA SameQueue ==
  /\ Queue!Init => QueueP!Init
  /\ [Queue!Next]_Queue!vars => [QueueP!Next]_QueueP!vars
<1>1. Queue!Init => QueueP!Init
  BY DEF Queue!Init, QueueP!Init, Queue!Worker, QueueP!Worker, Queue!NoTick, QueueP!NoTick
<1>2. UNCHANGED Queue!vars => UNCHANGED QueueP!vars
  BY DEF Queue!vars, QueueP!vars
<1>3. Queue!Next => QueueP!Next
  BY DEF Queue!Next, QueueP!Next, Queue!Worker, QueueP!Worker,
         Queue!WorkerStep, QueueP!WorkerStep, Queue!WorkerFault, QueueP!WorkerFault,
         Queue!Enqueue, QueueP!Enqueue, Queue!insert_job, QueueP!insert_job,
         Queue!KeyTaken, QueueP!KeyTaken, Queue!NewRow, QueueP!NewRow,
         Queue!Rows, QueueP!Rows, Queue!HasStatus, QueueP!HasStatus,
         Queue!Replay, QueueP!Replay, Queue!ReplayAllowed, QueueP!ReplayAllowed,
         Queue!ReplayBlocked, QueueP!ReplayBlocked,
         Queue!NonConcurrent, QueueP!NonConcurrent, Queue!Requeued, QueueP!Requeued,
         Queue!Updated, QueueP!Updated, Queue!Sweep, QueueP!Sweep,
         Queue!Expired, QueueP!Expired, Queue!Released, QueueP!Released,
         Queue!Scheduled, QueueP!Scheduled, Queue!TickSchedule, QueueP!TickSchedule,
         Queue!ScheduleKey, QueueP!ScheduleKey, Queue!TickDone, QueueP!TickDone,
         Queue!NoTick, QueueP!NoTick, Queue!Claim, QueueP!Claim, Queue!Due, QueueP!Due,
         Queue!NotAfter, QueueP!NotAfter, Queue!Claimable, QueueP!Claimable,
         Queue!Allowlist, QueueP!Allowlist, Queue!AgentTurn, QueueP!AgentTurn,
         Queue!BackgroundType, QueueP!BackgroundType, Queue!Claimed, QueueP!Claimed,
         Queue!ClaimNothing, QueueP!ClaimNothing, Queue!EndPoll, QueueP!EndPoll,
         Queue!Complete, QueueP!Complete, Queue!Fenced, QueueP!Fenced,
         Queue!Succeeded, QueueP!Succeeded, Queue!Fail, QueueP!Fail,
         Queue!PollError, QueueP!PollError, Queue!Exit, QueueP!Exit,
         Queue!Start, QueueP!Start, Queue!AdvanceClock, QueueP!AdvanceClock
<1> QED
  BY <1>1, <1>2, <1>3

\* The queue's table is typed and keeps its books in every state of a turn.
LEMMA QueueTable == Spec => []QueueP!TableInv
<1>1. QueueP!Spec => []QueueP!TableInv
  BY QueueP!TableCorrect, QueueAssumptions, PTL DEF QueueP!TableInv
<1>2. Queue!Spec => QueueP!Spec
  BY SameQueue, PTL DEF Queue!Spec, QueueP!Spec
<1> QED
  BY <1>1, <1>2, QueueRefined, PTL DEF ImplementsQueue

\* A row stays, with its payload, and a succeeded one stays succeeded.
LEMMA RowsKept ==
  ASSUME QueueP!TableInv, [Next]_vars, NEW j \in Queue!Rows
  PROVE  /\ j \in Queue!Rows'
         /\ job'[j].payload = job[j].payload
         /\ job[j].status = "succeeded" => job'[j].status = "succeeded"
<1>1. [QueueP!Next]_QueueP!vars
  BY QueueStep, SameQueue
<1>2. QueueP!SettledStep
  BY <1>1, QueueP!SettledStepHolds, QueueAssumptions
<1> QED
  BY <1>2 DEF QueueP!SettledStep, QueueP!Rows, Queue!Rows

(***************************************************************************)
(* The outbox, and the turn a worker runs                                  *)
(***************************************************************************)

\* Context row and job row come and stay together: persist_accepted_inbound
\* writes both, nothing else writes either, and no payload ever changes.
OutboxOK ==
  /\ context \subseteq Event
  /\ \A j \in Queue!Rows : job[j].payload \in context
  /\ \A e \in context : \E j \in JobId : JobOf(e) = {j}

\* A worker is in a turn body only with a job in hand, and the turn is about
\* that job's event (run_once hands job.payload to execute_agent_turn_job).
BodyOK ==
  \A w \in TurnWorker :
    /\ pc[w] = "run" => held[w].id \in Queue!Rows
    /\ turn[w].at # "idle" => /\ pc[w] = "run"
                              /\ turn[w].event = job[held[w].id].payload

\* Every job that succeeded left a record of its event's delivery.
SuccessRecorded ==
  \A j \in Queue!Rows : job[j].status = "succeeded" =>
                           outbound[job[j].payload].status # "none"

\* Only the gateway's persist inserts a job.
LEMMA OnlyAcceptInserts ==
  ASSUME QueueP!TableInv, [Next]_vars, \A e \in Event : ~Accept(e)
  PROVE  Queue!Rows' = Queue!Rows /\ context' = context
<1>0. job \in [JobId -> QueueP!Row \cup {NULL}]
  BY DEF QueueP!TableInv, QueueP!TypeOK
<1>1. Queue!Rows \subseteq Queue!Rows'
  BY RowsKept
<1>2. CASE job' = job /\ context' = context
  BY <1>2 DEF Queue!Rows
<1>3. ASSUME context' = context, NEW i \in Queue!Rows, NEW row, job' = [job EXCEPT ![i] = row]
      PROVE  Queue!Rows' = Queue!Rows /\ context' = context
  BY <1>0, <1>1, <1>3 DEF Queue!Rows
<1>4. ASSUME NEW w \in TurnWorker, WorkerStep(w)
      PROVE  Queue!Rows' = Queue!Rows /\ context' = context
  <2>1. CASE WorkerSweeps(w)
    BY <1>1, <2>1 DEF WorkerSweeps, SendUnchanged, Queue!Sweep, Queue!Rows, Queue!Expired,
                      Queue!HasStatus
  <2>2. CASE WorkerClaims(w)
    BY <1>3, <2>2 DEF WorkerClaims, SendUnchanged, Queue!Claim, Queue!Due
  <2>3. CASE WorkerFindsNothing(w) \/ WorkerRuns(w) \/ Delivery(w)
    BY <1>2, <2>3 DEF WorkerFindsNothing, SendUnchanged, Queue!ClaimNothing, WorkerRuns,
                      Delivery, queueVars
  <2>4. CASE Report(w)
    <3>1. context' = context
      BY <2>4 DEF Report, Drop
    <3>2. job' = job \/ (held[w].id \in Queue!Rows /\ \E row : job' = [job EXCEPT ![held[w].id] = row])
      BY <2>4 DEF Report, Queue!Complete, Queue!Fail, Queue!Fenced, Queue!HasStatus
    <3> QED
      BY <1>2, <1>3, <3>1, <3>2
  <2> QED
    BY <1>4, <2>1, <2>2, <2>3, <2>4 DEF WorkerStep
<1>5. ASSUME NEW w \in TurnWorker, WorkerFault(w) \/ WorkerStarts(w)
      PROVE  job' = job /\ context' = context
  BY <1>5 DEF WorkerFault, WorkerStarts, DeliveryFault, PollFails, WorkerExits, Drop,
              SendUnchanged, Queue!PollError, Queue!Exit, Queue!Start, queueVars
<1>6. ASSUME NEW r \in Route, RouteStep(r)
      PROVE  job' = job /\ context' = context
  BY <1>6 DEF RouteStep, RouteRuns, Delivery, DeliveryFault, RouteEnds, queueVars
<1>7. ASSUME NEW j \in JobId, SupervisorReplays(j)
      PROVE  Queue!Rows' = Queue!Rows /\ context' = context
  BY <1>3, <1>7 DEF SupervisorReplays, SendUnchanged, Queue!Replay, Queue!ReplayAllowed,
                    Queue!HasStatus
<1>8. CASE Clock \/ UNCHANGED vars
  BY <1>2, <1>8 DEF Clock, SendUnchanged, Queue!AdvanceClock, vars
<1> QED
  BY <1>2, <1>4, <1>5, <1>6, <1>7, <1>8 DEF Next

\* The outbox is inductive.
LEMMA OutboxStep ==
  ASSUME QueueP!TableInv, OutboxOK, [Next]_vars
  PROVE  OutboxOK'
<1>0. job \in [JobId -> QueueP!Row \cup {NULL}]
  BY DEF QueueP!TableInv, QueueP!TypeOK
<1>1. CASE \A e \in Event : ~Accept(e)
  <2>1. Queue!Rows' = Queue!Rows /\ context' = context
    BY <1>1, OnlyAcceptInserts
  <2>2. \A j \in Queue!Rows : job'[j].payload = job[j].payload
    BY RowsKept
  <2>3. \A e \in Event : JobOf(e)' = JobOf(e)
    BY <2>1, <2>2 DEF JobOf
  <2> QED
    BY <2>1, <2>2, <2>3 DEF OutboxOK
<1>2. ASSUME NEW e \in Event, Accept(e)
      PROVE  OutboxOK'
  <2>1. e \notin context /\ context' = context \cup {e} /\ Queue!insert_job("agent_turn", e, NULL)
    BY <1>2 DEF Accept, Queue!Enqueue
  <2>2. PICK i \in JobId \ Queue!Rows :
               job' = [job EXCEPT ![i] = Queue!NewRow("agent_turn", e, NULL)]
    BY <2>1 DEF Queue!insert_job, Queue!KeyTaken
  <2>3. job'[i].payload = e
    BY <1>0, <2>2 DEF Queue!NewRow
  <2>4. job'[i] # NULL
    <3>1. QueueP!NewRow("agent_turn", e, NULL) \in QueueP!Row
      <4>1. "agent_turn" \in QueueP!JobType /\ now \in Nat
        BY DEF QueueP!JobType, QueueP!AgentTurn, QueueP!TableInv, QueueP!TypeOK
      <4> QED
        BY <4>1, QueueP!NewRowConsistent, QueueAssumptions
    <3>2. Queue!NewRow("agent_turn", e, NULL) = QueueP!NewRow("agent_turn", e, NULL)
      BY DEF Queue!NewRow, QueueP!NewRow
    <3> QED
      BY <1>0, <2>2, <3>1, <3>2, QueueAssumptions
  <2>5. Queue!Rows' = Queue!Rows \cup {i}
    BY <1>0, <2>2, <2>4 DEF Queue!Rows
  <2>6. \A j \in Queue!Rows : job'[j] = job[j] /\ job[j].payload # e
    BY <1>0, <2>1, <2>2 DEF OutboxOK
  <2>7. JobOf(e)' = {i}
    BY <2>3, <2>5, <2>6 DEF JobOf
  <2>8. ASSUME NEW f \in context
        PROVE  JobOf(f)' = JobOf(f)
    BY <2>1, <2>3, <2>5, <2>6 DEF JobOf
  <2> QED
    BY <2>1, <2>2, <2>3, <2>5, <2>6, <2>7, <2>8 DEF OutboxOK
<1> QED
  BY <1>1, <1>2

LEMMA OutboxInvariant == Spec => []OutboxOK
<1>1. Init => OutboxOK
  BY DEF Init, Queue!Init, Queue!Rows, OutboxOK
<1> QED
  BY <1>1, OutboxStep, QueueTable, PTL DEF Spec

(***************************************************************************)
(* The send record                                                         *)
(***************************************************************************)

\* The two instances of OutboundSend say the same.
LEMMA SameSend ==
  /\ Send!OutboundInit => SendP!OutboundInit
  /\ [Send!OutboundNext]_Send!sendVars => [SendP!OutboundNext]_SendP!sendVars
<1>1. Send!OutboundInit => SendP!OutboundInit
  BY DEF Send!OutboundInit, SendP!OutboundInit, Send!NoRecord, SendP!NoRecord, Send!Idle,
         SendP!Idle
<1>2. UNCHANGED Send!sendVars => UNCHANGED SendP!sendVars
  BY DEF Send!sendVars, SendP!sendVars
<1>3. Send!OutboundNext => SendP!OutboundNext
  BY DEF Send!OutboundNext, SendP!OutboundNext, Send!Deliver, SendP!Deliver,
         Send!NeverDeliver, SendP!NeverDeliver, Send!DeliveryStep, SendP!DeliveryStep,
         Send!DeliveryFault, SendP!DeliveryFault, Send!Leave, SendP!Leave,
         Send!Begin, SendP!Begin, Send!Skip, SendP!Skip,
         Send!PostAccepted, SendP!PostAccepted, Send!PostRaises, SendP!PostRaises,
         Send!Mirror, SendP!Mirror, Send!MirrorRaises, SendP!MirrorRaises,
         Send!Finish, SendP!Finish, Send!RecordRaises, SendP!RecordRaises,
         Send!GoTo, SendP!GoTo, Send!ToFinish, SendP!ToFinish, Send!Begun, SendP!Begun,
         Send!Skipped, SendP!Skipped, Send!Finished, SendP!Finished,
         Send!Vacant, SendP!Vacant, Send!Burned, SendP!Burned, Send!Idle, SendP!Idle
<1> QED
  BY <1>1, <1>2, <1>3

\* A worker that drops its turn leaves the delivery, or had none.
LEMMA DropStep ==
  ASSUME SendP!SendInv, NEW w \in TurnWorker, Drop(w)
  PROVE  [Send!OutboundNext]_Send!sendVars
<1>1. w \in Caller
  BY DEF Caller
<1>2. CASE turn[w].at # "idle"
  <2>1. Send!Leave(w)
    BY <1>2 DEF Drop, Send!Leave
  <2> QED
    BY <1>1, <2>1 DEF Send!OutboundNext
<1>3. CASE turn[w].at = "idle"
  <2>1. turn \in [Caller -> SendP!Turn \cup {SendP!Idle}]
    BY DEF SendP!SendInv, SendP!OutboundTypeOK
  <2>2. turn[w] = SendP!Idle
    BY <1>1, <1>3, <2>1 DEF SendP!Turn
  <2>3. turn' = turn
    BY <2>1, <2>2 DEF Drop, SendP!Idle, Send!Idle
  <2> QED
    BY <2>3 DEF Drop, Send!sendVars
<1> QED
  BY <1>2, <1>3

\* Every step of a turn is a step of deliver_once or leaves the record alone:
\* a worker runs the turn of an accepted event only.
LEMMA SendRecordStep ==
  ASSUME SendP!SendInv, OutboxOK, BodyOK, [Next]_vars
  PROVE  [Send!OutboundNext]_Send!sendVars
<1>1. CASE SendUnchanged \/ UNCHANGED vars
  BY <1>1 DEF SendUnchanged, vars, Send!sendVars
<1>2. ASSUME NEW e \in Event, Accept(e) PROVE UNCHANGED Send!sendVars
  BY <1>2 DEF Accept, Send!sendVars
<1>3. ASSUME NEW c \in Caller, Delivery(c) \/ DeliveryFault(c) PROVE Send!OutboundNext
  BY <1>3 DEF Delivery, DeliveryFault, Send!OutboundNext
<1>4. ASSUME NEW w \in TurnWorker, WorkerRuns(w) PROVE Send!OutboundNext
  <2>1. w \in Caller
    BY DEF Caller
  <2>2. PICK e \in Event : RunTurn(w, e) \/ TurnRaises(w, e)
    BY <1>4 DEF WorkerRuns, BodyOK, OutboxOK
  <2> QED
    BY <2>1, <2>2 DEF RunTurn, TurnRaises, Send!OutboundNext
<1>5. ASSUME NEW w \in TurnWorker, Report(w) \/ PollFails(w) \/ WorkerExits(w)
      PROVE  [Send!OutboundNext]_Send!sendVars
  BY <1>5, DropStep DEF Report, PollFails, WorkerExits
<1>6. ASSUME NEW r \in Route, RouteRuns(r) \/ RouteEnds(r) PROVE Send!OutboundNext
  <2>1. r \in Caller
    BY DEF Caller
  <2> QED
    BY <1>6, <2>1 DEF RouteRuns, RouteEnds, RunTurn, Send!OutboundNext
<1>7. \A w \in TurnWorker : w \in Caller
  BY DEF Caller
<1>8. \A r \in Route : r \in Caller
  BY DEF Caller
<1>9. ASSUME NEW w \in TurnWorker, WorkerStep(w) \/ WorkerFault(w) \/ WorkerStarts(w)
      PROVE  [Send!OutboundNext]_Send!sendVars
  BY <1>1, <1>3, <1>4, <1>5, <1>7, <1>9
     DEF WorkerStep, WorkerFault, WorkerStarts, WorkerSweeps, WorkerClaims, WorkerFindsNothing
<1>10. ASSUME NEW r \in Route, RouteStep(r) PROVE [Send!OutboundNext]_Send!sendVars
  BY <1>3, <1>6, <1>8, <1>10 DEF RouteStep
<1> QED
  BY <1>1, <1>2, <1>9, <1>10 DEF Next, SupervisorReplays, Clock

\* A delivery moves its own caller's turn, and not to another event.
LEMMA DeliveryKeepsEvent ==
  ASSUME SendP!SendInv, NEW c \in Caller, Delivery(c) \/ DeliveryFault(c)
  PROVE  /\ turn[c].at # "idle"
         /\ turn'[c].event = turn[c].event
         /\ \A d \in Caller : d # c => turn'[d] = turn[d]
<1>1. turn \in [Caller -> SendP!Turn \cup {SendP!Idle}]
  BY DEF SendP!SendInv, SendP!OutboundTypeOK
<1> QED
  BY <1>1 DEF Delivery, DeliveryFault, Send!DeliveryStep, Send!DeliveryFault, Send!Begin,
              Send!Skip, Send!PostAccepted, Send!Mirror, Send!Finish, Send!PostRaises,
              Send!MirrorRaises, Send!RecordRaises, Send!GoTo, Send!ToFinish

\* What BodyOK says of one worker.
BodyOf(w) ==
  /\ pc[w] = "run" => held[w].id \in Queue!Rows
  /\ turn[w].at # "idle" => /\ pc[w] = "run"
                            /\ turn[w].event = job[held[w].id].payload

\* A worker that stays where it is keeps its body: rows and payloads stay.
LEMMA BodyFrame ==
  ASSUME QueueP!TableInv, [Next]_vars, NEW w \in TurnWorker, BodyOf(w),
         pc'[w] = pc[w], held'[w] = held[w],
         turn'[w].at # "idle" => turn[w].at # "idle" /\ turn'[w].event = turn[w].event
  PROVE  BodyOf(w)'
<1>1. pc[w] = "run" => /\ held[w].id \in Queue!Rows'
                       /\ job'[held[w].id].payload = job[held[w].id].payload
  BY RowsKept DEF BodyOf
<1> QED
  BY <1>1 DEF BodyOf

LEMMA BodyStep ==
  ASSUME QueueP!TableInv, SendP!SendInv, BodyOK, [Next]_vars
  PROVE  BodyOK'
<1> SUFFICES ASSUME NEW v \in TurnWorker
             PROVE  BodyOf(v)'
  BY DEF BodyOK, BodyOf
<1>0. /\ BodyOf(v) /\ v \in Caller
      /\ \A w \in TurnWorker : turn[w].at # "idle" => pc[w] = "run"
  BY DEF BodyOK, BodyOf, Caller
<1>t. /\ turn \in [Caller -> SendP!Turn \cup {SendP!Idle}]
      /\ pc \in [TurnWorker -> {"down", "sweep", "tick", "claim", "run"}]
      /\ held \in [TurnWorker -> QueueP!Job \cup {NULL}]
      /\ job \in [JobId -> QueueP!Row \cup {NULL}]
  BY DEF SendP!SendInv, SendP!OutboundTypeOK, QueueP!TableInv, QueueP!TypeOK, QueueP!Worker
<1>1. CASE pc' = pc /\ held' = held /\ turn' = turn
  BY <1>0, <1>1, BodyFrame
<1>2. ASSUME NEW c \in Caller, Delivery(c) \/ DeliveryFault(c)
      PROVE  BodyOf(v)'
  <2>1. pc' = pc /\ held' = held
    BY <1>2 DEF Delivery, DeliveryFault, queueVars
  <2>2. turn'[v].at # "idle" => turn[v].at # "idle" /\ turn'[v].event = turn[v].event
    BY <1>0, <1>2, DeliveryKeepsEvent
  <2> QED
    BY <1>0, <2>1, <2>2, BodyFrame
<1>3. ASSUME NEW w \in TurnWorker, w # v, Drop(w) \/ turn' = turn,
             pc'[v] = pc[v], held'[v] = held[v]
      PROVE  BodyOf(v)'
  <2>1. turn'[v] = turn[v]
    BY <1>0, <1>t, <1>3 DEF Drop
  <2> QED
    BY <1>0, <1>3, <2>1, BodyFrame
<1>4. ASSUME Drop(v), pc'[v] \in {"sweep", "down"}
      PROVE  BodyOf(v)'
  BY <1>0, <1>t, <1>4 DEF Drop, Send!Idle, BodyOf
<1>5. ASSUME turn' = turn, pc[v] # "run", pc'[v] # "run"
      PROVE  BodyOf(v)'
  BY <1>0, <1>5 DEF BodyOf
<1>6. ASSUME NEW w \in TurnWorker, WorkerStep(w) \/ WorkerFault(w) \/ WorkerStarts(w)
      PROVE  BodyOf(v)'
  <2>1. w \in Caller
    BY DEF Caller
  <2>2. CASE Delivery(w) \/ DeliveryFault(w)
    BY <1>2, <2>1, <2>2
  <2>3. CASE WorkerSweeps(w) \/ WorkerFindsNothing(w) \/ WorkerStarts(w)
    <3>1. /\ turn' = turn /\ pc[w] # "run" /\ pc'[w] # "run"
          /\ v # w => pc'[v] = pc[v] /\ held'[v] = held[v]
      BY <1>t, <2>3 DEF WorkerSweeps, WorkerFindsNothing, WorkerStarts, SendUnchanged,
                        Queue!Sweep, Queue!ClaimNothing, Queue!Start, Queue!EndPoll
    <3> QED
      BY <1>3, <1>5, <3>1
  <2>4. CASE WorkerClaims(w)
    <3>1. PICK j \in JobId : Queue!Claim(w, j)
      BY <2>4 DEF WorkerClaims
    <3>2. /\ turn' = turn /\ pc[w] = "claim" /\ j \in Queue!Rows
          /\ held'[w] = [id |-> j, lease |-> now]
          /\ v # w => pc'[v] = pc[v] /\ held'[v] = held[v]
      BY <1>t, <2>4, <3>1 DEF WorkerClaims, SendUnchanged, Queue!Claim, Queue!Due
    <3>3. CASE v = w
      <4>1. held'[v].id \in Queue!Rows' /\ turn'[v].at = "idle"
        BY <1>0, <3>2, <3>3, RowsKept
      <4> QED
        BY <4>1 DEF BodyOf
    <3> QED
      BY <1>3, <3>2, <3>3
  <2>5. CASE WorkerRuns(w)
    <3>1. pc' = pc /\ held' = held /\ pc[w] = "run"
      BY <2>5 DEF WorkerRuns, queueVars
    <3>2. /\ turn'[w].event = job[held[w].id].payload
          /\ \A d \in Caller : d # w => turn'[d] = turn[d]
      BY <1>t, <2>1, <2>5 DEF WorkerRuns, RunTurn, TurnRaises, Send!Deliver, Send!NeverDeliver
    <3>3. CASE v = w
      <4>1. /\ held[v].id \in Queue!Rows'
            /\ job'[held[v].id].payload = job[held[v].id].payload
        BY <1>0, <3>1, <3>3, RowsKept DEF BodyOf
      <4> QED
        BY <3>1, <3>2, <3>3, <4>1 DEF BodyOf
    <3>4. CASE v # w
      BY <1>0, <3>1, <3>2, <3>4, BodyFrame
    <3> QED
      BY <3>3, <3>4
  <2>6. CASE Report(w) \/ PollFails(w) \/ WorkerExits(w)
    <3>1. /\ Drop(w) /\ pc'[w] \in {"sweep", "down"}
          /\ v # w => pc'[v] = pc[v] /\ held'[v] = held[v]
      BY <1>t, <2>6 DEF Report, PollFails, WorkerExits, Queue!Complete, Queue!Fail,
                        Queue!PollError, Queue!Exit, Queue!EndPoll
    <3> QED
      BY <1>3, <1>4, <3>1
  <2> QED
    BY <1>6, <2>2, <2>3, <2>4, <2>5, <2>6 DEF WorkerStep, WorkerFault
<1>7. ASSUME NEW r \in Route, RouteRuns(r) \/ RouteEnds(r)
      PROVE  BodyOf(v)'
  <2>1. r \in Caller /\ r # v
    BY TurnAssumption DEF Caller
  <2>2. pc' = pc /\ held' = held /\ turn'[v] = turn[v]
    BY <1>0, <1>t, <1>7, <2>1 DEF RouteRuns, RouteEnds, RunTurn, Send!Deliver, Send!Leave, queueVars
  <2> QED
    BY <1>0, <2>2, BodyFrame
<1>8. ASSUME NEW r \in Route, RouteStep(r)
      PROVE  BodyOf(v)'
  BY <1>2, <1>7, <1>8 DEF RouteStep, Caller
<1>9. ASSUME NEW e \in Event, Accept(e)
      PROVE  pc' = pc /\ held' = held /\ turn' = turn
  BY <1>9 DEF Accept, Queue!Enqueue
<1>10. ASSUME NEW j \in JobId, SupervisorReplays(j)
      PROVE  pc' = pc /\ held' = held /\ turn' = turn
  BY <1>10 DEF SupervisorReplays, SendUnchanged, Queue!Replay
<1>11. CASE Clock \/ UNCHANGED vars
  BY <1>1, <1>11 DEF Clock, SendUnchanged, Queue!AdvanceClock, vars
<1> QED
  BY <1>1, <1>6, <1>8, <1>9, <1>10, <1>11 DEF Next

\* The turns are typed and owned as in deliver_once, and are about their jobs.
TurnInv == SendP!SendInv /\ BodyOK

LEMMA TurnStep ==
  ASSUME QueueP!TableInv, OutboxOK, TurnInv, [Next]_vars
  PROVE  TurnInv' /\ [Send!OutboundNext]_Send!sendVars
<1>1. [Send!OutboundNext]_Send!sendVars
  BY SendRecordStep DEF TurnInv
<1>2. SendP!SendInv'
  BY <1>1, SameSend, SendAssumptions, SendP!SendStep DEF TurnInv
<1> QED
  BY <1>1, <1>2, BodyStep DEF TurnInv

LEMMA TurnInvariant == Spec => [](QueueP!TableInv /\ OutboxOK /\ TurnInv)
<1>1. Init => TurnInv
  <2> SUFFICES ASSUME Init PROVE TurnInv
    OBVIOUS
  <2>1. SendP!OutboundInit
    BY SameSend DEF Init
  <2>2. SendP!SendInv
    BY <2>1, SendAssumptions, SendP!SendInitially
  <2>3. BodyOK
    BY DEF Init, Queue!Init, Queue!Worker, Send!OutboundInit, Send!Idle, Caller, BodyOK
  <2> QED
    BY <2>2, <2>3 DEF TurnInv
<1> QED
  BY <1>1, TurnStep, QueueTable, OutboxInvariant, PTL DEF Spec

\* Whatever turns, workers and the parity route do to the outbound table and
\* the provider, they do through deliver_once.
THEOREM SendRecordRefined == Spec => ImplementsSendRecord
<1>1. Init => Send!OutboundInit
  BY DEF Init
<1>2. QueueP!TableInv /\ OutboxOK /\ TurnInv /\ [Next]_vars => [Send!OutboundNext]_Send!sendVars
  BY TurnStep
<1> QED
  BY <1>1, <1>2, TurnInvariant, PTL DEF Spec, ImplementsSendRecord, Send!OutboundSpec

(***************************************************************************)
(* No silent loss                                                          *)
(***************************************************************************)

\* A job becomes succeeded in one way: its worker's turn returned (Report).
LEMMA SuccessIsReported ==
  ASSUME QueueP!TableInv, [Next]_vars, NEW j \in Queue!Rows,
         job'[j].status = "succeeded", job[j].status # "succeeded"
  PROVE  \E w \in TurnWorker : /\ pc[w] = "run" /\ held[w].id = j
                               /\ turn[w].at = "returned"
<1>0. job \in [JobId -> QueueP!Row \cup {NULL}]
  BY DEF QueueP!TableInv, QueueP!TypeOK
<1>1. job' # job
  OBVIOUS
<1>2. ASSUME NEW e \in Event, Accept(e) PROVE FALSE
  <2>1. PICK i \in JobId \ Queue!Rows :
               job' = [job EXCEPT ![i] = Queue!NewRow("agent_turn", e, NULL)]
    BY <1>2 DEF Accept, Queue!Enqueue, Queue!insert_job, Queue!KeyTaken
  <2>2. j # i
    BY <2>1
  <2> QED
    BY <1>0, <2>1, <2>2 DEF Queue!Rows
<1>3. ASSUME NEW w \in TurnWorker, WorkerStep(w)
      PROVE  pc[w] = "run" /\ held[w].id = j /\ turn[w].at = "returned"
  <2>1. CASE WorkerSweeps(w)
    BY <2>1 DEF WorkerSweeps, Queue!Sweep, Queue!Rows, Queue!Released, Queue!Updated
  <2>2. CASE WorkerClaims(w)
    BY <1>0, <2>2 DEF WorkerClaims, Queue!Claim, Queue!Claimed, Queue!Updated
  <2>3. CASE WorkerFindsNothing(w) \/ WorkerRuns(w) \/ Delivery(w)
    BY <1>1, <2>3 DEF WorkerFindsNothing, Queue!ClaimNothing, WorkerRuns, Delivery, queueVars
  <2>4. CASE Report(w)
    <3>1. pc[w] = "run" /\ \E row : job' = [job EXCEPT ![held[w].id] = row]
      BY <1>1, <2>4 DEF Report, Queue!Complete, Queue!Fail
    <3>2. held[w].id = j
      BY <1>0, <3>1 DEF Queue!Rows
    <3>3. CASE turn[w].at \in {"raised", "burned"} /\ Queue!Fail(w)
      <4>1. job'[j] = Queue!Released(job[j])
        BY <1>0, <1>1, <3>2, <3>3 DEF Queue!Fail, Queue!Rows
      <4> QED
        BY <4>1 DEF Queue!Released, Queue!Updated
    <3> QED
      BY <2>4, <3>1, <3>2, <3>3 DEF Report
  <2> QED
    BY <1>3, <2>1, <2>2, <2>3, <2>4 DEF WorkerStep
<1>4. ASSUME NEW w \in TurnWorker, WorkerFault(w) \/ WorkerStarts(w)
      PROVE  FALSE
  BY <1>1, <1>4 DEF WorkerFault, WorkerStarts, DeliveryFault, PollFails, WorkerExits,
                    Queue!PollError, Queue!Exit, Queue!Start, queueVars
<1>5. ASSUME NEW r \in Route, RouteStep(r) PROVE FALSE
  BY <1>1, <1>5 DEF RouteStep, RouteRuns, Delivery, DeliveryFault, RouteEnds, queueVars
<1>6. ASSUME NEW i \in JobId, SupervisorReplays(i) PROVE FALSE
  BY <1>0, <1>6 DEF SupervisorReplays, Queue!Replay, Queue!Requeued, Queue!Updated
<1>7. CASE Clock \/ UNCHANGED vars
  BY <1>1, <1>7 DEF Clock, Queue!AdvanceClock, vars
<1> QED
  BY <1>2, <1>3, <1>4, <1>5, <1>6, <1>7 DEF Next

LEMMA SuccessStep ==
  ASSUME QueueP!TableInv, OutboxOK, TurnInv, SendP!LeftRecord, SuccessRecorded, [Next]_vars
  PROVE  SuccessRecorded'
<1> SUFFICES ASSUME NEW j \in Queue!Rows', job'[j].status = "succeeded"
             PROVE  outbound'[job'[j].payload].status # "none"
  BY DEF SuccessRecorded
<1>0. job \in [JobId -> QueueP!Row \cup {NULL}]
  BY DEF QueueP!TableInv, QueueP!TypeOK
<1>1. j \in Queue!Rows
  <2>1. CASE \A e \in Event : ~Accept(e)
    BY <2>1, OnlyAcceptInserts
  <2>2. ASSUME NEW e \in Event, Accept(e) PROVE j \in Queue!Rows
    BY <1>0, <2>2 DEF Accept, Queue!Enqueue, Queue!insert_job, Queue!KeyTaken, Queue!NewRow,
                      Queue!Rows
  <2> QED
    BY <2>1, <2>2
<1>2. job'[j].payload = job[j].payload /\ job[j].payload \in Event
  BY <1>1, RowsKept DEF OutboxOK
<1>3. outbound[job[j].payload].status # "none"
  <2>1. CASE job[j].status = "succeeded"
    BY <1>1, <2>1 DEF SuccessRecorded
  <2>2. CASE job[j].status # "succeeded"
    <3>1. PICK w \in TurnWorker : held[w].id = j /\ turn[w].at = "returned"
      BY <1>1, <2>2, SuccessIsReported
    <3> QED
      BY <3>1 DEF TurnInv, BodyOK, SendP!LeftRecord, Caller
  <2> QED
    BY <2>1, <2>2
<1>4. [SendP!OutboundNext]_SendP!sendVars
  BY TurnStep, SameSend
<1>5. outbound'[job[j].payload].status # "none"
  BY <1>2, <1>3, <1>4, SendP!RecordStays, SendAssumptions DEF TurnInv
<1> QED
  BY <1>2, <1>5

\* "At-most-once is not permission to be quiet": a turn the queue counts as
\* succeeded was answered or is in front of an operator, whatever workers die,
\* leases expire, jobs are replayed and route calls come in between.  A blank
\* reply is excluded: on email it is recorded as sent and writes no message
\* (persist_agent_outbound).
THEOREM NoSilentLossCorrect ==
  ASSUME "blank" \notin Reply
  PROVE  Spec => []NoSilentLoss
<1>1. Spec => SendP!OutboundSpec
  BY SendRecordRefined, SameSend, PTL
     DEF ImplementsSendRecord, Send!OutboundSpec, SendP!OutboundSpec
<1>2. Spec => [](SendP!LeftRecord /\ SendP!SendInv /\ SendP!TruthInv)
  BY <1>1, SendP!ReturnLeavesRecord, SendP!SendInvariant, SendP!TruthInvariant,
     SendAssumptions, PTL
<1>3. Init => SuccessRecorded
  BY DEF Init, Queue!Init, Queue!Rows, SuccessRecorded
<1>4. Spec => []SuccessRecorded
  BY <1>2, <1>3, SuccessStep, TurnInvariant, PTL DEF Spec
<1>5. ASSUME OutboxOK, SuccessRecorded, SendP!SendInv, SendP!TruthInv
      PROVE  NoSilentLoss
  <2> SUFFICES ASSUME NEW e \in Event, NEW j \in JobOf(e), job[j].status = "succeeded"
               PROVE  Send!Answered(e) \/ Surfaced(e)
    BY DEF NoSilentLoss
  <2>1. outbound[e].status # "none"
    BY <1>5 DEF SuccessRecorded, JobOf
  <2>2. outbound[e] \in SendP!Record
    BY <1>5 DEF SendP!SendInv, SendP!OutboundTypeOK
  <2>3. CASE outbound[e].status = "sent" /\ ~outbound[e].error
    BY <1>5, <2>3 DEF SendP!TruthInv, SendP!RecordTrue, Send!Answered
  <2>4. CASE ~(outbound[e].status = "sent" /\ ~outbound[e].error)
    BY <2>1, <2>2, <2>4 DEF SendP!Record, Send!OperatorSees, Surfaced
  <2> QED
    BY <2>3, <2>4
<1> QED
  BY <1>2, <1>4, <1>5, OutboxInvariant, PTL

\* FR-12 end to end: with worker crashes, expired leases, supervisor replays
\* and parity-route calls together, the SMS provider is asked at most once per
\* accepted event.
THEOREM TurnsAreSentOnce == Spec => []Send!AtMostOncePerEvent
<1>1. SendP!AtMostOncePerEvent => Send!AtMostOncePerEvent
  BY DEF SendP!AtMostOncePerEvent, Send!AtMostOncePerEvent
<1>2. Spec => SendP!OutboundSpec
  BY SendRecordRefined, SameSend, PTL
     DEF ImplementsSendRecord, Send!OutboundSpec, SendP!OutboundSpec
<1> QED
  BY <1>1, <1>2, SendP!AtMostOnceCorrect, SendAssumptions, PTL
=============================================================================
