--------------------------- MODULE GatewayProofs ---------------------------
(***************************************************************************)
(* Proofs about Gateway, for any number of gateway processes and events,   *)
(* any rate limit and any redelivery by the provider.                      *)
(***************************************************************************)
EXTENDS Gateway, TLAPS

\* Nothing was recorded or sent for e yet.
Fresh(e) == outbound[e].status = "none" /\ posts[e] = 0

\* g won the claim of e and has not answered yet.
Claimant(g, e) == (At(g, "claimed") \/ At(g, "confirm")) /\ request[g].event = e

TablesOK ==
  /\ context \subseteq Event /\ claims \subseteq Event
  /\ acked \subseteq Event /\ throttled \subseteq Event
  /\ jobs \in [Event -> Nat]
  /\ request \in [Process -> Request \cup {NULL}]
  /\ turn \in [Process -> Send!Turn \cup {Send!Idle}]
  /\ outbound \in [Event -> Send!Record]
  /\ posts \in [Event -> Nat]

\* Where a process is says what its event is and what it may still send.
ProcessOK(g) ==
  /\ At(g, "opt_out") \/ At(g, "claimed") \/ At(g, "confirm") =>
       Kind[request[g].event] = "opt_out"
  /\ At(g, "ingress") \/ At(g, "persist") => Kind[request[g].event] # "opt_out"
  /\ At(g, "claimed") \/ At(g, "confirm") => request[g].event \in claims
  /\ turn[g].at # "idle" <=> At(g, "confirm")
  /\ At(g, "claimed") => Fresh(request[g].event)
  /\ At(g, "confirm") =>
       /\ turn[g].event = request[g].event
       /\ turn[g].at \in {"begin", "post", "finish", "returned", "raised"}
       /\ turn[g].at = "begin" => Fresh(request[g].event)
       /\ turn[g].at = "post" => posts[request[g].event] = 0

\* What the tables say about one event.
EventOK(e) ==
  /\ posts[e] <= 1
  /\ e \notin claims => Fresh(e)
  /\ e \in claims => Kind[e] = "opt_out"
  /\ e \in context => Kind[e] # "opt_out"
  /\ jobs[e] = IF e \in context THEN 1 ELSE 0
  /\ e \in acked => e \in context \/ e \in throttled \/ e \in claims

\* The claim is won once, so everything after it has one owner.
OneClaimant ==
  \A g, h \in Process, e \in Event : Claimant(g, e) /\ Claimant(h, e) => g = h

GateInv ==
  /\ TablesOK
  /\ \A g \in Process : ProcessOK(g)
  /\ \A e \in Event : EventOK(e)
  /\ OneClaimant

\* A step of process g that touches the send record of its own claim only,
\* and comes to hold no claim that was taken before.
LEMMA GateMoves ==
  ASSUME GateInv, TablesOK', NEW g \in Process,
         \A h \in Process : h # g => request'[h] = request[h] /\ turn'[h] = turn[h],
         claims \subseteq claims',
         \A e \in Event : \/ Claimant(g, e)
                          \/ outbound'[e] = outbound[e] /\ posts'[e] = posts[e],
         ProcessOK(g)',
         \A e \in Event : Claimant(g, e)' => Claimant(g, e) \/ e \notin claims,
         \A e \in Event : EventOK(e)'
  PROVE  GateInv'
<1>1. ASSUME NEW h \in Process, h # g PROVE ProcessOK(h)'
  <2>1. ProcessOK(h) /\ request'[h] = request[h] /\ turn'[h] = turn[h]
    BY <1>1 DEF GateInv
  <2>2. ASSUME At(h, "claimed") \/ At(h, "confirm")
        PROVE  /\ outbound'[request[h].event] = outbound[request[h].event]
               /\ posts'[request[h].event] = posts[request[h].event]
    <3>1. request[h].event \in Event /\ Claimant(h, request[h].event)
      BY <2>2 DEF GateInv, TablesOK, Request, At, Claimant
    <3>2. ~Claimant(g, request[h].event)
      BY <1>1, <3>1 DEF GateInv, OneClaimant
    <3> QED
      BY <3>1, <3>2
  <2>3. \A s : At(h, s)' <=> At(h, s)
    BY <2>1 DEF At
  <2> QED
    BY <2>1, <2>2, <2>3 DEF ProcessOK, Fresh
<1>2. OneClaimant'
  <2>1. \A h \in Process, e \in Event : h # g => (Claimant(h, e)' <=> Claimant(h, e))
    BY DEF Claimant, At
  <2>2. \A h \in Process, e \in Event : Claimant(h, e) => e \in claims
    BY DEF GateInv, ProcessOK, Claimant
  <2> QED
    BY <2>1, <2>2 DEF GateInv, OneClaimant
<1> QED
  BY <1>1, <1>2 DEF GateInv

\* After its answer, or a crash, a process holds nothing.
LEMMA Silent ==
  ASSUME NEW g \in Process, request'[g] = NULL, turn'[g].at = "idle"
  PROVE  ProcessOK(g)' /\ \A e \in Event : ~Claimant(g, e)'
BY DEF ProcessOK, At, Claimant

\* A stage that is reached without a delivery in progress.
LEMMA AtStage ==
  ASSUME NEW g \in Process, NEW e \in Event, NEW s \in Stage,
         request'[g] = [event |-> e, at |-> s]
  PROVE  /\ request'[g] \in Request
         /\ request'[g].event = e
         /\ \A r : At(g, r)' <=> r = s
<1>1. [event |-> e, at |-> s] \in Request
  BY DEF Request
<1>2. [event |-> e, at |-> s] # NULL
  BY <1>1, GatewayAssumption
<1> QED
  BY <1>1, <1>2 DEF At

\* The request a process is handling.
LEMMA Handled ==
  ASSUME TablesOK, NEW g \in Process, request[g] # NULL
  PROVE  request[g] \in Request /\ request[g].event \in Event /\ request[g].at \in Stage
BY DEF TablesOK, Request

\* An event none of whose facts moved but for an answer that had a reason.
LEMMA EventFrame ==
  ASSUME NEW e \in Event, EventOK(e),
         outbound'[e] = outbound[e], posts'[e] = posts[e], jobs'[e] = jobs[e],
         e \in claims' <=> e \in claims, e \in context' <=> e \in context,
         e \in throttled => e \in throttled',
         e \in acked' => e \in acked \/ e \in context \/ e \in throttled' \/ e \in claims
  PROVE  EventOK(e)'
BY DEF EventOK, Fresh

\* Respond, when the answer has a reason, and the tables have not changed.
LEMMA AnswersOnly ==
  ASSUME GateInv, NEW g \in Process, request[g] # NULL, ~At(g, "confirm"),
         NEW status \in {200, 500}, Respond(g, status),
         UNCHANGED <<store, sending>>,
         throttled \subseteq throttled', throttled' \subseteq Event,
         status = 200 => \/ request[g].event \in context
                         \/ request[g].event \in claims
                         \/ request[g].event \in throttled'
  PROVE  GateInv'
<1>1. request[g].event \in Event
  BY Handled DEF GateInv
<1>2. TablesOK'
  BY <1>1 DEF GateInv, TablesOK, Respond, store, sending
<1>3. /\ request'[g] = NULL
      /\ \A h \in Process : h # g => request'[h] = request[h]
  BY DEF GateInv, TablesOK, Respond
<1>4. turn' = turn /\ outbound' = outbound /\ posts' = posts
      /\ claims' = claims /\ context' = context /\ jobs' = jobs
  BY DEF sending, store
<1>5. turn'[g].at = "idle"
  BY <1>4 DEF GateInv, ProcessOK
<1>6. ASSUME NEW e \in Event PROVE EventOK(e)'
  <2>1. e \in acked' => e \in acked \/ e \in context \/ e \in throttled' \/ e \in claims
    BY DEF Respond
  <2> QED
    BY <1>4, <2>1, EventFrame DEF GateInv
<1> QED
  BY <1>2, <1>3, <1>4, <1>5, <1>6, Silent, GateMoves

\* A stage without a claim follows another: nothing else changes.
LEMMA MovesOnly ==
  ASSUME GateInv, NEW g \in Process, ~At(g, "confirm"), NEW e \in Event,
         NEW s \in {"idempotency", "opt_out", "ingress", "persist"},
         request' = [request EXCEPT ![g] = [event |-> e, at |-> s]],
         s = "opt_out" => Kind[e] = "opt_out",
         s \in {"ingress", "persist"} => Kind[e] # "opt_out",
         UNCHANGED <<store, acked, throttled, sending>>
  PROVE  GateInv'
<1>1. /\ request'[g] = [event |-> e, at |-> s]
      /\ \A h \in Process : h # g => request'[h] = request[h]
  BY DEF GateInv, TablesOK
<1>s. s \in Stage
  BY DEF Stage
<1>2. /\ request'[g] \in Request /\ request'[g].event = e
      /\ \A r : At(g, r)' <=> r = s
  BY <1>1, <1>s, AtStage
<1>3. TablesOK'
  BY <1>2 DEF GateInv, TablesOK, store, sending
<1>4. /\ turn' = turn /\ outbound' = outbound /\ posts' = posts
      /\ claims' = claims /\ context' = context /\ jobs' = jobs
  BY DEF sending, store
<1>5. turn'[g].at = "idle"
  BY <1>4 DEF GateInv, ProcessOK
<1>6. ProcessOK(g)'
  BY <1>2, <1>5 DEF ProcessOK
<1>7. \A f \in Event : ~Claimant(g, f)'
  BY <1>2 DEF Claimant
<1>8. \A f \in Event : EventOK(f)'
  BY <1>4, EventFrame DEF GateInv
<1> QED
  BY <1>1, <1>3, <1>4, <1>6, <1>7, <1>8, GateMoves

\* The confirmation's delivery: the process that won the claim begins the send
\* record itself, so it posts at most once and never finds another's record.
LEMMA ConfirmStep ==
  ASSUME GateInv, NEW g \in Process, Confirm(g)
  PROVE  GateInv'
<1> DEFINE e == request[g].event
<1>0. /\ e \in Event /\ At(g, "confirm") /\ Kind[e] = "opt_out" /\ e \in claims
      /\ turn[g].event = e
      /\ turn[g].at \in {"begin", "post", "finish", "returned", "raised"}
      /\ turn[g].at = "begin" => Fresh(e)
      /\ turn[g].at = "post" => posts[e] = 0
      /\ turn[g] \in Send!Turn
  BY Handled DEF Confirm, GateInv, ProcessOK, At, TablesOK, Send!Idle
<1>f. /\ turn[g].reply \in {"text"} /\ turn[g].result \in Send!Result
      /\ turn \in [Process -> Send!Turn \cup {Send!Idle}]
      /\ outbound \in [Event -> Send!Record] /\ posts \in [Event -> Nat]
      /\ posts[e] <= 1 /\ EventOK(e)
  BY <1>0 DEF Send!Turn, GateInv, TablesOK, EventOK
<1>u. /\ UNCHANGED <<store, request, acked, throttled>>
      /\ context' = context /\ claims' = claims /\ jobs' = jobs
  BY DEF Confirm, store
<1> DEFINE Moved(at, result) ==
             turn' = [turn EXCEPT ![g] = [at |-> at, event |-> e, reply |-> turn[g].reply,
                                          result |-> result]]
<1>1. \E at \in {"post", "finish", "returned", "raised"}, result \in Send!Result :
        /\ Moved(at, result)
        /\ \/ /\ outbound' = [outbound EXCEPT ![e] = Send!Begun] /\ posts' = posts
              /\ at = "post" => posts[e] = 0
           \/ outbound' = outbound /\ posts' = posts /\ at # "post"
           \/ outbound' = outbound /\ at # "post"
              /\ posts[e] = 0 /\ posts' = [posts EXCEPT ![e] = posts[e] + 1]
           \/ /\ outbound' = [outbound EXCEPT ![e] = Send!Finished(outbound[e], turn[g].result)]
              /\ posts' = posts /\ at # "post"
  <2>0. {"sent", "failed"} \subseteq Send!Result
    BY DEF Send!Result
  <2>1. CASE Send!Begin(g)
    BY <1>0, <1>f, <2>1 DEF Send!Begin, Send!Vacant, Send!GoTo, Fresh
  <2>2. CASE Send!Skip(g) \/ Send!Mirror(g) \/ \E b \in BOOLEAN : Send!MirrorRaises(g, b)
    BY <1>0, <2>2 DEF Send!Skip, Send!Mirror, Send!MirrorRaises
  <2>3. CASE Send!PostAccepted(g)
    BY <1>0, <1>f, <2>0, <2>3 DEF Send!PostAccepted, Send!ToFinish
  <2>4. CASE \E b \in BOOLEAN : Send!PostRaises(g, b)
    BY <1>0, <1>f, <2>0, <2>4 DEF Send!PostRaises, Send!ToFinish
  <2>5. CASE Send!Finish(g)
    BY <1>0, <1>f, <2>5 DEF Send!Finish, Send!GoTo
  <2>6. CASE \E b \in BOOLEAN : Send!RecordRaises(g, b)
    BY <1>0, <1>f, <2>6 DEF Send!RecordRaises, Send!GoTo
  <2> QED
    BY <2>1, <2>2, <2>3, <2>4, <2>5, <2>6
       DEF Confirm, Send!DeliveryStep, Send!DeliveryFault
<1>2. PICK at \in {"post", "finish", "returned", "raised"}, result \in Send!Result :
        /\ Moved(at, result)
        /\ \/ /\ outbound' = [outbound EXCEPT ![e] = Send!Begun] /\ posts' = posts
              /\ at = "post" => posts[e] = 0
           \/ outbound' = outbound /\ posts' = posts /\ at # "post"
           \/ outbound' = outbound /\ at # "post"
              /\ posts[e] = 0 /\ posts' = [posts EXCEPT ![e] = posts[e] + 1]
           \/ /\ outbound' = [outbound EXCEPT ![e] = Send!Finished(outbound[e], turn[g].result)]
              /\ posts' = posts /\ at # "post"
  BY <1>1
<1>3. [at |-> at, event |-> e, reply |-> turn[g].reply, result |-> result] \in Send!Turn
  BY <1>0, <1>f, <1>2 DEF Send!Turn
<1>4. /\ turn' \in [Process -> Send!Turn \cup {Send!Idle}]
      /\ turn'[g].at = at /\ turn'[g].event = e
      /\ \A h \in Process : h # g => turn'[h] = turn[h]
  BY <1>2, <1>3, <1>f
<1>5. outbound' \in [Event -> Send!Record]
  <2>1. Send!Begun \in Send!Record
    BY DEF Send!Begun, Send!Record
  <2>2. outbound[e] \in Send!Record
    BY <1>0, <1>f
  <2>3. Send!Finished(outbound[e], turn[g].result) \in Send!Record
    <3>1. CASE turn[g].result = "failed"
      BY <2>2, <3>1 DEF Send!Finished, Send!Record
    <3>2. CASE turn[g].result # "failed"
      BY <2>2, <3>2 DEF Send!Finished, Send!Record
    <3> QED
      BY <3>1, <3>2
  <2> QED
    BY <1>0, <1>2, <1>f, <2>1, <2>3
<1>6. /\ posts' \in [Event -> Nat] /\ posts'[e] <= 1
      /\ \A f \in Event : f # e => posts'[f] = posts[f] /\ outbound'[f] = outbound[f]
      /\ at = "post" => posts'[e] = 0
  BY <1>0, <1>2, <1>f
<1> HIDE DEF e
<1>7. TablesOK'
  BY <1>4, <1>5, <1>6, <1>u DEF GateInv, TablesOK
<1>8. \A s : At(g, s)' <=> At(g, s)
  BY <1>u DEF At
<1>9. \A s : At(g, s) => s = "confirm"
  BY <1>0 DEF At
<1>10. ProcessOK(g)'
  BY <1>0, <1>4, <1>6, <1>8, <1>9, <1>u DEF ProcessOK, e
<1>11. ASSUME NEW f \in Event PROVE EventOK(f)'
  <2>1. CASE f = e
    BY <1>0, <1>f, <1>6, <1>u, <2>1 DEF EventOK
  <2>2. CASE f # e
    BY <1>6, <1>u, <2>2, EventFrame DEF GateInv
  <2> QED
    BY <2>1, <2>2
<1>12. Claimant(g, e) /\ \A f \in Event : Claimant(g, f)' => Claimant(g, f)
  BY <1>0, <1>8, <1>u DEF Claimant, e
<1> QED
  BY <1>4, <1>6, <1>7, <1>10, <1>11, <1>12, <1>u, GateMoves

\* Every action of the gateway keeps the invariant.
LEMMA GateStep ==
  ASSUME GateInv, [Next]_vars
  PROVE  GateInv'
<1>t. TablesOK
  BY DEF GateInv
<1>0. CASE UNCHANGED vars
  BY <1>0 DEF vars, store, sending, GateInv, TablesOK, ProcessOK, EventOK, OneClaimant,
              Claimant, At, Fresh
<1>1. CASE Tick
  BY <1>1 DEF Tick, store, sending, GateInv, TablesOK, ProcessOK, EventOK, OneClaimant,
              Claimant, At, Fresh
<1>2. ASSUME NEW g \in Process, NEW e \in Event, Receive(g, e) PROVE GateInv'
  BY <1>2, MovesOnly DEF Receive, At
<1>3. ASSUME NEW g \in Process, Dedupe(g) PROVE GateInv'
  <2> DEFINE e == request[g].event
  <2>1. e \in Event /\ request[g] # NULL /\ ~At(g, "confirm")
    BY <1>3, <1>t, Handled DEF Dedupe, At
  <2>2. CASE is_duplicate(e)
    <3>1. Respond(g, 200) /\ UNCHANGED <<store, throttled, sending>>
      BY <1>3, <2>2 DEF Dedupe
    <3> QED
      BY <2>1, <2>2, <3>1, <1>t, AnswersOnly DEF is_duplicate, TablesOK
  <2>3. CASE ~is_duplicate(e)
    <3>1. PICK s \in {"opt_out", "ingress"} :
            /\ GoTo(g, s) /\ (s = "opt_out" <=> Kind[e] = "opt_out")
            /\ UNCHANGED <<store, acked, throttled, sending>>
      BY <1>3, <2>3 DEF Dedupe
    <3> QED
      BY <2>1, <3>1, MovesOnly DEF GoTo
  <2> QED
    BY <2>2, <2>3
<1>4. ASSUME NEW g \in Process, IngressFails(g) PROVE GateInv'
  <2>1. request[g] # NULL /\ ~At(g, "confirm")
    BY <1>4 DEF IngressFails, At
  <2> QED
    BY <1>4, <2>1, <1>t, AnswersOnly DEF IngressFails, TablesOK
<1>5. ASSUME NEW g \in Process, RateLimit(g) PROVE GateInv'
  <2> DEFINE e == request[g].event
  <2>1. /\ e \in Event /\ request[g] # NULL /\ ~At(g, "confirm") /\ Kind[e] # "opt_out"
    BY <1>5, <1>t, Handled DEF RateLimit, At, GateInv, ProcessOK
  <2>2. CASE Respond(g, 200) /\ throttled' = throttled \cup {e} /\ UNCHANGED <<store, sending>>
    BY <2>1, <2>2, <1>t, AnswersOnly DEF TablesOK
  <2>3. CASE GoTo(g, "persist") /\ UNCHANGED <<store, acked, throttled, sending>>
    BY <2>1, <2>3, MovesOnly DEF GoTo
  <2> QED
    BY <1>5, <2>2, <2>3 DEF RateLimit
<1>6. ASSUME NEW g \in Process, Persist(g) \/ PersistRaises(g) PROVE GateInv'
  <2> DEFINE e == request[g].event
  <2>1. /\ e \in Event /\ request[g] # NULL /\ ~At(g, "confirm") /\ Kind[e] # "opt_out"
    BY <1>6, <1>t, Handled DEF Persist, PersistRaises, At, GateInv, ProcessOK
  <2>2. PICK status \in {200, 500} :
          /\ Respond(g, status) /\ UNCHANGED <<throttled, sending>>
          /\ PersistRows(e) \/ (UNCHANGED store /\ status = 500)
    BY <1>6 DEF Persist, PersistRaises
  <2>3. CASE UNCHANGED store /\ status = 500
    BY <2>1, <2>2, <2>3, <1>t, AnswersOnly DEF TablesOK
  <2>4. CASE PersistRows(e)
    <3>1. /\ turn' = turn /\ outbound' = outbound /\ posts' = posts /\ claims' = claims
          /\ throttled' = throttled /\ context' = context \cup {e}
          /\ jobs' = IF e \in context THEN jobs ELSE [jobs EXCEPT ![e] = @ + 1]
      BY <2>2, <2>4 DEF sending, PersistRows
    <3>2. /\ request'[g] = NULL
          /\ \A h \in Process : h # g => request'[h] = request[h]
      BY <2>2, <1>t DEF TablesOK, Respond
    <3>3. TablesOK'
      BY <2>1, <2>2, <3>1, <1>t DEF TablesOK, Respond
    <3>4. turn'[g].at = "idle"
      BY <2>1, <3>1 DEF GateInv, ProcessOK
    <3>5. ASSUME NEW f \in Event PROVE EventOK(f)'
      <4>1. EventOK(f)
        BY DEF GateInv
      <4>2. f \in acked' => f \in acked \/ f = e
        BY <2>2 DEF Respond
      <4>3. CASE f = e
        BY <2>1, <3>1, <4>1, <4>3, <1>t DEF EventOK, Fresh, TablesOK
      <4>4. CASE f # e
        BY <3>1, <4>1, <4>2, <4>4, <1>t, EventFrame DEF TablesOK
      <4> QED
        BY <4>3, <4>4
    <3> QED
      BY <3>1, <3>2, <3>3, <3>4, <3>5, Silent, GateMoves
  <2> QED
    BY <2>2, <2>3, <2>4
<1>7. ASSUME NEW g \in Process, ClaimEvent(g) PROVE GateInv'
  <2> DEFINE e == request[g].event
  <2>1. /\ e \in Event /\ request[g] # NULL /\ ~At(g, "confirm") /\ Kind[e] = "opt_out"
        /\ ~At(g, "claimed")
    BY <1>7, <1>t, Handled DEF ClaimEvent, At, GateInv, ProcessOK
  <2>2. CASE e \in claims
    <3>1. Respond(g, 200) /\ UNCHANGED <<store, throttled, sending>>
      BY <1>7, <2>2 DEF ClaimEvent, store
    <3> QED
      BY <2>1, <2>2, <3>1, <1>t, AnswersOnly DEF TablesOK
  <2>3. CASE e \notin claims
    <3>1. /\ claims' = claims \cup {e} /\ GoTo(g, "claimed") /\ acked' = acked
          /\ context' = context /\ jobs' = jobs /\ throttled' = throttled
          /\ turn' = turn /\ outbound' = outbound /\ posts' = posts
      BY <1>7, <2>3 DEF ClaimEvent, sending
    <3>2. /\ request'[g] = [event |-> e, at |-> "claimed"]
          /\ \A h \in Process : h # g => request'[h] = request[h]
      BY <3>1, <1>t DEF TablesOK, GoTo
    <3>s. "claimed" \in Stage
      BY DEF Stage
    <3>3. /\ request'[g] \in Request /\ request'[g].event = e
          /\ \A r : At(g, r)' <=> r = "claimed"
      BY <2>1, <3>2, <3>s, AtStage
    <3>4. TablesOK'
      BY <2>1, <3>1, <3>3, <1>t DEF TablesOK, GoTo
    <3>5. turn'[g].at = "idle" /\ outbound'[e].status = "none" /\ posts'[e] = 0
      BY <2>1, <2>3, <3>1 DEF GateInv, ProcessOK, EventOK, Fresh
    <3>6. ProcessOK(g)'
      BY <2>1, <3>1, <3>3, <3>5 DEF ProcessOK, Fresh
    <3>7. ASSUME NEW f \in Event PROVE EventOK(f)'
      <4>1. EventOK(f)
        BY DEF GateInv
      <4>2. CASE f = e
        BY <2>1, <3>1, <4>1, <4>2 DEF EventOK
      <4>3. CASE f # e
        BY <3>1, <4>1, <4>3, EventFrame
      <4> QED
        BY <4>2, <4>3
    <3>8. \A f \in Event : Claimant(g, f)' => f \notin claims
      BY <2>3, <3>3 DEF Claimant
    <3> QED
      BY <3>1, <3>2, <3>4, <3>6, <3>7, <3>8, GateMoves
  <2> QED
    BY <2>2, <2>3
<1>8. ASSUME NEW g \in Process, ClaimRaises(g) PROVE GateInv'
  <2> DEFINE e == request[g].event
  <2>1. /\ e \in Event /\ request[g] # NULL /\ ~At(g, "confirm") /\ Kind[e] = "opt_out"
    BY <1>8, <1>t, Handled DEF ClaimRaises, At, GateInv, ProcessOK
  <2>2. /\ claims' \in {claims, claims \cup {e}} /\ acked' = acked
        /\ context' = context /\ jobs' = jobs /\ throttled' = throttled
        /\ turn' = turn /\ outbound' = outbound /\ posts' = posts
        /\ request' = [request EXCEPT ![g] = NULL]
    BY <1>8 DEF ClaimRaises, sending, Respond
  <2>3. /\ request'[g] = NULL
        /\ \A h \in Process : h # g => request'[h] = request[h]
    BY <2>2, <1>t DEF TablesOK
  <2>4. TablesOK'
    BY <2>1, <2>2, <1>t DEF TablesOK
  <2>5. turn'[g].at = "idle"
    BY <2>1, <2>2 DEF GateInv, ProcessOK
  <2>6. ASSUME NEW f \in Event PROVE EventOK(f)'
    <3>1. EventOK(f)
      BY DEF GateInv
    <3>2. CASE f = e
      BY <2>1, <2>2, <3>1, <3>2 DEF EventOK, Fresh
    <3>3. CASE f # e
      BY <2>2, <3>1, <3>3, EventFrame
    <3> QED
      BY <3>2, <3>3
  <2> QED
    BY <2>2, <2>3, <2>4, <2>5, <2>6, Silent, GateMoves
<1>9. ASSUME NEW g \in Process, StartConfirmation(g) PROVE GateInv'
  <2> DEFINE e == request[g].event
             d == [at |-> "begin", event |-> e, reply |-> "text", result |-> "sent"]
  <2>1. /\ e \in Event /\ At(g, "claimed") /\ Kind[e] = "opt_out" /\ Fresh(e) /\ e \in claims
    BY <1>9, <1>t, Handled DEF StartConfirmation, At, GateInv, ProcessOK
  <2>2. /\ claims' = claims /\ acked' = acked
        /\ context' = context /\ jobs' = jobs /\ throttled' = throttled
        /\ turn' = [turn EXCEPT ![g] = d] /\ outbound' = outbound /\ posts' = posts
        /\ request' = [request EXCEPT ![g] = [event |-> e, at |-> "confirm"]]
    BY <1>9 DEF StartConfirmation, Send!Deliver, GoTo, store
  <2>3. d \in Send!Turn
    BY <2>1 DEF Send!Turn, Send!Result
  <2>4. /\ turn'[g] = d
        /\ request'[g] = [event |-> e, at |-> "confirm"]
        /\ \A h \in Process : h # g => request'[h] = request[h] /\ turn'[h] = turn[h]
    BY <2>2, <1>t DEF TablesOK
  <2>s. "confirm" \in Stage
    BY DEF Stage
  <2>5. /\ request'[g] \in Request /\ request'[g].event = e
        /\ \A r : At(g, r)' <=> r = "confirm"
    BY <2>1, <2>4, <2>s, AtStage
  <2>6. TablesOK'
    BY <2>2, <2>3, <2>5, <1>t DEF TablesOK
  <2>7. ProcessOK(g)'
    BY <2>1, <2>2, <2>4, <2>5 DEF ProcessOK, Fresh
  <2>8. ASSUME NEW f \in Event PROVE EventOK(f)'
    BY <2>2, EventFrame DEF GateInv
  <2>9. \A f \in Event : Claimant(g, f)' => Claimant(g, f)
    BY <2>1, <2>5 DEF Claimant
  <2> QED
    BY <2>2, <2>4, <2>6, <2>7, <2>8, <2>9, GateMoves
<1>10. ASSUME NEW g \in Process, EndConfirmation(g) PROVE GateInv'
  <2> DEFINE e == request[g].event
  <2>1. e \in Event /\ e \in claims
    BY <1>10, <1>t, Handled DEF EndConfirmation, At, GateInv, ProcessOK
  <2>2. /\ claims' = claims /\ acked' \subseteq acked \cup {e}
        /\ context' = context /\ jobs' = jobs /\ throttled' = throttled
        /\ turn' = [turn EXCEPT ![g] = Send!Idle] /\ outbound' = outbound /\ posts' = posts
        /\ request' = [request EXCEPT ![g] = NULL]
    BY <1>10 DEF EndConfirmation, Send!Leave, Respond, store
  <2>3. /\ turn'[g].at = "idle" /\ request'[g] = NULL
        /\ \A h \in Process : h # g => request'[h] = request[h] /\ turn'[h] = turn[h]
    BY <2>2, <1>t DEF TablesOK, Send!Idle
  <2>4. TablesOK'
    BY <2>1, <2>2, <1>t DEF TablesOK
  <2>5. \A f \in Event : EventOK(f)'
    BY <2>1, <2>2, EventFrame DEF GateInv
  <2> QED
    BY <2>2, <2>3, <2>4, <2>5, Silent, GateMoves
<1>11. ASSUME NEW g \in Process, Crash(g) PROVE GateInv'
  <2>2. /\ claims' = claims /\ acked' = acked
        /\ context' = context /\ jobs' = jobs /\ throttled' = throttled
        /\ turn' = [turn EXCEPT ![g] = Send!Idle] /\ outbound' = outbound /\ posts' = posts
        /\ request' = [request EXCEPT ![g] = NULL]
    BY <1>11 DEF Crash, store
  <2>3. /\ turn'[g].at = "idle" /\ request'[g] = NULL
        /\ \A h \in Process : h # g => request'[h] = request[h] /\ turn'[h] = turn[h]
    BY <2>2, <1>t DEF TablesOK, Send!Idle
  <2>4. TablesOK'
    BY <2>2, <1>t DEF TablesOK
  <2>5. \A f \in Event : EventOK(f)'
    BY <2>2, EventFrame DEF GateInv
  <2> QED
    BY <2>2, <2>3, <2>4, <2>5, Silent, GateMoves
<1> QED
  BY <1>0, <1>1, <1>2, <1>3, <1>4, <1>5, <1>6, <1>7, <1>8, <1>9, <1>10, <1>11, ConfirmStep
     DEF Next, Handle

\* The invariant holds of every reachable state of the gateway.
LEMMA GateInvariant == Spec => []GateInv
<1>1. Init => GateInv
  <2> SUFFICES ASSUME Init PROVE GateInv
    OBVIOUS
  <2>1. Send!NoRecord \in Send!Record /\ Send!NoRecord.status = "none"
    BY DEF Send!NoRecord, Send!Record
  <2>2. TablesOK
    BY <2>1 DEF Init, Send!OutboundInit, TablesOK
  <2>3. \A g \in Process : request[g] = NULL /\ turn[g].at = "idle"
    BY DEF Init, Send!OutboundInit, Send!Idle
  <2>4. \A g \in Process : ProcessOK(g) /\ \A e \in Event : ~Claimant(g, e)
    BY <2>3 DEF ProcessOK, Claimant, At
  <2>5. \A e \in Event : EventOK(e)
    BY <2>1 DEF Init, Send!OutboundInit, EventOK, Fresh
  <2> QED
    BY <2>2, <2>4, <2>5 DEF GateInv, OneClaimant
<1>2. GateInv /\ [Next]_vars => GateInv'
  BY GateStep
<1> QED
  BY <1>1, <1>2, PTL DEF Spec

\* The pipeline is always at one of its stages, and a process delivers exactly
\* while it confirms an opt-out.
THEOREM GatewayTypes == Spec => []GatewayTypeOK
<1>1. GateInv => GatewayTypeOK
  BY DEF GateInv, TablesOK, ProcessOK, GatewayTypeOK
<1> QED
  BY <1>1, GateInvariant, PTL

\* One turn job per event, exactly when its context row exists, however many
\* processes handle deliveries of it at once (persist_accepted_inbound).
THEOREM OneJobCorrect == Spec => []OneJobPerEvent
<1>1. GateInv => OneJobPerEvent
  BY DEF GateInv, EventOK, OneJobPerEvent
<1> QED
  BY <1>1, GateInvariant, PTL

\* US3: no 200 without the row that keeps its promise, whatever raises and
\* whoever crashes in between.
THEOREM AckedIsDurableCorrect == Spec => []AckedIsDurable
<1>1. GateInv => AckedIsDurable
  BY DEF GateInv, TablesOK, EventOK, AckedIsDurable
<1> QED
  BY <1>1, GateInvariant, PTL

\* ADR-0016: one confirmation per STOP and no turn for it, for any number of
\* processes and redeliveries.
THEOREM OneConfirmationCorrect == Spec => []OneConfirmation
<1>1. GateInv => OneConfirmation
  BY DEF GateInv, TablesOK, EventOK, OneConfirmation
<1> QED
  BY <1>1, GateInvariant, PTL

\* The winner of claim_event owns the send too: deliver_once never skips and
\* never reports a burned key for an opt-out, so the route's handling of those
\* two outcomes is dead code for this caller.
THEOREM ClaimOwnsCorrect == Spec => []ClaimOwnsTheSend
<1>1. GateInv => ClaimOwnsTheSend
  BY DEF GateInv, ProcessOK, ClaimOwnsTheSend
<1> QED
  BY <1>1, GateInvariant, PTL
=============================================================================
