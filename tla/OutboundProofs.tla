--------------------------- MODULE OutboundProofs ---------------------------
(***************************************************************************)
(* Proofs about OutboundSend, for any set of callers and events.           *)
(***************************************************************************)
EXTENDS OutboundSend, TLAPS

\* c is past begin and has not closed the record of e yet.
Owns(c, e) == turn[c].at \in {"post", "mirror", "finish"} /\ turn[c].event = e

\* The owner of a send is unique and its record is still an intent, a POST is
\* still to come only where none was made, and every POST left its record.
OwnerInv ==
  /\ \A c \in Caller, e \in Event : Owns(c, e) => outbound[e].status = "intent"
  /\ \A c, d \in Caller, e \in Event : Owns(c, e) /\ Owns(d, e) => c = d
  /\ \A c \in Caller : turn[c].at = "post" => posts[turn[c].event] = 0
  /\ \A e \in Event : posts[e] <= 1
  /\ \A e \in Event : posts[e] # 0 => outbound[e].status # "none"

SendInv == OutboundTypeOK /\ OwnerInv

\* A caller in the middle of a delivery has a typed turn.
LEMMA TurnFields ==
  ASSUME OutboundTypeOK, NEW c \in Caller, turn[c].at # "idle"
  PROVE  /\ turn[c] \in Turn
         /\ turn[c].event \in Event
         /\ turn[c].reply \in Reply \cup {"text"}
         /\ turn[c].result \in Result
<1>1. turn[c] \in Turn \cup {Idle}
  BY DEF OutboundTypeOK
<1>2. turn[c] # Idle
  BY DEF Idle
<1> QED
  BY <1>1, <1>2 DEF Turn

\* GoTo keeps the turns typed and changes one of them only.
LEMMA GoToTurn ==
  ASSUME OutboundTypeOK, NEW c \in Caller, turn[c].at # "idle", NEW at,
         at \in {"begin", "skip", "post", "mirror", "finish", "returned", "raised", "burned"},
         GoTo(c, at)
  PROVE  /\ turn' \in [Caller -> Turn \cup {Idle}]
         /\ turn'[c].at = at
         /\ turn'[c].event = turn[c].event
         /\ turn'[c].result = turn[c].result
         /\ \A d \in Caller : d # c => turn'[d] = turn[d]
<1>1. [at |-> at, event |-> turn[c].event, reply |-> turn[c].reply,
       result |-> turn[c].result] \in Turn
  BY TurnFields DEF Turn
<1> QED
  BY <1>1 DEF GoTo, OutboundTypeOK

\* The same for ToFinish, which remembers the result to be recorded.
LEMMA ToFinishTurn ==
  ASSUME OutboundTypeOK, NEW c \in Caller, turn[c].at # "idle", NEW result \in Result,
         ToFinish(c, result)
  PROVE  /\ turn' \in [Caller -> Turn \cup {Idle}]
         /\ turn'[c].at = "finish"
         /\ turn'[c].event = turn[c].event
         /\ turn'[c].result = result
         /\ \A d \in Caller : d # c => turn'[d] = turn[d]
<1>1. [at |-> "finish", event |-> turn[c].event, reply |-> turn[c].reply,
       result |-> result] \in Turn
  BY TurnFields DEF Turn
<1> QED
  BY <1>1 DEF ToFinish, OutboundTypeOK

\* The rows the three statements of OutboundSendLog write are typed.
LEMMA RowTypes ==
  ASSUME NEW row \in Record, NEW result \in Result
  PROVE  Begun \in Record /\ Skipped(row) \in Record /\ Finished(row, result) \in Record
<1>1. Begun \in Record
  BY DEF Begun, Record
<1>2. Skipped(row) \in Record
  BY DEF Skipped, Record
<1>3. Finished(row, result) \in Record
  <2>1. CASE result = "failed"
    BY <2>1 DEF Finished, Record
  <2>2. CASE result # "failed"
    BY <2>2 DEF Finished, Record
  <2> QED
    BY <2>1, <2>2
<1> QED
  BY <1>1, <1>2, <1>3

\* begin on an event without a record: the caller becomes its only owner.
LEMMA BeginInserts ==
  ASSUME SendInv, NEW c \in Caller, turn[c].at = "begin",
         outbound[turn[c].event].status = "none",
         outbound' = [outbound EXCEPT ![turn[c].event] = Begun],
         NEW at \in {"mirror", "post", "raised"}, GoTo(c, at),
         UNCHANGED <<posts, delivered, mirrored>>
  PROVE  SendInv'
<1> DEFINE e == turn[c].event
<1>1. e \in Event
  BY TurnFields DEF SendInv
<1>2. /\ turn' \in [Caller -> Turn \cup {Idle}]
      /\ turn'[c].at = at /\ turn'[c].event = e
      /\ \A d \in Caller : d # c => turn'[d] = turn[d]
  BY GoToTurn DEF SendInv
<1>3. Begun \in Record /\ Begun.status = "intent"
  BY DEF Begun, Record
<1>4. /\ outbound' \in [Event -> Record]
      /\ outbound'[e].status = "intent"
      /\ \A f \in Event : f # e => outbound'[f] = outbound[f]
  BY <1>1, <1>3 DEF SendInv, OutboundTypeOK
<1>5. OutboundTypeOK'
  BY <1>2, <1>4 DEF SendInv, OutboundTypeOK
<1>6. \A d \in Caller : ~Owns(d, e)
  BY <1>1 DEF SendInv, OwnerInv
<1>7. posts[e] = 0
  BY <1>1 DEF SendInv, OwnerInv
<1>8. \A d \in Caller : d # c => \A f \in Event : Owns(d, f)' <=> Owns(d, f)
  BY <1>2 DEF Owns
<1>9. \A f \in Event : Owns(c, f)' => f = e
  BY <1>2 DEF Owns
<1>10. OwnerInv'
  <2>1. \A d \in Caller, f \in Event : Owns(d, f)' => outbound'[f].status = "intent"
    BY <1>4, <1>6, <1>8, <1>9 DEF SendInv, OwnerInv
  <2>2. \A d, d2 \in Caller, f \in Event : Owns(d, f)' /\ Owns(d2, f)' => d = d2
    BY <1>6, <1>8, <1>9 DEF SendInv, OwnerInv
  <2>3. \A d \in Caller : turn'[d].at = "post" => posts'[turn'[d].event] = 0
    BY <1>2, <1>7 DEF SendInv, OwnerInv
  <2>4. \A f \in Event : posts'[f] <= 1 /\ (posts'[f] # 0 => outbound'[f].status # "none")
    BY <1>4, <1>7 DEF SendInv, OwnerInv
  <2> QED
    BY <2>1, <2>2, <2>3, <2>4 DEF OwnerInv
<1> QED
  BY <1>5, <1>10 DEF SendInv

\* Every other step: a caller goes on without coming to own anything, closes
\* only what it owned, and POSTs only for an event it was about to POST for.
LEMMA CallerMoves ==
  ASSUME SendInv, NEW c \in Caller,
         turn' \in [Caller -> Turn \cup {Idle}],
         \A d \in Caller : d # c => turn'[d] = turn[d],
         turn'[c].at # "post",
         \A f \in Event : Owns(c, f)' => Owns(c, f),
         outbound' \in [Event -> Record],
         \A f \in Event :
            \/ outbound'[f].status = outbound[f].status
            \/ Owns(c, f) /\ ~Owns(c, f)' /\ outbound'[f].status # "none",
         posts' \in [Event -> Nat],
         \A f \in Event :
            \/ posts'[f] = posts[f]
            \/ turn[c].at = "post" /\ turn[c].event = f /\ posts'[f] = posts[f] + 1,
         delivered' \subseteq Event, mirrored' \subseteq Event
  PROVE  SendInv'
<1>1. OutboundTypeOK'
  BY DEF OutboundTypeOK
<1>2. \A d \in Caller : d # c => \A f \in Event : Owns(d, f)' <=> Owns(d, f)
  BY DEF Owns
<1>3. \A d \in Caller, f \in Event : Owns(d, f)' => Owns(d, f)
  BY <1>2
<1>4. ASSUME NEW d \in Caller, NEW f \in Event, Owns(d, f)'
      PROVE  outbound'[f].status = "intent"
  <2>1. Owns(d, f) /\ outbound[f].status = "intent"
    BY <1>3, <1>4 DEF SendInv, OwnerInv
  <2>2. CASE d = c
    BY <1>4, <2>1, <2>2
  <2>3. CASE d # c
    BY <2>1, <2>3 DEF SendInv, OwnerInv
  <2> QED
    BY <2>2, <2>3
<1>5. \A d, d2 \in Caller, f \in Event : Owns(d, f)' /\ Owns(d2, f)' => d = d2
  BY <1>3 DEF SendInv, OwnerInv
<1>6. ASSUME NEW f \in Event PROVE posts'[f] <= 1 /\ (posts'[f] # 0 => outbound'[f].status # "none")
  <2>0. outbound[f].status # "none" => outbound'[f].status # "none"
    OBVIOUS
  <2>1. CASE posts'[f] = posts[f]
    BY <2>0, <2>1 DEF SendInv, OwnerInv
  <2>2. CASE turn[c].at = "post" /\ turn[c].event = f /\ posts'[f] = posts[f] + 1
    <3>1. posts[f] = 0 /\ Owns(c, f)
      BY <2>2 DEF SendInv, OwnerInv, Owns
    <3>2. outbound[f].status = "intent"
      BY <3>1 DEF SendInv, OwnerInv
    <3> QED
      BY <2>0, <2>2, <3>1, <3>2
  <2> QED
    BY <2>1, <2>2
<1>7. ASSUME NEW d \in Caller, turn'[d].at = "post" PROVE posts'[turn'[d].event] = 0
  <2>1. d # c /\ turn'[d] = turn[d]
    BY <1>7
  <2>2. turn[d].event \in Event /\ Owns(d, turn[d].event) /\ posts[turn[d].event] = 0
    BY <1>7, <2>1, TurnFields DEF SendInv, OwnerInv, Owns
  <2>3. ~(turn[c].at = "post" /\ turn[c].event = turn[d].event)
    BY <2>1, <2>2 DEF SendInv, OwnerInv, Owns
  <2> QED
    BY <2>1, <2>2, <2>3
<1> QED
  BY <1>1, <1>4, <1>5, <1>6, <1>7 DEF SendInv, OwnerInv

\* Deliver and NeverDeliver start a turn, Leave drops one.
LEMMA StartsAndEnds ==
  ASSUME SendInv, NEW c \in Caller,
         \/ \E e \in Event, reply \in Reply : Deliver(c, e, reply)
         \/ \E e \in Event : NeverDeliver(c, e)
         \/ Leave(c)
  PROVE  SendInv'
<1>1. UNCHANGED <<outbound, posts, delivered, mirrored>>
  BY DEF Deliver, NeverDeliver, Leave
<1>2. \E t \in Turn \cup {Idle} :
        t.at \notin {"post", "mirror", "finish"} /\ turn' = [turn EXCEPT ![c] = t]
  <2>1. ASSUME NEW e \in Event, NEW reply \in Reply, Deliver(c, e, reply)
        PROVE  [at |-> "begin", event |-> e, reply |-> reply, result |-> "sent"] \in Turn
    BY DEF Turn, Result
  <2>2. ASSUME NEW e \in Event, NeverDeliver(c, e)
        PROVE  [at |-> "raised", event |-> e, reply |-> "text", result |-> "sent"] \in Turn
    BY DEF Turn, Result
  <2>3. CASE \E e \in Event, reply \in Reply : Deliver(c, e, reply)
    BY <2>1, <2>3 DEF Deliver
  <2>4. CASE \E e \in Event : NeverDeliver(c, e)
    BY <2>2, <2>4 DEF NeverDeliver
  <2>5. CASE Leave(c)
    BY <2>5 DEF Leave, Idle
  <2> QED
    BY <2>3, <2>4, <2>5
<1>3. PICK t \in Turn \cup {Idle} :
        t.at \notin {"post", "mirror", "finish"} /\ turn' = [turn EXCEPT ![c] = t]
  BY <1>2
<1>4. /\ turn' \in [Caller -> Turn \cup {Idle}]
      /\ turn'[c] = t
      /\ \A d \in Caller : d # c => turn'[d] = turn[d]
  BY <1>3 DEF SendInv, OutboundTypeOK
<1>5. \A f \in Event : ~Owns(c, f)'
  BY <1>3, <1>4 DEF Owns
<1>6. /\ outbound' \in [Event -> Record] /\ posts' \in [Event -> Nat]
      /\ delivered' \subseteq Event /\ mirrored' \subseteq Event
      /\ turn'[c].at # "post"
  BY <1>1, <1>3, <1>4 DEF SendInv, OutboundTypeOK
<1> QED
  BY <1>1, <1>4, <1>5, <1>6, CallerMoves

\* The ownership invariant is inductive.
LEMMA SendStep ==
  ASSUME SendInv, [OutboundNext]_sendVars
  PROVE  SendInv'
<1>0. CASE UNCHANGED sendVars
  BY <1>0 DEF sendVars, SendInv, OutboundTypeOK, OwnerInv, Owns
<1>1. ASSUME NEW c \in Caller,
             \/ \E e \in Event, reply \in Reply : Deliver(c, e, reply)
             \/ \E e \in Event : NeverDeliver(c, e)
             \/ Leave(c)
      PROVE  SendInv'
  BY <1>1, StartsAndEnds
<1>t. OutboundTypeOK
  BY DEF SendInv
<1>2. ASSUME NEW c \in Caller, Begin(c) PROVE SendInv'
  <2>1. CASE outbound[turn[c].event].status = "none"
    BY <1>2, <2>1, BeginInserts DEF Begin, Vacant
  <2>2. CASE outbound[turn[c].event].status # "none"
    <3>1. /\ turn' \in [Caller -> Turn \cup {Idle}]
          /\ turn'[c].at = "skip"
          /\ \A d \in Caller : d # c => turn'[d] = turn[d]
      BY <1>2, <2>2, <1>t, GoToTurn DEF Begin, Vacant
    <3>2. \A f \in Event : ~Owns(c, f)'
      BY <3>1 DEF Owns
    <3> QED
      BY <1>2, <2>2, <1>t, <3>1, <3>2, CallerMoves DEF Begin, Vacant, OutboundTypeOK
  <2> QED
    BY <2>1, <2>2
<1>3. ASSUME NEW c \in Caller, Skip(c) PROVE SendInv'
  <2>1. turn[c].event \in Event /\ outbound[turn[c].event] \in Record
    BY <1>3, <1>t, TurnFields DEF Skip, OutboundTypeOK
  <2>2. PICK at \in {"burned", "returned"} : GoTo(c, at)
    BY <1>3 DEF Skip
  <2>3. /\ turn' \in [Caller -> Turn \cup {Idle}]
        /\ turn'[c].at = at
        /\ \A d \in Caller : d # c => turn'[d] = turn[d]
    BY <1>3, <1>t, <2>2, GoToTurn DEF Skip
  <2>4. \A f \in Event : ~Owns(c, f)'
    BY <2>2, <2>3 DEF Owns
  <2>5. Skipped(outbound[turn[c].event]) \in Record
    BY <2>1 DEF Skipped, Record
  <2>6. outbound' \in [Event -> Record]
    BY <1>3, <1>t, <2>1, <2>5 DEF Skip, OutboundTypeOK
  <2>7. \A f \in Event : outbound'[f].status = outbound[f].status
    BY <1>3, <1>t, <2>1 DEF Skip, OutboundTypeOK, Skipped
  <2> QED
    BY <1>3, <1>t, <2>2, <2>3, <2>4, <2>6, <2>7, CallerMoves DEF Skip, OutboundTypeOK
<1>4. ASSUME NEW c \in Caller, PostAccepted(c) \/ \E b \in BOOLEAN : PostRaises(c, b)
      PROVE  SendInv'
  <2>1. turn[c].at = "post" /\ turn[c].event \in Event
    BY <1>4, <1>t, TurnFields DEF PostAccepted, PostRaises
  <2>2. GoTo(c, "mirror") \/ \E result \in Result : ToFinish(c, result)
    BY <1>4 DEF PostAccepted, PostRaises, Result
  <2>3. /\ turn' \in [Caller -> Turn \cup {Idle}]
        /\ turn'[c].at \in {"mirror", "finish"} /\ turn'[c].event = turn[c].event
        /\ \A d \in Caller : d # c => turn'[d] = turn[d]
    BY <1>t, <2>1, <2>2, GoToTurn, ToFinishTurn
  <2>4. \A f \in Event : Owns(c, f)' => Owns(c, f)
    BY <2>1, <2>3 DEF Owns
  <2>5. /\ posts' \in [Event -> Nat]
        /\ \A f \in Event :
             \/ posts'[f] = posts[f]
             \/ turn[c].event = f /\ posts'[f] = posts[f] + 1
    BY <1>4, <1>t, <2>1 DEF PostAccepted, PostRaises, OutboundTypeOK
  <2>6. delivered' \subseteq Event
    BY <1>4, <1>t, <2>1 DEF PostAccepted, PostRaises, OutboundTypeOK
  <2>7. outbound' = outbound /\ mirrored' = mirrored
    BY <1>4 DEF PostAccepted, PostRaises
  <2> QED
    BY <1>t, <2>1, <2>3, <2>4, <2>5, <2>6, <2>7, CallerMoves DEF OutboundTypeOK
<1>5. ASSUME NEW c \in Caller, Mirror(c) \/ \E b \in BOOLEAN : MirrorRaises(c, b)
      PROVE  SendInv'
  <2>1. turn[c].at = "mirror" /\ turn[c].event \in Event
    BY <1>5, <1>t, TurnFields DEF Mirror, MirrorRaises
  <2>2. PICK result \in Result : ToFinish(c, result)
    BY <1>5 DEF Mirror, MirrorRaises, Result
  <2>3. /\ turn' \in [Caller -> Turn \cup {Idle}]
        /\ turn'[c].at = "finish" /\ turn'[c].event = turn[c].event
        /\ \A d \in Caller : d # c => turn'[d] = turn[d]
    BY <1>t, <2>1, <2>2, ToFinishTurn
  <2>4. \A f \in Event : Owns(c, f)' => Owns(c, f)
    BY <2>1, <2>3 DEF Owns
  <2>5. mirrored' \subseteq Event
    BY <1>5, <1>t, <2>1 DEF Mirror, MirrorRaises, OutboundTypeOK
  <2>6. UNCHANGED <<outbound, posts, delivered>>
    BY <1>5 DEF Mirror, MirrorRaises
  <2> QED
    BY <1>t, <2>1, <2>3, <2>4, <2>5, <2>6, CallerMoves DEF OutboundTypeOK
<1>6. ASSUME NEW c \in Caller, turn[c].at = "finish",
             outbound' = [outbound EXCEPT ![turn[c].event] =
                            Finished(outbound[turn[c].event], turn[c].result)],
             NEW at \in {"returned", "raised"}, GoTo(c, at),
             UNCHANGED <<posts, delivered, mirrored>>
      PROVE  SendInv'
  <2>1. /\ turn[c].event \in Event /\ turn[c].result \in Result
        /\ outbound[turn[c].event] \in Record
    BY <1>6, <1>t, TurnFields DEF OutboundTypeOK
  <2>2. /\ turn' \in [Caller -> Turn \cup {Idle}]
        /\ turn'[c].at = at
        /\ \A d \in Caller : d # c => turn'[d] = turn[d]
    BY <1>6, <1>t, GoToTurn
  <2>3. \A f \in Event : ~Owns(c, f)'
    BY <1>6, <2>2 DEF Owns
  <2>4. outbound' \in [Event -> Record]
    BY <1>6, <1>t, <2>1, RowTypes DEF OutboundTypeOK
  <2>5. \A f \in Event : f # turn[c].event => outbound'[f] = outbound[f]
    BY <1>6, <1>t DEF OutboundTypeOK
  <2>6. outbound'[turn[c].event].status # "none" /\ Owns(c, turn[c].event)
    BY <1>6, <1>t, <2>1 DEF OutboundTypeOK, Finished, Owns
  <2> QED
    BY <1>6, <1>t, <2>1, <2>2, <2>3, <2>4, <2>5, <2>6, CallerMoves DEF OutboundTypeOK
<1>7. ASSUME NEW c \in Caller, Finish(c) PROVE SendInv'
  BY <1>6, <1>7 DEF Finish
<1>8. ASSUME NEW c \in Caller, NEW b \in BOOLEAN, RecordRaises(c, b) PROVE SendInv'
  <2>0. GoTo(c, "raised") /\ UNCHANGED <<posts, delivered, mirrored>>
    BY <1>8 DEF RecordRaises, Vacant
  <2>1. CASE /\ turn[c].at = "begin" /\ outbound[turn[c].event].status = "none"
             /\ outbound' = [outbound EXCEPT ![turn[c].event] = Begun]
    BY <2>0, <2>1, BeginInserts
  <2>2. CASE /\ turn[c].at = "finish"
             /\ outbound' = [outbound EXCEPT ![turn[c].event] =
                               Finished(outbound[turn[c].event], turn[c].result)]
    BY <1>6, <2>0, <2>2
  <2>3. CASE /\ turn[c].at \in {"begin", "skip", "finish"}
             /\ \/ outbound' = outbound
                \/ outbound' = [outbound EXCEPT ![turn[c].event] =
                                  Skipped(outbound[turn[c].event])]
    <3>1. turn[c].event \in Event /\ outbound[turn[c].event] \in Record
      BY <2>3, <1>t, TurnFields DEF OutboundTypeOK
    <3>2. /\ turn' \in [Caller -> Turn \cup {Idle}]
          /\ turn'[c].at = "raised"
          /\ \A d \in Caller : d # c => turn'[d] = turn[d]
      BY <2>0, <2>3, <1>t, GoToTurn
    <3>3. \A f \in Event : ~Owns(c, f)'
      BY <3>2 DEF Owns
    <3>4. Skipped(outbound[turn[c].event]) \in Record
      BY <3>1 DEF Skipped, Record
    <3>5. outbound' \in [Event -> Record]
      BY <2>3, <1>t, <3>1, <3>4 DEF OutboundTypeOK
    <3>6. \A f \in Event : outbound'[f].status = outbound[f].status
      BY <2>3, <1>t, <3>1 DEF OutboundTypeOK, Skipped
    <3> QED
      BY <1>t, <2>0, <3>2, <3>3, <3>5, <3>6, CallerMoves DEF OutboundTypeOK
  <2> QED
    BY <1>8, <2>1, <2>2, <2>3 DEF RecordRaises, Vacant
<1> QED
  BY <1>0, <1>1, <1>2, <1>3, <1>4, <1>5, <1>7, <1>8
     DEF OutboundNext, DeliveryStep, DeliveryFault

\* The inductive invariant holds of every reachable state.
LEMMA SendInitially == ASSUME OutboundInit PROVE SendInv
<1>1. NoRecord \in Record
  BY DEF NoRecord, Record
<1>2. OutboundTypeOK
  BY <1>1 DEF OutboundInit, OutboundTypeOK
<1>3. \A c \in Caller : turn[c].at = "idle"
  BY DEF OutboundInit, Idle
<1>4. OwnerInv
  BY <1>3 DEF OutboundInit, OwnerInv, Owns
<1> QED
  BY <1>2, <1>4 DEF SendInv

LEMMA SendInvariant == OutboundSpec => []SendInv
<1>1. OutboundInit => SendInv
  BY SendInitially
<1>2. SendInv /\ [OutboundNext]_sendVars => SendInv'
  BY SendStep
<1> QED
  BY <1>1, <1>2, PTL DEF OutboundSpec

\* FR-12 for any number of callers and events: whatever crashes, however often
\* a turn is retried, replayed or redelivered, and whatever the database does
\* in the middle, the provider gets at most one POST per inbound event.
THEOREM AtMostOnceCorrect == OutboundSpec => []AtMostOncePerEvent
<1>1. SendInv => AtMostOncePerEvent
  BY DEF SendInv, OwnerInv, AtMostOncePerEvent
<1> QED
  BY <1>1, SendInvariant, PTL

\* What a step of one caller may do to the table and to the outside world.
LEMMA CallerEffects ==
  ASSUME SendInv, NEW c \in Caller,
         \/ \E e \in Event, reply \in Reply : Deliver(c, e, reply)
         \/ \E e \in Event : NeverDeliver(c, e)
         \/ DeliveryStep(c) \/ DeliveryFault(c) \/ Leave(c)
  PROVE  \/ UNCHANGED <<outbound, posts, mirrored>>
         \/ /\ turn[c].at \in {"begin", "skip", "finish"}
            /\ UNCHANGED <<posts, mirrored>>
            /\ \/ /\ outbound[turn[c].event].status = "none"
                  /\ outbound' = [outbound EXCEPT ![turn[c].event] = Begun]
               \/ outbound' = [outbound EXCEPT ![turn[c].event] = Skipped(outbound[turn[c].event])]
               \/ /\ turn[c].at = "finish"
                  /\ outbound' = [outbound EXCEPT ![turn[c].event] =
                                    Finished(outbound[turn[c].event], turn[c].result)]
         \/ /\ turn[c].at \in {"post", "mirror"}
            /\ outbound' = outbound
            /\ mirrored' \subseteq mirrored \cup {turn[c].event}
            /\ posts' = posts \/ posts' = [posts EXCEPT ![turn[c].event] = posts[turn[c].event] + 1]
<1>1. CASE (\E e \in Event, reply \in Reply : Deliver(c, e, reply)) \/ Leave(c)
           \/ \E e \in Event : NeverDeliver(c, e)
  BY <1>1 DEF Deliver, NeverDeliver, Leave
<1>2. CASE Begin(c) \/ Skip(c) \/ Finish(c)
  BY <1>2 DEF Begin, Vacant, Skip, Finish
<1>3. CASE PostAccepted(c) \/ \E b \in BOOLEAN : PostRaises(c, b)
  BY <1>3 DEF PostAccepted, PostRaises
<1>4. CASE Mirror(c) \/ \E b \in BOOLEAN : MirrorRaises(c, b)
  BY <1>4 DEF Mirror, MirrorRaises
<1>5. CASE \E b \in BOOLEAN : RecordRaises(c, b)
  BY <1>5 DEF RecordRaises, Vacant
<1> QED
  BY <1>1, <1>2, <1>3, <1>4, <1>5 DEF DeliveryStep, DeliveryFault

\* No POST and no mirror without a committed intent row before it, and a
\* closed record is never rewritten, for any number of callers and events.
THEOREM RecordCorrect == OutboundSpec => WriteAhead /\ ClosedStaysClosed
<1>1. ASSUME SendInv, [OutboundNext]_sendVars
      PROVE  [AnnouncedFirst]_sendVars /\ [KeptClosed]_sendVars
  <2>1. CASE UNCHANGED sendVars
    BY <2>1
  <2>2. ASSUME NEW c \in Caller,
               \/ \E e \in Event, reply \in Reply : Deliver(c, e, reply)
               \/ \E e \in Event : NeverDeliver(c, e)
               \/ DeliveryStep(c) \/ DeliveryFault(c) \/ Leave(c)
        PROVE  AnnouncedFirst /\ KeptClosed
    <3>1. CASE UNCHANGED <<outbound, posts, mirrored>>
      BY <3>1 DEF AnnouncedFirst, KeptClosed
    <3>2. CASE /\ turn[c].at \in {"begin", "skip", "finish"}
               /\ UNCHANGED <<posts, mirrored>>
               /\ \/ /\ outbound[turn[c].event].status = "none"
                     /\ outbound' = [outbound EXCEPT ![turn[c].event] = Begun]
                  \/ outbound' = [outbound EXCEPT ![turn[c].event] = Skipped(outbound[turn[c].event])]
                  \/ /\ turn[c].at = "finish"
                     /\ outbound' = [outbound EXCEPT ![turn[c].event] =
                                       Finished(outbound[turn[c].event], turn[c].result)]
      <4>1. turn[c].event \in Event
        BY <1>1, <3>2, TurnFields DEF SendInv
      <4>2. AnnouncedFirst
        BY <3>2 DEF AnnouncedFirst
      <4>3. turn[c].at = "finish" => outbound[turn[c].event].status = "intent"
        BY <1>1, <4>1 DEF SendInv, OwnerInv, Owns
      <4>4. KeptClosed
        BY <1>1, <3>2, <4>1, <4>3 DEF KeptClosed, SendInv, OutboundTypeOK, Skipped
      <4> QED
        BY <4>2, <4>4
    <3>3. CASE /\ turn[c].at \in {"post", "mirror"}
               /\ outbound' = outbound
               /\ mirrored' \subseteq mirrored \cup {turn[c].event}
               /\ posts' = posts \/ posts' = [posts EXCEPT ![turn[c].event] = posts[turn[c].event] + 1]
      <4>1. turn[c].event \in Event /\ outbound[turn[c].event].status = "intent"
        BY <1>1, <3>3, TurnFields DEF SendInv, OwnerInv, Owns
      <4>2. AnnouncedFirst
        BY <1>1, <3>3, <4>1 DEF AnnouncedFirst, SendInv, OutboundTypeOK
      <4>3. KeptClosed
        BY <3>3 DEF KeptClosed
      <4> QED
        BY <4>2, <4>3
    <3> QED
      BY <1>1, <2>2, <3>1, <3>2, <3>3, CallerEffects
  <2> QED
    BY <1>1, <2>1, <2>2 DEF OutboundNext
<1> QED
  BY <1>1, SendInvariant, PTL DEF OutboundSpec, WriteAhead, ClosedStaysClosed

\* The second half on its own: neither a retry nor a replay rewrites a record that
\* was closed as sent or failed (finish_outbound).
THEOREM ClosedCorrect == OutboundSpec => ClosedStaysClosed
  BY RecordCorrect

(***************************************************************************)
(* The record never overstates                                             *)
(***************************************************************************)

\* What a record closed as sent vouches for.
RecordTrue(e) ==
  outbound[e].status = "sent" =>
    /\ Kind[e] # "email" => e \in delivered
    /\ "blank" \notin Reply /\ ~outbound[e].error /\ Kind[e] # "opt_out" => e \in mirrored

\* What a caller on its way to finish knows: the mirror of an SMS comes after
\* the provider took it, and the result in hand is the one that happened.
TurnTrue(c) ==
  LET e == turn[c].event IN
  /\ turn[c].at = "mirror" /\ Kind[e] # "email" => e \in delivered
  /\ turn[c].at = "finish" =>
       /\ turn[c].result # "failed" /\ Kind[e] # "email" => e \in delivered
       /\ "blank" \notin Reply /\ turn[c].result = "sent" /\ Kind[e] # "opt_out" =>
            e \in mirrored

TruthInv == (\A e \in Event : RecordTrue(e)) /\ (\A c \in Caller : TurnTrue(c))

\* A step in which one caller goes on, deliveries and mirrors only grow, and a
\* record is closed only with a result its caller vouches for.
LEMMA TruthMoves ==
  ASSUME TruthInv, NEW c \in Caller,
         \A d \in Caller : d # c => turn'[d] = turn[d],
         delivered \subseteq delivered', mirrored \subseteq mirrored',
         TurnTrue(c)',
         \A e \in Event :
           \/ outbound'[e].status = outbound[e].status /\ outbound'[e].error = outbound[e].error
           \/ outbound'[e].status # "sent"
           \/ /\ turn[c].at = "finish" /\ turn[c].event = e /\ turn[c].result # "failed"
              /\ outbound'[e].error = (turn[c].result # "sent")
  PROVE  TruthInv'
<1>1. ASSUME NEW d \in Caller PROVE TurnTrue(d)'
  <2>1. CASE d = c
    BY <2>1
  <2>2. CASE d # c
    BY <2>2 DEF TruthInv, TurnTrue
  <2> QED
    BY <2>1, <2>2
<1>2. ASSUME NEW e \in Event PROVE RecordTrue(e)'
  <2>1. RecordTrue(e) /\ TurnTrue(c)
    BY DEF TruthInv
  <2>2. CASE outbound'[e].status = outbound[e].status /\ outbound'[e].error = outbound[e].error
    BY <2>1, <2>2 DEF RecordTrue
  <2>3. CASE outbound'[e].status # "sent"
    BY <2>3 DEF RecordTrue
  <2>4. CASE /\ turn[c].at = "finish" /\ turn[c].event = e /\ turn[c].result # "failed"
             /\ outbound'[e].error = (turn[c].result # "sent")
    BY <2>1, <2>4 DEF RecordTrue, TurnTrue
  <2> QED
    BY <2>2, <2>3, <2>4
<1> QED
  BY <1>1, <1>2 DEF TruthInv

\* A caller that is neither at its mirror nor at finish vouches for nothing.
LEMMA VouchesForNothing ==
  ASSUME NEW c \in Caller, turn'[c].at \notin {"mirror", "finish"}
  PROVE  TurnTrue(c)'
BY DEF TurnTrue

\* The truth of the record is inductive.
LEMMA TruthStep ==
  ASSUME SendInv, TruthInv, [OutboundNext]_sendVars
  PROVE  TruthInv'
<1>t. OutboundTypeOK
  BY DEF SendInv
<1>0. CASE UNCHANGED sendVars
  BY <1>0 DEF sendVars, TruthInv, RecordTrue, TurnTrue
<1>1. ASSUME NEW c \in Caller,
             \/ \E e \in Event, reply \in Reply : Deliver(c, e, reply)
             \/ \E e \in Event : NeverDeliver(c, e)
             \/ Leave(c)
      PROVE  TruthInv'
  <2>1. /\ turn'[c].at \in {"begin", "raised", "idle"}
        /\ \A d \in Caller : d # c => turn'[d] = turn[d]
        /\ UNCHANGED <<outbound, delivered, mirrored>>
    BY <1>1, <1>t DEF Deliver, NeverDeliver, Leave, Idle, OutboundTypeOK
  <2> QED
    BY <2>1, TruthMoves, VouchesForNothing
<1>2. ASSUME NEW c \in Caller, Begin(c) PROVE TruthInv'
  <2>0. turn[c].event \in Event
    BY <1>2, <1>t, TurnFields DEF Begin
  <2>1. PICK at \in {"mirror", "post", "skip"} :
          GoTo(c, at) /\ (at = "mirror" => Kind[turn[c].event] = "email")
    BY <1>2 DEF Begin
  <2>2. /\ turn'[c].at = at /\ turn'[c].event = turn[c].event
        /\ \A d \in Caller : d # c => turn'[d] = turn[d]
    BY <1>2, <1>t, <2>1, GoToTurn DEF Begin
  <2>3. TurnTrue(c)'
    BY <2>1, <2>2 DEF TurnTrue
  <2>4. \A e \in Event : outbound'[e] = outbound[e] \/ outbound'[e].status # "sent"
    BY <1>2, <1>t, <2>0 DEF Begin, Begun, OutboundTypeOK
  <2> QED
    BY <1>2, <2>2, <2>3, <2>4, TruthMoves DEF Begin
<1>3. ASSUME NEW c \in Caller, PostAccepted(c) PROVE TruthInv'
  <2>0. turn[c].event \in Event /\ turn[c].at = "post"
    BY <1>3, <1>t, TurnFields DEF PostAccepted
  <2>1. /\ turn'[c].at \in {"mirror", "finish"} /\ turn'[c].event = turn[c].event
        /\ turn'[c].at = "finish" => Kind[turn[c].event] = "opt_out"
        /\ \A d \in Caller : d # c => turn'[d] = turn[d]
    BY <1>3, <1>t, <2>0, GoToTurn, ToFinishTurn DEF PostAccepted, Result
  <2>2. TurnTrue(c)'
    BY <1>3, <2>1 DEF PostAccepted, TurnTrue
  <2> QED
    BY <1>3, <2>1, <2>2, TruthMoves DEF PostAccepted
<1>4. ASSUME NEW c \in Caller, NEW b \in BOOLEAN, PostRaises(c, b) PROVE TruthInv'
  <2>1. /\ turn'[c].at = "finish" /\ turn'[c].result = "failed"
        /\ \A d \in Caller : d # c => turn'[d] = turn[d]
    BY <1>4, <1>t, ToFinishTurn DEF PostRaises, Result
  <2>2. TurnTrue(c)'
    BY <2>1 DEF TurnTrue
  <2> QED
    BY <1>4, <2>1, <2>2, TruthMoves DEF PostRaises
<1>5. ASSUME NEW c \in Caller, Mirror(c) PROVE TruthInv'
  <2>0. turn[c].at = "mirror" /\ turn[c].reply \in Reply \cup {"text"} /\ TurnTrue(c)
    BY <1>5, <1>t, TurnFields DEF Mirror, TruthInv
  <2>1. /\ turn'[c].at = "finish" /\ turn'[c].result = "sent"
        /\ turn'[c].event = turn[c].event
        /\ \A d \in Caller : d # c => turn'[d] = turn[d]
    BY <1>5, <1>t, <2>0, ToFinishTurn DEF Mirror, Result
  <2>2. "blank" \notin Reply => turn[c].event \in mirrored'
    BY <1>5, <2>0 DEF Mirror
  <2>3. TurnTrue(c)'
    BY <1>5, <2>0, <2>1, <2>2 DEF TurnTrue, Mirror
  <2> QED
    BY <1>5, <2>1, <2>3, TruthMoves DEF Mirror
<1>6. ASSUME NEW c \in Caller, NEW b \in BOOLEAN, MirrorRaises(c, b) PROVE TruthInv'
  <2>0. turn[c].at = "mirror" /\ TurnTrue(c)
    BY <1>6 DEF MirrorRaises, TruthInv
  <2>1. PICK result \in Result :
          /\ ToFinish(c, result)
          /\ result # "sent" /\ (Kind[turn[c].event] = "email" => result = "failed")
    BY <1>6 DEF MirrorRaises, Result
  <2>2. /\ turn'[c].at = "finish" /\ turn'[c].result = result
        /\ turn'[c].event = turn[c].event
        /\ \A d \in Caller : d # c => turn'[d] = turn[d]
    BY <1>t, <2>0, <2>1, ToFinishTurn
  <2>3. TurnTrue(c)'
    BY <1>6, <2>0, <2>1, <2>2 DEF TurnTrue, MirrorRaises
  <2> QED
    BY <1>6, <2>2, <2>3, TruthMoves DEF MirrorRaises
<1>7. ASSUME NEW c \in Caller, turn[c].at \in {"begin", "skip", "finish"},
             NEW at \in {"returned", "raised", "burned"}, GoTo(c, at),
             UNCHANGED <<delivered, mirrored>>,
             \/ outbound' = outbound
             \/ outbound' = [outbound EXCEPT ![turn[c].event] = Begun]
             \/ outbound' = [outbound EXCEPT ![turn[c].event] = Skipped(outbound[turn[c].event])]
             \/ /\ turn[c].at = "finish"
                /\ outbound' = [outbound EXCEPT ![turn[c].event] =
                                  Finished(outbound[turn[c].event], turn[c].result)]
      PROVE  TruthInv'
  <2>0. turn[c].event \in Event /\ outbound \in [Event -> Record]
    BY <1>7, <1>t, TurnFields DEF OutboundTypeOK
  <2>1. /\ turn'[c].at = at
        /\ \A d \in Caller : d # c => turn'[d] = turn[d]
    BY <1>7, <1>t, GoToTurn
  <2>2. TurnTrue(c)'
    BY <2>1, VouchesForNothing
  <2>3. ASSUME NEW e \in Event
        PROVE  \/ outbound'[e].status = outbound[e].status /\ outbound'[e].error = outbound[e].error
               \/ outbound'[e].status # "sent"
               \/ /\ turn[c].at = "finish" /\ turn[c].event = e /\ turn[c].result # "failed"
                  /\ outbound'[e].error = (turn[c].result # "sent")
    <3>1. CASE outbound' = outbound \/ e # turn[c].event
      BY <1>7, <2>0, <3>1
    <3>2. CASE e = turn[c].event /\ outbound' = [outbound EXCEPT ![turn[c].event] = Begun]
      BY <2>0, <3>2 DEF Begun
    <3>3. CASE /\ e = turn[c].event
               /\ outbound' = [outbound EXCEPT ![turn[c].event] = Skipped(outbound[turn[c].event])]
      BY <2>0, <3>3 DEF Skipped
    <3>4. CASE /\ e = turn[c].event /\ turn[c].at = "finish"
               /\ outbound' = [outbound EXCEPT ![turn[c].event] =
                                 Finished(outbound[turn[c].event], turn[c].result)]
      <4>1. outbound'[e] = Finished(outbound[e], turn[c].result)
        BY <2>0, <3>4
      <4> QED
        BY <3>4, <4>1 DEF Finished
    <3> QED
      BY <1>7, <3>1, <3>2, <3>3, <3>4
  <2> QED
    BY <1>7, <2>1, <2>2, <2>3, TruthMoves
<1>8. ASSUME NEW c \in Caller,
             Skip(c) \/ Finish(c) \/ \E b \in BOOLEAN : RecordRaises(c, b)
      PROVE  TruthInv'
  BY <1>7, <1>8 DEF Skip, Finish, RecordRaises
<1> QED
  BY <1>0, <1>1, <1>2, <1>3, <1>4, <1>5, <1>6, <1>8
     DEF OutboundNext, DeliveryStep, DeliveryFault

\* Every record vouches for what happened, in every reachable state and for
\* every set of replies a model turn can come back with.
LEMMA TruthInvariant == OutboundSpec => []TruthInv
<1>1. OutboundInit => TruthInv
  BY DEF OutboundInit, NoRecord, Idle, TruthInv, RecordTrue, TurnTrue
<1>2. SendInv /\ TruthInv /\ [OutboundNext]_sendVars => TruthInv'
  BY TruthStep
<1> QED
  BY <1>1, <1>2, SendInvariant, PTL DEF OutboundSpec

\* A row says sent only if the provider took the message, whatever the reply.
THEOREM SentIsDelivered ==
  OutboundSpec =>
    [](\A e \in Event : outbound[e].status = "sent" /\ Kind[e] # "email" => e \in delivered)
<1>1. TruthInv =>
        \A e \in Event : outbound[e].status = "sent" /\ Kind[e] # "email" => e \in delivered
  BY DEF TruthInv, RecordTrue
<1> QED
  BY <1>1, TruthInvariant, PTL

\* The record never overstates, for turns that come back with a reply
\* (persist_agent_outbound writes no mirror for a blank one).
THEOREM SentCorrect ==
  ASSUME "blank" \notin Reply
  PROVE  OutboundSpec => []SentIsTrue
<1>1. TruthInv => SentIsTrue
  BY DEF TruthInv, RecordTrue, SentIsTrue
<1> QED
  BY <1>1, TruthInvariant, PTL

(***************************************************************************)
(* A delivery that ends leaves its record                                  *)
(***************************************************************************)

\* A delivery that met somebody else's record or that returned has a record.
LeftRecord ==
  \A c \in Caller :
    turn[c].at \in {"skip", "returned"} => outbound[turn[c].event].status # "none"

\* No statement of outbound_send.py deletes a record.
LEMMA RecordStays ==
  ASSUME SendInv, [OutboundNext]_sendVars, NEW e \in Event, outbound[e].status # "none"
  PROVE  outbound'[e].status # "none"
<1>1. outbound \in [Event -> Record]
  BY DEF SendInv, OutboundTypeOK
<1>2. CASE outbound' = outbound
  BY <1>2
<1>3. ASSUME NEW c \in Caller,
             \/ \E f \in Event, reply \in Reply : Deliver(c, f, reply)
             \/ \E f \in Event : NeverDeliver(c, f)
             \/ DeliveryStep(c) \/ DeliveryFault(c) \/ Leave(c)
      PROVE  outbound'[e].status # "none"
  <2>1. \/ outbound' = outbound
        \/ outbound' = [outbound EXCEPT ![turn[c].event] = Begun]
        \/ outbound' = [outbound EXCEPT ![turn[c].event] = Skipped(outbound[turn[c].event])]
        \/ outbound' = [outbound EXCEPT ![turn[c].event] =
                            Finished(outbound[turn[c].event], turn[c].result)]
    BY <1>3, CallerEffects
  <2> QED
    BY <1>1, <2>1 DEF Begun, Skipped, Finished
<1> QED
  BY <1>2, <1>3 DEF OutboundNext, sendVars

LEMMA LeftRecordStep ==
  ASSUME SendInv, LeftRecord, [OutboundNext]_sendVars
  PROVE  LeftRecord'
<1> SUFFICES ASSUME NEW d \in Caller, turn'[d].at \in {"skip", "returned"}
             PROVE  outbound'[turn'[d].event].status # "none"
  BY DEF LeftRecord
<1>0. /\ outbound \in [Event -> Record]
      /\ turn \in [Caller -> Turn \cup {Idle}]
  BY DEF SendInv, OutboundTypeOK
<1>1. CASE turn'[d] = turn[d]
  <2>1. turn[d].event \in Event /\ outbound[turn[d].event].status # "none"
    BY <1>1, TurnFields DEF LeftRecord, SendInv
  <2> QED
    BY <1>1, <2>1, RecordStays
<1>2. ASSUME turn'[d] # turn[d],
             \/ \E f \in Event, reply \in Reply : Deliver(d, f, reply)
             \/ \E f \in Event : NeverDeliver(d, f)
             \/ Leave(d)
      PROVE  FALSE
  BY <1>0, <1>2 DEF Deliver, NeverDeliver, Leave, Idle
<1>3. CASE Begin(d)
  <2>1. turn[d].event \in Event
    BY <1>3, TurnFields DEF Begin, SendInv
  <2>2. turn'[d].at = "skip" /\ turn'[d].event = turn[d].event
        /\ outbound' = outbound /\ outbound[turn[d].event].status # "none"
    BY <1>0, <1>3 DEF Begin, GoTo, Vacant
  <2> QED
    BY <2>1, <2>2
<1>4. CASE Skip(d)
  <2>1. turn[d].event \in Event /\ outbound[turn[d].event].status # "none"
    BY <1>4, TurnFields DEF Skip, SendInv, LeftRecord
  <2>2. turn'[d].event = turn[d].event
    BY <1>0, <1>4 DEF Skip, GoTo
  <2> QED
    BY <2>1, <2>2, RecordStays
<1>5. CASE Finish(d)
  <2>1. turn[d].event \in Event
    BY <1>5, TurnFields DEF Finish, SendInv
  <2>2. turn'[d].event = turn[d].event
    BY <1>0, <1>5 DEF Finish, GoTo
  <2>3. outbound'[turn[d].event].status # "none"
    BY <1>0, <1>5, <2>1 DEF Finish, Finished
  <2> QED
    BY <2>2, <2>3
<1>6. CASE PostAccepted(d) \/ Mirror(d) \/ DeliveryFault(d)
  BY <1>0, <1>6 DEF PostAccepted, Mirror, DeliveryFault, PostRaises, MirrorRaises,
                    RecordRaises, GoTo, ToFinish
<1>7. ASSUME NEW c \in Caller, c # d,
             \/ \E f \in Event, reply \in Reply : Deliver(c, f, reply)
             \/ \E f \in Event : NeverDeliver(c, f)
             \/ DeliveryStep(c) \/ DeliveryFault(c) \/ Leave(c)
      PROVE  turn'[d] = turn[d]
  BY <1>0, <1>7 DEF Deliver, NeverDeliver, Leave, DeliveryStep, DeliveryFault, Begin, Skip,
                    PostAccepted, Mirror, Finish, PostRaises, MirrorRaises, RecordRaises,
                    GoTo, ToFinish
<1>8. CASE UNCHANGED sendVars
  BY <1>1, <1>8 DEF sendVars
<1> QED
  BY <1>1, <1>2, <1>3, <1>4, <1>5, <1>6, <1>7, <1>8 DEF OutboundNext, DeliveryStep

\* A caller that comes back from deliver_once without an exception leaves the
\* event with a record: nothing returns quietly with nothing written down.
THEOREM ReturnLeavesRecord == OutboundSpec => []LeftRecord
<1>1. OutboundInit => LeftRecord
  BY DEF OutboundInit, Idle, LeftRecord
<1> QED
  BY <1>1, LeftRecordStep, SendInvariant, PTL DEF OutboundSpec
=============================================================================
