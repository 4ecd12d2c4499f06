-------------------------- MODULE BookingSagaProofs --------------------------
(***************************************************************************)
(* Theorems about the sagas over Kafka, for any number of sagas and        *)
(* orchestrators and any number of repeated records and time-outs.         *)
(*                                                                         *)
(* What a copy of the row says cannot be trusted to be new, but it was     *)
(* true when it was made, and nothing it says becomes false: steps that    *)
(* took effect stay so, and a plan does not change.  So the invariant is   *)
(* about every message ever sent (MessageTrue), every copy of the row an   *)
(* orchestrator holds and the row itself (CopyTrue), and says of each that *)
(* it is true of plan and ran.                                             *)
(***************************************************************************)
EXTENDS BookingSaga, TLAPS

USE MaxDisturbedAssumption

\* The steps of a plan, and the place of each in it.
StepsOf(p) ==
  IF p = BookingPlan THEN Step ELSE IF p = PostPaymentPlan THEN {Confirm, Notify} ELSE {}
Place(p, k) ==
  IF p = BookingPlan
  THEN IF k = Reserve THEN 0 ELSE IF k = Pay THEN 1 ELSE IF k = Confirm THEN 2 ELSE 3
  ELSE IF k = Confirm THEN 0 ELSE 1

\* A message was true when it was sent, and is.
MessageTrue(m) ==
  /\ plan[m.saga] \in Plan
  /\ m.step \in StepsOf(plan[m.saga])
  /\ m.index = Place(plan[m.saga], m.step)
  /\ m.kind # "compensate" => Before[plan[m.saga]][m.step] \subseteq ran[m.saga]
  /\ m.kind \in {"success", "compensate"} =>
       m.step \in ran[m.saga] /\ Learns[m.step] \subseteq m.ids

\* So is a copy of the row.
CopyTrue(s, inst) ==
  /\ inst.done \subseteq ran[s]
  /\ \A k \in inst.done : Learns[k] \subseteq inst.ids
  /\ inst.status = "completed" => plan[s] \in Plan /\ ran[s] = StepsOf(plan[s])

HandlerTrue(h) ==
  /\ h.msg.kind \in {"success", "failure", "timeout"}
  /\ h.msg.kind # "timeout" => h.msg \in sent
  /\ MessageTrue(h.msg)
  /\ CopyTrue(h.msg.saga, h.inst)
  /\ h.at = "send" => h.msg.kind = "success" /\ NextStep[h.msg.step] # NoStep

StarterTrue(s) ==
  /\ starter[s] = "unused" <=> plan[s] = "none"
  /\ starter[s] = "running" => plan[s] = PostPaymentPlan
  /\ plan[s] = PostPaymentPlan => row[s] # NoRow
  /\ ran[s] \subseteq StepsOf(plan[s])

SagaInv ==
  /\ SagaTypeOK
  /\ \A m \in sent : MessageTrue(m)
  /\ \A s \in Saga : CopyTrue(s, row[s])
  /\ \A w \in Worker : handler[w] # Idle => HandlerTrue(handler[w])
  /\ \A s \in Saga : StarterTrue(s)

\* What every action keeps: messages, plans and effects stay.
Keeps ==
  /\ sent \subseteq sent'
  /\ \A s \in Saga :
       /\ plan[s] \in Plan => plan'[s] = plan[s]
       /\ ran[s] \subseteq ran'[s] /\ ran'[s] \subseteq StepsOf(plan'[s])
-----------------------------------------------------------------------------
\* The orchestrator's chain of steps agrees with either plan.
LEMMA PlanFacts ==
  ASSUME NEW p \in Plan, NEW k \in StepsOf(p)
  PROVE  /\ k \in Step
         /\ Place(p, k) \in 0..3
         /\ NextStep[k] # NoStep =>
              /\ NextStep[k] \in StepsOf(p)
              /\ Before[p][NextStep[k]] \subseteq Before[p][k] \union {k}
              /\ Place(p, NextStep[k]) = Place(p, k) + 1
         /\ NextStep[k] = NoStep => Before[p][k] \union {k} = StepsOf(p)
<1> USE DEF Plan, StepsOf, Step, Place, NextStep, Before, BookingPlan, PostPaymentPlan,
            Reserve, Pay, Confirm, Notify, NoStep
<1>1. CASE p = BookingPlan /\ k = Reserve
  BY <1>1
<1>2. CASE p = BookingPlan /\ k = Pay
  BY <1>2
<1>3. CASE p = BookingPlan /\ k = Confirm
  BY <1>3
<1>4. CASE p = BookingPlan /\ k = Notify
  BY <1>4
<1>5. CASE p = PostPaymentPlan /\ k = Confirm
  BY <1>5
<1>6. CASE p = PostPaymentPlan /\ k = Notify
  BY <1>6
<1> QED
  BY <1>1, <1>2, <1>3, <1>4, <1>5, <1>6

\* Either plan ends with the notification.
LEMMA PlanEnds ==
  ASSUME NEW p \in Plan
  PROVE  Before[p][Notify] \union {Notify} = StepsOf(p)
BY DEF Plan, StepsOf, Step, Before, BookingPlan, PostPaymentPlan, Reserve, Pay, Confirm, Notify

\* The first step of either plan.
LEMMA PlanStarts ==
  /\ Reserve \in StepsOf(BookingPlan) /\ Place(BookingPlan, Reserve) = 0
  /\ Before[BookingPlan][Reserve] = {}
  /\ Confirm \in StepsOf(PostPaymentPlan) /\ Place(PostPaymentPlan, Confirm) = 0
  /\ Before[PostPaymentPlan][Confirm] = {}
BY DEF Plan, StepsOf, Step, Place, Before, BookingPlan, PostPaymentPlan, Reserve, Pay, Confirm, Notify

\* What was true of a message or a copy stays true.
LEMMA TruthStays ==
  ASSUME SagaTypeOK, SagaTypeOK', Keeps
  PROVE  /\ \A m \in Message : MessageTrue(m) => MessageTrue(m)'
         /\ \A s \in Saga, inst \in Instance \union {NoRow} :
              CopyTrue(s, inst) => CopyTrue(s, inst)'
<1>1. ASSUME NEW m \in Message, MessageTrue(m)
      PROVE  MessageTrue(m)'
  BY <1>1 DEF MessageTrue, Keeps, Message
<1>2. ASSUME NEW s \in Saga, NEW inst \in Instance \union {NoRow}, CopyTrue(s, inst)
      PROVE  CopyTrue(s, inst)'
  BY <1>2 DEF CopyTrue, Keeps
<1> QED
  BY <1>1, <1>2

\* What remains to be shown of a step: what is new is true.
LEMMA NewIsTrue ==
  ASSUME SagaInv, SagaTypeOK', Keeps,
         \A m \in sent' \ sent : MessageTrue(m)',
         \A s \in Saga : row'[s] = row[s] \/ CopyTrue(s, row[s])',
         \A w \in Worker : handler'[w] \in {handler[w], Idle} \/ HandlerTrue(handler[w])',
         \A s \in Saga : StarterTrue(s)'
  PROVE  SagaInv'
<1>1. SagaTypeOK
  BY DEF SagaInv
<1>2. \A m \in sent' : MessageTrue(m)'
  BY <1>1, TruthStays DEF SagaInv, SagaTypeOK
<1>3. \A s \in Saga : CopyTrue(s, row[s])'
  BY <1>1, TruthStays DEF SagaInv, SagaTypeOK, CopyTrue
<1>4. ASSUME NEW w \in Worker, handler'[w] # Idle
      PROVE  HandlerTrue(handler[w])'
  <2>1. CASE HandlerTrue(handler[w])'
    BY <2>1
  <2>2. CASE handler'[w] = handler[w]
    <3>1. handler[w] \in Handling /\ HandlerTrue(handler[w])
      BY <1>1, <1>4, <2>2 DEF SagaInv, SagaTypeOK
    <3>2. handler[w].msg \in Message /\ handler[w].inst \in Instance /\ handler[w].msg.saga \in Saga
      BY <3>1 DEF Handling, Message
    <3>3. MessageTrue(handler[w].msg)' /\ CopyTrue(handler[w].msg.saga, handler[w].inst)'
      <4> DEFINE m == handler[w].msg
                 i == handler[w].inst
      <4>1. m \in Message /\ i \in Instance /\ MessageTrue(m) /\ CopyTrue(m.saga, i)
        BY <3>1, <3>2 DEF HandlerTrue
      <4>2. m' = m /\ i' = i
        BY <2>2
      <4> HIDE DEF m, i
      <4>3. MessageTrue(m)' /\ CopyTrue(m.saga, i)'
        BY <1>1, <4>1, <4>2, TruthStays DEF MessageTrue, CopyTrue, Message, Keeps
      <4> QED
        BY <4>3 DEF m, i
    <3> QED
      BY <2>2, <3>1, <3>3 DEF HandlerTrue, Keeps
  <2> QED
    BY <1>4, <2>1, <2>2
<1> QED
  BY <1>2, <1>3, <1>4 DEF SagaInv

\* Nothing is sent and no saga has a plan.
LEMMA SagaInitInv == SagaInit => SagaInv
<1> SUFFICES ASSUME SagaInit
             PROVE  SagaInv
  OBVIOUS
<1>1. SagaTypeOK
  BY DEF SagaInit, SagaTypeOK
<1>2. \A s \in Saga : CopyTrue(s, row[s])
  BY DEF SagaInit, CopyTrue, NoRow
<1>3. \A s \in Saga : StarterTrue(s)
  BY DEF SagaInit, StarterTrue, PostPaymentPlan
<1> QED
  BY <1>1, <1>2, <1>3 DEF SagaInv, SagaInit

\* A message that is built from well-typed parts is one.
LEMMA MsgTyped ==
  ASSUME NEW kind \in Kind, NEW s \in Saga, NEW k \in Step, NEW i \in 0..3, NEW ids \in SUBSET Id
  PROVE  Msg(kind, s, k, i, ids) \in Message
BY DEF Msg, Message

\* The steps to compensate are steps of a booking saga that took effect.
LEMMA ToCompensateTrue ==
  ASSUME NEW m \in Message, NEW inst \in Instance,
         MessageTrue(m), CopyTrue(m.saga, inst), ran[m.saga] \subseteq StepsOf(plan[m.saga]),
         NEW i \in ToCompensate(m, inst)
  PROVE  /\ i \in 1..2
         /\ plan[m.saga] = BookingPlan
         /\ StepList[i] \in Step /\ StepList[i] \in inst.done
         /\ Place(BookingPlan, StepList[i]) = i - 1
<1> USE DEF Message, StepsOf, Step, Place, BookingPlan, PostPaymentPlan, Reserve, Pay, Confirm, Notify
<1>1. plan[m.saga] \in Plan /\ m.step \in StepsOf(plan[m.saga]) /\ m.index = Place(plan[m.saga], m.step)
  BY DEF MessageTrue
<1>2. i \in 1..m.index /\ m.index \in 0..3
  BY DEF ToCompensate
<1>3. CASE m.kind = "timeout" /\ plan[m.saga] = PostPaymentPlan
  <2>1. i = 1
    BY <1>1, <1>2, <1>3
  <2>2. DefinitionSteps[PostPaymentPlan][1] = Confirm
    BY DEF DefinitionSteps, Plan
  <2> QED
    BY <1>3, <2>1, <2>2 DEF ToCompensate, Compensable
<1>4. CASE m.kind = "timeout" /\ plan[m.saga] = BookingPlan
  <2>1. DefinitionSteps[BookingPlan] = <<Reserve, Pay, Confirm>>
    BY DEF DefinitionSteps, Plan
  <2>2. DefinitionSteps[BookingPlan][i] \in Compensable \intersect inst.done
    BY <1>4 DEF ToCompensate
  <2>3. i \in {1, 2, 3}
    BY <1>2
  <2> QED
    BY <1>4, <2>1, <2>2, <2>3 DEF StepList, Compensable
<1>5. CASE m.kind # "timeout"
  <2>1. StepList[i] \in Compensable \intersect inst.done
    BY <1>5 DEF ToCompensate
  <2>2. i \in {1, 2, 3}
    BY <1>2
  <2>3. i \in {1, 2}
    BY <2>1, <2>2 DEF StepList, Compensable
  <2>4. plan[m.saga] = BookingPlan
    BY <1>1, <2>1 DEF CopyTrue, Compensable, Plan
  <2> QED
    BY <2>1, <2>3, <2>4 DEF StepList
<1> QED
  BY <1>1, <1>3, <1>4, <1>5 DEF Plan

\* Types of what the start of a saga writes and sends.
LEMMA StartsTyped ==
  ASSUME SagaInv, NEW s \in Saga, Starts(s)
  PROVE  SagaTypeOK'
<1> USE DEF SagaInv, SagaTypeOK
<1>1. NewInstance({}) \in Instance /\ NewInstance(Id) \in Instance
      /\ [NewInstance({}) EXCEPT !.status = "running"] \in Instance
  BY DEF NewInstance, Instance, Status
<1>2. Command(s, Reserve, 0, {}) \in Message /\ Command(s, Confirm, 0, Id) \in Message
  BY MsgTyped DEF Command, Kind, Step
<1>3. CASE SaveBookingSaga(s)
  BY <1>1, <1>3 DEF SaveBookingSaga, Plan
<1>4. CASE SendReserve(s)
  BY <1>2, <1>4 DEF SendReserve, Send
<1>5. CASE ReserveNotSent(s)
  BY <1>5 DEF ReserveNotSent, Cut
<1>6. CASE WriteRunning(s)
  BY <1>1, <1>6 DEF WriteRunning
<1>7. CASE SavePostPaymentSaga(s)
  BY <1>1, <1>7 DEF SavePostPaymentSaga, Plan
<1>8. CASE RunPostPaymentSaga(s)
  <2>1. row[s] \in Instance
    BY <1>8 DEF RunPostPaymentSaga, StarterTrue
  <2>2. [row[s] EXCEPT !.status = "running"] \in Instance
    BY <2>1 DEF Instance, Status
  <2> QED
    BY <1>8, <2>2 DEF RunPostPaymentSaga
<1>9. CASE SendConfirm(s)
  BY <1>2, <1>9 DEF SendConfirm, Send
<1>10. CASE StartStops(s)
  BY <1>10 DEF StartStops, Cut
<1> QED
  BY <1>3, <1>4, <1>5, <1>6, <1>7, <1>8, <1>9, <1>10 DEF Starts

\* Types of what the workers do and answer.
LEMMA WorksTyped ==
  ASSUME SagaInv, NEW m \in sent, Works(m)
  PROVE  SagaTypeOK'
<1> USE DEF SagaInv, SagaTypeOK
<1>1. m \in Message /\ m.saga \in Saga /\ m.step \in Step /\ m.index \in 0..3
  BY DEF Message
<1>2. Answer("success", m, Learns[m.step]) \subseteq Message /\ Answer("failure", m, {}) \subseteq Message
  BY <1>1, MsgTyped DEF Answer, Kind, Learns, Id
<1>3. CASE StepSucceeds(m)
  BY <1>1, <1>2, <1>3 DEF StepSucceeds, Consume
<1>4. CASE StepFails(m)
  BY <1>1, <1>2, <1>4 DEF StepFails, MayRun, Consume
<1>5. CASE AnswerLost(m)
  BY <1>1, <1>5 DEF AnswerLost, MayRun, Consume, Cut
<1>6. CASE CommandDropped(m)
  BY <1>1, <1>6 DEF CommandDropped, Consume, Cut
<1>7. CASE Compensation(m)
  BY <1>1, <1>7 DEF Compensation, Consume
<1> QED
  BY <1>3, <1>4, <1>5, <1>6, <1>7 DEF Works

\* What the record updates of a copy and of a handler change.
LEMMA StatusSet ==
  ASSUME NEW inst \in Instance, NEW st \in Status
  PROVE  /\ [inst EXCEPT !.status = st] \in Instance
         /\ [inst EXCEPT !.status = st].status = st
         /\ [inst EXCEPT !.status = st].ids = inst.ids
         /\ [inst EXCEPT !.status = st].done = inst.done
BY DEF Instance

\* The next stage of a handler leaves its message and its copy alone.
LEMMA AtSet ==
  ASSUME NEW h \in Handling, NEW a \in {"store", "send", "announce", "compensate", "close"}
  PROVE  /\ [h EXCEPT !.at = a] \in Handling
         /\ [h EXCEPT !.at = a].at = a
         /\ [h EXCEPT !.at = a].msg = h.msg
         /\ [h EXCEPT !.at = a].inst = h.inst
BY DEF Handling

\* The copy of the row after a success.
LEMMA AdvancedTyped ==
  ASSUME NEW m \in Message, row[m.saga] \in Instance
  PROVE  /\ Advanced(m) \in Instance
         /\ Advanced(m).ids = row[m.saga].ids \union m.ids
         /\ Advanced(m).done = row[m.saga].done \union {m.step}
         /\ Advanced(m).status = IF NextStep[m.step] = NoStep THEN "completed" ELSE row[m.saga].status
BY DEF Advanced, Instance, Message, Status

\* A handler that is not idle holds a message and a copy of the row.
LEMMA BusyTyped ==
  ASSUME SagaInv, NEW w \in Worker, handler[w] # Idle
  PROVE  /\ handler[w] \in Handling
         /\ handler[w].msg \in Message /\ handler[w].msg.saga \in Saga /\ handler[w].msg.step \in Step
         /\ handler[w].msg.index \in 0..3
         /\ handler[w].inst \in Instance /\ handler[w].inst.ids \in SUBSET Id
         /\ HandlerTrue(handler[w])
<1>1. handler[w] \in Handling /\ HandlerTrue(handler[w])
  BY DEF SagaInv, SagaTypeOK
<1> QED
  BY <1>1 DEF Handling, Message, Instance

\* A step that starts no saga and takes no effect keeps the invariant when what
\* is new in it is true.
LEMMA QuietStep ==
  ASSUME SagaInv, SagaTypeOK', UNCHANGED <<starter, plan, ran>>, sent \subseteq sent',
         \A m \in sent' \ sent : MessageTrue(m),
         \A s \in Saga : row'[s] = row[s] \/ (row'[s] \in Instance /\ CopyTrue(s, row'[s])),
         \A w \in Worker : handler'[w] \in {handler[w], Idle} \/ HandlerTrue(handler'[w])
  PROVE  SagaInv'
<1>1. Keeps
  BY DEF SagaInv, StarterTrue, Keeps
<1>2. \A m \in sent' \ sent : MessageTrue(m)'
  BY DEF MessageTrue
<1>3. \A s \in Saga : row'[s] = row[s] \/ CopyTrue(s, row[s])'
  BY DEF CopyTrue
<1>4. \A w \in Worker : handler'[w] \in {handler[w], Idle} \/ HandlerTrue(handler[w])'
  BY DEF HandlerTrue, MessageTrue, CopyTrue
<1>5. \A s \in Saga : StarterTrue(s)'
  BY DEF SagaInv, StarterTrue, Instance, Status, NoRow
<1> QED
  BY <1>1, <1>2, <1>3, <1>4, <1>5, NewIsTrue

\* An orchestrator that takes a record, or a time-out, holds a true copy.
LEMMA TakeKeeps ==
  ASSUME SagaInv, NEW w \in Worker, NEW m \in sent, Take(w, m)
  PROVE  SagaInv'
<1>1. m \in Message /\ m.saga \in Saga /\ m.step \in Step /\ MessageTrue(m)
  BY DEF SagaInv, SagaTypeOK, Message
<1>2. row[m.saga] \in Instance /\ CopyTrue(m.saga, row[m.saga]) /\ StarterTrue(m.saga)
  BY <1>1 DEF SagaInv, SagaTypeOK, Take
<1>3. PICK inst \in Instance :
        /\ handler' = [handler EXCEPT ![w] = [at |-> "store", msg |-> m, inst |-> inst]]
        /\ CopyTrue(m.saga, inst)
        /\ m.kind \in {"success", "failure"}
  <2>1. CASE m.kind = "success" /\ Begins(w, m, Advanced(m))
    <3> DEFINE i == Advanced(m)
    <3>1. /\ i \in Instance
          /\ i.ids = row[m.saga].ids \union m.ids
          /\ i.done = row[m.saga].done \union {m.step}
          /\ i.status = IF NextStep[m.step] = NoStep THEN "completed" ELSE row[m.saga].status
      BY <1>1, <1>2, AdvancedTyped
    <3> HIDE DEF i
    <3>2. m.step \in ran[m.saga] /\ Learns[m.step] \subseteq m.ids /\ plan[m.saga] \in Plan
          /\ m.step \in StepsOf(plan[m.saga]) /\ Before[plan[m.saga]][m.step] \subseteq ran[m.saga]
      BY <1>1, <2>1 DEF MessageTrue
    <3>3. NextStep[m.step] = NoStep => ran[m.saga] = StepsOf(plan[m.saga])
      BY <1>2, <3>2, PlanFacts DEF StarterTrue
    <3>4. CopyTrue(m.saga, i)
      BY <1>2, <3>1, <3>2, <3>3 DEF CopyTrue
    <3> QED
      BY <2>1, <3>1, <3>4 DEF Begins, i
  <2>2. CASE m.kind = "failure" /\ Begins(w, m, Compensating(m))
    <3> DEFINE i == Compensating(m)
    <3>1. i \in Instance /\ i.ids = row[m.saga].ids /\ i.done = row[m.saga].done /\ i.status = "compensating"
      BY <1>2, StatusSet DEF Compensating, Status
    <3> HIDE DEF i
    <3>2. CopyTrue(m.saga, i)
      BY <1>2, <3>1 DEF CopyTrue
    <3> QED
      BY <2>2, <3>1, <3>2 DEF Begins, i
  <2> QED
    BY <2>1, <2>2 DEF Take
<1>4. sent' = sent /\ pending' \subseteq sent /\ UNCHANGED <<row, disturbed, starter, plan, ran, undone, cut>>
  BY DEF Take, Consume, SagaInv, SagaTypeOK
<1>5. handler' \in [Worker -> Handling \union {Idle}]
  BY <1>1, <1>3 DEF SagaInv, SagaTypeOK, Handling
<1>6. SagaTypeOK'
  BY <1>4, <1>5 DEF SagaInv, SagaTypeOK
<1>7. HandlerTrue(handler'[w])
  BY <1>1, <1>3 DEF HandlerTrue, SagaInv, SagaTypeOK
<1>8. \A v \in Worker : handler'[v] \in {handler[v], Idle} \/ HandlerTrue(handler'[v])
  BY <1>3, <1>7 DEF SagaInv, SagaTypeOK
<1> QED
  BY <1>4, <1>6, <1>8, QuietStep

\* So does one whose time-out is up.
LEMMA TimeUpKeeps ==
  ASSUME SagaInv, NEW w \in Worker, NEW c \in sent, TimeUp(w, c)
  PROVE  SagaInv'
<1> DEFINE m == Msg("timeout", c.saga, c.step, c.index, {})
           i == Compensating(c)
<1>1. c \in Message /\ c.saga \in Saga /\ c.step \in Step /\ c.index \in 0..3 /\ MessageTrue(c)
  BY DEF SagaInv, SagaTypeOK, Message
<1>2. row[c.saga] \in Instance /\ CopyTrue(c.saga, row[c.saga])
  BY <1>1 DEF SagaInv, SagaTypeOK, TimeUp, NoRow
<1>3. m \in Message /\ m.kind = "timeout" /\ m.saga = c.saga /\ m.step = c.step /\ m.index = c.index
  BY <1>1, MsgTyped DEF Msg, Kind
<1>4. i \in Instance /\ i.ids = row[c.saga].ids /\ i.done = row[c.saga].done /\ i.status = "compensating"
  BY <1>2, StatusSet DEF Compensating, Status
<1>5. handler' = [handler EXCEPT ![w] = [at |-> "store", msg |-> m, inst |-> i]]
  BY DEF TimeUp, Begins
<1>6. c.kind = "command" /\ disturbed' \in 0..MaxDisturbed
  BY DEF TimeUp, SagaInv, SagaTypeOK
<1> HIDE DEF m, i
<1>7. MessageTrue(m)
  BY <1>1, <1>3, <1>6 DEF MessageTrue
<1>8. CopyTrue(m.saga, i)
  BY <1>2, <1>3, <1>4 DEF CopyTrue
<1>9. UNCHANGED <<row, sent, pending, starter, plan, ran, undone, cut>>
  BY DEF TimeUp
<1>10. handler' \in [Worker -> Handling \union {Idle}]
  BY <1>3, <1>4, <1>5 DEF SagaInv, SagaTypeOK, Handling
<1>11. SagaTypeOK'
  BY <1>6, <1>9, <1>10 DEF SagaInv, SagaTypeOK
<1>12. HandlerTrue(handler'[w])
  BY <1>3, <1>5, <1>7, <1>8 DEF HandlerTrue, SagaInv, SagaTypeOK
<1>13. \A v \in Worker : handler'[v] \in {handler[v], Idle} \/ HandlerTrue(handler'[v])
  BY <1>5, <1>12 DEF SagaInv, SagaTypeOK
<1> QED
  BY <1>9, <1>11, <1>13, QuietStep

\* Storing the copy leads to the next command, or to the compensations.
LEMMA StoreKeeps ==
  ASSUME SagaInv, NEW w \in Worker, Store(w)
  PROVE  SagaInv'
<1> DEFINE h == handler[w]
<1>1. handler[w] # Idle /\ h.at = "store"
  BY DEF Store, Idle
<1>2. /\ h \in Handling /\ h.msg \in Message /\ h.msg.saga \in Saga
      /\ h.inst \in Instance /\ HandlerTrue(h)
  BY <1>1, BusyTyped
<1>3. /\ row' = [row EXCEPT ![h.msg.saga] = h.inst]
      /\ UNCHANGED <<sent, pending, disturbed, starter, plan, ran, undone, cut>>
  BY DEF Store
<1>4. PICK new \in Handling \union {Idle} :
        /\ handler' = [handler EXCEPT ![w] = new]
        /\ new = Idle \/ HandlerTrue(new)
  <2>1. CASE h.msg.kind = "success" /\ NextStep[h.msg.step] = NoStep
    BY <2>1 DEF Store
  <2>2. ASSUME NEW a \in {"compensate", "announce", "send"},
               handler' = [handler EXCEPT ![w] = [h EXCEPT !.at = a]],
               a = "send" => h.msg.kind = "success" /\ NextStep[h.msg.step] # NoStep
        PROVE  \E new \in Handling \union {Idle} :
                 /\ handler' = [handler EXCEPT ![w] = new]
                 /\ new = Idle \/ HandlerTrue(new)
    <3> DEFINE n == [h EXCEPT !.at = a]
    <3>1. n \in Handling /\ n.at = a /\ n.msg = h.msg /\ n.inst = h.inst
      <4>1. h \in Handling /\ a \in {"store", "send", "announce", "compensate", "close"}
        BY <1>2
      <4> HIDE DEF h
      <4> QED
        BY <4>1, AtSet, Zenon
    <3> HIDE DEF n
    <3>2. HandlerTrue(n)
      BY <1>2, <2>2, <3>1 DEF HandlerTrue
    <3> QED
      BY <2>2, <3>1, <3>2 DEF n
  <2>3. CASE ~ (h.msg.kind = "success" /\ NextStep[h.msg.step] = NoStep)
    <3>1. CASE h.msg.kind = "failure"
      BY <2>2, <3>1 DEF Store
    <3>2. CASE h.msg.kind = "timeout"
      BY <2>2, <3>2 DEF Store
    <3>3. CASE h.msg.kind = "success"
      BY <2>2, <2>3, <3>3 DEF Store
    <3> QED
      BY <1>2, <3>1, <3>2, <3>3 DEF HandlerTrue
  <2> QED
    BY <2>1, <2>3
<1>5. SagaTypeOK'
  BY <1>2, <1>3, <1>4 DEF SagaInv, SagaTypeOK
<1>6. \A s \in Saga : row'[s] = row[s] \/ (row'[s] \in Instance /\ CopyTrue(s, row'[s]))
  BY <1>2, <1>3 DEF HandlerTrue, SagaInv, SagaTypeOK
<1>7. \A v \in Worker : handler'[v] \in {handler[v], Idle} \/ HandlerTrue(handler'[v])
  BY <1>4 DEF SagaInv, SagaTypeOK
<1> QED
  BY <1>3, <1>5, <1>6, <1>7, QuietStep

\* A time-out that could not store its copy keeps it.
LEMMA StoreFailsKeeps ==
  ASSUME SagaInv, NEW w \in Worker, StoreFails(w)
  PROVE  SagaInv'
<1>1. PICK h : h = handler[w]
  OBVIOUS
<1>2. /\ handler' = [handler EXCEPT ![w] = [h EXCEPT !.at = "announce"]] /\ h.msg.kind = "timeout"
      /\ UNCHANGED <<row, sent, pending, disturbed, starter, plan, ran, undone, cut>>
  BY <1>1 DEF StoreFails
<1>3. h \in Handling /\ HandlerTrue(h)
  BY <1>1, BusyTyped DEF StoreFails, Idle
<1>4. PICK n : n = [h EXCEPT !.at = "announce"]
  OBVIOUS
<1>5. n \in Handling /\ n.at = "announce" /\ n.msg = h.msg /\ n.inst = h.inst
  <2>1. "announce" \in {"store", "send", "announce", "compensate", "close"}
    OBVIOUS
  <2> QED
    BY <1>3, <1>4, <2>1, AtSet, Zenon
<1>6. HandlerTrue(n)
  BY <1>2, <1>3, <1>5 DEF HandlerTrue
<1>7. handler' = [handler EXCEPT ![w] = n]
  BY <1>2, <1>4
<1>8. SagaTypeOK'
  BY <1>2, <1>5, <1>7 DEF SagaInv, SagaTypeOK
<1>9. \A v \in Worker : handler'[v] \in {handler[v], Idle} \/ HandlerTrue(handler'[v])
  BY <1>6, <1>7 DEF SagaInv, SagaTypeOK
<1> QED
  BY <1>2, <1>8, <1>9, QuietStep

\* The next command is sent when the steps before it took effect.
LEMMA SendNextKeeps ==
  ASSUME SagaInv, NEW w \in Worker, SendNext(w)
  PROVE  SagaInv'
<1> DEFINE m == handler[w].msg
           inst == handler[w].inst
           c == Command(m.saga, NextStep[m.step], m.index + 1, inst.ids)
<1>1. handler[w] # Idle /\ handler[w].at = "send"
  BY DEF SendNext, Idle
<1>2. /\ m \in Message /\ m.saga \in Saga /\ m.step \in Step /\ m.index \in 0..3
      /\ inst.ids \in SUBSET Id /\ HandlerTrue(handler[w])
  BY <1>1, BusyTyped
<1>3. MessageTrue(m) /\ m.kind = "success" /\ NextStep[m.step] # NoStep
  BY <1>1, <1>2 DEF HandlerTrue
<1>4. sent' = sent \union {c} /\ pending' = pending \union {c} /\ handler' = [handler EXCEPT ![w] = Idle]
      /\ UNCHANGED <<row, disturbed, starter, plan, ran, undone, cut>>
  BY DEF SendNext, Send
<1> DEFINE p == plan[m.saga]
           k == NextStep[m.step]
<1>5. p \in Plan /\ m.step \in StepsOf(p) /\ m.index = Place(p, m.step)
      /\ Before[p][m.step] \union {m.step} \subseteq ran[m.saga]
  BY <1>3 DEF MessageTrue
<1>6. k \in StepsOf(p) /\ Before[p][k] \subseteq ran[m.saga] /\ m.index + 1 = Place(p, k)
  BY <1>3, <1>5, PlanFacts
<1>7. k \in Step /\ m.index + 1 \in 0..3
  BY <1>5, <1>6, PlanFacts
<1>8. c \in Message
  BY <1>2, <1>7, MsgTyped DEF Command, Kind
<1>9. c.kind = "command" /\ c.saga = m.saga /\ c.step = k /\ c.index = m.index + 1
  BY DEF Command, Msg
<1> HIDE DEF c, k
<1>10. MessageTrue(c)
  BY <1>5, <1>6, <1>9 DEF MessageTrue
<1>11. SagaTypeOK'
  BY <1>4, <1>8 DEF SagaInv, SagaTypeOK
<1>12. \A v \in Worker : handler'[v] \in {handler[v], Idle}
  BY <1>4 DEF SagaInv, SagaTypeOK
<1> QED
  BY <1>4, <1>10, <1>11, <1>12, QuietStep

\* The failure that a time-out announces is one of the step that timed out.
LEMMA AnnounceKeeps ==
  ASSUME SagaInv, NEW w \in Worker, Announce(w)
  PROVE  SagaInv'
<1> DEFINE h == handler[w]
           f == Msg("failure", h.msg.saga, h.msg.step, h.msg.index, {})
           n == [h EXCEPT !.at = "compensate"]
<1>1. handler[w] # Idle
  BY DEF Announce, Idle
<1>2. /\ h \in Handling /\ h.msg \in Message /\ h.msg.saga \in Saga /\ h.msg.step \in Step
      /\ h.msg.index \in 0..3 /\ HandlerTrue(h)
  BY <1>1, BusyTyped
<1>3. n \in Handling /\ n.at = "compensate" /\ n.msg = h.msg /\ n.inst = h.inst
  BY <1>2, AtSet
<1>4. f \in Message /\ f.kind = "failure" /\ f.saga = h.msg.saga /\ f.step = h.msg.step /\ f.index = h.msg.index
  BY <1>2, MsgTyped DEF Msg, Kind
<1>5. /\ sent \subseteq sent' /\ sent' \subseteq sent \union {f}
      /\ pending' \subseteq sent'
      /\ handler' = [handler EXCEPT ![w] = n]
      /\ UNCHANGED <<row, disturbed, starter, plan, ran, undone, cut>>
  BY DEF Announce, Send, Answer, SagaInv, SagaTypeOK
<1> HIDE DEF f, n
<1>6. MessageTrue(f)
  BY <1>2, <1>4 DEF HandlerTrue, MessageTrue
<1>7. HandlerTrue(n)
  BY <1>2, <1>3 DEF HandlerTrue
<1>8. SagaTypeOK'
  BY <1>3, <1>4, <1>5 DEF SagaInv, SagaTypeOK
<1>9. \A v \in Worker : handler'[v] \in {handler[v], Idle} \/ HandlerTrue(handler'[v])
  BY <1>5, <1>7 DEF SagaInv, SagaTypeOK
<1> QED
  BY <1>5, <1>6, <1>8, <1>9, QuietStep

\* Once the compensations are sent the copy says compensated.
LEMMA ClosingSet ==
  ASSUME NEW h \in Handling
  PROVE  LET n == [h EXCEPT !.at = "close", !.inst.status = "compensated"]
         IN /\ n \in Handling /\ n.at = "close" /\ n.msg = h.msg
            /\ n.inst.status = "compensated" /\ n.inst.ids = h.inst.ids /\ n.inst.done = h.inst.done
BY DEF Handling, Instance, Status

\* The compensations that are sent name steps that took effect.
LEMMA CompensateKeeps ==
  ASSUME SagaInv, NEW w \in Worker, Compensate(w)
  PROVE  SagaInv'
<1> DEFINE h == handler[w]
           m == h.msg
           inst == h.inst
           n == [h EXCEPT !.at = "close", !.inst.status = "compensated"]
           c(i) == Msg("compensate", m.saga, StepList[i], i - 1, inst.ids)
<1>1. handler[w] # Idle
  BY DEF Compensate, Idle
<1>2. /\ h \in Handling /\ m \in Message /\ m.saga \in Saga /\ inst \in Instance
      /\ inst.ids \in SUBSET Id /\ HandlerTrue(h)
  BY <1>1, BusyTyped
<1>3. /\ n \in Handling /\ n.msg = m
      /\ n.inst.status = "compensated" /\ n.inst.ids = inst.ids /\ n.inst.done = inst.done /\ n.at = "close"
  <2>1. h \in Handling
    BY <1>2
  <2> HIDE DEF h
  <2> QED
    BY <2>1, ClosingSet
<1>4. MessageTrue(m) /\ CopyTrue(m.saga, inst)
  BY <1>2 DEF HandlerTrue
<1>5. PICK failed \in SUBSET ToCompensate(m, inst) :
        /\ sent' = sent \union {c(i) : i \in ToCompensate(m, inst) \ failed}
        /\ pending' = pending \union {c(i) : i \in ToCompensate(m, inst) \ failed}
        /\ cut' = IF failed = {} THEN cut ELSE cut \union {m.saga}
  BY DEF Compensate, Send
<1>6. handler' = [handler EXCEPT ![w] = n] /\ UNCHANGED <<row, disturbed, starter, plan, ran, undone>>
  BY DEF Compensate
<1>7. ASSUME NEW i \in ToCompensate(m, inst)
      PROVE  c(i) \in Message /\ MessageTrue(c(i))
  <2> DEFINE k == StepList[i]
  <2>1. ran[m.saga] \subseteq StepsOf(plan[m.saga])
    BY <1>2 DEF SagaInv, StarterTrue
  <2>2. i \in 1..2 /\ plan[m.saga] = BookingPlan /\ k \in Step /\ k \in inst.done
        /\ Place(BookingPlan, k) = i - 1
    BY <1>2, <1>4, <1>7, <2>1, ToCompensateTrue
  <2> HIDE DEF m, inst, k
  <2>3. c(i) \in Message
    BY <1>2, <2>2, MsgTyped DEF Kind, k
  <2>4. /\ c(i).kind = "compensate" /\ c(i).saga = m.saga /\ c(i).step = k
        /\ c(i).index = i - 1 /\ c(i).ids = inst.ids
    BY DEF Msg, k
  <2>5. k \in ran[m.saga] /\ Learns[k] \subseteq inst.ids
    BY <1>4, <2>2 DEF CopyTrue
  <2>6. BookingPlan \in Plan /\ StepsOf(BookingPlan) = Step
    BY DEF Plan, StepsOf
  <2> HIDE DEF c
  <2> QED
    BY <2>2, <2>3, <2>4, <2>5, <2>6 DEF MessageTrue
<1> HIDE DEF n, c
<1>8. \A x \in sent' \ sent : x \in Message /\ MessageTrue(x)
  BY <1>5, <1>7
<1>9. SagaTypeOK'
  <2>1. sent' \subseteq Message /\ pending' \subseteq sent' /\ cut' \subseteq Saga
    BY <1>2, <1>5, <1>8 DEF SagaInv, SagaTypeOK
  <2>2. handler' \in [Worker -> Handling \union {Idle}]
    BY <1>3, <1>6 DEF SagaInv, SagaTypeOK
  <2> QED
    BY <1>6, <2>1, <2>2 DEF SagaInv, SagaTypeOK
<1>10. HandlerTrue(n)
  BY <1>2, <1>3, <1>4 DEF HandlerTrue, CopyTrue
<1>11. \A v \in Worker : handler'[v] \in {handler[v], Idle} \/ HandlerTrue(handler'[v])
  BY <1>6, <1>10 DEF SagaInv, SagaTypeOK
<1>12. sent \subseteq sent'
  BY <1>5
<1> QED
  BY <1>6, <1>8, <1>9, <1>11, <1>12, QuietStep

\* The copy that was compensated is written back; a handler that gives up or
\* crashes, a redelivery and a record without a row change no copy.
LEMMA RestKeeps ==
  ASSUME SagaInv,
         \/ \E w \in Worker : Close(w) \/ GiveUp(w) \/ Crash(w)
         \/ \E m \in sent : TakeNothing(m) \/ Redeliver(m)
  PROVE  SagaInv'
<1>1. ASSUME NEW w \in Worker, Close(w)
      PROVE  SagaInv'
  <2>1. handler[w] # Idle
    BY <1>1 DEF Close, Idle
  <2> DEFINE s == handler[w].msg.saga
             i == handler[w].inst
  <2>2. s \in Saga /\ i \in Instance /\ CopyTrue(s, i)
    BY <2>1, BusyTyped DEF HandlerTrue
  <2>3. row' = [row EXCEPT ![s] = i] /\ handler' = [handler EXCEPT ![w] = Idle]
        /\ UNCHANGED <<sent, pending, disturbed, starter, plan, ran, undone, cut>>
    BY <1>1 DEF Close
  <2> HIDE DEF s, i
  <2>4. SagaTypeOK'
    BY <2>2, <2>3 DEF SagaInv, SagaTypeOK
  <2>5. \A z \in Saga : row'[z] = row[z] \/ (row'[z] \in Instance /\ CopyTrue(z, row'[z]))
    BY <2>2, <2>3 DEF SagaInv, SagaTypeOK
  <2>6. \A v \in Worker : handler'[v] \in {handler[v], Idle}
    BY <2>3 DEF SagaInv, SagaTypeOK
  <2> QED
    BY <2>3, <2>4, <2>5, <2>6, QuietStep
<1>2. ASSUME NEW w \in Worker, GiveUp(w) \/ Crash(w)
      PROVE  SagaInv'
  <2>1. handler[w] # Idle
    BY <1>2 DEF GiveUp, Crash
  <2> DEFINE m == handler[w].msg
  <2>2. m.saga \in Saga /\ (m.kind # "timeout" => m \in sent)
    BY <2>1, BusyTyped DEF HandlerTrue
  <2>3. /\ handler' = [handler EXCEPT ![w] = Idle]
        /\ disturbed' \in 0..MaxDisturbed
        /\ cut' \subseteq cut \union {m.saga}
        /\ pending' \subseteq sent
        /\ UNCHANGED <<row, sent, starter, plan, ran, undone>>
    <3>1. CASE GiveUp(w)
      BY <3>1 DEF GiveUp, Cut, SagaInv, SagaTypeOK
    <3>2. CASE Crash(w)
      BY <2>2, <3>2 DEF Crash, SagaInv, SagaTypeOK
    <3> QED
      BY <1>2, <3>1, <3>2
  <2>4. SagaTypeOK'
    BY <2>2, <2>3 DEF SagaInv, SagaTypeOK
  <2>5. \A v \in Worker : handler'[v] \in {handler[v], Idle}
    BY <2>3 DEF SagaInv, SagaTypeOK
  <2> QED
    BY <2>3, <2>4, <2>5, QuietStep
<1>3. ASSUME NEW m \in sent, TakeNothing(m) \/ Redeliver(m)
      PROVE  SagaInv'
  <2>1. /\ disturbed' \in 0..MaxDisturbed
        /\ pending' \subseteq sent
        /\ UNCHANGED <<row, sent, handler, starter, plan, ran, undone, cut>>
    BY <1>3 DEF TakeNothing, Redeliver, Consume, SagaInv, SagaTypeOK
  <2>2. SagaTypeOK'
    BY <2>1 DEF SagaInv, SagaTypeOK
  <2> QED
    BY <2>1, <2>2, QuietStep
<1> QED
  BY <1>1, <1>2, <1>3

\* A saga gets its plan once, with a first command nothing has to precede.
LEMMA StartsKeeps ==
  ASSUME SagaInv, NEW s \in Saga, Starts(s)
  PROVE  SagaInv' /\ [Chain!ChainNext]_(Chain!chainVars)
<1>1. SagaTypeOK /\ SagaTypeOK' /\ UNCHANGED <<handler, ran, undone>>
  BY StartsTyped DEF SagaInv, Starts, SaveBookingSaga, SendReserve, ReserveNotSent, WriteRunning,
     SavePostPaymentSaga, RunPostPaymentSaga, SendConfirm, StartStops
<1>2. StarterTrue(s) /\ CopyTrue(s, row[s])
  BY DEF SagaInv
<1>3. \A z \in Saga \ {s} : row'[z] = row[z] /\ starter'[z] = starter[z] /\ plan'[z] = plan[z]
  BY <1>1 DEF SagaTypeOK, Starts, SaveBookingSaga, SendReserve, ReserveNotSent, WriteRunning,
     SavePostPaymentSaga, RunPostPaymentSaga, SendConfirm, StartStops
<1>4. sent \subseteq sent'
  BY DEF Starts, SaveBookingSaga, SendReserve, ReserveNotSent, WriteRunning,
     SavePostPaymentSaga, RunPostPaymentSaga, SendConfirm, StartStops, Send
<1>5. ASSUME NEW p \in Plan, plan[s] = "none", plan' = [plan EXCEPT ![s] = p], starter[s] = "unused"
      PROVE  [Chain!ChainNext]_(Chain!chainVars)
  <2>1. Chain!Begin(s, p)
    BY <1>1, <1>5 DEF Chain!Begin, Chain!NoPlan
  <2> QED
    BY <1>5, <2>1 DEF Chain!ChainNext
<1>6. CASE plan' # plan
  <2>1. PICK p \in Plan :
          /\ plan' = [plan EXCEPT ![s] = p]
          /\ starter[s] = "unused" /\ starter' = [starter EXCEPT ![s] = "saved"]
          /\ \E ids \in SUBSET Id : row' = [row EXCEPT ![s] = NewInstance(ids)]
          /\ sent' = sent
    BY <1>6 DEF Starts, SaveBookingSaga, SendReserve, ReserveNotSent, WriteRunning,
       SavePostPaymentSaga, RunPostPaymentSaga, SendConfirm, StartStops, Plan
  <2>2. plan[s] = "none" /\ ran[s] = {} /\ p # "none"
    BY <1>2, <2>1 DEF StarterTrue, StepsOf, BookingPlan, PostPaymentPlan, Plan
  <2>3. plan'[s] = p /\ starter'[s] = "saved" /\ row'[s].status = "pending" /\ row'[s].done = {}
    BY <1>1, <2>1 DEF SagaTypeOK, NewInstance
  <2>4. Keeps
    BY <1>1, <1>3, <1>4, <2>2, <2>3 DEF Keeps, Plan, BookingPlan, PostPaymentPlan, SagaInv, StarterTrue
  <2>5. CopyTrue(s, row[s])'
    BY <2>3 DEF CopyTrue
  <2>6. StarterTrue(s)'
    BY <1>1, <2>2, <2>3 DEF StarterTrue, NoRow
  <2>7. \A z \in Saga \ {s} : StarterTrue(z)'
    BY <1>1, <1>3 DEF SagaInv, StarterTrue
  <2>8. SagaInv'
    BY <1>1, <1>3, <2>1, <2>4, <2>5, <2>6, <2>7, NewIsTrue
  <2> QED
    BY <1>5, <2>1, <2>2, <2>8
<1>7. CASE plan' = plan
  <2>1. Keeps
    BY <1>1, <1>4, <1>7 DEF Keeps, SagaInv, StarterTrue
  <2>2. ASSUME NEW m \in sent' \ sent
        PROVE  MessageTrue(m)'
    <3>1. CASE SendReserve(s)
      <4>1. m = Command(s, Reserve, 0, {})
        BY <2>2, <3>1 DEF SendReserve, Send
      <4> QED
        BY <1>7, <3>1, <4>1, PlanStarts DEF SendReserve, MessageTrue, Command, Msg, Plan
    <3>2. CASE SendConfirm(s)
      <4>1. m = Command(s, Confirm, 0, Id) /\ plan[s] = PostPaymentPlan
        BY <1>2, <2>2, <3>2 DEF SendConfirm, Send, StarterTrue
      <4> QED
        BY <1>7, <4>1, PlanStarts DEF MessageTrue, Command, Msg, Plan
    <3>3. CASE ~ (SendReserve(s) \/ SendConfirm(s))
      BY <2>2, <3>3 DEF Starts, SaveBookingSaga, ReserveNotSent, WriteRunning,
         SavePostPaymentSaga, RunPostPaymentSaga, StartStops
    <3> QED
      BY <3>1, <3>2, <3>3
  <2>3. row'[s] = row[s] \/ CopyTrue(s, row[s])'
    <3>1. CASE WriteRunning(s)
      <4>1. row'[s] = [NewInstance({}) EXCEPT !.status = "running"]
        BY <1>1, <3>1 DEF WriteRunning, SagaTypeOK
      <4>2. NewInstance({}) \in Instance /\ NewInstance({}).done = {}
        BY DEF NewInstance, Instance, Status
      <4>3. row'[s].status = "running" /\ row'[s].done = {}
        BY <4>1, <4>2, StatusSet DEF Status
      <4> QED
        BY <4>3 DEF CopyTrue
    <3>2. CASE RunPostPaymentSaga(s)
      <4>1. row[s] \in Instance /\ row'[s] = [row[s] EXCEPT !.status = "running"]
        BY <1>1, <1>2, <3>2 DEF RunPostPaymentSaga, StarterTrue, SagaTypeOK
      <4>2. row'[s].status = "running" /\ row'[s].done = row[s].done /\ row'[s].ids = row[s].ids
        BY <4>1, StatusSet DEF Status
      <4> QED
        BY <1>1, <1>2, <4>2 DEF CopyTrue
    <3>3. CASE ReserveNotSent(s)
      <4>1. row'[s] = NoRow
        BY <1>1, <3>3 DEF ReserveNotSent, SagaTypeOK
      <4> QED
        BY <4>1 DEF CopyTrue, NoRow
    <3>4. CASE SendReserve(s) \/ SendConfirm(s) \/ StartStops(s)
      BY <3>4 DEF SendReserve, SendConfirm, StartStops
    <3>5. ~ SaveBookingSaga(s) /\ ~ SavePostPaymentSaga(s)
      BY <1>1, <1>2, <1>7
         DEF SaveBookingSaga, SavePostPaymentSaga, StarterTrue, SagaTypeOK, BookingPlan, PostPaymentPlan
    <3> QED
      BY <3>1, <3>2, <3>3, <3>4, <3>5 DEF Starts
  <2>4. StarterTrue(s)'
    <3>1. plan'[s] = PostPaymentPlan => row'[s] # NoRow
      <4>1. CASE plan[s] = PostPaymentPlan
        <5>1. ~ ReserveNotSent(s)
          BY <4>1 DEF ReserveNotSent, BookingPlan, PostPaymentPlan
        <5>2. row[s] \in Instance
          BY <1>1, <1>2, <4>1 DEF StarterTrue, SagaTypeOK
        <5>3. row'[s] = row[s] \/ row'[s] \in Instance
          <6>1. [NewInstance({}) EXCEPT !.status = "running"] \in Instance
                /\ [row[s] EXCEPT !.status = "running"] \in Instance
                /\ NewInstance({}) \in Instance /\ NewInstance(Id) \in Instance
            BY <5>2 DEF NewInstance, Instance, Status
          <6> QED
            BY <1>1, <5>1, <6>1 DEF Starts, SaveBookingSaga, SendReserve, WriteRunning,
               SavePostPaymentSaga, RunPostPaymentSaga, SendConfirm, StartStops, SagaTypeOK
        <5> QED
          BY <5>2, <5>3 DEF Instance, NoRow, Status
      <4> QED
        BY <1>7, <4>1
    <3>2. starter'[s] # "unused" /\ starter[s] # "unused"
      <4>1. ~ SaveBookingSaga(s) /\ ~ SavePostPaymentSaga(s)
        BY <1>1, <1>2, <1>7
           DEF SaveBookingSaga, SavePostPaymentSaga, StarterTrue, SagaTypeOK, BookingPlan, PostPaymentPlan
      <4> QED
        BY <1>1, <4>1 DEF Starts, SendReserve, ReserveNotSent, WriteRunning,
           RunPostPaymentSaga, SendConfirm, StartStops, SagaTypeOK
    <3>3. starter'[s] = "running" => plan[s] = PostPaymentPlan
      BY <1>1, <1>2, <3>2 DEF Starts, SaveBookingSaga, SendReserve, ReserveNotSent, WriteRunning,
         SavePostPaymentSaga, RunPostPaymentSaga, SendConfirm, StartStops, SagaTypeOK
    <3> QED
      BY <1>1, <1>2, <1>7, <3>1, <3>2, <3>3 DEF StarterTrue
  <2>5. \A z \in Saga \ {s} : StarterTrue(z)'
    BY <1>1, <1>3 DEF SagaInv, StarterTrue
  <2>6. SagaInv'
    BY <1>1, <1>3, <2>1, <2>2, <2>3, <2>4, <2>5, NewIsTrue
  <2> QED
    BY <1>1, <1>7, <2>6 DEF Chain!chainVars
<1> QED
  BY <1>6, <1>7

\* A step takes effect after the steps before it, and is undone after it took
\* effect: the command and the compensation say so.
LEMMA WorksKeeps ==
  ASSUME SagaInv, NEW m \in sent, Works(m)
  PROVE  SagaInv' /\ [Chain!ChainNext]_(Chain!chainVars)
<1> DEFINE s == m.saga
           k == m.step
<1>1. m \in Message /\ s \in Saga /\ k \in Step /\ MessageTrue(m) /\ SagaTypeOK
  BY DEF SagaInv, SagaTypeOK, Message
<1>2. SagaTypeOK' /\ UNCHANGED <<row, handler, starter, plan>> /\ sent \subseteq sent'
  BY WorksTyped DEF Works, StepSucceeds, StepFails, AnswerLost, CommandDropped, Compensation, Consume
<1>3. /\ plan[s] \in Plan /\ k \in StepsOf(plan[s])
      /\ m.index = Place(plan[s], k)
      /\ m.kind = "command" => Before[plan[s]][k] \subseteq ran[s]
      /\ m.kind = "compensate" => k \in ran[s]
  BY <1>1 DEF MessageTrue
<1>4. \/ ran' = ran
      \/ m.kind = "command" /\ ran' = [ran EXCEPT ![s] = @ \union {k}] /\ undone' = undone
  BY DEF Works, StepSucceeds, StepFails, AnswerLost, MayRun, CommandDropped, Compensation
<1>5. Keeps
  BY <1>1, <1>2, <1>3, <1>4 DEF Keeps, SagaInv, StarterTrue, SagaTypeOK
<1>6. ASSUME NEW a \in sent' \ sent
      PROVE  MessageTrue(a)'
  <2>1. CASE StepSucceeds(m)
    <3>1. a = Msg("success", s, k, m.index, Learns[k]) /\ m.kind = "command"
      BY <1>6, <2>1 DEF StepSucceeds, Consume, Answer
    <3>2. k \in ran'[s]
      BY <1>1, <2>1 DEF StepSucceeds, SagaTypeOK
    <3>3. Before[plan[s]][k] \subseteq ran'[s]
      BY <1>1, <1>3, <1>5, <3>1 DEF Keeps
    <3>4. /\ a.kind = "success" /\ a.saga = s /\ a.step = k /\ a.index = m.index /\ a.ids = Learns[k]
      BY <3>1 DEF Msg
    <3> QED
      BY <1>2, <1>3, <3>2, <3>3, <3>4 DEF MessageTrue
  <2>2. CASE StepFails(m)
    <3>1. a = Msg("failure", s, k, m.index, {}) /\ m.kind = "command"
      BY <1>6, <2>2 DEF StepFails, Consume, Answer
    <3>2. /\ a.kind = "failure" /\ a.saga = s /\ a.step = k /\ a.index = m.index
      BY <3>1 DEF Msg
    <3>3. Before[plan[s]][k] \subseteq ran'[s]
      BY <1>1, <1>3, <1>5, <3>1 DEF Keeps
    <3> QED
      BY <1>2, <1>3, <3>2, <3>3 DEF MessageTrue
  <2>3. CASE AnswerLost(m) \/ CommandDropped(m) \/ Compensation(m)
    BY <1>6, <2>3 DEF AnswerLost, CommandDropped, Compensation, Consume
  <2> QED
    BY <2>1, <2>2, <2>3 DEF Works
<1>7. \A z \in Saga : StarterTrue(z)'
  BY <1>2, <1>5 DEF SagaInv, StarterTrue, Keeps
<1>8. SagaInv'
  BY <1>2, <1>5, <1>6, <1>7, NewIsTrue
<1>9. [Chain!ChainNext]_(Chain!chainVars)
  <2>1. CASE Compensation(m) /\ undone' # undone
    <3>1. Chain!Undo(s, k)
      BY <1>3, <2>1 DEF Compensation, Chain!Undo
    <3> QED
      BY <1>1, <3>1 DEF Chain!ChainNext
  <2>2. CASE ran' # ran
    <3>1. Chain!Run(s, k)
      BY <1>2, <1>3, <1>4, <2>2 DEF Chain!Run
    <3> QED
      BY <1>1, <3>1 DEF Chain!ChainNext
  <2>3. CASE ran' = ran /\ undone' = undone
    BY <1>2, <2>3 DEF Chain!chainVars
  <2>4. ran' = ran \/ undone' = undone
    BY <1>4
  <2>5. undone' = undone \/ Compensation(m)
    BY DEF Works, StepSucceeds, StepFails, AnswerLost, CommandDropped
  <2> QED
    BY <2>1, <2>2, <2>3, <2>5
<1> QED
  BY <1>8, <1>9

\* Nothing else touches what the chain of steps is about.
LEMMA SagaStep ==
  ASSUME SagaInv, [SagaNext]_sagaVars
  PROVE  SagaInv' /\ [Chain!ChainNext]_(Chain!chainVars)
<1>1. ASSUME NEW s \in Saga, Starts(s)
      PROVE  SagaInv' /\ [Chain!ChainNext]_(Chain!chainVars)
  BY <1>1, StartsKeeps
<1>2. ASSUME NEW m \in sent, Works(m)
      PROVE  SagaInv' /\ [Chain!ChainNext]_(Chain!chainVars)
  BY <1>2, WorksKeeps
<1>3. ASSUME NEW m \in sent, TakeNothing(m) \/ Redeliver(m)
      PROVE  SagaInv' /\ [Chain!ChainNext]_(Chain!chainVars)
  <2>1. SagaInv'
    BY <1>3, RestKeeps
  <2> QED
    BY <1>3, <2>1 DEF TakeNothing, Redeliver, Chain!chainVars
<1>4. ASSUME NEW w \in Worker, NEW m \in sent, Take(w, m) \/ TimeUp(w, m)
      PROVE  SagaInv' /\ [Chain!ChainNext]_(Chain!chainVars)
  <2>1. SagaInv'
    BY <1>4, TakeKeeps, TimeUpKeeps
  <2> QED
    BY <1>4, <2>1 DEF Take, TimeUp, Chain!chainVars
<1>5. ASSUME NEW w \in Worker, Handles(w) \/ GiveUp(w) \/ Crash(w)
      PROVE  SagaInv' /\ [Chain!ChainNext]_(Chain!chainVars)
  <2>1. SagaInv'
    BY <1>5, StoreKeeps, StoreFailsKeeps, SendNextKeeps, AnnounceKeeps, CompensateKeeps, RestKeeps DEF Handles
  <2>2. UNCHANGED <<plan, ran, undone>>
    BY <1>5 DEF Handles, Store, StoreFails, SendNext, Announce, Compensate, Close, GiveUp, Crash
  <2> QED
    BY <2>1, <2>2 DEF Chain!chainVars
<1>6. CASE UNCHANGED sagaVars
  <2>1. SagaTypeOK'
    BY <1>6 DEF sagaVars, SagaInv, SagaTypeOK
  <2>2. SagaInv'
    BY <1>6, <2>1, QuietStep DEF sagaVars
  <2> QED
    BY <1>6, <2>2 DEF sagaVars, Chain!chainVars
<1> QED
  BY <1>1, <1>2, <1>3, <1>4, <1>5, <1>6 DEF SagaNext
-----------------------------------------------------------------------------
\* What every message and every copy of a row says is true, in every state.
LEMMA SagaInvariant == SagaSpec => []SagaInv
<1>1. SagaInv /\ [SagaNext]_sagaVars => SagaInv'
  BY SagaStep
<1> QED
  BY SagaInitInv, <1>1, PTL DEF SagaSpec

\* Every variable has its type.
THEOREM SagaTypeSafe == SagaSpec => []SagaTypeOK
<1>1. SagaInv => SagaTypeOK
  BY DEF SagaInv
<1> QED
  BY <1>1, SagaInvariant, PTL

\* However records are repeated and delayed and however many orchestrators work
\* on a saga, its steps take effect in the order of its definition and only
\* steps that took effect are undone (HandleStepSuccess, startCompensation).
THEOREM SagasImplementChain == SagaSpec => ImplementsChain
<1>1. SagaInit => Chain!ChainInit
  BY DEF SagaInit, Chain!ChainInit, Chain!NoPlan
<1>2. SagaInv /\ [SagaNext]_sagaVars => [Chain!ChainNext]_(Chain!chainVars)
  BY SagaStep
<1> QED
  BY <1>1, <1>2, SagaInvariant, PTL DEF SagaSpec, ImplementsChain, Chain!ChainSpec

\* A saga that is reported completed, by whichever copy was written last, is
\* one whose every step took effect (completeSaga).
THEOREM CompletedSagasTookEffect == SagaSpec => []CompletedTookEffect
<1>1. SagaInv => CompletedTookEffect
  BY PlanEnds DEF SagaInv, CopyTrue, CompletedTookEffect
<1> QED
  BY <1>1, SagaInvariant, PTL

\* No compensation is sent for a step that did not take effect or without the
\* identifier of what it undoes (startCompensation, HandleTimeout).
THEOREM CompensationsAreNamed == SagaSpec => []CompensationsNamed
<1>1. SagaInv => CompensationsNamed
  BY DEF SagaInv, MessageTrue, CompensationsNamed
<1> QED
  BY <1>1, SagaInvariant, PTL

\* The order holds from the start and survives every step of the chain.
LEMMA ChainOrder ==
  /\ Chain!ChainInit => Chain!InOrder
  /\ SagaTypeOK /\ Chain!InOrder /\ [Chain!ChainNext]_(Chain!chainVars) => Chain!InOrder'
<1>1. ASSUME Chain!ChainInit
      PROVE  Chain!InOrder
  <2>1. \A s \in Saga : ran[s] = {} /\ undone[s] = {}
    BY <1>1 DEF Chain!ChainInit
  <2> QED
    BY <2>1 DEF Chain!InOrder
<1>2. ASSUME SagaTypeOK, Chain!InOrder, NEW s \in Saga, NEW p \in Plan, Chain!Begin(s, p)
      PROVE  Chain!InOrder'
  <2>1. plan[s] = Chain!NoPlan /\ plan' = [plan EXCEPT ![s] = p] /\ ran' = ran /\ undone' = undone
    BY <1>2 DEF Chain!Begin
  <2>2. plan'[s] = p /\ \A t \in Saga \ {s} : plan'[t] = plan[t]
    BY <1>2, <2>1 DEF SagaTypeOK
  <2>3. ran[s] = {} /\ undone[s] = {}
    BY <1>2, <2>1 DEF Chain!InOrder
  <2> QED
    BY <1>2, <2>1, <2>2, <2>3 DEF Chain!InOrder
<1>3. ASSUME SagaTypeOK, Chain!InOrder, NEW s \in Saga, NEW k \in Step, Chain!Run(s, k)
      PROVE  Chain!InOrder'
  <2>1. /\ plan[s] # Chain!NoPlan
        /\ Before[plan[s]][k] \subseteq ran[s]
        /\ ran' = [ran EXCEPT ![s] = @ \union {k}] /\ plan' = plan /\ undone' = undone
    BY <1>3 DEF Chain!Run, Chain!NoPlan, Plan, BookingPlan, PostPaymentPlan
  <2>2. ran'[s] = ran[s] \union {k} /\ \A t \in Saga \ {s} : ran'[t] = ran[t]
    BY <1>3, <2>1 DEF SagaTypeOK
  <2> QED
    BY <1>3, <2>1, <2>2 DEF Chain!InOrder
<1>4. ASSUME SagaTypeOK, Chain!InOrder, NEW s \in Saga, NEW k \in Step, Chain!Undo(s, k)
      PROVE  Chain!InOrder'
  <2>1. k \in ran[s] /\ undone' = [undone EXCEPT ![s] = @ \union {k}] /\ plan' = plan /\ ran' = ran
    BY <1>4 DEF Chain!Undo
  <2>2. undone'[s] = undone[s] \union {k} /\ \A t \in Saga \ {s} : undone'[t] = undone[t]
    BY <1>4, <2>1 DEF SagaTypeOK
  <2> QED
    BY <1>4, <2>1, <2>2 DEF Chain!InOrder
<1>5. ASSUME Chain!InOrder, UNCHANGED Chain!chainVars
      PROVE  Chain!InOrder'
  BY <1>5 DEF Chain!InOrder, Chain!chainVars
<1>6. ASSUME SagaTypeOK, Chain!InOrder, Chain!ChainNext
      PROVE  Chain!InOrder'
  BY <1>2, <1>3, <1>4, <1>6 DEF Chain!ChainNext
<1> QED
  BY <1>1, <1>5, <1>6

\* Neither duplicates nor delays nor orchestrators that overwrite each other make
\* a step take effect before the steps its saga needs first, or undo one that
\* never took effect.
THEOREM StepsInOrder == SagaSpec => []Chain!InOrder
<1>1. SagaInv => SagaTypeOK
  BY DEF SagaInv
<1> QED
  BY <1>1, SagaInvariant, SagasImplementChain, ChainOrder, PTL DEF ImplementsChain, Chain!ChainSpec
-----------------------------------------------------------------------------
(***************************************************************************)
(* Nothing is stranded.  A saga that has not ended is in somebody's hands, *)
(* because whoever may take it out of its end goes on with it: a handler   *)
(* that writes a saga and stops has written it as ended.                   *)
(***************************************************************************)
Finishes(h) ==
  /\ h.at = "store" /\ h.msg.kind = "success" /\ NextStep[h.msg.step] = NoStep => h.inst.status = "completed"
  /\ h.at = "close" => h.inst.status = "compensated"

GoingInv ==
  /\ NoneStranded
  /\ \A s \in Saga : plan[s] # "none" => row[s] # NoRow \/ s \in cut
  /\ \A w \in Worker : handler[w] # Idle => Finishes(handler[w])

Moving == {"command", "success", "failure"}

\* A saga whose row, start, records and handlers a step leaves alone stays in hand.
LEMMA StaysInHand ==
  ASSUME NoneStranded, NEW s \in Saga,
         row'[s] = row[s], plan'[s] = plan[s], starter'[s] = starter[s], cut \subseteq cut',
         \A m \in pending : m.saga = s /\ m.kind \in Moving => m \in pending',
         \A w \in Worker : handler[w] # Idle /\ handler[w].msg.saga = s =>
                             handler'[w] # Idle /\ handler'[w].msg.saga = s
  PROVE  plan'[s] # "none" => Ended(s)' \/ Underway(s)' \/ s \in cut'
BY DEF NoneStranded, Ended, Underway, Moving

\* What a message is and whose, whatever else it says.
LEMMA MsgSays ==
  ASSUME NEW kind, NEW s, NEW k, NEW i, NEW ids
  PROVE  Msg(kind, s, k, i, ids).kind = kind /\ Msg(kind, s, k, i, ids).saga = s
BY DEF Msg

\* The start of a saga holds it until its first command is sent.
LEMMA StartsGoing ==
  ASSUME SagaInv, GoingInv, NEW s \in Saga, Starts(s)
  PROVE  GoingInv'
<1>1. /\ row \in [Saga -> Instance \union {NoRow}] /\ plan \in [Saga -> Plan \union {"none"}]
      /\ starter \in [Saga -> {"unused", "saved", "sent", "running", "started", "failed"}]
  BY DEF SagaInv, SagaTypeOK
<1>2. handler' = handler /\ pending \subseteq pending' /\ cut \subseteq cut'
  BY DEF Starts, SaveBookingSaga, SendReserve, ReserveNotSent, WriteRunning, SavePostPaymentSaga,
         RunPostPaymentSaga, SendConfirm, StartStops, Send, Cut
<1>3. \A t \in Saga \ {s} : row'[t] = row[t] /\ plan'[t] = plan[t] /\ starter'[t] = starter[t]
  BY <1>1 DEF Starts, SaveBookingSaga, SendReserve, ReserveNotSent, WriteRunning, SavePostPaymentSaga,
              RunPostPaymentSaga, SendConfirm, StartStops
<1>4. NewInstance({}).status = "pending" /\ NewInstance(Id).status = "pending"
      /\ [NewInstance({}) EXCEPT !.status = "running"].status = "running" /\ NoRow.status = "none"
  BY DEF NewInstance, NoRow
<1>5. /\ plan'[s] # "none" => row'[s] # NoRow \/ s \in cut'
      /\ plan'[s] # "none" => Ended(s)' \/ Underway(s)' \/ s \in cut'
  <2>1. CASE SaveBookingSaga(s) \/ SavePostPaymentSaga(s)
    <3>1. starter'[s] = "saved" /\ row'[s] \in {NewInstance({}), NewInstance(Id)}
      BY <1>1, <2>1 DEF SaveBookingSaga, SavePostPaymentSaga
    <3> QED
      BY <1>4, <3>1 DEF Underway
  <2>2. CASE SendReserve(s) \/ SendConfirm(s)
    <3>1. row'[s] = row[s] /\ plan'[s] = plan[s]
      BY <2>2 DEF SendReserve, SendConfirm
    <3>2. PICK c \in {Command(s, Reserve, 0, {}), Command(s, Confirm, 0, Id)} : pending' = pending \union {c}
      BY <2>2 DEF SendReserve, SendConfirm, Send
    <3>3. c.saga = s /\ c.kind = "command" /\ c \in pending'
      BY <3>2, MsgSays DEF Command
    <3> QED
      BY <1>2, <3>1, <3>3 DEF GoingInv, Underway
  <2>3. CASE ReserveNotSent(s) \/ StartStops(s)
    BY <2>3 DEF ReserveNotSent, StartStops, Cut
  <2>4. CASE WriteRunning(s)
    <3>1. row'[s].status = "running" /\ plan'[s] = plan[s] /\ pending' = pending /\ starter[s] = "sent"
      BY <1>1, <1>4, <2>4 DEF WriteRunning
    <3>2. CASE row[s] = NewInstance({})
      <4>1. ~ Ended(s)
        BY <1>4, <3>2 DEF Ended
      <4>2. plan'[s] # "none" => Underway(s)' \/ s \in cut'
        BY <1>2, <3>1, <4>1 DEF GoingInv, NoneStranded, Underway
      <4> QED
        BY <1>4, <3>1, <4>2
    <3>3. CASE row[s] # NewInstance({})
      BY <2>4, <3>3 DEF WriteRunning
    <3> QED
      BY <3>2, <3>3
  <2>5. CASE RunPostPaymentSaga(s)
    <3>1. starter'[s] = "running"
      BY <1>1, <2>5 DEF RunPostPaymentSaga
    <3>2. row[s] \in Instance
      BY <1>1, <2>5 DEF RunPostPaymentSaga, SagaInv, StarterTrue
    <3>3. row'[s] = [row[s] EXCEPT !.status = "running"]
      BY <1>1, <2>5 DEF RunPostPaymentSaga
    <3>4. row'[s].status = "running"
      BY <3>2, <3>3, StatusSet DEF Status
    <3> QED
      BY <1>4, <3>1, <3>4 DEF Underway
  <2> QED
    BY <2>1, <2>2, <2>3, <2>4, <2>5 DEF Starts
<1>6. NoneStranded'
  <2> SUFFICES ASSUME NEW t \in Saga, plan'[t] # "none"
               PROVE  Ended(t)' \/ Underway(t)' \/ t \in cut'
    BY DEF NoneStranded
  <2>1. CASE t = s
    BY <1>5, <2>1
  <2>2. CASE t # s
    BY <1>2, <1>3, <2>2, StaysInHand DEF GoingInv
  <2> QED
    BY <2>1, <2>2
<1>7. \A t \in Saga : plan'[t] # "none" => row'[t] # NoRow \/ t \in cut'
  BY <1>2, <1>3, <1>5 DEF GoingInv
<1>8. \A w \in Worker : handler'[w] # Idle => Finishes(handler'[w])
  BY <1>2 DEF GoingInv
<1> QED
  BY <1>6, <1>7, <1>8 DEF GoingInv, Finishes

\* A record is answered, or what is lost is on record as lost.
LEMMA RecordsGoing ==
  ASSUME SagaInv, GoingInv, NEW m \in sent, Works(m) \/ TakeNothing(m) \/ Redeliver(m)
  PROVE  GoingInv'
<1>1. m \in Message /\ m.saga \in Saga /\ plan[m.saga] \in Plan
  BY DEF SagaInv, SagaTypeOK, Message, MessageTrue
<1>2. /\ UNCHANGED <<row, handler, starter, plan>> /\ cut \subseteq cut'
      /\ pending \ {m} \subseteq pending'
  BY DEF Works, StepSucceeds, StepFails, AnswerLost, CommandDropped, Compensation, TakeNothing, Redeliver,
         Consume, Cut
<1>3. Ended(m.saga)' \/ Underway(m.saga)' \/ m.saga \in cut'
  <2>1. CASE StepSucceeds(m) \/ StepFails(m)
    <3>1. PICK a \in {Msg("success", m.saga, m.step, m.index, Learns[m.step]),
                      Msg("failure", m.saga, m.step, m.index, {})} : a \in pending'
      BY <2>1 DEF StepSucceeds, StepFails, Consume, Answer
    <3>2. a.saga = m.saga /\ a.kind \in {"success", "failure"}
      BY <3>1, MsgSays
    <3> QED
      BY <3>1, <3>2 DEF Underway
  <2>2. CASE AnswerLost(m) \/ CommandDropped(m)
    BY <2>2 DEF AnswerLost, CommandDropped, Cut
  <2>3. CASE Compensation(m)
    <3>1. m.kind = "compensate"
      BY <2>3 DEF Compensation
    <3> QED
      BY <1>1, <1>2, <3>1, StaysInHand DEF GoingInv, Moving, Plan, BookingPlan, PostPaymentPlan
  <2>4. CASE TakeNothing(m)
    BY <1>1, <1>2, <2>4 DEF TakeNothing, GoingInv, Plan, BookingPlan, PostPaymentPlan
  <2>5. CASE Redeliver(m)
    <3>1. pending \subseteq pending'
      BY <2>5 DEF Redeliver
    <3> QED
      BY <1>1, <1>2, <3>1, StaysInHand DEF GoingInv, Moving, Plan, BookingPlan, PostPaymentPlan
  <2> QED
    BY <2>1, <2>2, <2>3, <2>4, <2>5 DEF Works
<1>4. NoneStranded'
  <2> SUFFICES ASSUME NEW t \in Saga, plan'[t] # "none"
               PROVE  Ended(t)' \/ Underway(t)' \/ t \in cut'
    BY DEF NoneStranded
  <2>1. CASE t = m.saga
    BY <1>3, <2>1
  <2>2. CASE t # m.saga
    BY <1>2, <2>2, StaysInHand DEF GoingInv
  <2> QED
    BY <2>1, <2>2
<1> QED
  BY <1>2, <1>4 DEF GoingInv, Finishes

\* Who takes a record, or a time-out, has the saga in hand.
LEMMA TakesGoing ==
  ASSUME SagaInv, GoingInv, NEW w \in Worker, NEW m \in sent, Take(w, m) \/ TimeUp(w, m)
  PROVE  GoingInv'
<1>1. m \in Message /\ m.saga \in Saga
  BY DEF SagaInv, SagaTypeOK, Message
<1>2. /\ UNCHANGED <<row, starter, plan, cut>> /\ pending \ {m} \subseteq pending' /\ handler[w] = Idle
  BY DEF Take, TimeUp, Consume
<1>3. row[m.saga] \in Instance
  <2>1. row[m.saga] \in Instance \union {NoRow}
    BY <1>1 DEF SagaInv, SagaTypeOK
  <2>2. NoRow.status = "none"
    BY DEF NoRow
  <2>3. row[m.saga] # NoRow
    BY <2>2 DEF Take, TimeUp
  <2> QED
    BY <2>1, <2>3
<1>4. PICK msg, inst :
        /\ handler' = [handler EXCEPT ![w] = [at |-> "store", msg |-> msg, inst |-> inst]]
        /\ msg.saga = m.saga
        /\ msg.kind = "success" => msg = m /\ inst = Advanced(m)
  <2>1. CASE Take(w, m)
    BY <2>1 DEF Take, Begins
  <2>2. CASE TimeUp(w, m)
    <3>1. Msg("timeout", m.saga, m.step, m.index, {}).kind = "timeout"
          /\ Msg("timeout", m.saga, m.step, m.index, {}).saga = m.saga
      BY DEF Msg
    <3> QED
      BY <2>2, <3>1 DEF TimeUp, Begins
  <2> QED
    BY <2>1, <2>2
<1>5. PICK h : h = [at |-> "store", msg |-> msg, inst |-> inst]
  OBVIOUS
<1>6. h.at = "store" /\ h.msg = msg /\ h.inst = inst /\ h # Idle
  BY <1>5 DEF Idle
<1>7. handler'[w] = h /\ \A v \in Worker \ {w} : handler'[v] = handler[v]
  BY <1>4, <1>5 DEF SagaInv, SagaTypeOK
<1>8. Finishes(h)
  <2>1. msg.kind = "success" /\ NextStep[msg.step] = NoStep => inst.status = "completed"
    BY <1>1, <1>3, <1>4, AdvancedTyped
  <2> QED
    BY <1>6, <2>1 DEF Finishes
<1>9. NoneStranded'
  <2> SUFFICES ASSUME NEW t \in Saga, plan'[t] # "none"
               PROVE  Ended(t)' \/ Underway(t)' \/ t \in cut'
    BY DEF NoneStranded
  <2>1. CASE t = m.saga
    BY <1>4, <1>6, <1>7, <2>1 DEF Underway
  <2>2. CASE t # m.saga
    BY <1>2, <1>7, <2>2, StaysInHand DEF GoingInv
  <2> QED
    BY <2>1, <2>2
<1> QED
  BY <1>2, <1>7, <1>8, <1>9 DEF GoingInv, Finishes

\* A handler that keeps its saga, or leaves it ended, in hand or cut, does no harm.
LEMMA HandlerMoves ==
  ASSUME SagaInv, GoingInv, NEW w \in Worker, handler[w] # Idle,
         NEW s \in Saga, s = handler[w].msg.saga,
         NEW h, handler' = [handler EXCEPT ![w] = h],
         UNCHANGED <<starter, plan>>, pending \subseteq pending', cut \subseteq cut',
         \A t \in Saga \ {s} : row'[t] = row[t],
         row'[s] = row[s] \/ row'[s] # NoRow,
         h # Idle => h.msg.saga = s /\ Finishes(h),
         h = Idle => Ended(s)' \/ Underway(s)' \/ s \in cut'
  PROVE  GoingInv'
<1>1. handler'[w] = h /\ \A v \in Worker \ {w} : handler'[v] = handler[v]
  BY DEF SagaInv, SagaTypeOK
<1>2. NoneStranded'
  <2> SUFFICES ASSUME NEW t \in Saga, plan'[t] # "none"
               PROVE  Ended(t)' \/ Underway(t)' \/ t \in cut'
    BY DEF NoneStranded
  <2>1. CASE t = s /\ h = Idle
    BY <2>1
  <2>2. CASE t = s /\ h # Idle
    BY <1>1, <2>2 DEF Underway
  <2>3. CASE t # s
    BY <1>1, <2>3, StaysInHand DEF GoingInv
  <2> QED
    BY <2>1, <2>2, <2>3
<1> QED
  BY <1>1, <1>2 DEF GoingInv, Finishes

\* Each step of a handler, its failures and its crash are such moves.
LEMMA HandlersGoing ==
  ASSUME SagaInv, GoingInv, NEW w \in Worker, Handles(w) \/ GiveUp(w) \/ Crash(w)
  PROVE  GoingInv'
<1>1. handler[w] # Idle
  BY DEF Handles, Store, StoreFails, SendNext, Announce, Compensate, Close, GiveUp, Crash, Idle
<1>2. PICK h : h = handler[w]
  OBVIOUS
<1>3. /\ h \in Handling /\ h.msg \in Message /\ h.msg.saga \in Saga
      /\ h.inst \in Instance /\ HandlerTrue(h) /\ Finishes(h)
  BY <1>1, <1>2, BusyTyped DEF GoingInv
<1>4. PICK s \in Saga : s = h.msg.saga
  BY <1>3
<1>5. h.inst # NoRow /\ row \in [Saga -> Instance \union {NoRow}]
  BY <1>3 DEF Instance, Status, NoRow, SagaInv, SagaTypeOK
<1>6. CASE Store(w)
  <2>1. row'[s] = h.inst /\ (\A t \in Saga \ {s} : row'[t] = row[t]) /\ UNCHANGED <<pending, starter, plan, cut>>
    BY <1>2, <1>4, <1>5, <1>6 DEF Store
  <2>2. CASE h.msg.kind = "success" /\ NextStep[h.msg.step] = NoStep
    <3>1. handler' = [handler EXCEPT ![w] = Idle] /\ h.at = "store"
      BY <1>2, <1>6, <2>2 DEF Store
    <3>2. Ended(s)'
      BY <1>3, <2>1, <2>2, <3>1 DEF Finishes, Ended
    <3> QED
      BY <1>1, <1>2, <1>4, <1>5, <2>1, <3>1, <3>2, HandlerMoves
  <2>3. CASE ~ (h.msg.kind = "success" /\ NextStep[h.msg.step] = NoStep)
    <3>1. PICK a \in {"compensate", "announce", "send"} : handler' = [handler EXCEPT ![w] = [h EXCEPT !.at = a]]
      BY <1>2, <1>6, <2>3 DEF Store
    <3>2. PICK n : n = [h EXCEPT !.at = a]
      OBVIOUS
    <3>3. n \in Handling /\ n.at = a /\ n.msg = h.msg
      <4>1. a \in {"store", "send", "announce", "compensate", "close"}
        OBVIOUS
      <4> QED
        BY <1>3, <3>2, <4>1, AtSet, Zenon
    <3>4. n # Idle /\ Finishes(n)
      BY <3>3 DEF Finishes, Idle
    <3>5. handler' = [handler EXCEPT ![w] = n]
      BY <3>1, <3>2
    <3> QED
      BY <1>1, <1>2, <1>4, <1>5, <2>1, <3>3, <3>4, <3>5, HandlerMoves
  <2> QED
    BY <2>2, <2>3
<1>7. CASE SendNext(w)
  <2>1. /\ handler' = [handler EXCEPT ![w] = Idle] /\ UNCHANGED <<row, starter, plan, cut>>
        /\ pending' = pending \union {Command(s, NextStep[h.msg.step], h.msg.index + 1, h.inst.ids)}
    BY <1>2, <1>4, <1>7 DEF SendNext, Send
  <2>2. PICK c : c = Command(s, NextStep[h.msg.step], h.msg.index + 1, h.inst.ids)
    OBVIOUS
  <2>3. c.saga = s /\ c.kind = "command"
    BY <2>2, MsgSays DEF Command
  <2>4. pending \subseteq pending' /\ c \in pending'
    BY <2>1, <2>2
  <2>5. Underway(s)'
    BY <2>3, <2>4 DEF Underway
  <2> QED
    BY <1>1, <1>2, <1>4, <2>1, <2>4, <2>5, HandlerMoves
<1>8. CASE Announce(w)
  <2>1. /\ handler' = [handler EXCEPT ![w] = [h EXCEPT !.at = "compensate"]]
        /\ UNCHANGED <<row, starter, plan, cut>> /\ pending \subseteq pending'
    BY <1>2, <1>8 DEF Announce, Send
  <2>2. PICK n : n = [h EXCEPT !.at = "compensate"]
    OBVIOUS
  <2>3. n \in Handling /\ n.at = "compensate" /\ n.msg = h.msg
    BY <1>3, <2>2, AtSet
  <2>4. n # Idle /\ Finishes(n)
    BY <2>3 DEF Finishes, Idle
  <2>5. handler' = [handler EXCEPT ![w] = n]
    BY <2>1, <2>2
  <2> QED
    BY <1>1, <1>2, <1>4, <2>1, <2>3, <2>4, <2>5, HandlerMoves
<1>13. CASE StoreFails(w)
  <2>1. handler' = [handler EXCEPT ![w] = [h EXCEPT !.at = "announce"]] /\ UNCHANGED <<row, pending, starter, plan, cut>>
    BY <1>2, <1>13 DEF StoreFails
  <2>2. PICK n : n = [h EXCEPT !.at = "announce"]
    OBVIOUS
  <2>3. n \in Handling /\ n.at = "announce" /\ n.msg = h.msg
    BY <1>3, <2>2, AtSet
  <2>4. n # Idle /\ Finishes(n)
    BY <2>3 DEF Finishes, Idle
  <2>5. handler' = [handler EXCEPT ![w] = n]
    BY <2>1, <2>2
  <2> QED
    BY <1>1, <1>2, <1>4, <2>1, <2>3, <2>4, <2>5, HandlerMoves
<1>9. CASE Compensate(w)
  <2>1. /\ handler' = [handler EXCEPT ![w] = [h EXCEPT !.at = "close", !.inst.status = "compensated"]]
        /\ UNCHANGED <<row, starter, plan>> /\ pending \subseteq pending' /\ cut \subseteq cut'
    BY <1>2, <1>9 DEF Compensate, Send
  <2>2. PICK n : n = [h EXCEPT !.at = "close", !.inst.status = "compensated"]
    OBVIOUS
  <2>3. n \in Handling /\ n.at = "close" /\ n.msg = h.msg /\ n.inst.status = "compensated"
    BY <1>3, <2>2, ClosingSet
  <2>4. n # Idle /\ Finishes(n)
    BY <2>3 DEF Finishes, Idle
  <2>5. handler' = [handler EXCEPT ![w] = n]
    BY <2>1, <2>2
  <2> QED
    BY <1>1, <1>2, <1>4, <2>1, <2>3, <2>4, <2>5, HandlerMoves
<1>10. CASE Close(w)
  <2>1. /\ row'[s] = h.inst /\ (\A t \in Saga \ {s} : row'[t] = row[t]) /\ h.at = "close"
        /\ handler' = [handler EXCEPT ![w] = Idle] /\ UNCHANGED <<pending, starter, plan, cut>>
    BY <1>2, <1>4, <1>5, <1>10 DEF Close
  <2>2. Ended(s)'
    BY <1>3, <2>1 DEF Finishes, Ended
  <2> QED
    BY <1>1, <1>2, <1>4, <1>5, <2>1, <2>2, HandlerMoves
<1>11. CASE GiveUp(w)
  <2>1. /\ handler' = [handler EXCEPT ![w] = Idle] /\ UNCHANGED <<row, pending, starter, plan>>
        /\ s \in cut' /\ cut \subseteq cut'
    BY <1>2, <1>4, <1>11 DEF GiveUp, Cut
  <2> QED
    BY <1>1, <1>2, <1>4, <2>1, HandlerMoves
<1>12. CASE Crash(w)
  <2>1. /\ handler' = [handler EXCEPT ![w] = Idle] /\ UNCHANGED <<row, starter, plan>>
        /\ pending \subseteq pending' /\ cut \subseteq cut'
        /\ h.msg.kind = "timeout" => s \in cut'
        /\ h.msg.kind # "timeout" => h.msg \in pending'
    BY <1>2, <1>4, <1>12 DEF Crash
  <2>2. Underway(s)' \/ s \in cut'
    BY <1>3, <1>4, <2>1 DEF HandlerTrue, Underway
  <2> QED
    BY <1>1, <1>2, <1>4, <2>1, <2>2, HandlerMoves
<1> QED
  BY <1>6, <1>7, <1>8, <1>9, <1>10, <1>11, <1>12, <1>13 DEF Handles

\* Whatever is delivered twice or late and whoever overwrites whom: unless a message
\* or the row's content was lost, a saga that has not ended is in the hands of its
\* start, of a record or of a handler (EverySagaEnds adds that these go on).
THEOREM NoSagaStranded == SagaSpec => []NoneStranded
<1>1. SagaInit => GoingInv
  BY DEF SagaInit, GoingInv, NoneStranded
<1>2. ASSUME SagaInv, GoingInv, [SagaNext]_sagaVars
      PROVE  GoingInv'
  <2>1. CASE UNCHANGED sagaVars
    BY <1>2, <2>1 DEF sagaVars, GoingInv, NoneStranded, Ended, Underway, Finishes
  <2>2. CASE SagaNext
    BY <1>2, <2>2, StartsGoing, RecordsGoing, TakesGoing, HandlersGoing DEF SagaNext
  <2> QED
    BY <1>2, <2>1, <2>2
<1>3. GoingInv => NoneStranded
  BY DEF GoingInv
<1> QED
  BY <1>1, <1>2, <1>3, SagaInvariant, PTL DEF SagaSpec
=============================================================================
