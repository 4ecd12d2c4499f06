---------------------------- MODULE BookingSaga ----------------------------
(***************************************************************************)
(* The sagas that run over Kafka.  A booking saga is started by the API    *)
(* (reserve, pay, confirm, notify), a post-payment saga by a payment that  *)
(* succeeded (confirm, notify).  Step workers carry out commands and       *)
(* answer with events; the orchestrator reads the saga's row, changes its  *)
(* copy, writes the whole row back and sends the next command, or the      *)
(* compensations of the steps that were completed.                         *)
(*                                                                         *)
(* Several orchestrators work at once, each record may be delivered again, *)
(* and a record whose handler fails is committed all the same.             *)
(*                                                                         *)
(* A message carries the identifiers (of the booking, of the payment) that *)
(* the saga's data held when it was sent.  Lifecycle events, which nobody  *)
(* reads, current_step, which nobody decides on, and error texts are left  *)
(* out.                                                                    *)
(***************************************************************************)
EXTENDS Naturals

CONSTANTS
  Saga,          \* identifiers of sagas
  Worker,        \* orchestrator processes
  Timed,         \* steps a time-out is registered for; no binary registers any
  MaxDisturbed   \* bound on records delivered again and time-outs, together

ASSUME MaxDisturbedAssumption == MaxDisturbed \in Nat

VARIABLES
  row,          \* saga_instances
  sent,         \* every message sent so far
  pending,      \* messages nobody has taken, or whose offset was not committed
  disturbed,    \* how many records were delivered again or steps timed out
  handler,      \* what each orchestrator is doing
  starter,      \* where the start of each saga stands
  plan,         \* the definition each saga was started with
  ran,          \* steps that took effect
  undone,       \* steps that were compensated
  cut           \* sagas of which a message, or a write of the row, was lost

sagaVars == <<row, sent, pending, disturbed, handler, starter, plan, ran, undone, cut>>

Reserve == "reserve-seats"
Pay == "process-payment"
Confirm == "confirm-booking"
Notify == "send-notification"
Step == {Reserve, Pay, Confirm, Notify}
NoStep == "none"

BookingPlan == "booking-saga"
PostPaymentPlan == "post-payment-saga"
Plan == {BookingPlan, PostPaymentPlan}

\* Mutant: the booking is confirmed as soon as its seats are reserved.
NextStepSkipsPay ==
  [k \in Step |-> IF k \in {Reserve, Pay} THEN Confirm ELSE IF k = Confirm THEN Notify ELSE NoStep]

\* Mutant: the chain starts again after its last step.
NextStepWraps ==
  [k \in Step |-> IF k = Reserve THEN Pay ELSE IF k = Pay THEN Confirm
                  ELSE IF k = Confirm THEN Notify ELSE Reserve]

\* The orchestrator's chain of steps, whatever the definition.
NextStep ==
  [k \in Step |-> IF k = Reserve THEN Pay ELSE IF k = Pay THEN Confirm
                  ELSE IF k = Confirm THEN Notify ELSE NoStep]

\* The orchestrator's list of steps, whatever the definition, and the
\* definitions, which only the time-out handler consults.
StepList == <<Reserve, Pay, Confirm, Notify>>
DefinitionSteps ==
  [p \in Plan |-> IF p = BookingPlan THEN <<Reserve, Pay, Confirm>> ELSE <<Confirm, Notify>>]

\* Steps with a topic for their compensation.
Compensable == {Reserve, Pay}
\* What the answer of a step adds to the saga's data.
Learns == [k \in Step |-> IF k = Reserve THEN {"booking"} ELSE IF k = Pay THEN {"payment"} ELSE {}]

Id == {"booking", "payment"}
Kind == {"command", "success", "failure", "compensate", "timeout"}
Message ==
  [kind : Kind, saga : Saga, step : Step, index : 0..3, ids : SUBSET Id]
Msg(kind, s, k, i, ids) ==
  [kind |-> kind, saga |-> s, step |-> k, index |-> i, ids |-> ids]

Status == {"pending", "running", "completed", "compensating", "compensated"}
Instance == [status : Status, ids : SUBSET Id, done : SUBSET Step]
NoRow == [status |-> "none", ids |-> {}, done |-> {}]
NewInstance(ids) == [status |-> "pending", ids |-> ids, done |-> {}]
Ended(s) == row[s].status \in {"completed", "compensated"}

Idle == [at |-> "idle"]
Handling == [at : {"store", "send", "announce", "compensate", "close"}, msg : Message, inst : Instance]

SagaTypeOK ==
  /\ row \in [Saga -> Instance \union {NoRow}]
  /\ sent \subseteq Message
  /\ pending \subseteq sent
  /\ disturbed \in 0..MaxDisturbed
  /\ handler \in [Worker -> Handling \union {Idle}]
  /\ starter \in [Saga -> {"unused", "saved", "sent", "running", "started", "failed"}]
  /\ plan \in [Saga -> Plan \union {"none"}]
  /\ ran \in [Saga -> SUBSET Step]
  /\ undone \in [Saga -> SUBSET Step]
  /\ cut \subseteq Saga

SagaInit ==
  /\ row = [s \in Saga |-> NoRow]
  /\ sent = {}
  /\ pending = {}
  /\ disturbed = 0
  /\ handler = [w \in Worker |-> Idle]
  /\ starter = [s \in Saga |-> "unused"]
  /\ plan = [s \in Saga |-> "none"]
  /\ ran = [s \in Saga |-> {}]
  /\ undone = [s \in Saga |-> {}]
  /\ cut = {}

\* A record that is sent again is a new record: it has to be handled again.
Send(ms) ==
  /\ sent' = sent \union ms
  /\ pending' = pending \union ms
Consume(m, ms) ==
  /\ sent' = sent \union ms
  /\ pending' = (pending \ {m}) \union ms

Cut(s) == cut' = cut \union {s}

Command(s, k, i, ids) == Msg("command", s, k, i, ids)

(***************************************************************************)
(* The API starts a booking saga: save the row, send the first command,    *)
(* write the row again from the copy made before.                          *)
(***************************************************************************)
SaveBookingSaga(s) ==
  /\ starter[s] = "unused"
  /\ row' = [row EXCEPT ![s] = NewInstance({})]
  /\ starter' = [starter EXCEPT ![s] = "saved"]
  /\ plan' = [plan EXCEPT ![s] = BookingPlan]
  /\ UNCHANGED <<sent, pending, disturbed, handler, ran, undone, cut>>

SendReserve(s) ==
  /\ starter[s] = "saved"
  /\ plan[s] = BookingPlan
  /\ starter' = [starter EXCEPT ![s] = "sent"]
  /\ Send({Command(s, Reserve, 0, {})})
  /\ UNCHANGED <<row, disturbed, handler, plan, ran, undone, cut>>

\* The command could not be sent: the row is deleted.
ReserveNotSent(s) ==
  /\ starter[s] = "saved"
  /\ plan[s] = BookingPlan
  /\ starter' = [starter EXCEPT ![s] = "failed"]
  /\ row' = [row EXCEPT ![s] = NoRow]
  /\ Cut(s)
  /\ UNCHANGED <<sent, pending, disturbed, handler, plan, ran, undone>>

\* The caller's copy, as it was saved, over whatever has happened since.
WriteRunning(s) ==
  /\ starter[s] = "sent"
  /\ starter' = [starter EXCEPT ![s] = "started"]
  /\ row' = [row EXCEPT ![s] = [NewInstance({}) EXCEPT !.status = "running"]]
  /\ cut' = IF row[s] = NewInstance({}) THEN cut ELSE cut \union {s}
  /\ UNCHANGED <<sent, pending, disturbed, handler, plan, ran, undone>>

(***************************************************************************)
(* A payment succeeded: save the row, write it as running, then send the   *)
(* first command.  Nothing deletes the row if that fails.                  *)
(***************************************************************************)
SavePostPaymentSaga(s) ==
  /\ starter[s] = "unused"
  /\ row' = [row EXCEPT ![s] = NewInstance(Id)]
  /\ starter' = [starter EXCEPT ![s] = "saved"]
  /\ plan' = [plan EXCEPT ![s] = PostPaymentPlan]
  /\ UNCHANGED <<sent, pending, disturbed, handler, ran, undone, cut>>

RunPostPaymentSaga(s) ==
  /\ starter[s] = "saved"
  /\ plan[s] = PostPaymentPlan
  /\ starter' = [starter EXCEPT ![s] = "running"]
  /\ row' = [row EXCEPT ![s].status = "running"]
  /\ UNCHANGED <<sent, pending, disturbed, handler, plan, ran, undone, cut>>

SendConfirm(s) ==
  /\ starter[s] = "running"
  /\ starter' = [starter EXCEPT ![s] = "started"]
  /\ Send({Command(s, Confirm, 0, Id)})
  /\ UNCHANGED <<row, disturbed, handler, plan, ran, undone, cut>>

\* The process stops on the way, or Postgres or Kafka refuses: the saga stays
\* where it is.  The event that started it has been committed.
StartStops(s) ==
  /\ starter[s] \in {"saved", "sent", "running"}
  /\ starter' = [starter EXCEPT ![s] = "failed"]
  /\ Cut(s)
  /\ UNCHANGED <<row, sent, pending, disturbed, handler, plan, ran, undone>>

(***************************************************************************)
(* Step workers.                                                           *)
(***************************************************************************)
Answer(kind, m, ids) == {Msg(kind, m.saga, m.step, m.index, ids)}

\* Nobody can confirm a booking without its identifier; the command is
\* committed and never answered.
Answerable(m) == m.step = Confirm => "booking" \in m.ids

StepSucceeds(m) ==
  /\ m \in pending
  /\ m.kind = "command"
  /\ Answerable(m)
  /\ ran' = [ran EXCEPT ![m.saga] = @ \union {m.step}]
  /\ Consume(m, Answer("success", m, Learns[m.step]))
  /\ UNCHANGED <<row, disturbed, handler, starter, plan, undone, cut>>

MayRun(m) ==
  \/ ran' = [ran EXCEPT ![m.saga] = @ \union {m.step}]
  \/ UNCHANGED ran

\* A notification that fails goes to the dead letters and is reported as a success.
CanFail(m) == m.step # Notify

\* Mutant: a step that fails says nothing.
StepFailsSilently(m) ==
  /\ m \in pending
  /\ m.kind = "command"
  /\ Answerable(m)
  /\ CanFail(m)
  /\ MayRun(m)
  /\ Consume(m, {})
  /\ UNCHANGED <<row, disturbed, handler, starter, plan, undone, cut>>

\* A step that fails may have taken effect: seats taken, a charge made or a row
\* written whose answer was lost.
StepFails(m) ==
  /\ m \in pending
  /\ m.kind = "command"
  /\ Answerable(m)
  /\ CanFail(m)
  /\ MayRun(m)
  /\ Consume(m, Answer("failure", m, {}))
  /\ UNCHANGED <<row, disturbed, handler, starter, plan, undone, cut>>

\* The answer could not be sent, which is only logged.
AnswerLost(m) ==
  /\ m \in pending
  /\ m.kind = "command"
  /\ Answerable(m)
  /\ MayRun(m)
  /\ Consume(m, {})
  /\ Cut(m.saga)
  /\ UNCHANGED <<row, disturbed, handler, starter, plan, undone>>

CommandDropped(m) ==
  /\ m \in pending
  /\ m.kind = "command"
  /\ ~ Answerable(m)
  /\ Consume(m, {})
  /\ Cut(m.saga)
  /\ UNCHANGED <<row, disturbed, handler, starter, plan, ran, undone>>

\* Releases and refunds name what they undo, or do nothing; errors are logged.
Compensation(m) ==
  /\ m \in pending
  /\ m.kind = "compensate"
  /\ \/ /\ Learns[m.step] \subseteq m.ids
        /\ undone' = [undone EXCEPT ![m.saga] = @ \union {m.step}]
     \/ UNCHANGED undone
  /\ Consume(m, {})
  /\ UNCHANGED <<row, disturbed, handler, starter, plan, ran, cut>>

(***************************************************************************)
(* The orchestrator.  Handling a record starts with reading the row.       *)
(***************************************************************************)
\* Mutant: the result is recorded without its data.
AdvancedWithoutData(m) ==
  [row[m.saga] EXCEPT !.done = @ \union {m.step},
                      !.status = IF NextStep[m.step] = NoStep THEN "completed" ELSE @]

\* Mutant: the saga is completed by the booking's confirmation.
AdvancedToTheEnd(m) ==
  [row[m.saga] EXCEPT !.ids = @ \union m.ids,
                      !.done = @ \union {m.step},
                      !.status = IF m.step \in {Confirm, Notify} THEN "completed" ELSE @]

\* The copy of the row after a success: the result and its data are added, and
\* the last step completes the saga.  The status is not looked at.
Advanced(m) ==
  [row[m.saga] EXCEPT !.ids = @ \union m.ids,
                      !.done = @ \union {m.step},
                      !.status = IF NextStep[m.step] = NoStep THEN "completed" ELSE @]
Compensating(m) == [row[m.saga] EXCEPT !.status = "compensating"]

Begins(w, m, inst) ==
  handler' = [handler EXCEPT ![w] = [at |-> "store", msg |-> m, inst |-> inst]]

Take(w, m) ==
  /\ m \in pending
  /\ handler[w] = Idle
  /\ row[m.saga] # NoRow
  /\ \/ m.kind = "success" /\ Begins(w, m, Advanced(m))
     \/ m.kind = "failure" /\ Begins(w, m, Compensating(m))
  /\ Consume(m, {})
  /\ UNCHANGED <<row, disturbed, starter, plan, ran, undone, cut>>

\* The row is gone.
TakeNothing(m) ==
  /\ m \in pending
  /\ m.kind \in {"success", "failure"}
  /\ row[m.saga] = NoRow
  /\ Consume(m, {})
  /\ UNCHANGED <<row, disturbed, handler, starter, plan, ran, undone, cut>>

\* The time for a step is up: that matters while the saga runs and the step is
\* not among its results.
TimeUp(w, c) ==
  /\ c.kind = "command"
  /\ c.step \in Timed
  /\ disturbed < MaxDisturbed
  /\ disturbed' = disturbed + 1
  /\ handler[w] = Idle
  /\ row[c.saga].status = "running"
  /\ c.step \notin row[c.saga].done
  /\ Begins(w, Msg("timeout", c.saga, c.step, c.index, {}), Compensating(c))
  /\ UNCHANGED <<row, sent, pending, starter, plan, ran, undone, cut>>

Store(w) ==
  /\ handler[w].at = "store"
  /\ LET m == handler[w].msg
         next == IF m.kind = "failure" THEN "compensate"
                 ELSE IF m.kind = "timeout" THEN "announce" ELSE "send"
     IN /\ row' = [row EXCEPT ![m.saga] = handler[w].inst]
        /\ handler' = [handler EXCEPT ![w] = IF m.kind = "success" /\ NextStep[m.step] = NoStep
                                             THEN Idle ELSE [@ EXCEPT !.at = next]]
  /\ UNCHANGED <<sent, pending, disturbed, starter, plan, ran, undone, cut>>

\* The time-out handler logs that the row could not be written and goes on.
StoreFails(w) ==
  /\ handler[w].at = "store"
  /\ handler[w].msg.kind = "timeout"
  /\ handler' = [handler EXCEPT ![w] = [@ EXCEPT !.at = "announce"]]
  /\ UNCHANGED <<row, sent, pending, disturbed, starter, plan, ran, undone, cut>>

SendNext(w) ==
  /\ handler[w].at = "send"
  /\ LET m == handler[w].msg
     IN Send({Command(m.saga, NextStep[m.step], m.index + 1, handler[w].inst.ids)})
  /\ handler' = [handler EXCEPT ![w] = Idle]
  /\ UNCHANGED <<row, disturbed, starter, plan, ran, undone, cut>>

\* The time-out handler tells the orchestrator that the step failed; the
\* orchestrator's own HandleTimeout does not.
Announce(w) ==
  /\ handler[w].at = "announce"
  /\ handler' = [handler EXCEPT ![w] = [@ EXCEPT !.at = "compensate"]]
  /\ LET m == handler[w].msg
     IN \/ Send(Answer("failure", m, {}))
        \/ UNCHANGED <<sent, pending>>
  /\ UNCHANGED <<row, disturbed, starter, plan, ran, undone, cut>>

\* The completed steps before the one that failed which can be compensated.
ToCompensate(m, inst) ==
  LET steps == IF m.kind = "timeout" THEN DefinitionSteps[plan[m.saga]] ELSE StepList
  IN {i \in 1..m.index : steps[i] \in Compensable \intersect inst.done}

\* Sending a compensation may fail, which is only logged.
Compensate(w) ==
  /\ handler[w].at = "compensate"
  /\ LET m == handler[w].msg
         inst == handler[w].inst
     IN \E failed \in SUBSET ToCompensate(m, inst) :
          /\ Send({Msg("compensate", m.saga, StepList[i], i - 1, inst.ids) :
                     i \in ToCompensate(m, inst) \ failed})
          /\ cut' = IF failed = {} THEN cut ELSE cut \union {m.saga}
  /\ handler' = [handler EXCEPT ![w] = [@ EXCEPT !.at = "close", !.inst.status = "compensated"]]
  /\ UNCHANGED <<row, disturbed, starter, plan, ran, undone>>

Close(w) ==
  /\ handler[w].at = "close"
  /\ row' = [row EXCEPT ![handler[w].msg.saga] = handler[w].inst]
  /\ handler' = [handler EXCEPT ![w] = Idle]
  /\ UNCHANGED <<sent, pending, disturbed, starter, plan, ran, undone, cut>>

\* An error is logged and the record committed with the others of its batch.
GiveUp(w) ==
  /\ handler[w] # Idle
  /\ handler' = [handler EXCEPT ![w] = Idle]
  /\ Cut(handler[w].msg.saga)
  /\ UNCHANGED <<row, sent, pending, disturbed, starter, plan, ran, undone>>

\* A crash or a rebalance: the record is delivered again; a time-out is forgotten.
Crash(w) ==
  /\ handler[w] # Idle
  /\ disturbed < MaxDisturbed
  /\ disturbed' = disturbed + 1
  /\ handler' = [handler EXCEPT ![w] = Idle]
  /\ LET m == handler[w].msg
     IN IF m.kind = "timeout"
        THEN cut' = cut \union {m.saga} /\ UNCHANGED pending
        ELSE pending' = pending \union {m} /\ UNCHANGED cut
  /\ UNCHANGED <<row, sent, starter, plan, ran, undone>>

\* A commit that was lost.
Redeliver(m) ==
  /\ m \in sent \ pending
  /\ disturbed < MaxDisturbed
  /\ disturbed' = disturbed + 1
  /\ pending' = pending \union {m}
  /\ UNCHANGED <<row, sent, handler, starter, plan, ran, undone, cut>>

Starts(s) ==
  \/ SaveBookingSaga(s) \/ SendReserve(s) \/ ReserveNotSent(s) \/ WriteRunning(s)
  \/ SavePostPaymentSaga(s) \/ RunPostPaymentSaga(s) \/ SendConfirm(s) \/ StartStops(s)
Works(m) ==
  \/ StepSucceeds(m) \/ StepFails(m) \/ AnswerLost(m) \/ CommandDropped(m) \/ Compensation(m)
Handles(w) == Store(w) \/ StoreFails(w) \/ SendNext(w) \/ Announce(w) \/ Compensate(w) \/ Close(w)

SagaNext ==
  \/ \E s \in Saga : Starts(s)
  \/ \E m \in sent : Works(m) \/ TakeNothing(m) \/ Redeliver(m)
  \/ \E w \in Worker :
       \/ \E m \in sent : Take(w, m) \/ TimeUp(w, m)
       \/ Handles(w) \/ GiveUp(w) \/ Crash(w)

\* Consumers keep polling, and calls and handlers run to their end.
SagaSpec ==
  /\ SagaInit /\ [][SagaNext]_sagaVars
  /\ WF_sagaVars(\E s \in Saga : Starts(s))
  /\ WF_sagaVars(\E w \in Worker : Handles(w))
  /\ WF_sagaVars(\E m \in sent : Works(m) \/ TakeNothing(m) \/ \E w \in Worker : Take(w, m))
-----------------------------------------------------------------------------
\* The steps that come before a step, per definition; a post-payment saga never
\* reserves and never pays.
Before ==
  [p \in Plan |-> [k \in Step |->
     IF p = BookingPlan
     THEN IF k = Reserve THEN {} ELSE IF k = Pay THEN {Reserve}
          ELSE IF k = Confirm THEN {Reserve, Pay} ELSE {Reserve, Pay, Confirm}
     ELSE IF k = Confirm THEN {} ELSE IF k = Notify THEN {Confirm} ELSE Step]]

Chain == INSTANCE SagaChain

\* Whatever is delivered twice, late, or to two orchestrators at once, a step
\* takes effect only after the steps its definition puts before it, and is
\* undone only if it took effect (HandleStepSuccess never looks at the status).
ImplementsChain == Chain!ChainSpec

\* A saga is reported completed only when every step of its definition took
\* effect, the booking's confirmation among them, although copies of the row
\* overwrite each other (completeSaga).
CompletedTookEffect ==
  \A s \in Saga : row[s].status = "completed" =>
    /\ plan[s] \in Plan
    /\ ran[s] = Before[plan[s]][Notify] \union {Notify}

\* Every compensation that is sent names what it has to undo, the booking or the
\* payment: the workers do nothing for a command without it (startCompensation).
CompensationsNamed ==
  \A m \in sent : m.kind = "compensate" =>
    /\ m.step \in ran[m.saga]
    /\ Learns[m.step] \subseteq m.ids

\* Every saga that is started ends completed or compensated, unless a message or
\* the row's content was lost on the way: nothing looks for sagas that stand still.
EverySagaEnds ==
  \A s \in Saga : plan[s] # "none" ~> (Ended(s) \/ s \in cut)

\* What keeps a saga going: its start, a record nobody has handled, a handler.
Underway(s) ==
  \/ starter[s] \in {"saved", "running"}
  \/ \E m \in pending : m.saga = s /\ m.kind \in {"command", "success", "failure"}
  \/ \E w \in Worker : handler[w] # Idle /\ handler[w].msg.saga = s

\* Whatever overwrites whatever, a saga that has not ended is in somebody's hands
\* unless something was lost: a handler never takes an ended saga out of its end
\* without going on with it.
NoneStranded ==
  \A s \in Saga : plan[s] # "none" => Ended(s) \/ Underway(s) \/ s \in cut

\* A doc's claim: when the payment succeeded and the booking cannot be written, the
\* saga compensates and the payment is refunded.
PaidIsRefunded ==
  \A s \in Saga : row[s].status = "compensated" /\ plan[s] = PostPaymentPlan =>
    \E m \in sent : m.saga = s /\ m.kind = "compensate" /\ m.step = Pay
=============================================================================
