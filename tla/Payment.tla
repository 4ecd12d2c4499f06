------------------------------ MODULE Payment ------------------------------
(***************************************************************************)
(* The payment service: the payments of one booking, the gateway behind    *)
(* it, the calls of its API and of the saga's payment worker, and the      *)
(* webhooks in which the gateway tells what became of its intents.         *)
(*                                                                         *)
(* Every handler reads the payment, changes its copy and writes the whole  *)
(* row back, and talks to the gateway or to Kafka in between.  The table   *)
(* has no unique index on the booking.                                     *)
(*                                                                         *)
(* Amounts, currencies, methods, metadata, read-only queries and the       *)
(* customer portal are left out.                                           *)
(***************************************************************************)
EXTENDS Integers, FiniteSets

CONSTANTS
  Payment,    \* identifiers of payments
  Intent,     \* identifiers of the gateway's payment intents
  Call,       \* calls of the API and commands to the payment worker
  Hook,       \* handlers of webhooks
  MaxCrashed  \* bound on webhook handlers that stop before they answer

ASSUME CrashedAssumption == MaxCrashed \in Nat
ASSUME NamesAssumption == "none" \notin Payment \union Intent /\ Call \intersect Hook = {}

VARIABLES
  row,        \* table payments
  intent,     \* the gateway's intents
  work,       \* what each call and each webhook handler is doing
  hooks,      \* webhooks the gateway has not had an answer to
  published,  \* events sent to Kafka
  unsent,     \* intents whose success could not be announced
  raced,      \* races between calls: over the creation, over the processing
  crashed     \* webhook handlers that stopped so far

paymentVars == <<row, intent, work, hooks, published, unsent, raced, crashed>>

None == "none"
Status == {"pending", "processing", "succeeded", "failed", "cancelled", "refunded"}
Row == [status : Status, txn : Intent \union {None}]
NoRow == [status |-> None, txn |-> None]
Exists == {p \in Payment : row[p] # NoRow}

\* Intents opened for a customer, and those the service charges by itself.
IntentState == {"open", "declined", "paid", "unpaid", "canceled", "refunded"}
GatewayIntent == [state : IntentState, pay : Payment, via : {"customer", "charge"}]
NoIntent == [state |-> "unused", pay |-> None, via |-> None]
WasPaid(i) == intent[i].state \in {"paid", "refunded"}

HookKind == {"succeeded", "failed", "canceled", "refunded"}
Webhook == [kind : HookKind, intent : Intent]
Event == [kind : HookKind \union {"processed"}, intent : Intent]

ApiOp == {"pay", "intent", "process", "confirm", "refund", "cancel"}
At == {"look", "insert", "open", "check", "see", "read", "mark", "charge", "ask", "write", "publish"}
Work ==
  [op : ApiOp \union HookKind, at : At, pay : Payment \union {None},
   copy : Row \union {NoRow}, intent : Intent \union {None}]
Unused == [at |-> "unused"]
Idle == [at |-> "idle"]
Done == [at |-> "done"]
Worker == Call \union Hook
Active(c) == work[c].at \in At

PaymentTypeOK ==
  /\ row \in [Payment -> Row \union {NoRow}]
  /\ intent \in [Intent -> GatewayIntent \union {NoIntent}]
  /\ work \in [Worker -> Work \union {Unused, Idle, Done}]
  /\ hooks \subseteq Webhook
  /\ published \subseteq Event
  /\ unsent \subseteq Intent
  /\ raced \subseteq {"creation", "processing"}
  /\ crashed \in 0..MaxCrashed

PaymentInit ==
  /\ row = [p \in Payment |-> NoRow]
  /\ intent = [i \in Intent |-> NoIntent]
  /\ work = [c \in Worker |-> IF c \in Call THEN Unused ELSE Idle]
  /\ hooks = {}
  /\ published = {}
  /\ unsent = {}
  /\ raced = {}
  /\ crashed = 0

(***************************************************************************)
(* The status changes of a payment.                                        *)
(***************************************************************************)
MayProcess(r) == r.status = "pending"
MayComplete(r) == r.status \in {"pending", "processing"}
MayFail(r) == r.status \in {"pending", "processing"}
MayCancel(r) == r.status = "pending"
MayRefund(r) == r.status = "succeeded"

Processing(r) == [r EXCEPT !.status = "processing"]
\* Mutant: the transaction is not recorded with the payment.
CompletedWithoutTxn(r, i) == [r EXCEPT !.status = "succeeded"]

Completed(r, i) == [r EXCEPT !.status = "succeeded", !.txn = i]
\* Mutant: a status the column's type does not have.
FailedOutsideEnum(r) == [r EXCEPT !.status = "error"]

Failed(r) == [r EXCEPT !.status = "failed"]
Cancelled(r) == [r EXCEPT !.status = "cancelled"]
Refunded(r) == [r EXCEPT !.status = "refunded"]

Goes(c, at) == work' = [work EXCEPT ![c].at = at]
Takes(c, at, copy) == work' = [work EXCEPT ![c].at = at, ![c].copy = copy]
\* A webhook is answered 200, whatever became of it.
Ends(c) ==
  IF c \in Call
  THEN work' = [work EXCEPT ![c] = Done] /\ UNCHANGED hooks
  ELSE /\ work' = [work EXCEPT ![c] = Idle]
       /\ hooks' = hooks \ {[kind |-> work[c].op, intent |-> work[c].intent]}
\* What the service answers with an error ends a call; a webhook handler logs
\* it and goes on to publish.
GivesUp(c) == IF c \in Call THEN Ends(c) ELSE Goes(c, "publish") /\ UNCHANGED hooks

At0(op) == IF op \in {"pay", "intent"} THEN "look" ELSE IF op = "confirm" THEN "check" ELSE "read"
Job(op, p, i) == [op |-> op, at |-> At0(op), pay |-> p, copy |-> NoRow, intent |-> i]

StartCall(c) ==
  /\ work[c] = Unused
  /\ \/ \E op \in {"pay", "intent"} : work' = [work EXCEPT ![c] = Job(op, None, None)]
     \/ \E op \in {"process", "refund", "cancel"}, p \in Exists :
          work' = [work EXCEPT ![c] = Job(op, p, None)]
     \/ \E i \in Intent :
          /\ intent[i].via = "customer"
          /\ work' = [work EXCEPT ![c] = Job("confirm", intent[i].pay, i)]
  /\ UNCHANGED <<row, intent, hooks, published, unsent, raced, crashed>>

DeliverWebhook(w, h) ==
  /\ h \in hooks
  /\ work[w] = Idle
  /\ work' = [work EXCEPT ![w] = Job(h.kind, intent[h.intent].pay, h.intent)]
  /\ UNCHANGED <<row, intent, hooks, published, unsent, raced, crashed>>

(***************************************************************************)
(* CreatePayment: a payment of the booking is looked for, and created if   *)
(* the look-up found none or failed.                                       *)
(***************************************************************************)
LookUp(c) ==
  /\ work[c].at = "look"
  /\ \/ /\ Exists # {}
        /\ IF work[c].op = "pay"
           THEN Ends(c)
           ELSE \E p \in Exists : work' = [work EXCEPT ![c].at = "open", ![c].pay = p] /\ UNCHANGED hooks
        /\ UNCHANGED raced
     \/ /\ Goes(c, "insert")
        /\ raced' = IF Exists # {} \/ \E d \in Call : work[d].at = "insert"
                    THEN raced \union {"creation"} ELSE raced
        /\ UNCHANGED hooks
  /\ UNCHANGED <<row, intent, published, unsent, crashed>>

Insert(c) ==
  /\ work[c].at = "insert"
  /\ \E p \in Payment \ Exists :
       /\ row' = [row EXCEPT ![p] = [status |-> "pending", txn |-> None]]
       /\ work' = [work EXCEPT ![c].pay = p,
                               ![c].at = IF work[c].op = "pay" THEN "read" ELSE "open"]
  /\ UNCHANGED <<intent, hooks, published, unsent, raced, crashed>>

OpenIntent(c) ==
  /\ work[c].at = "open"
  /\ \E i \in Intent :
       /\ intent[i] = NoIntent
       /\ intent' = [intent EXCEPT ![i] = [state |-> "open", pay |-> work[c].pay, via |-> "customer"]]
  /\ Ends(c)
  /\ UNCHANGED <<row, published, unsent, raced, crashed>>

\* ConfirmPaymentIntent: a paid intent is processed all over again, unless its
\* payment has succeeded by now.
CheckIntent(c) ==
  /\ work[c].at = "check"
  /\ IF WasPaid(work[c].intent) THEN Goes(c, "see") /\ UNCHANGED hooks ELSE Ends(c)
  /\ UNCHANGED <<row, intent, published, unsent, raced, crashed>>

SeePayment(c) ==
  /\ work[c].at = "see"
  /\ IF row[work[c].pay].status = "succeeded" THEN Ends(c) ELSE Goes(c, "read") /\ UNCHANGED hooks
  /\ UNCHANGED <<row, intent, published, unsent, raced, crashed>>

(***************************************************************************)
(* ProcessPayment.                                                         *)
(***************************************************************************)
\* Mutant: whatever its status, a payment is processed.
ReadToProcessAny(c) ==
  /\ work[c].at = "read"
  /\ work[c].op \in {"pay", "process", "confirm"}
  /\ Takes(c, "mark", Processing(row[work[c].pay]))
  /\ raced' = IF \E d \in Call : work[d].at = "mark" /\ work[d].pay = work[c].pay
              THEN raced \union {"processing"} ELSE raced
  /\ UNCHANGED <<row, intent, hooks, published, unsent, crashed>>

ReadToProcess(c) ==
  /\ work[c].at = "read"
  /\ work[c].op \in {"pay", "process", "confirm"}
  /\ LET r == row[work[c].pay]
     IN IF MayProcess(r)
        THEN /\ Takes(c, "mark", Processing(r))
             /\ raced' = IF \E d \in Call : work[d].at = "mark" /\ work[d].pay = work[c].pay
                         THEN raced \union {"processing"} ELSE raced
             /\ UNCHANGED hooks
        ELSE Ends(c) /\ UNCHANGED raced
  /\ UNCHANGED <<row, intent, published, unsent, crashed>>

MarkProcessing(c) ==
  /\ work[c].at = "mark"
  /\ row' = [row EXCEPT ![work[c].pay] = work[c].copy]
  /\ Goes(c, "charge")
  /\ UNCHANGED <<intent, hooks, published, unsent, raced, crashed>>

\* A failed charge need not leave an intent behind.
Charge(c) ==
  /\ work[c].at = "charge"
  /\ \/ \E i \in Intent, state \in {"paid", "unpaid"} :
          /\ intent[i] = NoIntent
          /\ intent' = [intent EXCEPT ![i] = [state |-> state, pay |-> work[c].pay, via |-> "charge"]]
          /\ Takes(c, "write", IF state = "paid" THEN Completed(work[c].copy, i) ELSE Failed(work[c].copy))
     \/ Takes(c, "write", Failed(work[c].copy)) /\ UNCHANGED intent
  /\ UNCHANGED <<row, hooks, published, unsent, raced, crashed>>

(***************************************************************************)
(* RefundPayment, CancelPayment and what a webhook asks for.               *)
(***************************************************************************)
\* The gateway is asked before the status is looked at, and does not refund
\* twice.  A refund of a customer's intent is reported by a webhook.
ReadToRefund(c) ==
  /\ work[c].at = "read"
  /\ work[c].op \in {"refund", "refunded"}
  /\ Takes(c, "ask", row[work[c].pay])
  /\ UNCHANGED <<row, intent, hooks, published, unsent, raced, crashed>>

RefundedWebhook(i) == IF intent[i].via = "customer" THEN {[kind |-> "refunded", intent |-> i]} ELSE {}

\* Only a payment that succeeded names an intent that is paid (RecordsBacked),
\* so what the gateway has refunded the copy may be marked with.
AskRefund(c) ==
  /\ work[c].at = "ask"
  /\ LET i == work[c].copy.txn
     IN IF i # None /\ intent[i].state = "paid"
        THEN /\ intent' = [intent EXCEPT ![i].state = "refunded"]
             /\ hooks' = hooks \union RefundedWebhook(i)
             /\ Takes(c, "write", Refunded(work[c].copy))
        ELSE GivesUp(c) /\ UNCHANGED intent
  /\ UNCHANGED <<row, published, unsent, raced, crashed>>

Settles(op, r, i) ==
  IF op = "succeeded" THEN [may |-> MayComplete(r), copy |-> Completed(r, i)]
  ELSE IF op = "failed" THEN [may |-> MayFail(r), copy |-> Failed(r)]
  ELSE [may |-> MayCancel(r), copy |-> Cancelled(r)]

ReadToSettle(c) ==
  /\ work[c].at = "read"
  /\ work[c].op \in {"cancel", "succeeded", "failed", "canceled"}
  /\ LET r == row[work[c].pay]
         settled == Settles(work[c].op, r, work[c].intent)
     IN IF settled.may
        THEN Takes(c, "write", settled.copy) /\ UNCHANGED hooks
        ELSE GivesUp(c)
  /\ UNCHANGED <<row, intent, published, unsent, raced, crashed>>

\* The whole row, over whatever has been written since it was read.
WriteRow(c) ==
  /\ work[c].at = "write"
  /\ row' = [row EXCEPT ![work[c].pay] = work[c].copy]
  /\ IF c \in Hook \/ (work[c].op = "pay" /\ work[c].copy.status = "succeeded")
     THEN Goes(c, "publish") /\ UNCHANGED hooks
     ELSE Ends(c)
  /\ UNCHANGED <<intent, published, unsent, raced, crashed>>

\* Mutant: an attempt that failed is announced as a success.
EventOfNoFailures(c) ==
  IF work[c].op = "pay" THEN [kind |-> "processed", intent |-> work[c].copy.txn]
  ELSE [kind |-> IF work[c].op = "failed" THEN "succeeded" ELSE work[c].op, intent |-> work[c].intent]

EventOf(c) ==
  IF work[c].op = "pay" THEN [kind |-> "processed", intent |-> work[c].copy.txn]
  ELSE [kind |-> work[c].op, intent |-> work[c].intent]

\* Mutant: only a payment that could be written is announced.
PublishIfWritten(c) ==
  /\ work[c].at = "publish"
  /\ published' = IF work[c].copy = NoRow THEN published ELSE published \union {EventOf(c)}
  /\ Ends(c)
  /\ UNCHANGED <<row, intent, unsent, raced, crashed>>

\* That an event could not be sent is only logged.
Publish(c) ==
  /\ work[c].at = "publish"
  /\ \/ published' = published \union {EventOf(c)} /\ UNCHANGED unsent
     \/ /\ unsent' = IF work[c].op = "succeeded" THEN unsent \union {work[c].intent} ELSE unsent
        /\ UNCHANGED published
  /\ Ends(c)
  /\ UNCHANGED <<row, intent, raced, crashed>>

(***************************************************************************)
(* What goes wrong: a call stops anywhere; a webhook handler's error is    *)
(* logged, and if it stops the gateway sends the webhook again.            *)
(***************************************************************************)
CallStops(c) ==
  /\ c \in Call
  /\ Active(c)
  /\ work' = [work EXCEPT ![c] = Done]
  /\ UNCHANGED <<row, intent, hooks, published, unsent, raced, crashed>>

WebhookErrs(w) ==
  /\ w \in Hook
  /\ work[w].at \in {"read", "ask", "write"}
  /\ Goes(w, "publish")
  /\ UNCHANGED <<row, intent, hooks, published, unsent, raced, crashed>>

WebhookStops(w) ==
  /\ w \in Hook
  /\ Active(w)
  /\ crashed < MaxCrashed
  /\ crashed' = crashed + 1
  /\ work' = [work EXCEPT ![w] = Idle]
  /\ UNCHANGED <<row, intent, hooks, published, unsent, raced>>

(***************************************************************************)
(* The gateway: a customer pays, fails to (once, and may try again), or    *)
(* the intent is canceled; a charge is refunded by hand.                   *)
(***************************************************************************)
Gateway(i, from, to, kind) ==
  /\ intent[i].via = "customer"
  /\ intent[i].state \in from
  /\ intent' = [intent EXCEPT ![i].state = to]
  /\ hooks' = hooks \union {[kind |-> kind, intent |-> i]}
  /\ UNCHANGED <<row, work, published, unsent, raced, crashed>>
CustomerPays(i) == Gateway(i, {"open", "declined"}, "paid", "succeeded")
AttemptFails(i) == Gateway(i, {"open"}, "declined", "failed")
IntentCanceled(i) == Gateway(i, {"open", "declined"}, "canceled", "canceled")
RefundedByHand(i) == Gateway(i, {"paid"}, "refunded", "refunded")

Works(c) ==
  \/ LookUp(c) \/ Insert(c) \/ OpenIntent(c) \/ CheckIntent(c) \/ SeePayment(c)
  \/ ReadToProcess(c) \/ MarkProcessing(c) \/ Charge(c)
  \/ ReadToRefund(c) \/ AskRefund(c) \/ ReadToSettle(c) \/ WriteRow(c) \/ Publish(c)

PaymentNext ==
  \/ \E c \in Call : StartCall(c) \/ CallStops(c)
  \/ \E w \in Hook :
       \/ \E h \in hooks : DeliverWebhook(w, h)
       \/ WebhookErrs(w) \/ WebhookStops(w)
  \/ \E c \in Worker : Works(c)
  \/ \E i \in Intent : CustomerPays(i) \/ AttemptFails(i) \/ IntentCanceled(i) \/ RefundedByHand(i)

\* The gateway repeats a webhook until it is answered, and a handler that was
\* not stopped runs to its end.
PaymentSpec ==
  /\ PaymentInit /\ [][PaymentNext]_paymentVars
  /\ WF_paymentVars(\E w \in Hook : Works(w) \/ \E h \in hooks : DeliverWebhook(w, h))
-----------------------------------------------------------------------------
\* A payment recorded as succeeded was paid through the intent it names, and one
\* recorded as refunded was refunded there, although rows are written back over
\* each other (ProcessPayment, CompletePaymentFromWebhook).
RecordsBacked ==
  \A p \in Payment :
    /\ row[p].status = "succeeded" => row[p].txn # None /\ WasPaid(row[p].txn)
    /\ row[p].status = "refunded" => row[p].txn # None /\ intent[row[p].txn].state = "refunded"
    /\ row[p].txn # None => intent[row[p].txn].pay = p

\* The service itself charges a booking more than once only after calls raced: for
\* the creation of its payment (there is no unique index, and a look-up that failed
\* counts as one that found nothing), or for its processing (the status is read and
\* written in two statements).
OnlyRacesChargeTwice ==
  (\E i, j \in Intent : i # j /\ \A k \in {i, j} : intent[k].via = "charge" /\ WasPaid(k))
  => raced # {}

\* Other services act on what was published: that a payment succeeded only if it
\* was paid, that it was refunded or cancelled only if it was (publishPaymentSuccessEvent,
\* publishSeatReleaseEvent).
EventsTrue ==
  \A e \in published :
    /\ e.kind \in {"succeeded", "processed"} => WasPaid(e.intent)
    /\ e.kind = "refunded" => intent[e.intent].state = "refunded"
    /\ e.kind = "canceled" => intent[e.intent].state = "canceled"

\* What the announcement rests on: until a payment is announced, or Kafka has refused
\* that, its webhook is with the gateway, whoever was stopped in between
\* (handlePaymentIntentSucceeded answers in the end only).
PaidIsOwed ==
  \A i \in Intent :
    (intent[i].via = "customer" /\ WasPaid(i)) =>
      \/ [kind |-> "succeeded", intent |-> i] \in hooks \union published
      \/ i \in unsent

\* What a customer has paid is announced, which starts the saga that confirms the
\* booking, unless Kafka refuses the event: that is logged and the webhook answered.
PaidIsAnnounced ==
  \A i \in Intent :
    (intent[i].via = "customer" /\ WasPaid(i)) ~>
      ([kind |-> "succeeded", intent |-> i] \in published \/ i \in unsent)
=============================================================================
