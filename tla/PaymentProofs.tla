----------------------------- MODULE PaymentProofs -----------------------------
(***************************************************************************)
(* Theorems about the payment service, for any number of payments,         *)
(* intents, calls and webhook handlers.                                    *)
(*                                                                         *)
(* A call writes back a row that it read long ago, with what it was told   *)
(* by the gateway since.  It may undo what others have written, but what   *)
(* it writes is true: what an intent has become, paid, refunded or         *)
(* canceled, it stays.  DataInv says so of the rows, of every copy, of the *)
(* webhooks and of the events; RaceInv counts who may charge.              *)
(***************************************************************************)
EXTENDS Payment, TLAPS

USE CrashedAssumption, NamesAssumption

\* A row, or a copy of one, is true of the intent it names.
TrueCopy(p, r) ==
  /\ r.status = "succeeded" => r.txn # None /\ WasPaid(r.txn)
  /\ r.status = "refunded" => r.txn # None /\ intent[r.txn].state = "refunded"
  /\ r.txn # None => intent[r.txn].pay = p

\* A webhook of this kind is true of its intent.
HookTrue(kind, i) ==
  /\ intent[i] # NoIntent
  /\ kind = "succeeded" => WasPaid(i)
  /\ kind = "refunded" => intent[i].state = "refunded"
  /\ kind = "canceled" => intent[i].state = "canceled"

EventTrue(e) ==
  /\ e.kind \in {"succeeded", "processed"} => WasPaid(e.intent)
  /\ e.kind = "refunded" => intent[e.intent].state = "refunded"
  /\ e.kind = "canceled" => intent[e.intent].state = "canceled"

\* What a call or a webhook handler knows at the point it has reached.
WorkTrue(c, k) ==
  /\ k.at \notin {"look", "insert"} => k.pay \in Exists
  /\ k.at \in {"mark", "charge", "write"} => k.copy \in Row /\ k.copy.status # "pending"
  /\ k.pay \in Payment => TrueCopy(k.pay, k.copy)
  /\ k.at \in {"look", "insert"} => k.pay = None
  /\ k.pay = None => k.copy = NoRow
  /\ c \in Call => k.op \in ApiOp
  /\ c \in Hook =>
       /\ k.op \in HookKind /\ k.intent \in Intent
       /\ HookTrue(k.op, k.intent) /\ intent[k.intent].pay = k.pay
       /\ k.at \in {"read", "ask", "write", "publish"}
  /\ c \in Call /\ k.at = "publish" => k.op = "pay" /\ k.copy.status = "succeeded"

DataInv ==
  /\ PaymentTypeOK
  /\ \A p \in Payment : TrueCopy(p, row[p])
  /\ \A h \in hooks : HookTrue(h.kind, h.intent)
  /\ \A c \in Worker : work[c] \in Work => WorkTrue(c, work[c])
  /\ \A i \in Intent : intent[i] # NoIntent => intent[i].pay \in Exists
  /\ \A e \in published : EventTrue(e)

\* What every action keeps: rows stay, and what intents have become.
Keeps ==
  /\ Exists \subseteq Exists'
  /\ \A i \in Intent : intent[i] # NoIntent =>
       /\ intent'[i] # NoIntent
       /\ intent'[i].pay = intent[i].pay /\ intent'[i].via = intent[i].via
       /\ WasPaid(i) => WasPaid(i)'
       /\ intent[i].state = "refunded" => intent'[i].state = "refunded"
       /\ intent[i].state = "canceled" => intent'[i].state = "canceled"
-----------------------------------------------------------------------------
\* What was true stays true.
LEMMA TruthStays ==
  ASSUME PaymentTypeOK, PaymentTypeOK', Keeps
  PROVE  /\ \A p \in Payment, r \in Row \union {NoRow} : TrueCopy(p, r) => TrueCopy(p, r)'
         /\ \A kind \in HookKind, i \in Intent : HookTrue(kind, i) => HookTrue(kind, i)'
         /\ \A e \in Event : EventTrue(e) => EventTrue(e)'
         /\ \A c \in Worker, k \in Work : WorkTrue(c, k) => WorkTrue(c, k)'
<1>1. ASSUME NEW i \in Intent
      PROVE  /\ WasPaid(i) => WasPaid(i)'
             /\ intent[i].state = "refunded" => intent'[i].state = "refunded"
             /\ intent[i].state = "canceled" => intent'[i].state = "canceled"
             /\ intent[i].pay # None => intent'[i].pay = intent[i].pay
  BY DEF Keeps, WasPaid, NoIntent
<1>2. ASSUME NEW p \in Payment, NEW r \in Row \union {NoRow}, TrueCopy(p, r)
      PROVE  TrueCopy(p, r)'
  <2>1. r.txn \in Intent \union {None} /\ p # None
    BY DEF Row, NoRow, None
  <2>2. CASE r.txn = None
    BY <1>2, <2>2 DEF TrueCopy
  <2>3. CASE r.txn \in Intent
    BY <1>1, <1>2, <2>1, <2>3 DEF TrueCopy
  <2> QED
    BY <2>1, <2>2, <2>3
<1>3. ASSUME NEW kind \in HookKind, NEW i \in Intent, HookTrue(kind, i)
      PROVE  HookTrue(kind, i)'
  BY <1>1, <1>3 DEF HookTrue, Keeps
<1>4. ASSUME NEW e \in Event, EventTrue(e)
      PROVE  EventTrue(e)'
  BY <1>1, <1>4 DEF EventTrue, Event
<1>5. ASSUME NEW c \in Worker, NEW k \in Work, WorkTrue(c, k)
      PROVE  WorkTrue(c, k)'
  <2>1. k.copy \in Row \union {NoRow} /\ k.pay \in Payment \union {None}
    BY DEF Work
  <2>2. k.pay \in Payment => TrueCopy(k.pay, k.copy)'
    BY <1>2, <1>5, <2>1 DEF WorkTrue
  <2>3. c \in Hook => HookTrue(k.op, k.intent)' /\ intent'[k.intent].pay = k.pay
    BY <1>3, <1>5 DEF WorkTrue, HookTrue, Keeps
  <2> QED
    BY <1>5, <2>2, <2>3 DEF WorkTrue, Keeps
<1> QED
  BY <1>2, <1>3, <1>4, <1>5

\* What remains to be shown of a step: what is new is true.
LEMMA NewIsTrue ==
  ASSUME DataInv, PaymentTypeOK', Keeps,
         \A p \in Payment : row'[p] = row[p] \/ TrueCopy(p, row[p])',
         \A h \in hooks' : h \in hooks \/ HookTrue(h.kind, h.intent)',
         \A c \in Worker : work'[c] = work[c] \/ work'[c] \notin Work \/ WorkTrue(c, work[c])',
         \A i \in Intent : intent[i] # NoIntent \/ intent'[i] = NoIntent \/ intent'[i].pay \in Exists',
         \A e \in published' : e \in published \/ EventTrue(e)'
  PROVE  DataInv'
<1>1. PaymentTypeOK
  BY DEF DataInv
<1>2. \A p \in Payment : TrueCopy(p, row[p])'
  <2>1. ASSUME NEW p \in Payment, row'[p] = row[p]
        PROVE  TrueCopy(p, row[p])'
    <3>1. row[p] \in Row \union {NoRow} /\ TrueCopy(p, row[p])
      BY <1>1 DEF DataInv, PaymentTypeOK
    <3> DEFINE r == row[p]
    <3>2. r' = r
      BY <2>1
    <3>3. r \in Row \union {NoRow} /\ TrueCopy(p, r)
      BY <3>1
    <3> HIDE DEF r
    <3>4. \A x \in Row \union {NoRow} : TrueCopy(p, x) => TrueCopy(p, x)'
      BY <1>1, TruthStays
    <3>5. TrueCopy(p, r)'
      BY <3>2, <3>3, <3>4 DEF TrueCopy
    <3> QED
      BY <3>5 DEF r
  <2> QED
    BY <2>1
<1>3. \A h \in hooks' : HookTrue(h.kind, h.intent)'
  BY <1>1, TruthStays DEF DataInv, PaymentTypeOK, Webhook
<1>4. ASSUME NEW c \in Worker, work'[c] \in Work, work'[c] = work[c]
      PROVE  WorkTrue(c, work[c])'
  <2> DEFINE k == work[c]
  <2>1. k \in Work /\ WorkTrue(c, k) /\ k' = k
    BY <1>4 DEF DataInv
  <2> HIDE DEF k
  <2>2. \A x \in Work : WorkTrue(c, x) => WorkTrue(c, x)'
    BY <1>1, TruthStays
  <2>3. WorkTrue(c, k)'
    BY <2>1, <2>2 DEF WorkTrue, TrueCopy, HookTrue
  <2> QED
    BY <2>3 DEF k
<1>5. \A i \in Intent : intent'[i] # NoIntent => intent'[i].pay \in Exists'
  BY DEF DataInv, Keeps
<1>6. \A e \in published' : EventTrue(e)'
  BY <1>1, TruthStays DEF DataInv, PaymentTypeOK
<1> QED
  BY <1>2, <1>3, <1>4, <1>5, <1>6 DEF DataInv

\* A step of one call or handler that only reads: what it knows then is true.
LEMMA QuietStep ==
  ASSUME DataInv, PaymentTypeOK', UNCHANGED <<row, intent, published>>, hooks' \subseteq hooks,
         \A c \in Worker : work'[c] = work[c] \/ work'[c] \notin Work \/ WorkTrue(c, work'[c])
  PROVE  DataInv'
<1>1. Keeps
  BY DEF Keeps, Exists, WasPaid
<1>2. ASSUME NEW c \in Worker, WorkTrue(c, work'[c])
      PROVE  WorkTrue(c, work[c])'
  BY <1>2 DEF WorkTrue, TrueCopy, HookTrue, WasPaid, Exists
<1> QED
  BY <1>1, <1>2, NewIsTrue

\* Who is at work has a job, and only who has.
LEMMA AtWork ==
  ASSUME DataInv, NEW c \in Worker, work[c].at \in At
  PROVE  work[c] \in Work /\ WorkTrue(c, work[c])
BY DEF DataInv, PaymentTypeOK, At, Unused, Idle, Done

\* What the updates of a job change.
LEMMA Moved ==
  ASSUME PaymentTypeOK, NEW c \in Worker, work[c] \in Work, NEW at \in At, Goes(c, at)
  PROVE  /\ work'[c] \in Work /\ work'[c].at = at /\ work'[c].op = work[c].op
         /\ work'[c].pay = work[c].pay /\ work'[c].copy = work[c].copy /\ work'[c].intent = work[c].intent
         /\ \A d \in Worker \ {c} : work'[d] = work[d]
         /\ work' \in [Worker -> Work \union {Unused, Idle, Done}]
BY DEF PaymentTypeOK, Goes, Work

\* The same, with a new copy of the row.
LEMMA Taken ==
  ASSUME PaymentTypeOK, NEW c \in Worker, work[c] \in Work, NEW at \in At,
         NEW r \in Row \union {NoRow}, Takes(c, at, r)
  PROVE  /\ work'[c] \in Work /\ work'[c].at = at /\ work'[c].op = work[c].op
         /\ work'[c].pay = work[c].pay /\ work'[c].copy = r /\ work'[c].intent = work[c].intent
         /\ \A d \in Worker \ {c} : work'[d] = work[d]
         /\ work' \in [Worker -> Work \union {Unused, Idle, Done}]
BY DEF PaymentTypeOK, Takes, Work

\* A job that ends; a webhook is answered then.
LEMMA Ended ==
  ASSUME PaymentTypeOK, NEW c \in Worker, Ends(c)
  PROVE  /\ work'[c] \notin Work
         /\ \A d \in Worker \ {c} : work'[d] = work[d]
         /\ work' \in [Worker -> Work \union {Unused, Idle, Done}]
         /\ hooks' \subseteq hooks
BY DEF PaymentTypeOK, Ends, Work, At, Done, Idle

\* What the status changes make of a row.
LEMMA RowOps ==
  ASSUME NEW r \in Row
  PROVE  /\ Processing(r) \in Row /\ Processing(r).status = "processing" /\ Processing(r).txn = r.txn
         /\ Failed(r) \in Row /\ Failed(r).status = "failed" /\ Failed(r).txn = r.txn
         /\ Cancelled(r) \in Row /\ Cancelled(r).status = "cancelled" /\ Cancelled(r).txn = r.txn
         /\ Refunded(r) \in Row /\ Refunded(r).status = "refunded" /\ Refunded(r).txn = r.txn
         /\ \A i \in Intent :
              Completed(r, i) \in Row /\ Completed(r, i).status = "succeeded" /\ Completed(r, i).txn = i
BY DEF Row, Status, Processing, Completed, Cancelled, Refunded, Failed

\* A new job knows the row it is about, and a webhook's is true.
LEMMA JobTrue ==
  ASSUME DataInv, NEW c \in Worker, NEW op \in ApiOp \union HookKind,
         NEW p \in Payment \union {None}, NEW i \in Intent \union {None},
         At0(op) # "look" => p \in Exists,
         At0(op) = "look" => p = None,
         c \in Call => op \in ApiOp,
         c \in Hook => op \in HookKind /\ i \in Intent /\ HookTrue(op, i) /\ intent[i].pay = p
  PROVE  Job(op, p, i) \in Work /\ WorkTrue(c, Job(op, p, i))
<1> DEFINE k == Job(op, p, i)
<1>1. /\ k.op = op /\ k.at = At0(op) /\ k.pay = p /\ k.copy = NoRow /\ k.intent = i
      /\ At0(op) \in {"look", "check", "read"}
      /\ op \in HookKind => At0(op) = "read"
  BY DEF Job, At0, HookKind
<1>2. k \in Work
  BY <1>1 DEF Job, Work, At
<1>3. p \in Payment => TrueCopy(p, NoRow)
  BY DEF TrueCopy, NoRow, None
<1> HIDE DEF k
<1>4. WorkTrue(c, k)
  BY <1>1, <1>3 DEF WorkTrue, None, Exists
<1> QED
  BY <1>2, <1>4 DEF k

\* A call of the API, or a command to the payment worker, begins.
LEMMA StartCallKeeps ==
  ASSUME DataInv, NEW c \in Call, StartCall(c)
  PROVE  DataInv'
<1>1. c \in Worker /\ c \notin Hook /\ UNCHANGED <<row, intent, hooks, published, unsent, raced, crashed>>
  BY DEF StartCall, Worker
<1>2. PICK op \in ApiOp, p \in Payment \union {None}, i \in Intent \union {None} :
        /\ work' = [work EXCEPT ![c] = Job(op, p, i)]
        /\ Job(op, p, i) \in Work /\ WorkTrue(c, Job(op, p, i))
  <2>1. CASE \E op \in {"pay", "intent"} : work' = [work EXCEPT ![c] = Job(op, None, None)]
    <3>1. PICK op \in {"pay", "intent"} : work' = [work EXCEPT ![c] = Job(op, None, None)]
      BY <2>1
    <3>2. At0(op) = "look" /\ op \in ApiOp
      BY DEF At0, ApiOp
    <3> QED
      BY <1>1, <3>1, <3>2, JobTrue
  <2>2. CASE \E op \in {"process", "refund", "cancel"}, p \in Exists : work' = [work EXCEPT ![c] = Job(op, p, None)]
    <3>1. PICK op \in {"process", "refund", "cancel"}, p \in Exists : work' = [work EXCEPT ![c] = Job(op, p, None)]
      BY <2>2
    <3>2. At0(op) # "look" /\ op \in ApiOp /\ p \in Payment
      BY DEF At0, ApiOp, Exists
    <3> QED
      BY <1>1, <3>1, <3>2, JobTrue
  <2>3. CASE \E i \in Intent : intent[i].via = "customer" /\ work' = [work EXCEPT ![c] = Job("confirm", intent[i].pay, i)]
    <3>1. PICK i \in Intent : intent[i].via = "customer" /\ work' = [work EXCEPT ![c] = Job("confirm", intent[i].pay, i)]
      BY <2>3
    <3>2. At0("confirm") # "look" /\ "confirm" \in ApiOp
      BY DEF At0, ApiOp
    <3>3. intent[i] # NoIntent /\ intent[i].pay \in Exists /\ intent[i].pay \in Payment
      BY <3>1 DEF NoIntent, None, DataInv, Exists
    <3> QED
      BY <1>1, <3>1, <3>2, <3>3, JobTrue
  <2> QED
    BY <2>1, <2>2, <2>3 DEF StartCall
<1>3. PaymentTypeOK'
  BY <1>1, <1>2 DEF DataInv, PaymentTypeOK
<1>4. \A d \in Worker : work'[d] = work[d] \/ WorkTrue(d, work'[d])
  BY <1>1, <1>2 DEF DataInv, PaymentTypeOK
<1> QED
  BY <1>1, <1>3, <1>4, QuietStep

\* A webhook arrives, perhaps once more.
LEMMA DeliverKeeps ==
  ASSUME DataInv, NEW w \in Hook, NEW h \in hooks, DeliverWebhook(w, h)
  PROVE  DataInv'
<1>1. w \in Worker /\ w \notin Call /\ UNCHANGED <<row, intent, hooks, published, unsent, raced, crashed>>
  BY DEF DeliverWebhook, Worker
<1> DEFINE k == Job(h.kind, intent[h.intent].pay, h.intent)
<1>2. h.kind \in HookKind /\ h.intent \in Intent /\ HookTrue(h.kind, h.intent)
  BY DEF DataInv, PaymentTypeOK, Webhook
<1>3. intent[h.intent].pay \in Exists /\ intent[h.intent].pay \in Payment
  BY <1>2 DEF HookTrue, DataInv, Exists
<1>4. At0(h.kind) = "read"
  BY <1>2 DEF At0, HookKind
<1>5. k \in Work /\ WorkTrue(w, k)
  BY <1>1, <1>2, <1>3, <1>4, JobTrue
<1>6. work' = [work EXCEPT ![w] = k]
  BY DEF DeliverWebhook
<1> HIDE DEF k
<1>7. PaymentTypeOK'
  BY <1>1, <1>5, <1>6 DEF DataInv, PaymentTypeOK
<1>8. \A d \in Worker : work'[d] = work[d] \/ WorkTrue(d, work'[d])
  BY <1>1, <1>5, <1>6 DEF DataInv, PaymentTypeOK
<1> QED
  BY <1>1, <1>7, <1>8, QuietStep

\* CreatePayment looks for a payment of the booking.
LEMMA LookUpKeeps ==
  ASSUME DataInv, NEW c \in Worker, LookUp(c)
  PROVE  DataInv'
<1>1. /\ work[c] \in Work /\ WorkTrue(c, work[c]) /\ work[c].at = "look"
      /\ UNCHANGED <<row, intent, published, unsent, crashed>>
      /\ raced' \subseteq raced \union {"creation"}
  BY AtWork DEF LookUp, At
<1>2. c \in Call /\ c \notin Hook /\ work[c].pay = None /\ work[c].copy = NoRow /\ work[c].op \in ApiOp
  BY <1>1 DEF WorkTrue, Worker
<1>3. /\ work' \in [Worker -> Work \union {Unused, Idle, Done}] /\ hooks' \subseteq hooks
      /\ \A d \in Worker \ {c} : work'[d] = work[d]
      /\ work'[c] \notin Work \/ WorkTrue(c, work'[c])
  <2>1. CASE Ends(c)
    BY <2>1, Ended DEF DataInv
  <2>2. CASE Goes(c, "insert") /\ hooks' = hooks
    <3>1. /\ work'[c].at = "insert" /\ work'[c].op = work[c].op /\ work'[c].pay = None /\ work'[c].copy = NoRow
          /\ \A d \in Worker \ {c} : work'[d] = work[d]
          /\ work' \in [Worker -> Work \union {Unused, Idle, Done}]
      BY <1>1, <1>2, <2>2, Moved DEF DataInv, At
    <3>2. WorkTrue(c, work'[c])
      BY <1>2, <3>1 DEF WorkTrue, None
    <3> QED
      BY <2>2, <3>1, <3>2
  <2>3. CASE \E p \in Exists : work' = [work EXCEPT ![c].at = "open", ![c].pay = p] /\ hooks' = hooks
    <3>1. PICK p \in Exists : work' = [work EXCEPT ![c].at = "open", ![c].pay = p]
      BY <2>3
    <3> DEFINE k == [work[c] EXCEPT !.at = "open", !.pay = p]
    <3>2. k \in Work /\ k.at = "open" /\ k.op = work[c].op /\ k.pay = p /\ k.copy = work[c].copy
      BY <1>1 DEF Work, At, Exists
    <3>3. work \in [Worker -> Work \union {Unused, Idle, Done}]
      BY DEF DataInv, PaymentTypeOK
    <3>4. work' = [work EXCEPT ![c] = k]
      BY <3>1, <3>3
    <3> HIDE DEF k
    <3>5. /\ work'[c].at = "open" /\ work'[c].op = work[c].op /\ work'[c].pay = p /\ work'[c].copy = NoRow
          /\ \A d \in Worker \ {c} : work'[d] = work[d]
          /\ work' \in [Worker -> Work \union {Unused, Idle, Done}]
      BY <1>2, <3>2, <3>3, <3>4
    <3>6. TrueCopy(p, NoRow) /\ p # None
      BY DEF TrueCopy, NoRow, None, Exists
    <3>7. WorkTrue(c, work'[c])
      BY <1>2, <3>5, <3>6 DEF WorkTrue
    <3> QED
      BY <2>3, <3>5, <3>7
  <2> QED
    BY <2>1, <2>2, <2>3 DEF LookUp
<1>4. PaymentTypeOK'
  BY <1>1, <1>3 DEF DataInv, PaymentTypeOK
<1>5. \A d \in Worker : work'[d] = work[d] \/ work'[d] \notin Work \/ WorkTrue(d, work'[d])
  BY <1>3
<1> QED
  BY <1>1, <1>3, <1>4, <1>5, QuietStep

\* The steps of a job that write nothing.
LEMMA QuietWork ==
  ASSUME DataInv, NEW c \in Worker,
         UNCHANGED <<row, intent, published, unsent>>,
         raced' \subseteq {"creation", "processing"}, crashed' \in 0..MaxCrashed, hooks' \subseteq hooks,
         work' \in [Worker -> Work \union {Unused, Idle, Done}],
         \A d \in Worker \ {c} : work'[d] = work[d],
         work'[c] \notin Work \/ WorkTrue(c, work'[c])
  PROVE  DataInv'
<1>1. PaymentTypeOK'
  BY DEF DataInv, PaymentTypeOK
<1> QED
  BY <1>1, QuietStep

\* What a service's error comes to.
LEMMA GaveUp ==
  ASSUME DataInv, NEW c \in Worker, work[c].at \in {"read", "ask"}, GivesUp(c)
  PROVE  /\ work' \in [Worker -> Work \union {Unused, Idle, Done}]
         /\ \A d \in Worker \ {c} : work'[d] = work[d]
         /\ work'[c] \notin Work \/ (work'[c] \in Work /\ WorkTrue(c, work'[c]))
         /\ hooks' \subseteq hooks
<1>1. work[c] \in Work /\ WorkTrue(c, work[c])
  BY AtWork DEF At
<1>2. CASE c \in Call
  BY <1>2, Ended DEF GivesUp, DataInv
<1>3. CASE c \notin Call
  <2>1. Goes(c, "publish") /\ hooks' = hooks
    BY <1>3 DEF GivesUp
  <2>2. /\ work'[c] \in Work /\ work'[c].at = "publish" /\ work'[c].op = work[c].op
        /\ work'[c].pay = work[c].pay /\ work'[c].copy = work[c].copy /\ work'[c].intent = work[c].intent
        /\ \A d \in Worker \ {c} : work'[d] = work[d]
        /\ work' \in [Worker -> Work \union {Unused, Idle, Done}]
    BY <1>1, <2>1, Moved DEF DataInv, At
  <2>3. WorkTrue(c, work'[c])
    BY <1>1, <1>3, <2>2 DEF WorkTrue
  <2> QED
    BY <2>1, <2>2, <2>3
<1> QED
  BY <1>2, <1>3

\* ConfirmPaymentIntent asks the gateway, then looks at the payment.
LEMMA CheckKeeps ==
  ASSUME DataInv, NEW c \in Worker, CheckIntent(c) \/ SeePayment(c)
  PROVE  DataInv'
<1>1. /\ work[c] \in Work /\ WorkTrue(c, work[c]) /\ work[c].at \in {"check", "see"}
      /\ UNCHANGED <<row, intent, published, unsent, raced, crashed>>
  BY AtWork DEF CheckIntent, SeePayment, At
<1>2. c \in Call /\ c \notin Hook
  BY <1>1 DEF WorkTrue, Worker
<1>3. /\ work' \in [Worker -> Work \union {Unused, Idle, Done}] /\ hooks' \subseteq hooks
      /\ \A d \in Worker \ {c} : work'[d] = work[d]
      /\ work'[c] \notin Work \/ WorkTrue(c, work'[c])
  <2>1. CASE Ends(c)
    BY <2>1, Ended DEF DataInv
  <2>2. ASSUME NEW at \in {"see", "read"}, Goes(c, at), hooks' = hooks
        PROVE  /\ work' \in [Worker -> Work \union {Unused, Idle, Done}] /\ hooks' \subseteq hooks
               /\ \A d \in Worker \ {c} : work'[d] = work[d]
               /\ work'[c] \notin Work \/ WorkTrue(c, work'[c])
    <3>1. /\ work'[c].at = at /\ work'[c].op = work[c].op
          /\ work'[c].pay = work[c].pay /\ work'[c].copy = work[c].copy
          /\ \A d \in Worker \ {c} : work'[d] = work[d]
          /\ work' \in [Worker -> Work \union {Unused, Idle, Done}]
      BY <1>1, <2>2, Moved DEF DataInv, At
    <3>2. WorkTrue(c, work'[c])
      BY <1>1, <1>2, <2>2, <3>1 DEF WorkTrue
    <3> QED
      BY <2>2, <3>1, <3>2
  <2> QED
    BY <2>1, <2>2 DEF CheckIntent, SeePayment
<1> QED
  BY <1>1, <1>3, QuietWork DEF DataInv, PaymentTypeOK

\* ProcessPayment and RefundPayment read the payment.
LEMMA ReadToProcessKeeps ==
  ASSUME DataInv, NEW c \in Worker, ReadToProcess(c)
  PROVE  DataInv'
<1>1. /\ work[c] \in Work /\ WorkTrue(c, work[c]) /\ work[c].at = "read"
      /\ work[c].op \in {"pay", "process", "confirm"}
      /\ UNCHANGED <<row, intent, published, unsent, crashed>>
      /\ raced' \subseteq raced \union {"processing"}
  BY AtWork DEF ReadToProcess, At
<1>2. c \in Call /\ c \notin Hook /\ work[c].pay \in Exists /\ work[c].pay \in Payment
  BY <1>1 DEF WorkTrue, Worker, HookKind, Exists
<1>3. /\ work' \in [Worker -> Work \union {Unused, Idle, Done}] /\ hooks' \subseteq hooks
      /\ \A d \in Worker \ {c} : work'[d] = work[d]
      /\ work'[c] \notin Work \/ WorkTrue(c, work'[c])
  <2>1. CASE Ends(c)
    BY <2>1, Ended DEF DataInv
  <2>2. CASE Takes(c, "mark", Processing(row[work[c].pay])) /\ hooks' = hooks
    <3> DEFINE r == row[work[c].pay]
               n == Processing(r)
    <3>1. r \in Row /\ TrueCopy(work[c].pay, r)
      BY <1>2 DEF DataInv, PaymentTypeOK, Exists
    <3>2. n \in Row /\ n.status = "processing" /\ n.txn = r.txn
      BY <3>1, RowOps
    <3> HIDE DEF n
    <3>3. /\ work'[c].at = "mark" /\ work'[c].op = work[c].op
          /\ work'[c].pay = work[c].pay /\ work'[c].copy = n
          /\ \A d \in Worker \ {c} : work'[d] = work[d]
          /\ work' \in [Worker -> Work \union {Unused, Idle, Done}]
      <4>1. Takes(c, "mark", n) /\ "mark" \in At /\ PaymentTypeOK
        BY <2>2 DEF n, At, DataInv
      <4> QED
        BY <1>1, <3>2, <4>1, Taken
    <3>4. TrueCopy(work[c].pay, n)
      BY <3>1, <3>2 DEF TrueCopy
    <3>5. WorkTrue(c, work'[c])
      BY <1>1, <1>2, <3>2, <3>3, <3>4 DEF WorkTrue, None
    <3> QED
      BY <2>2, <3>3, <3>5
  <2> QED
    BY <2>1, <2>2 DEF ReadToProcess
<1> QED
  BY <1>1, <1>3, QuietWork DEF DataInv, PaymentTypeOK

\* RefundPayment reads the payment, as does a webhook about a refund.
LEMMA ReadToRefundKeeps ==
  ASSUME DataInv, NEW c \in Worker, ReadToRefund(c)
  PROVE  DataInv'
<1>1. /\ work[c] \in Work /\ WorkTrue(c, work[c]) /\ work[c].at = "read"
      /\ Takes(c, "ask", row[work[c].pay])
      /\ UNCHANGED <<row, intent, hooks, published, unsent, raced, crashed>>
  BY AtWork DEF ReadToRefund, At
<1>2. work[c].pay \in Exists /\ work[c].pay \in Payment
  BY <1>1 DEF WorkTrue, Exists
<1> DEFINE r == row[work[c].pay]
<1>3. r \in Row /\ TrueCopy(work[c].pay, r)
  BY <1>2 DEF DataInv, PaymentTypeOK, Exists
<1>4. /\ work'[c].at = "ask" /\ work'[c].op = work[c].op
      /\ work'[c].pay = work[c].pay /\ work'[c].copy = r /\ work'[c].intent = work[c].intent
      /\ \A d \in Worker \ {c} : work'[d] = work[d]
      /\ work' \in [Worker -> Work \union {Unused, Idle, Done}]
  BY <1>1, <1>3, Taken DEF At, DataInv
<1> HIDE DEF r
<1>5. WorkTrue(c, work'[c])
  BY <1>1, <1>2, <1>3, <1>4 DEF WorkTrue, None
<1> QED
  BY <1>1, <1>4, <1>5, QuietWork DEF DataInv, PaymentTypeOK

\* CancelPayment, and what a webhook reports: the copy that is settled is true.
LEMMA ReadToSettleKeeps ==
  ASSUME DataInv, NEW c \in Worker, ReadToSettle(c)
  PROVE  DataInv'
<1>1. /\ work[c] \in Work /\ WorkTrue(c, work[c]) /\ work[c].at = "read"
      /\ work[c].op \in {"cancel", "succeeded", "failed", "canceled"}
      /\ UNCHANGED <<row, intent, published, unsent, raced, crashed>>
  BY AtWork DEF ReadToSettle, At
<1>2. work[c].pay \in Exists /\ work[c].pay \in Payment
  BY <1>1 DEF WorkTrue, Exists
<1> DEFINE r == row[work[c].pay]
           i == work[c].intent
           op == work[c].op
           s == Settles(op, r, i)
<1>3. r \in Row /\ TrueCopy(work[c].pay, r)
  BY <1>2 DEF DataInv, PaymentTypeOK, Exists
<1>4. op = "succeeded" => i \in Intent /\ WasPaid(i) /\ intent[i].pay = work[c].pay
  BY <1>1 DEF WorkTrue, HookTrue, Worker, ApiOp
<1>5. s.copy \in Row /\ s.copy.status # "pending" /\ TrueCopy(work[c].pay, s.copy)
  <2>1. CASE op = "succeeded"
    <3>1. s.copy = Completed(r, i)
      BY <2>1 DEF Settles
    <3>2. Completed(r, i) \in Row /\ Completed(r, i).status = "succeeded" /\ Completed(r, i).txn = i
      BY <1>3, <1>4, <2>1, RowOps
    <3>3. i # None
      BY <1>4, <2>1 DEF None
    <3> QED
      BY <1>4, <2>1, <3>1, <3>2, <3>3 DEF TrueCopy
  <2>2. CASE op = "failed"
    <3>1. s.copy = Failed(r)
      BY <2>2 DEF Settles
    <3>2. Failed(r) \in Row /\ Failed(r).status = "failed" /\ Failed(r).txn = r.txn
      BY <1>3, RowOps
    <3> QED
      BY <1>3, <3>1, <3>2 DEF TrueCopy
  <2>3. CASE op \notin {"succeeded", "failed"}
    <3>1. s.copy = Cancelled(r)
      BY <2>3 DEF Settles
    <3>2. Cancelled(r) \in Row /\ Cancelled(r).status = "cancelled" /\ Cancelled(r).txn = r.txn
      BY <1>3, RowOps
    <3> QED
      BY <1>3, <3>1, <3>2 DEF TrueCopy
  <2> QED
    BY <2>1, <2>2, <2>3
<1>6. /\ work' \in [Worker -> Work \union {Unused, Idle, Done}] /\ hooks' \subseteq hooks
      /\ \A d \in Worker \ {c} : work'[d] = work[d]
      /\ work'[c] \notin Work \/ WorkTrue(c, work'[c])
  <2>1. CASE GivesUp(c)
    BY <1>1, <2>1, GaveUp
  <2>2. CASE Takes(c, "write", s.copy) /\ hooks' = hooks
    <3> HIDE DEF s
    <3>1. /\ work'[c].at = "write" /\ work'[c].op = work[c].op
          /\ work'[c].pay = work[c].pay /\ work'[c].copy = s.copy /\ work'[c].intent = work[c].intent
          /\ \A d \in Worker \ {c} : work'[d] = work[d]
          /\ work' \in [Worker -> Work \union {Unused, Idle, Done}]
      BY <1>1, <1>5, <2>2, Taken DEF At, DataInv
    <3>2. WorkTrue(c, work'[c])
      BY <1>1, <1>2, <1>5, <3>1 DEF WorkTrue, None
    <3> QED
      BY <2>2, <3>1, <3>2
  <2> QED
    BY <2>1, <2>2 DEF ReadToSettle
<1> QED
  BY <1>1, <1>6, QuietWork DEF DataInv, PaymentTypeOK

\* Whoever stops leaves everything as it is.
LEMMA StopsKeep ==
  ASSUME DataInv, NEW c \in Worker, CallStops(c) \/ WebhookErrs(c) \/ WebhookStops(c)
  PROVE  DataInv'
<1>1. /\ UNCHANGED <<row, intent, published, unsent, raced>> /\ crashed' \in 0..MaxCrashed
      /\ hooks' = hooks
  BY DEF CallStops, WebhookErrs, WebhookStops, DataInv, PaymentTypeOK
<1>2. /\ work' \in [Worker -> Work \union {Unused, Idle, Done}]
      /\ \A d \in Worker \ {c} : work'[d] = work[d]
      /\ work'[c] \notin Work \/ WorkTrue(c, work'[c])
  <2>1. CASE CallStops(c) \/ WebhookStops(c)
    BY <2>1 DEF CallStops, WebhookStops, DataInv, PaymentTypeOK, Work, At, Idle, Done
  <2>2. CASE WebhookErrs(c)
    <3>1. work[c] \in Work /\ WorkTrue(c, work[c]) /\ c \in Hook /\ c \notin Call
      BY <2>2, AtWork DEF WebhookErrs, At
    <3>2. /\ work'[c].at = "publish" /\ work'[c].op = work[c].op
          /\ work'[c].pay = work[c].pay /\ work'[c].copy = work[c].copy /\ work'[c].intent = work[c].intent
          /\ \A d \in Worker \ {c} : work'[d] = work[d]
          /\ work' \in [Worker -> Work \union {Unused, Idle, Done}]
      BY <2>2, <3>1, Moved DEF WebhookErrs, At, DataInv
    <3>3. WorkTrue(c, work'[c])
      BY <2>2, <3>1, <3>2 DEF WorkTrue, WebhookErrs
    <3> QED
      BY <3>2, <3>3
  <2> QED
    BY <2>1, <2>2
<1> QED
  BY <1>1, <1>2, QuietWork DEF DataInv, PaymentTypeOK

\* A new row is the caller's own.
LEMMA InsertKeeps ==
  ASSUME DataInv, NEW c \in Worker, Insert(c)
  PROVE  DataInv'
<1>1. /\ work[c] \in Work /\ WorkTrue(c, work[c]) /\ work[c].at = "insert"
      /\ UNCHANGED <<intent, hooks, published, unsent, raced, crashed>>
  BY AtWork DEF Insert, At
<1>2. c \in Call /\ c \notin Hook /\ work[c].copy = NoRow
  BY <1>1 DEF WorkTrue, Worker
<1>3. PICK p \in Payment \ Exists :
        /\ row' = [row EXCEPT ![p] = [status |-> "pending", txn |-> None]]
        /\ work' = [work EXCEPT ![c].pay = p,
                                ![c].at = IF work[c].op = "pay" THEN "read" ELSE "open"]
  BY DEF Insert
<1>4. /\ work'[c].at \in {"read", "open"} /\ work'[c].op = work[c].op
      /\ work'[c].pay = p /\ work'[c].copy = NoRow
      /\ \A d \in Worker \ {c} : work'[d] = work[d]
      /\ work' \in [Worker -> Work \union {Unused, Idle, Done}]
  BY <1>1, <1>2, <1>3 DEF DataInv, PaymentTypeOK, Work, At
<1>5. /\ row'[p] = [status |-> "pending", txn |-> None] /\ row'[p] \in Row /\ row'[p] # NoRow
      /\ \A q \in Payment \ {p} : row'[q] = row[q]
      /\ row' \in [Payment -> Row \union {NoRow}]
  BY <1>3 DEF DataInv, PaymentTypeOK, Row, Status, NoRow, None
<1>6. Keeps /\ p \in Exists'
  BY <1>1, <1>5 DEF Keeps, Exists, WasPaid
<1>7. PaymentTypeOK'
  BY <1>1, <1>4, <1>5 DEF DataInv, PaymentTypeOK
<1>8. TrueCopy(p, row[p])'
  BY <1>5 DEF TrueCopy
<1>9. TrueCopy(p, NoRow)' /\ p # None
  BY DEF TrueCopy, NoRow, None
<1>10. WorkTrue(c, work[c])'
  BY <1>1, <1>2, <1>4, <1>6, <1>9 DEF WorkTrue
<1> QED
  BY <1>1, <1>4, <1>5, <1>6, <1>7, <1>8, <1>10, NewIsTrue

\* An intent is opened for a payment that exists.
LEMMA OpenIntentKeeps ==
  ASSUME DataInv, NEW c \in Worker, OpenIntent(c)
  PROVE  DataInv'
<1>1. /\ work[c] \in Work /\ WorkTrue(c, work[c]) /\ work[c].at = "open" /\ Ends(c)
      /\ UNCHANGED <<row, published, unsent, raced, crashed>>
  BY AtWork DEF OpenIntent, At
<1>2. work[c].pay \in Exists /\ work[c].pay \in Payment
  BY <1>1 DEF WorkTrue, Exists
<1>3. PICK i \in Intent :
        /\ intent[i] = NoIntent
        /\ intent' = [intent EXCEPT ![i] = [state |-> "open", pay |-> work[c].pay, via |-> "customer"]]
  BY DEF OpenIntent
<1>4. /\ intent'[i].pay = work[c].pay
      /\ \A j \in Intent \ {i} : intent'[j] = intent[j]
      /\ intent' \in [Intent -> GatewayIntent \union {NoIntent}]
  BY <1>2, <1>3 DEF DataInv, PaymentTypeOK, GatewayIntent, IntentState
<1>5. Keeps
  BY <1>1, <1>3, <1>4 DEF Keeps, Exists, WasPaid
<1>6. /\ work'[c] \notin Work /\ hooks' \subseteq hooks
      /\ \A d \in Worker \ {c} : work'[d] = work[d]
      /\ work' \in [Worker -> Work \union {Unused, Idle, Done}]
  BY <1>1, Ended DEF DataInv
<1>7. PaymentTypeOK'
  BY <1>1, <1>4, <1>6 DEF DataInv, PaymentTypeOK
<1>8. \A j \in Intent : intent[j] # NoIntent \/ intent'[j] = NoIntent \/ intent'[j].pay \in Exists'
  BY <1>1, <1>2, <1>4 DEF Exists
<1>9. \A p \in Payment : row'[p] = row[p]
  BY <1>1
<1> QED
  BY <1>1, <1>5, <1>6, <1>7, <1>8, <1>9, NewIsTrue

\* A copy that is written back is true.
LEMMA WrittenBack ==
  ASSUME DataInv, NEW c \in Worker, work[c] \in Work, WorkTrue(c, work[c]),
         work[c].at \in {"mark", "write"}, row' = [row EXCEPT ![work[c].pay] = work[c].copy],
         UNCHANGED intent
  PROVE  /\ Keeps
         /\ row' \in [Payment -> Row \union {NoRow}]
         /\ \A p \in Payment : row'[p] = row[p] \/ TrueCopy(p, row[p])'
<1>1. PICK p \in Payment, r \in Row : p = work[c].pay /\ r = work[c].copy /\ TrueCopy(p, r)
  BY DEF WorkTrue, Exists
<1>2. r # NoRow
  BY DEF Row, NoRow, Status, None
<1>3. row'[p] = r /\ (\A q \in Payment \ {p} : row'[q] = row[q]) /\ row' \in [Payment -> Row \union {NoRow}]
  BY <1>1 DEF DataInv, PaymentTypeOK
<1>4. Keeps
  BY <1>2, <1>3 DEF Keeps, Exists, WasPaid
<1>5. TrueCopy(p, row[p])'
  BY <1>1, <1>3 DEF TrueCopy, WasPaid
<1> QED
  BY <1>3, <1>4, <1>5

\* The payment is marked as processing.
LEMMA MarkKeeps ==
  ASSUME DataInv, NEW c \in Worker, MarkProcessing(c)
  PROVE  DataInv'
<1>1. /\ work[c] \in Work /\ WorkTrue(c, work[c]) /\ work[c].at = "mark" /\ Goes(c, "charge")
      /\ UNCHANGED <<intent, hooks, published, unsent, raced, crashed>>
  BY AtWork DEF MarkProcessing, At
<1>2. /\ Keeps
      /\ row' \in [Payment -> Row \union {NoRow}]
      /\ \A p \in Payment : row'[p] = row[p] \/ TrueCopy(p, row[p])'
  BY <1>1, WrittenBack DEF MarkProcessing
<1>3. /\ work'[c].at = "charge" /\ work'[c].op = work[c].op
      /\ work'[c].pay = work[c].pay /\ work'[c].copy = work[c].copy /\ work'[c].intent = work[c].intent
      /\ \A d \in Worker \ {c} : work'[d] = work[d]
      /\ work' \in [Worker -> Work \union {Unused, Idle, Done}]
  BY <1>1, Moved DEF DataInv, At
<1>4. PaymentTypeOK'
  BY <1>1, <1>2, <1>3 DEF DataInv, PaymentTypeOK
<1>5. TrueCopy(work[c].pay, work[c].copy)'
  BY <1>1, <1>3 DEF WorkTrue, TrueCopy, WasPaid, Exists
<1>6. WorkTrue(c, work[c])'
  BY <1>1, <1>2, <1>3, <1>5 DEF WorkTrue, Keeps
<1> QED
  BY <1>1, <1>2, <1>3, <1>4, <1>6, NewIsTrue

\* The whole row is written, and true; then an event may follow.
LEMMA WriteRowKeeps ==
  ASSUME DataInv, NEW c \in Worker, WriteRow(c)
  PROVE  DataInv'
<1>1. /\ work[c] \in Work /\ WorkTrue(c, work[c]) /\ work[c].at = "write"
      /\ UNCHANGED <<intent, published, unsent, raced, crashed>>
  BY AtWork DEF WriteRow, At
<1>2. /\ Keeps
      /\ row' \in [Payment -> Row \union {NoRow}]
      /\ \A p \in Payment : row'[p] = row[p] \/ TrueCopy(p, row[p])'
  BY <1>1, WrittenBack DEF WriteRow
<1>3. /\ work' \in [Worker -> Work \union {Unused, Idle, Done}] /\ hooks' \subseteq hooks
      /\ \A d \in Worker \ {c} : work'[d] = work[d]
      /\ work'[c] \notin Work \/ WorkTrue(c, work[c])'
  <2>1. CASE Ends(c)
    BY <2>1, Ended DEF DataInv
  <2>2. CASE /\ Goes(c, "publish") /\ hooks' = hooks
             /\ c \in Hook \/ (work[c].op = "pay" /\ work[c].copy.status = "succeeded")
    <3>1. /\ work'[c].at = "publish" /\ work'[c].op = work[c].op
          /\ work'[c].pay = work[c].pay /\ work'[c].copy = work[c].copy /\ work'[c].intent = work[c].intent
          /\ \A d \in Worker \ {c} : work'[d] = work[d]
          /\ work' \in [Worker -> Work \union {Unused, Idle, Done}]
      BY <1>1, <2>2, Moved DEF DataInv, At
    <3>2. TrueCopy(work[c].pay, work[c].copy)' /\ work[c].pay \in Exists'
      BY <1>1, <1>2, <3>1 DEF WorkTrue, TrueCopy, WasPaid, Exists, Keeps
    <3>3. c \in Hook => HookTrue(work[c].op, work[c].intent)'
      BY <1>1, <3>1 DEF WorkTrue, HookTrue, WasPaid
    <3>4. WorkTrue(c, work[c])'
      BY <1>1, <2>2, <3>1, <3>2, <3>3 DEF WorkTrue
    <3> QED
      BY <2>2, <3>1, <3>4
  <2> QED
    BY <2>1, <2>2 DEF WriteRow
<1>4. PaymentTypeOK'
  BY <1>1, <1>2, <1>3 DEF DataInv, PaymentTypeOK
<1> QED
  BY <1>1, <1>2, <1>3, <1>4, NewIsTrue

\* A charge leaves a paid intent behind that its copy names, or a failed copy.
LEMMA ChargeKeeps ==
  ASSUME DataInv, NEW c \in Worker, Charge(c)
  PROVE  DataInv'
<1>1. /\ work[c] \in Work /\ WorkTrue(c, work[c]) /\ work[c].at = "charge"
      /\ UNCHANGED <<row, hooks, published, unsent, raced, crashed>>
  BY AtWork DEF Charge, At
<1>2. PICK p \in Payment, k \in Row :
        /\ p = work[c].pay /\ k = work[c].copy /\ TrueCopy(p, k) /\ p \in Exists
        /\ c \in Call /\ c \notin Hook
  BY <1>1 DEF WorkTrue, Exists, Worker
<1>3. /\ Failed(k) \in Row /\ Failed(k).status = "failed" /\ Failed(k).txn = k.txn
      /\ \A i \in Intent :
           Completed(k, i) \in Row /\ Completed(k, i).status = "succeeded" /\ Completed(k, i).txn = i
  BY <1>2, RowOps
<1>4. ASSUME NEW n \in Row, n.status # "pending", Takes(c, "write", n), Keeps, PaymentTypeOK, TrueCopy(p, n)',
             intent' \in [Intent -> GatewayIntent \union {NoIntent}],
             \A j \in Intent : intent[j] # NoIntent \/ intent'[j] = NoIntent \/ intent'[j].pay = p
      PROVE  DataInv'
  <2>1. /\ work'[c].at = "write" /\ work'[c].op = work[c].op
        /\ work'[c].pay = p /\ work'[c].copy = n /\ work'[c].intent = work[c].intent
        /\ \A d \in Worker \ {c} : work'[d] = work[d]
        /\ work' \in [Worker -> Work \union {Unused, Idle, Done}]
    BY <1>1, <1>2, <1>4, Taken DEF At
  <2>2. PaymentTypeOK'
    BY <1>1, <1>4, <2>1 DEF PaymentTypeOK
  <2>3. TrueCopy(work[c].pay, work[c].copy)'
    BY <1>4, <2>1 DEF TrueCopy, WasPaid
  <2>4. p \in Exists' /\ p # None
    BY <1>2, <1>4 DEF Keeps, None
  <2>5. WorkTrue(c, work[c])'
    BY <1>1, <1>2, <1>4, <2>1, <2>3, <2>4 DEF WorkTrue
  <2> QED
    BY <1>1, <1>4, <2>1, <2>2, <2>4, <2>5, NewIsTrue
<1>5. ASSUME Takes(c, "write", Failed(k)), intent' = intent
      PROVE  DataInv'
  <2>1. Keeps /\ TrueCopy(p, Failed(k))'
    BY <1>1, <1>2, <1>3, <1>5 DEF Keeps, TrueCopy, WasPaid, Exists
  <2> QED
    BY <1>3, <1>4, <1>5, <2>1 DEF DataInv, PaymentTypeOK
<1>6. ASSUME NEW i \in Intent, NEW state \in {"paid", "unpaid"},
             intent[i] = NoIntent,
             intent' = [intent EXCEPT ![i] = [state |-> state, pay |-> p, via |-> "charge"]],
             Takes(c, "write", IF state = "paid" THEN Completed(k, i) ELSE Failed(k))
      PROVE  DataInv'
  <2>1. /\ intent'[i].pay = p /\ intent'[i].state = state
        /\ \A j \in Intent \ {i} : intent'[j] = intent[j]
        /\ intent' \in [Intent -> GatewayIntent \union {NoIntent}]
    BY <1>2, <1>6 DEF DataInv, PaymentTypeOK, GatewayIntent, IntentState
  <2>2. Keeps
    BY <1>1, <1>6, <2>1 DEF Keeps, Exists, WasPaid
  <2>3. CASE state = "paid"
    <3>1. TrueCopy(p, Completed(k, i))'
      <4>1. i # None
        BY DEF None
      <4> QED
        BY <1>3, <2>1, <2>3, <4>1 DEF TrueCopy, WasPaid
    <3> QED
      BY <1>3, <1>4, <1>6, <2>1, <2>2, <2>3, <3>1 DEF DataInv
  <2>4. CASE state = "unpaid"
    <3>1. k.txn # None => k.txn # i /\ k.txn \in Intent
      BY <1>2, <1>6 DEF TrueCopy, NoIntent, Row, None
    <3>2. TrueCopy(p, Failed(k))'
      BY <1>2, <1>3, <2>1, <3>1 DEF TrueCopy
    <3> QED
      BY <1>3, <1>4, <1>6, <2>1, <2>2, <2>4, <3>2 DEF DataInv
  <2> QED
    BY <2>3, <2>4
<1> QED
  BY <1>2, <1>5, <1>6 DEF Charge

\* The gateway has refunded what the copy says is refunded.
LEMMA AskRefundKeeps ==
  ASSUME DataInv, NEW c \in Worker, AskRefund(c)
  PROVE  DataInv'
<1>1. /\ work[c] \in Work /\ WorkTrue(c, work[c]) /\ work[c].at = "ask"
      /\ UNCHANGED <<row, published, unsent, raced, crashed>>
  BY AtWork DEF AskRefund, At
<1>2. CASE GivesUp(c) /\ intent' = intent
  BY <1>1, <1>2, GaveUp, QuietWork DEF DataInv, PaymentTypeOK
<1>3. CASE ~ (GivesUp(c) /\ intent' = intent)
  <2>1. PICK p \in Payment, k \in Row \union {NoRow}, i \in Intent \union {None} :
          /\ p = work[c].pay /\ k = work[c].copy /\ i = k.txn /\ TrueCopy(p, k) /\ p \in Exists
    BY <1>1 DEF WorkTrue, Exists, Work, Row, NoRow
  <2>2. /\ i # None /\ intent[i].state = "paid"
        /\ intent' = [intent EXCEPT ![i].state = "refunded"]
        /\ hooks' = hooks \union RefundedWebhook(i)
        /\ Takes(c, "write", Refunded(k))
    BY <1>3, <2>1 DEF AskRefund
  <2>3. i \in Intent /\ k \in Row /\ intent[i] \in GatewayIntent /\ intent[i].pay = p
    BY <2>1, <2>2 DEF NoRow, None, TrueCopy, DataInv, PaymentTypeOK, NoIntent
  <2>4. /\ intent'[i].state = "refunded" /\ intent'[i].pay = intent[i].pay /\ intent'[i].via = intent[i].via
        /\ intent'[i] \in GatewayIntent
        /\ \A j \in Intent \ {i} : intent'[j] = intent[j]
        /\ intent' \in [Intent -> GatewayIntent \union {NoIntent}]
    BY <2>2, <2>3 DEF DataInv, PaymentTypeOK, GatewayIntent, IntentState
  <2>5. intent'[i] # NoIntent
    BY <2>4 DEF NoIntent
  <2>6. Keeps
    BY <1>1, <2>2, <2>4, <2>5 DEF Keeps, Exists, WasPaid
  <2>7. hooks' \subseteq Webhook /\ \A h \in hooks' : h \in hooks \/ HookTrue(h.kind, h.intent)'
    BY <2>2, <2>3, <2>4, <2>5
       DEF RefundedWebhook, HookTrue, WasPaid, Webhook, HookKind, DataInv, PaymentTypeOK
  <2> DEFINE n == Refunded(k)
  <2>8. n \in Row /\ n.status = "refunded" /\ n.txn = i
    BY <2>1, <2>3, RowOps
  <2>9. Takes(c, "write", n)
    BY <2>2
  <2> HIDE DEF n
  <2>10. /\ work'[c].at = "write" /\ work'[c].op = work[c].op
         /\ work'[c].pay = p /\ work'[c].copy = n /\ work'[c].intent = work[c].intent
         /\ \A d \in Worker \ {c} : work'[d] = work[d]
         /\ work' \in [Worker -> Work \union {Unused, Idle, Done}]
    BY <1>1, <2>1, <2>8, <2>9, Taken DEF At, DataInv
  <2>11. TrueCopy(work[c].pay, work[c].copy)'
    BY <2>2, <2>3, <2>4, <2>8, <2>10 DEF TrueCopy
  <2>12. p \in Exists' /\ p # None
    BY <2>1, <2>6 DEF Keeps, None
  <2>13. c \in Hook => HookTrue(work[c].op, work[c].intent)' /\ intent'[work[c].intent].pay = p
    <3> SUFFICES ASSUME c \in Hook
                 PROVE  HookTrue(work[c].op, work[c].intent)' /\ intent'[work[c].intent].pay = p
      OBVIOUS
    <3>1. PICK o \in HookKind, x \in Intent :
            o = work[c].op /\ x = work[c].intent /\ HookTrue(o, x) /\ intent[x].pay = p
      BY <1>1, <2>1 DEF WorkTrue
    <3>2. HookTrue(o, x)' /\ intent'[x].pay = p
      BY <2>6, <3>1 DEF HookTrue, Keeps
    <3> QED
      BY <2>10, <3>1, <3>2
  <2>14. WorkTrue(c, work[c])'
    BY <1>1, <2>8, <2>10, <2>11, <2>12, <2>13 DEF WorkTrue
  <2>15. PaymentTypeOK'
    BY <1>1, <2>4, <2>7, <2>10 DEF DataInv, PaymentTypeOK
  <2>16. \A j \in Intent : intent[j] # NoIntent \/ intent'[j] = NoIntent \/ intent'[j].pay \in Exists'
    BY <2>1, <2>3, <2>4, <2>12
  <2> QED
    BY <1>1, <2>6, <2>7, <2>10, <2>14, <2>15, <2>16, NewIsTrue
<1> QED
  BY <1>2, <1>3

\* What is published was true when it was recorded, and still is.
LEMMA PublishKeeps ==
  ASSUME DataInv, NEW c \in Worker, Publish(c)
  PROVE  DataInv'
<1>1. /\ work[c] \in Work /\ WorkTrue(c, work[c]) /\ work[c].at = "publish" /\ Ends(c)
      /\ UNCHANGED <<row, intent, raced, crashed>>
      /\ published' \subseteq published \union {EventOf(c)}
      /\ unsent' = unsent \/ (unsent' \subseteq unsent \union {work[c].intent} /\ work[c].op = "succeeded")
  BY AtWork DEF Publish, At
<1>2. work[c].pay \in Payment /\ TrueCopy(work[c].pay, work[c].copy)
  BY <1>1 DEF WorkTrue, Exists
<1>3. EventOf(c) \in Event /\ EventTrue(EventOf(c))
  <2>1. CASE c \in Hook
    <3>1. work[c].op \in HookKind /\ work[c].op # "pay" /\ work[c].intent \in Intent
          /\ HookTrue(work[c].op, work[c].intent)
      BY <1>1, <2>1 DEF WorkTrue, HookKind
    <3> QED
      BY <3>1 DEF EventOf, Event, EventTrue, HookTrue, HookKind
  <2>2. CASE c \in Call
    <3>1. work[c].op = "pay" /\ work[c].copy.status = "succeeded"
      BY <1>1, <2>2 DEF WorkTrue
    <3>2. work[c].copy.txn \in Intent /\ WasPaid(work[c].copy.txn)
      BY <1>1, <1>2, <3>1 DEF TrueCopy, Work, Row, NoRow, None
    <3> QED
      BY <3>1, <3>2 DEF EventOf, Event, EventTrue
  <2> QED
    BY <2>1, <2>2 DEF Worker
<1>4. unsent' \subseteq Intent
  BY <1>1 DEF WorkTrue, DataInv, PaymentTypeOK, Worker, ApiOp
<1>5. /\ work'[c] \notin Work /\ hooks' \subseteq hooks
      /\ \A d \in Worker \ {c} : work'[d] = work[d]
      /\ work' \in [Worker -> Work \union {Unused, Idle, Done}]
  BY <1>1, Ended DEF DataInv
<1>6. PaymentTypeOK'
  BY <1>1, <1>3, <1>4, <1>5 DEF DataInv, PaymentTypeOK
<1>7. Keeps
  BY <1>1 DEF Keeps, Exists, WasPaid
<1>8. \A e \in published' : e \in published \/ EventTrue(e)'
  BY <1>1, <1>3 DEF EventTrue, WasPaid
<1> QED
  BY <1>1, <1>5, <1>6, <1>7, <1>8, NewIsTrue

\* The gateway's webhooks say what its intents have become.
LEMMA GatewayKeeps ==
  ASSUME DataInv, NEW i \in Intent,
         CustomerPays(i) \/ AttemptFails(i) \/ IntentCanceled(i) \/ RefundedByHand(i)
  PROVE  DataInv'
<1>1. PICK from \in SUBSET IntentState, to \in IntentState, kind \in HookKind :
        /\ Gateway(i, from, to, kind)
        /\ "refunded" \notin from /\ "canceled" \notin from
        /\ "paid" \in from => to = "refunded"
        /\ kind = "succeeded" => to = "paid"
        /\ kind = "refunded" => to = "refunded"
        /\ kind = "canceled" => to = "canceled"
  BY DEF CustomerPays, AttemptFails, IntentCanceled, RefundedByHand, IntentState, HookKind
<1>2. /\ intent[i].via = "customer" /\ intent[i].state \in from
      /\ intent' = [intent EXCEPT ![i].state = to]
      /\ hooks' = hooks \union {[kind |-> kind, intent |-> i]}
      /\ UNCHANGED <<row, work, published, unsent, raced, crashed>>
  BY <1>1 DEF Gateway
<1>3. intent[i] \in GatewayIntent /\ intent[i] # NoIntent
  BY <1>2 DEF DataInv, PaymentTypeOK, NoIntent, None
<1>4. /\ intent'[i].state = to /\ intent'[i].pay = intent[i].pay /\ intent'[i].via = intent[i].via
      /\ intent'[i] \in GatewayIntent /\ intent'[i] # NoIntent
      /\ \A j \in Intent \ {i} : intent'[j] = intent[j]
      /\ intent' \in [Intent -> GatewayIntent \union {NoIntent}]
  BY <1>2, <1>3 DEF DataInv, PaymentTypeOK, GatewayIntent, NoIntent, None
<1>5. Keeps
  BY <1>1, <1>2, <1>4 DEF Keeps, Exists, WasPaid
<1>6. hooks' \subseteq Webhook /\ \A h \in hooks' : h \in hooks \/ HookTrue(h.kind, h.intent)'
  BY <1>1, <1>2, <1>4 DEF HookTrue, WasPaid, Webhook, DataInv, PaymentTypeOK
<1>7. PaymentTypeOK'
  BY <1>2, <1>4, <1>6 DEF DataInv, PaymentTypeOK
<1>8. \A j \in Intent : intent[j] # NoIntent \/ intent'[j] = NoIntent
  BY <1>3, <1>4
<1> QED
  BY <1>2, <1>5, <1>6, <1>7, <1>8, NewIsTrue

\* Nothing exists and nobody is at work.
LEMMA PaymentInitInv == PaymentInit => DataInv
<1> SUFFICES ASSUME PaymentInit
             PROVE  DataInv
  OBVIOUS
<1>1. PaymentTypeOK
  BY DEF PaymentInit, PaymentTypeOK, Worker
<1>2. \A p \in Payment : TrueCopy(p, row[p])
  BY DEF PaymentInit, TrueCopy, NoRow, None
<1>3. \A c \in Worker : work[c] \notin Work
  BY DEF PaymentInit, Work, At, Unused, Idle, Worker
<1> QED
  BY <1>1, <1>2, <1>3 DEF PaymentInit, DataInv

\* Every step keeps what is recorded true.
LEMMA DataStep == DataInv /\ [PaymentNext]_paymentVars => DataInv'
<1> SUFFICES ASSUME DataInv, [PaymentNext]_paymentVars
             PROVE  DataInv'
  OBVIOUS
<1>1. ASSUME NEW c \in Call, StartCall(c) \/ CallStops(c)
      PROVE  DataInv'
  BY <1>1, StartCallKeeps, StopsKeep DEF Worker
<1>2. ASSUME NEW w \in Hook, (\E h \in hooks : DeliverWebhook(w, h)) \/ WebhookErrs(w) \/ WebhookStops(w)
      PROVE  DataInv'
  BY <1>2, DeliverKeeps, StopsKeep DEF Worker
<1>3. ASSUME NEW c \in Worker, Works(c)
      PROVE  DataInv'
  BY <1>3, LookUpKeeps, InsertKeeps, OpenIntentKeeps, CheckKeeps, ReadToProcessKeeps, MarkKeeps, ChargeKeeps,
     ReadToRefundKeeps, AskRefundKeeps, ReadToSettleKeeps, WriteRowKeeps, PublishKeeps DEF Works
<1>4. ASSUME NEW i \in Intent, CustomerPays(i) \/ AttemptFails(i) \/ IntentCanceled(i) \/ RefundedByHand(i)
      PROVE  DataInv'
  BY <1>4, GatewayKeeps
<1>5. CASE UNCHANGED paymentVars
  <2>1. PaymentTypeOK'
    BY <1>5 DEF paymentVars, DataInv, PaymentTypeOK
  <2> QED
    BY <1>5, <2>1, QuietStep DEF paymentVars
<1> QED
  BY <1>1, <1>2, <1>3, <1>4, <1>5 DEF PaymentNext
-----------------------------------------------------------------------------
\* Who may still charge for a payment, and what was charged for it.
Charging(c, p) == work[c].at \in {"mark", "charge"} /\ work[c].pay = p
Charged(i, p) == intent[i].via = "charge" /\ intent[i].pay = p
Critical == {"insert", "mark", "charge"}

\* Of the calls that may charge and the charges there is one at most, and none
\* has charged while the row says pending.
SoleCharge(p) ==
  /\ \A c, d \in Call : Charging(c, p) /\ Charging(d, p) => c = d
  /\ \A i, j \in Intent : Charged(i, p) /\ Charged(j, p) => i = j
  /\ \A c \in Call, i \in Intent : ~ (Charging(c, p) /\ Charged(i, p))
  /\ row[p].status = "pending" =>
       /\ \A i \in Intent : ~ Charged(i, p)
       /\ \A c \in Call : Charging(c, p) => work[c].at = "mark"

CreatedOnce ==
  /\ \A c, d \in Call : work[c].at = "insert" /\ work[d].at = "insert" => c = d
  /\ \A c \in Call : work[c].at = "insert" => Exists = {}
  /\ \A p, q \in Exists : p = q

RaceInv ==
  /\ "creation" \notin raced => CreatedOnce
  /\ "processing" \notin raced => \A p \in Payment : SoleCharge(p)

\* A step that neither creates, nor begins to process, nor charges.
LEMMA NoRace ==
  ASSUME RaceInv, raced \subseteq raced', Exists' = Exists,
         \A c \in Call : work'[c] = work[c] \/ work'[c].at \notin Critical,
         \A i \in Intent : intent'[i].via = "charge" => intent'[i].via = intent[i].via /\ intent'[i].pay = intent[i].pay,
         \A p \in Payment : row'[p].status = "pending" => row[p].status = "pending"
  PROVE  RaceInv'
<1>1. \A c \in Call : work'[c].at \in Critical => work'[c] = work[c]
  OBVIOUS
<1>2. ASSUME "creation" \notin raced'
      PROVE  CreatedOnce'
  <2>1. CreatedOnce
    BY <1>2 DEF RaceInv
  <2> QED
    BY <1>1, <2>1 DEF CreatedOnce, Critical
<1>3. ASSUME "processing" \notin raced', NEW p \in Payment
      PROVE  SoleCharge(p)'
  <2>1. SoleCharge(p)
    BY <1>3 DEF RaceInv
  <2>2. \A c \in Call : Charging(c, p)' => Charging(c, p) /\ work'[c].at = work[c].at
    BY <1>1 DEF Charging, Critical
  <2>3. \A i \in Intent : Charged(i, p)' => Charged(i, p)
    BY DEF Charged
  <2> QED
    BY <2>1, <2>2, <2>3 DEF SoleCharge
<1> QED
  BY <1>2, <1>3 DEF RaceInv

\* Where a job may be after a step of it.
LEMMA NotCritical ==
  ASSUME PaymentTypeOK, NEW c \in Worker, work[c] \in Work,
         \/ Ends(c)
         \/ \E at \in At \ Critical : Goes(c, at)
         \/ \E at \in At \ Critical, r \in Row \union {NoRow} : Takes(c, at, r)
  PROVE  \A d \in Call : work'[d] = work[d] \/ work'[d].at \notin Critical
<1>1. CASE Ends(c)
  <2>1. work'[c] \in {Done, Idle} /\ \A d \in Worker \ {c} : work'[d] = work[d]
    BY <1>1 DEF Ends, PaymentTypeOK
  <2>2. Done.at \notin Critical /\ Idle.at \notin Critical
    BY DEF Done, Idle, Critical
  <2> QED
    BY <2>1, <2>2 DEF Worker
<1>2. CASE \E at \in At \ Critical : Goes(c, at)
  BY <1>2, Moved DEF Worker
<1>3. CASE \E at \in At \ Critical, r \in Row \union {NoRow} : Takes(c, at, r)
  <2>1. PICK at \in At \ Critical, r \in Row \union {NoRow} : Takes(c, at, r)
    BY <1>3
  <2>2. work'[c].at = at /\ \A d \in Worker \ {c} : work'[d] = work[d]
    BY <2>1, Taken
  <2> QED
    BY <2>1, <2>2 DEF Worker
<1> QED
  BY <1>1, <1>2, <1>3

\* The steps of a job that are not critical, and do not touch the intents.
LEMMA OtherWorks ==
  ASSUME DataInv, DataInv', RaceInv, NEW c \in Worker,
         \/ CheckIntent(c) \/ SeePayment(c) \/ ReadToRefund(c) \/ ReadToSettle(c)
         \/ Publish(c) \/ CallStops(c) \/ WebhookErrs(c) \/ WebhookStops(c)
  PROVE  RaceInv'
<1>1. UNCHANGED <<row, intent, raced>>
  BY DEF CheckIntent, SeePayment, ReadToRefund, ReadToSettle, Publish, CallStops, WebhookErrs, WebhookStops
<1>2. \A d \in Call : work'[d] = work[d] \/ work'[d].at \notin Critical
  <2>1. CASE CheckIntent(c) \/ SeePayment(c)
    <3>1. work[c] \in Work
      BY <2>1, AtWork DEF CheckIntent, SeePayment, At
    <3> QED
      BY <2>1, <3>1, NotCritical DEF CheckIntent, SeePayment, DataInv, At, Critical
  <2>2. CASE ReadToRefund(c)
    <3>1. work[c] \in Work /\ work[c].pay \in Payment
      BY <2>2, AtWork DEF ReadToRefund, At, WorkTrue, Exists
    <3>2. row[work[c].pay] \in Row \union {NoRow}
      BY <3>1 DEF DataInv, PaymentTypeOK
    <3> QED
      BY <2>2, <3>1, <3>2, NotCritical DEF ReadToRefund, DataInv, At, Critical
  <2>3. CASE ReadToSettle(c)
    <3>1. work[c] \in Work
      BY <2>3, AtWork DEF ReadToSettle, At
    <3>2. \/ Ends(c) \/ Goes(c, "publish")
          \/ work' = [work EXCEPT ![c].at = "write", ![c].copy = Settles(work[c].op, row[work[c].pay], work[c].intent).copy]
      BY <2>3 DEF ReadToSettle, GivesUp, Takes
    <3>3. CASE work' = [work EXCEPT ![c].at = "write", ![c].copy = Settles(work[c].op, row[work[c].pay], work[c].intent).copy]
      BY <3>1, <3>3 DEF DataInv, PaymentTypeOK, Critical, Work, Worker
    <3> QED
      BY <3>1, <3>2, <3>3, NotCritical DEF DataInv, At, Critical
  <2>4. CASE Publish(c)
    <3>1. work[c] \in Work
      BY <2>4, AtWork DEF Publish, At
    <3> QED
      BY <2>4, <3>1, NotCritical DEF Publish, DataInv
  <2>5. CASE CallStops(c) \/ WebhookStops(c)
    BY <2>5 DEF CallStops, WebhookStops, DataInv, PaymentTypeOK, Worker, Critical, Done, Idle
  <2>6. CASE WebhookErrs(c)
    <3>1. work[c] \in Work
      BY <2>6, AtWork DEF WebhookErrs, At
    <3> QED
      BY <2>6, <3>1, NotCritical DEF WebhookErrs, DataInv, At, Critical
  <2> QED
    BY <2>1, <2>2, <2>3, <2>4, <2>5, <2>6
<1> QED
  BY <1>1, <1>2, NoRace DEF Exists

\* A job that begins is not critical yet.
LEMMA BeginRace ==
  ASSUME DataInv, RaceInv,
         \/ \E c \in Call : StartCall(c)
         \/ \E w \in Hook, h \in hooks : DeliverWebhook(w, h)
  PROVE  RaceInv'
<1>1. UNCHANGED <<row, intent, raced>>
  BY DEF StartCall, DeliverWebhook
<1>2. ASSUME NEW op, NEW p, NEW i
      PROVE  Job(op, p, i).at \notin Critical
  BY DEF Job, At0, Critical
<1>3. \A d \in Call : work'[d] = work[d] \/ work'[d].at \notin Critical
  <2>1. ASSUME NEW c \in Call, StartCall(c)
        PROVE  \A d \in Call : work'[d] = work[d] \/ work'[d].at \notin Critical
    <3>1. \E op, p, i : work' = [work EXCEPT ![c] = Job(op, p, i)]
      BY <2>1 DEF StartCall
    <3>2. PICK op, p, i : work' = [work EXCEPT ![c] = Job(op, p, i)]
      BY <3>1
    <3> DEFINE k == Job(op, p, i)
    <3>3. k.at \notin Critical
      BY <1>2
    <3>4. work' = [work EXCEPT ![c] = k]
      BY <3>2
    <3> HIDE DEF k
    <3> QED
      BY <3>3, <3>4 DEF DataInv, PaymentTypeOK, Worker
  <2>2. ASSUME NEW w \in Hook, NEW h \in hooks, DeliverWebhook(w, h)
        PROVE  \A d \in Call : work'[d] = work[d]
    BY <2>2 DEF DeliverWebhook, DataInv, PaymentTypeOK, Worker
  <2> QED
    BY <2>1, <2>2
<1> QED
  BY <1>1, <1>3, NoRace DEF Exists

\* Who is to create a payment found none and is alone, or there is a race.
LEMMA LookUpRace ==
  ASSUME DataInv, RaceInv, NEW c \in Worker, LookUp(c)
  PROVE  RaceInv'
<1>1. work[c] \in Work /\ UNCHANGED <<row, intent>> /\ raced \subseteq raced'
  BY AtWork DEF LookUp, At
<1>2. CASE Goes(c, "insert")
  <2>1. work'[c].at = "insert" /\ \A d \in Worker \ {c} : work'[d] = work[d]
    BY <1>1, <1>2, Moved DEF At, DataInv
  <2>2. "creation" \notin raced' => Exists = {} /\ \A d \in Call : work[d].at # "insert"
    <3>1. \/ Ends(c)
          \/ \E p \in Exists : work' = [work EXCEPT ![c].at = "open", ![c].pay = p]
          \/ raced' = IF Exists # {} \/ \E d \in Call : work[d].at = "insert"
                      THEN raced \union {"creation"} ELSE raced
      BY DEF LookUp
    <3>2. ~ Ends(c)
      BY <1>1, <2>1, Ended, Moved, <1>2 DEF DataInv, At
    <3>3. ASSUME NEW p \in Exists, work' = [work EXCEPT ![c].at = "open", ![c].pay = p]
          PROVE  FALSE
      <4>1. work'[c].at = "open"
        BY <1>1, <3>3 DEF DataInv, PaymentTypeOK, Work
      <4> QED
        BY <2>1, <4>1
    <3> QED
      BY <3>1, <3>2, <3>3
  <2>3. "creation" \notin raced' => CreatedOnce'
    BY <1>1, <2>1, <2>2 DEF CreatedOnce, Exists, Worker
  <2>4. ASSUME "processing" \notin raced', NEW p \in Payment
        PROVE  SoleCharge(p)'
    <3>1. SoleCharge(p)
      BY <1>1, <2>4 DEF RaceInv
    <3>2. \A d \in Call : Charging(d, p)' => Charging(d, p) /\ work'[d].at = work[d].at
      BY <2>1 DEF Charging, Worker
    <3>3. \A i \in Intent : Charged(i, p)' => Charged(i, p)
      BY <1>1 DEF Charged
    <3> QED
      BY <1>1, <3>1, <3>2, <3>3 DEF SoleCharge
  <2> QED
    BY <2>3, <2>4 DEF RaceInv
<1>3. CASE Ends(c)
  BY <1>1, <1>3, NotCritical, NoRace DEF DataInv, Exists
<1>4. CASE \E p \in Exists : work' = [work EXCEPT ![c].at = "open", ![c].pay = p]
  <2>1. PICK p \in Exists : work' = [work EXCEPT ![c].at = "open", ![c].pay = p]
    BY <1>4
  <2>2. \A d \in Call : work'[d] = work[d] \/ work'[d].at \notin Critical
    BY <1>1, <2>1 DEF DataInv, PaymentTypeOK, Work, Worker, Critical
  <2> QED
    BY <1>1, <2>2, NoRace DEF Exists
<1> QED
  BY <1>2, <1>3, <1>4 DEF LookUp

\* A new row is the only one, or there was a race; nobody has charged for it.
LEMMA InsertRace ==
  ASSUME DataInv, RaceInv, NEW c \in Worker, Insert(c)
  PROVE  RaceInv'
<1>1. /\ work[c] \in Work /\ WorkTrue(c, work[c]) /\ work[c].at = "insert"
      /\ UNCHANGED <<intent, raced>>
  BY AtWork DEF Insert, At
<1>2. c \in Call
  BY <1>1 DEF WorkTrue, Worker
<1>3. PICK p \in Payment \ Exists :
        /\ row' = [row EXCEPT ![p] = [status |-> "pending", txn |-> None]]
        /\ work' = [work EXCEPT ![c].pay = p,
                                ![c].at = IF work[c].op = "pay" THEN "read" ELSE "open"]
  BY DEF Insert
<1>4. work'[c].at \in {"read", "open"} /\ \A d \in Worker \ {c} : work'[d] = work[d]
  BY <1>1, <1>3 DEF DataInv, PaymentTypeOK, Work
<1>5. \A q \in Payment \ {p} : row'[q] = row[q]
  BY <1>3 DEF DataInv, PaymentTypeOK
<1>6. ASSUME "creation" \notin raced'
      PROVE  CreatedOnce'
  <2>1. CreatedOnce
    BY <1>1, <1>6 DEF RaceInv
  <2>2. Exists = {} /\ \A d \in Call : work[d].at = "insert" => d = c
    BY <1>1, <1>2, <2>1 DEF CreatedOnce
  <2>3. \A d \in Call : work'[d].at # "insert"
    BY <1>4, <2>2 DEF Worker
  <2>4. \A q \in Payment : q \in Exists' => q = p
    BY <1>5, <2>2 DEF Exists
  <2>5. \A q \in Exists' : q \in Payment
    BY DEF Exists
  <2> QED
    BY <2>3, <2>4, <2>5 DEF CreatedOnce
<1>7. ASSUME "processing" \notin raced', NEW q \in Payment
      PROVE  SoleCharge(q)'
  <2>1. SoleCharge(q)
    BY <1>1, <1>7 DEF RaceInv
  <2>2. \A d \in Call : Charging(d, q)' => Charging(d, q) /\ work'[d].at = work[d].at
    BY <1>4 DEF Charging, Worker
  <2>3. \A i \in Intent : Charged(i, q)' => Charged(i, q)
    BY <1>1 DEF Charged
  <2>4. CASE q = p
    <3>1. \A d \in Call : ~ Charging(d, p)
      BY <1>3, AtWork DEF Charging, WorkTrue, At, Worker
    <3>2. ASSUME NEW i \in Intent, Charged(i, p)
          PROVE  FALSE
      <4>1. intent[i] # NoIntent
        BY <3>2 DEF Charged, NoIntent, None
      <4> QED
        BY <1>3, <3>2, <4>1 DEF DataInv, Charged
    <3> QED
      BY <2>2, <2>3, <2>4, <3>1, <3>2 DEF SoleCharge
  <2>5. CASE q # p
    BY <1>5, <2>1, <2>2, <2>3, <2>5 DEF SoleCharge
  <2> QED
    BY <2>4, <2>5
<1> QED
  BY <1>6, <1>7 DEF RaceInv

\* Whoever begins to process a pending payment is alone, or there is a race.
LEMMA ReadToProcessRace ==
  ASSUME DataInv, RaceInv, NEW c \in Worker, ReadToProcess(c)
  PROVE  RaceInv'
<1>1. /\ work[c] \in Work /\ WorkTrue(c, work[c]) /\ work[c].at = "read"
      /\ UNCHANGED <<row, intent>> /\ raced \subseteq raced'
  BY AtWork DEF ReadToProcess, At
<1>2. CASE Ends(c)
  BY <1>1, <1>2, NotCritical, NoRace DEF DataInv, Exists
<1>3. CASE ~ Ends(c)
  <2>1. PICK p \in Payment, r \in Row \union {NoRow} : p = work[c].pay /\ r = row[p]
    BY <1>1 DEF WorkTrue, Exists, DataInv, PaymentTypeOK
  <2>2. /\ r.status = "pending" /\ Takes(c, "mark", Processing(r))
        /\ raced' = IF \E d \in Call : work[d].at = "mark" /\ work[d].pay = p
                    THEN raced \union {"processing"} ELSE raced
    BY <1>3, <2>1 DEF ReadToProcess, MayProcess
  <2> DEFINE n == Processing(r)
  <2>3. n \in Row /\ Takes(c, "mark", n)
    BY <2>1, <2>2, RowOps DEF NoRow, None
  <2> HIDE DEF n
  <2>4. /\ work'[c].at = "mark" /\ work'[c].pay = p
        /\ \A d \in Worker \ {c} : work'[d] = work[d]
    BY <1>1, <2>1, <2>3, Taken DEF At, DataInv
  <2>5. "creation" \notin raced' => CreatedOnce'
    BY <1>1, <2>2, <2>4 DEF RaceInv, CreatedOnce, Exists, Worker
  <2>6. ASSUME "processing" \notin raced', NEW q \in Payment
        PROVE  SoleCharge(q)'
    <3>1. SoleCharge(q)
      BY <1>1, <2>6 DEF RaceInv
    <3>2. \A d \in Call : d # c => (Charging(d, q)' <=> Charging(d, q)) /\ work'[d].at = work[d].at
      BY <2>4 DEF Charging, Worker
    <3>3. \A i \in Intent : Charged(i, q)' <=> Charged(i, q)
      BY <1>1 DEF Charged
    <3>4. CASE q = p
      <4>1. \A d \in Call : ~ Charging(d, p)
        BY <2>1, <2>2, <2>6, <3>1, <3>4 DEF Charging, SoleCharge
      <4>2. \A i \in Intent : ~ Charged(i, p)
        BY <2>1, <2>2, <3>1, <3>4 DEF SoleCharge
      <4> QED
        BY <2>4, <3>2, <3>3, <3>4, <4>1, <4>2 DEF SoleCharge
    <3>5. CASE q # p
      <4>1. ~ Charging(c, q)'
        BY <2>4, <3>5 DEF Charging
      <4>2. row'[q] = row[q]
        BY <1>1
      <4> QED
        BY <3>1, <3>2, <3>3, <4>1, <4>2 DEF SoleCharge
    <3> QED
      BY <3>4, <3>5
  <2> QED
    BY <2>5, <2>6 DEF RaceInv
<1> QED
  BY <1>2, <1>3

\* Who has marked the payment may charge, and no longer finds it pending.
LEMMA MarkRace ==
  ASSUME DataInv, RaceInv, NEW c \in Worker, MarkProcessing(c)
  PROVE  RaceInv'
<1>1. /\ work[c] \in Work /\ WorkTrue(c, work[c]) /\ work[c].at = "mark" /\ Goes(c, "charge")
      /\ UNCHANGED <<intent, raced>>
  BY AtWork DEF MarkProcessing, At
<1>2. PICK p \in Payment, r \in Row : p = work[c].pay /\ r = work[c].copy /\ p \in Exists /\ r.status # "pending"
  BY <1>1 DEF WorkTrue, Exists
<1>3. row'[p] = r /\ \A q \in Payment \ {p} : row'[q] = row[q]
  BY <1>2 DEF MarkProcessing, DataInv, PaymentTypeOK
<1>4. r # NoRow
  BY DEF Row, NoRow, Status, None
<1>5. Exists' = Exists
  BY <1>2, <1>3, <1>4 DEF Exists
<1>6. /\ work'[c].at = "charge" /\ work'[c].pay = p
      /\ \A d \in Worker \ {c} : work'[d] = work[d]
  BY <1>1, <1>2, Moved DEF DataInv, At
<1>7. "creation" \notin raced' => CreatedOnce'
  BY <1>1, <1>5, <1>6 DEF RaceInv, CreatedOnce, Worker
<1>8. ASSUME "processing" \notin raced', NEW q \in Payment
      PROVE  SoleCharge(q)'
  <2>1. SoleCharge(q)
    BY <1>1, <1>8 DEF RaceInv
  <2>2. \A d \in Call : Charging(d, q)' <=> Charging(d, q)
    BY <1>1, <1>2, <1>6 DEF Charging, Worker
  <2>3. \A i \in Intent : Charged(i, q)' <=> Charged(i, q)
    BY <1>1 DEF Charged
  <2>4. CASE q = p
    BY <1>2, <1>3, <2>1, <2>2, <2>3, <2>4 DEF SoleCharge
  <2>5. CASE q # p
    <3>1. \A d \in Call : Charging(d, q)' => work'[d].at = work[d].at
      BY <1>6, <2>5 DEF Charging, Worker
    <3> QED
      BY <1>3, <2>1, <2>2, <2>3, <2>5, <3>1 DEF SoleCharge
  <2> QED
    BY <2>4, <2>5
<1> QED
  BY <1>7, <1>8 DEF RaceInv

\* Who charges has charged, and may not any more.
LEMMA ChargeRace ==
  ASSUME DataInv, RaceInv, NEW c \in Worker, Charge(c)
  PROVE  RaceInv'
<1>1. /\ work[c] \in Work /\ WorkTrue(c, work[c]) /\ work[c].at = "charge"
      /\ UNCHANGED <<row, raced>>
  BY AtWork DEF Charge, At
<1>2. c \in Call
  BY <1>1 DEF WorkTrue, Worker
<1>3. PICK p \in Payment, k \in Row : p = work[c].pay /\ k = work[c].copy
  BY <1>1 DEF WorkTrue, Exists
<1>4. /\ work'[c].at = "write"
      /\ \A d \in Worker \ {c} : work'[d] = work[d]
  <2>1. ASSUME NEW r \in Row, Takes(c, "write", r)
        PROVE  work'[c].at = "write" /\ \A d \in Worker \ {c} : work'[d] = work[d]
    BY <1>1, <2>1, Taken DEF At, DataInv
  <2>2. /\ Failed(k) \in Row
        /\ \A i \in Intent : Completed(k, i) \in Row
    BY RowOps
  <2>3. \/ Takes(c, "write", Failed(k))
        \/ \E i \in Intent : Takes(c, "write", Completed(k, i))
    BY <1>3 DEF Charge
  <2> QED
    BY <2>1, <2>2, <2>3
<1>5. \/ intent' = intent
      \/ \E i \in Intent, state \in {"paid", "unpaid"} :
           intent' = [intent EXCEPT ![i] = [state |-> state, pay |-> p, via |-> "charge"]]
  BY <1>3 DEF Charge
<1>6. "creation" \notin raced' => CreatedOnce'
  BY <1>1, <1>4 DEF RaceInv, CreatedOnce, Exists, Worker
<1>7. ASSUME "processing" \notin raced', NEW q \in Payment
      PROVE  SoleCharge(q)'
  <2>1. SoleCharge(q)
    BY <1>1, <1>7 DEF RaceInv
  <2>2. \A d \in Call : Charging(d, q)' => Charging(d, q) /\ work'[d].at = work[d].at /\ d # c
    BY <1>4 DEF Charging, Worker
  <2>3. CASE intent' = intent
    <3>1. \A i \in Intent : Charged(i, q)' <=> Charged(i, q)
      BY <2>3 DEF Charged
    <3> QED
      BY <1>1, <2>1, <2>2, <3>1 DEF SoleCharge
  <2>4. CASE \E i \in Intent, state \in {"paid", "unpaid"} :
               intent' = [intent EXCEPT ![i] = [state |-> state, pay |-> p, via |-> "charge"]]
    <3>1. PICK i \in Intent, state \in {"paid", "unpaid"} :
            intent' = [intent EXCEPT ![i] = [state |-> state, pay |-> p, via |-> "charge"]]
      BY <2>4
    <3>2. /\ intent'[i].pay = p
          /\ \A j \in Intent \ {i} : intent'[j] = intent[j]
      BY <3>1 DEF DataInv, PaymentTypeOK
    <3>3. \A j \in Intent : Charged(j, q)' => Charged(j, q) \/ (j = i /\ q = p)
      BY <3>2 DEF Charged
    <3>4. CASE q = p
      <4>1. Charging(c, p)
        BY <1>1, <1>3 DEF Charging
      <4>2. /\ \A j \in Intent : ~ Charged(j, p)
            /\ \A d \in Call : Charging(d, p) => d = c
            /\ row[p].status # "pending"
        BY <1>1, <1>2, <2>1, <3>4, <4>1 DEF SoleCharge
      <4> QED
        BY <1>1, <2>2, <3>3, <3>4, <4>2 DEF SoleCharge
    <3>5. CASE q # p
      BY <1>1, <2>1, <2>2, <3>3, <3>5 DEF SoleCharge
    <3> QED
      BY <3>4, <3>5
  <2> QED
    BY <1>5, <2>3, <2>4
<1> QED
  BY <1>6, <1>7 DEF RaceInv

\* A row that is written back is none that says pending.
LEMMA WriteRowRace ==
  ASSUME DataInv, RaceInv, NEW c \in Worker, WriteRow(c)
  PROVE  RaceInv'
<1>1. /\ work[c] \in Work /\ WorkTrue(c, work[c]) /\ work[c].at = "write"
      /\ UNCHANGED <<intent, raced>>
  BY AtWork DEF WriteRow, At
<1>2. PICK p \in Payment, r \in Row : p = work[c].pay /\ r = work[c].copy /\ p \in Exists /\ r.status # "pending"
  BY <1>1 DEF WorkTrue, Exists
<1>3. row'[p] = r /\ \A q \in Payment \ {p} : row'[q] = row[q]
  BY <1>2 DEF WriteRow, DataInv, PaymentTypeOK
<1>4. r # NoRow
  BY DEF Row, NoRow, Status, None
<1>5. Exists' = Exists
  BY <1>2, <1>3, <1>4 DEF Exists
<1>6. \A d \in Call : work'[d] = work[d] \/ work'[d].at \notin Critical
  BY <1>1, NotCritical DEF WriteRow, DataInv, At, Critical
<1>7. \A q \in Payment : row'[q].status = "pending" => row[q].status = "pending"
  BY <1>2, <1>3
<1> QED
  BY <1>1, <1>5, <1>6, <1>7, NoRace

\* The gateway does not move an intent to another payment, nor does it charge.
LEMMA GatewayRace ==
  ASSUME DataInv, RaceInv,
         \/ \E c \in Worker : OpenIntent(c) \/ AskRefund(c)
         \/ \E i \in Intent : CustomerPays(i) \/ AttemptFails(i) \/ IntentCanceled(i) \/ RefundedByHand(i)
  PROVE  RaceInv'
<1>1. UNCHANGED <<row, raced>>
  BY DEF OpenIntent, AskRefund, CustomerPays, AttemptFails, IntentCanceled, RefundedByHand, Gateway
<1>2. intent \in [Intent -> GatewayIntent \union {NoIntent}]
  BY DEF DataInv, PaymentTypeOK
<1>3. ASSUME NEW i \in Intent, NEW state, intent' = [intent EXCEPT ![i].state = state]
      PROVE  \A j \in Intent : intent'[j].via = intent[j].via /\ intent'[j].pay = intent[j].pay
  BY <1>2, <1>3 DEF GatewayIntent, NoIntent
<1>4. ASSUME NEW c \in Worker, OpenIntent(c)
      PROVE  RaceInv'
  <2>1. work[c] \in Work /\ Ends(c)
    BY <1>4, AtWork DEF OpenIntent, At
  <2>2. \A d \in Call : work'[d] = work[d] \/ work'[d].at \notin Critical
    BY <2>1, NotCritical DEF DataInv
  <2>3. PICK i \in Intent :
          intent' = [intent EXCEPT ![i] = [state |-> "open", pay |-> work[c].pay, via |-> "customer"]]
    BY <1>4 DEF OpenIntent
  <2>4. \A j \in Intent : intent'[j].via = "charge" => intent'[j] = intent[j]
    BY <1>2, <2>3
  <2> QED
    BY <1>1, <2>2, <2>4, NoRace DEF Exists
<1>5. ASSUME NEW c \in Worker, AskRefund(c)
      PROVE  RaceInv'
  <2>1. work[c] \in Work /\ work[c].at = "ask" /\ WorkTrue(c, work[c])
    BY <1>5, AtWork DEF AskRefund, At
  <2>2. PICK p \in Payment, k \in Row \union {NoRow}, i \in Intent \union {None} :
          p = work[c].pay /\ k = work[c].copy /\ i = k.txn
    BY <2>1 DEF WorkTrue, Exists, Work, Row, NoRow
  <2>3. CASE GivesUp(c) /\ intent' = intent
    <3>1. Ends(c) \/ Goes(c, "publish")
      BY <2>3 DEF GivesUp
    <3>2. \A d \in Call : work'[d] = work[d] \/ work'[d].at \notin Critical
      BY <2>1, <3>1, NotCritical DEF DataInv, At, Critical
    <3> QED
      BY <1>1, <2>3, <3>2, NoRace DEF Exists
  <2>4. CASE /\ i # None
             /\ intent' = [intent EXCEPT ![i].state = "refunded"]
             /\ Takes(c, "write", Refunded(k))
    <3>1. k \in Row /\ i \in Intent
      BY <2>2, <2>4 DEF NoRow
    <3>2. Refunded(k) \in Row
      BY <3>1, RowOps
    <3>3. \A d \in Call : work'[d] = work[d] \/ work'[d].at \notin Critical
      BY <2>1, <2>4, <3>2, NotCritical DEF DataInv, At, Critical
    <3> QED
      BY <1>1, <1>3, <2>4, <3>1, <3>3, NoRace DEF Exists
  <2> QED
    BY <1>5, <2>2, <2>3, <2>4 DEF AskRefund
<1>6. ASSUME NEW i \in Intent, CustomerPays(i) \/ AttemptFails(i) \/ IntentCanceled(i) \/ RefundedByHand(i)
      PROVE  RaceInv'
  <2>1. \E state : intent' = [intent EXCEPT ![i].state = state]
    BY <1>6 DEF CustomerPays, AttemptFails, IntentCanceled, RefundedByHand, Gateway
  <2>2. work' = work
    BY <1>6 DEF CustomerPays, AttemptFails, IntentCanceled, RefundedByHand, Gateway
  <2> QED
    BY <1>1, <1>3, <2>1, <2>2, NoRace DEF Exists
<1> QED
  BY <1>4, <1>5, <1>6

\* There is nothing to race for yet.
LEMMA RaceInit == PaymentInit => RaceInv
<1> SUFFICES ASSUME PaymentInit
             PROVE  RaceInv
  OBVIOUS
<1>1. \A c \in Call : work[c].at \notin Critical
  BY DEF PaymentInit, Worker, Unused, Critical
<1>2. CreatedOnce
  BY <1>1 DEF PaymentInit, CreatedOnce, Exists, Critical
<1>3. ASSUME NEW p \in Payment
      PROVE  SoleCharge(p)
  <2>1. \A c \in Call : ~ Charging(c, p)
    BY <1>1 DEF Charging, Critical
  <2>2. \A i \in Intent : ~ Charged(i, p)
    BY DEF PaymentInit, Charged, NoIntent, None
  <2> QED
    BY <2>1, <2>2 DEF SoleCharge
<1> QED
  BY <1>2, <1>3 DEF RaceInv

\* Every step keeps the count of who may charge.
LEMMA RaceStep == DataInv /\ DataInv' /\ RaceInv /\ [PaymentNext]_paymentVars => RaceInv'
<1> SUFFICES ASSUME DataInv, DataInv', RaceInv, [PaymentNext]_paymentVars
             PROVE  RaceInv'
  OBVIOUS
<1>1. ASSUME NEW c \in Call, StartCall(c) \/ CallStops(c)
      PROVE  RaceInv'
  BY <1>1, BeginRace, OtherWorks DEF Worker
<1>2. ASSUME NEW w \in Hook, (\E h \in hooks : DeliverWebhook(w, h)) \/ WebhookErrs(w) \/ WebhookStops(w)
      PROVE  RaceInv'
  BY <1>2, BeginRace, OtherWorks DEF Worker
<1>3. ASSUME NEW c \in Worker, Works(c)
      PROVE  RaceInv'
  BY <1>3, LookUpRace, InsertRace, ReadToProcessRace, MarkRace, ChargeRace, WriteRowRace, GatewayRace,
     OtherWorks DEF Works
<1>4. ASSUME NEW i \in Intent, CustomerPays(i) \/ AttemptFails(i) \/ IntentCanceled(i) \/ RefundedByHand(i)
      PROVE  RaceInv'
  BY <1>4, GatewayRace
<1>5. CASE UNCHANGED paymentVars
  BY <1>5, NoRace DEF paymentVars, Exists
<1> QED
  BY <1>1, <1>2, <1>3, <1>4, <1>5 DEF PaymentNext
-----------------------------------------------------------------------------
\* Both invariants hold of every behaviour.
LEMMA PaymentAlways == PaymentSpec => [](DataInv /\ RaceInv)
<1>1. PaymentInit => DataInv /\ RaceInv
  BY PaymentInitInv, RaceInit
<1>2. DataInv /\ RaceInv /\ [PaymentNext]_paymentVars => (DataInv /\ RaceInv)'
  BY DataStep, RaceStep
<1> QED
  BY <1>1, <1>2, PTL DEF PaymentSpec

\* The rows of the table, the gateway's intents and the jobs keep their types.
THEOREM PaymentTypeSafe == PaymentSpec => []PaymentTypeOK
<1>1. DataInv => PaymentTypeOK
  BY DEF DataInv
<1> QED
  BY <1>1, PaymentAlways, PTL

\* However the calls, the webhooks and the gateway interleave, and although each
\* writes whole rows back over the others' (Update in postgres_payment_repository.go),
\* what a row says of its intent is so.
THEOREM RecordsAlwaysBacked == PaymentSpec => []RecordsBacked
<1>1. DataInv => RecordsBacked
  BY DEF DataInv, RecordsBacked, TrueCopy
<1> QED
  BY <1>1, PaymentAlways, PTL

\* What the service publishes of an intent is so when others read it, however late
\* (publishPaymentSuccessEvent, publishSeatReleaseEvent).
THEOREM EventsAlwaysTrue == PaymentSpec => []EventsTrue
<1>1. DataInv => EventsTrue
  BY DEF DataInv, EventsTrue, EventTrue
<1> QED
  BY <1>1, PaymentAlways, PTL

\* Without a race between two calls, over the creation or over the processing, the
\* service never charges twice (CreatePayment, ProcessPayment).
THEOREM OnlyRacesCanChargeTwice == PaymentSpec => []OnlyRacesChargeTwice
<1>1. DataInv /\ RaceInv => OnlyRacesChargeTwice
  <2> SUFFICES ASSUME DataInv, RaceInv, raced = {},
                      NEW i \in Intent, NEW j \in Intent,
                      intent[i].via = "charge", intent[j].via = "charge"
               PROVE  i = j
    BY DEF OnlyRacesChargeTwice
  <2>1. intent[i] # NoIntent /\ intent[j] # NoIntent
    BY DEF NoIntent, None
  <2>2. PICK p \in Payment, q \in Payment : p = intent[i].pay /\ q = intent[j].pay /\ p \in Exists /\ q \in Exists
    BY <2>1 DEF DataInv, Exists
  <2>3. p = q
    BY <2>2 DEF RaceInv, CreatedOnce
  <2>4. SoleCharge(p)
    BY DEF RaceInv
  <2> QED
    BY <2>2, <2>3, <2>4 DEF SoleCharge, Charged
<1> QED
  BY <1>1, PaymentAlways, PTL
-----------------------------------------------------------------------------
\* A webhook is answered only by the handler that publishes what it reports: no
\* other action of a handler ends its job, and calls answer none.
LEMMA HooksStay ==
  ASSUME DataInv, NEW c \in Worker, Works(c), ~ Publish(c)
  PROVE  hooks \subseteq hooks' /\ UNCHANGED <<published, unsent>>
<1>1. work[c].at \in At
  BY DEF Works, LookUp, Insert, OpenIntent, CheckIntent, SeePayment, ReadToProcess, MarkProcessing, Charge,
         ReadToRefund, AskRefund, ReadToSettle, WriteRow, At
<1>2. WorkTrue(c, work[c])
  BY <1>1, AtWork
<1>3. CASE c \in Call
  BY <1>3 DEF Works, LookUp, Insert, OpenIntent, CheckIntent, SeePayment, ReadToProcess, MarkProcessing, Charge,
              ReadToRefund, AskRefund, ReadToSettle, WriteRow, Ends, GivesUp
<1>4. CASE c \in Hook
  <2>1. c \notin Call /\ work[c].op \in HookKind /\ work[c].at \in {"read", "ask", "write", "publish"}
    BY <1>2, <1>4 DEF WorkTrue
  <2>2. \/ ReadToRefund(c) \/ AskRefund(c) \/ ReadToSettle(c) \/ WriteRow(c)
    BY <2>1 DEF Works, LookUp, Insert, OpenIntent, CheckIntent, SeePayment, ReadToProcess, MarkProcessing, Charge,
                HookKind
  <2> QED
    BY <1>4, <2>1, <2>2 DEF ReadToRefund, AskRefund, ReadToSettle, WriteRow, GivesUp
<1> QED
  BY <1>3, <1>4 DEF Worker

\* The webhook that is answered has its event sent, or refused.
LEMMA AnsweredIsTold ==
  ASSUME DataInv, NEW c \in Worker, Publish(c),
         NEW i \in Intent, [kind |-> "succeeded", intent |-> i] \in hooks
  PROVE  [kind |-> "succeeded", intent |-> i] \in hooks' \union published' \/ i \in unsent'
<1>1. WorkTrue(c, work[c])
  BY AtWork DEF Publish, At
<1> DEFINE answered == [kind |-> work[c].op, intent |-> work[c].intent]
<1>2. CASE hooks \subseteq hooks'
  BY <1>2
<1>3. CASE c \in Hook /\ hooks' = hooks \ {answered} /\ answered = [kind |-> "succeeded", intent |-> i]
  <2>1. work[c].op = "succeeded" /\ work[c].intent = i
    BY <1>3
  <2>2. EventOf(c) = [kind |-> "succeeded", intent |-> i]
    BY <2>1 DEF EventOf
  <2> QED
    BY <2>1, <2>2 DEF Publish
<1>4. CASE c \in Hook /\ hooks' = hooks \ {answered} /\ answered # [kind |-> "succeeded", intent |-> i]
  BY <1>4
<1> QED
  BY <1>2, <1>3, <1>4 DEF Publish, Ends, Worker

\* Whatever is sent or refused stays so.
LEMMA ToldStays ==
  ASSUME NEW c \in Worker, Publish(c)
  PROVE  published \subseteq published' /\ unsent \subseteq unsent'
BY DEF Publish

\* Only a customer pays a customer's intent, and that is reported.
LEMMA OnlyCustomersPay ==
  ASSUME DataInv, [PaymentNext]_paymentVars, NEW i \in Intent,
         intent'[i].via = "customer", WasPaid(i)', ~ WasPaid(i)
  PROVE  CustomerPays(i)
<1>1. intent \in [Intent -> GatewayIntent \union {NoIntent}]
  BY DEF DataInv, PaymentTypeOK
<1>2. ASSUME NEW c \in Worker, OpenIntent(c)
      PROVE  FALSE
  <2>1. PICK j \in Intent : intent' = [intent EXCEPT ![j] = [state |-> "open", pay |-> work[c].pay, via |-> "customer"]]
    BY <1>2 DEF OpenIntent
  <2> QED
    BY <1>1, <2>1 DEF WasPaid
<1>3. ASSUME NEW c \in Worker, Charge(c)
      PROVE  FALSE
  <2>1. intent' # intent
    BY DEF WasPaid
  <2>2. PICK j \in Intent, state \in {"paid", "unpaid"} :
          intent' = [intent EXCEPT ![j] = [state |-> state, pay |-> work[c].pay, via |-> "charge"]]
    BY <1>3, <2>1 DEF Charge
  <2> QED
    BY <1>1, <2>2 DEF WasPaid
<1>4. ASSUME NEW c \in Worker, AskRefund(c)
      PROVE  FALSE
  <2>1. intent' # intent
    BY DEF WasPaid
  <2>2. PICK j : intent[j].state = "paid" /\ intent' = [intent EXCEPT ![j].state = "refunded"]
    BY <1>4, <2>1 DEF AskRefund
  <2>3. CASE i = j
    BY <2>2, <2>3 DEF WasPaid
  <2>4. CASE i # j
    BY <1>1, <2>2, <2>4 DEF WasPaid
  <2> QED
    BY <2>3, <2>4
<1>5. ASSUME NEW j \in Intent, AttemptFails(j) \/ IntentCanceled(j) \/ RefundedByHand(j)
      PROVE  FALSE
  <2>1. intent[j] \in GatewayIntent
    BY <1>1, <1>5 DEF AttemptFails, IntentCanceled, RefundedByHand, Gateway, NoIntent, None
  <2>2. PICK state \in {"declined", "canceled", "refunded"} :
          /\ intent' = [intent EXCEPT ![j].state = state]
          /\ state = "refunded" => intent[j].state = "paid"
    BY <1>5 DEF AttemptFails, IntentCanceled, RefundedByHand, Gateway
  <2>3. intent'[j].state = state /\ \A k \in Intent \ {j} : intent'[k] = intent[k]
    BY <1>1, <2>1, <2>2 DEF GatewayIntent
  <2> QED
    BY <2>2, <2>3 DEF WasPaid
<1>6. ASSUME NEW j \in Intent, CustomerPays(j)
      PROVE  CustomerPays(i)
  BY <1>1, <1>6 DEF WasPaid, CustomerPays, Gateway
<1>7. ASSUME NEW c \in Worker, Works(c)
      PROVE  FALSE
  <2>1. intent' # intent
    BY DEF WasPaid
  <2> QED
    BY <1>2, <1>3, <1>4, <1>7, <2>1
       DEF Works, LookUp, Insert, CheckIntent, SeePayment, ReadToProcess, MarkProcessing, ReadToRefund,
           ReadToSettle, WriteRow, Publish
<1>8. intent' # intent
  BY DEF WasPaid
<1> QED
  BY <1>5, <1>6, <1>7, <1>8
     DEF PaymentNext, paymentVars, StartCall, CallStops, DeliverWebhook, WebhookErrs, WebhookStops

\* An intent that a customer pays was the customer's before.
LEMMA OwnersStay ==
  ASSUME DataInv, [PaymentNext]_paymentVars, NEW i \in Intent, WasPaid(i)
  PROVE  intent'[i].via = intent[i].via
<1>1. intent \in [Intent -> GatewayIntent \union {NoIntent}]
  BY DEF DataInv, PaymentTypeOK
<1>2. intent[i] # NoIntent
  BY DEF WasPaid, NoIntent
<1>3. ASSUME NEW c \in Worker, OpenIntent(c)
      PROVE  intent'[i] = intent[i]
  BY <1>1, <1>2, <1>3 DEF OpenIntent
<1>4. ASSUME NEW c \in Worker, Charge(c)
      PROVE  intent'[i] = intent[i]
  BY <1>1, <1>2, <1>4 DEF Charge
<1>5. ASSUME NEW j, NEW state, intent' = [intent EXCEPT ![j].state = state]
      PROVE  intent'[i].via = intent[i].via
  BY <1>1, <1>2, <1>5 DEF GatewayIntent
<1>6. ASSUME NEW c \in Worker, Works(c)
      PROVE  intent'[i].via = intent[i].via
  BY <1>3, <1>4, <1>5, <1>6
     DEF Works, LookUp, Insert, CheckIntent, SeePayment, ReadToProcess, MarkProcessing, ReadToRefund,
         AskRefund, ReadToSettle, WriteRow, Publish
<1>7. ASSUME NEW j \in Intent, CustomerPays(j) \/ AttemptFails(j) \/ IntentCanceled(j) \/ RefundedByHand(j)
      PROVE  intent'[i].via = intent[i].via
  BY <1>5, <1>7 DEF CustomerPays, AttemptFails, IntentCanceled, RefundedByHand, Gateway
<1> QED
  BY <1>6, <1>7 DEF PaymentNext, paymentVars, StartCall, CallStops, DeliverWebhook, WebhookErrs, WebhookStops

\* Every step leaves what is owed with the gateway, or has it told.
LEMMA OwedStep == DataInv /\ PaidIsOwed /\ [PaymentNext]_paymentVars => PaidIsOwed'
<1> SUFFICES ASSUME DataInv, PaidIsOwed, [PaymentNext]_paymentVars,
                    NEW i \in Intent, intent'[i].via = "customer", WasPaid(i)'
             PROVE  [kind |-> "succeeded", intent |-> i] \in hooks' \union published' \/ i \in unsent'
  BY DEF PaidIsOwed
<1>1. CASE ~ WasPaid(i)
  BY <1>1, OnlyCustomersPay DEF CustomerPays, Gateway
<1>2. CASE WasPaid(i)
  <2>1. [kind |-> "succeeded", intent |-> i] \in hooks \union published \/ i \in unsent
    BY <1>2, OwnersStay DEF PaidIsOwed
  <2>2. ASSUME NEW c \in Worker, Publish(c)
        PROVE  [kind |-> "succeeded", intent |-> i] \in hooks' \union published' \/ i \in unsent'
    BY <2>1, <2>2, AnsweredIsTold, ToldStays
  <2>3. ASSUME NEW c \in Worker, Works(c)
        PROVE  [kind |-> "succeeded", intent |-> i] \in hooks' \union published' \/ i \in unsent'
    BY <2>1, <2>2, <2>3, HooksStay
  <2>4. ASSUME NEW j \in Intent, CustomerPays(j) \/ AttemptFails(j) \/ IntentCanceled(j) \/ RefundedByHand(j)
        PROVE  hooks \subseteq hooks' /\ UNCHANGED <<published, unsent>>
    BY <2>4 DEF CustomerPays, AttemptFails, IntentCanceled, RefundedByHand, Gateway
  <2> QED
    BY <2>1, <2>3, <2>4
       DEF PaymentNext, paymentVars, StartCall, CallStops, DeliverWebhook, WebhookErrs, WebhookStops
<1> QED
  BY <1>1, <1>2

\* What a customer has paid is never forgotten: while it is not announced, and Kafka
\* has not refused the event, the gateway goes on sending its webhook, however often
\* handlers are stopped and whatever other calls do to the row (HandleStripeWebhook). This
\* is the safety that PaidIsAnnounced rests on.
THEOREM PaidNeverForgotten == PaymentSpec => []PaidIsOwed
<1>1. PaymentInit => PaidIsOwed
  BY DEF PaymentInit, PaidIsOwed, WasPaid, NoIntent
<1>2. DataInv /\ PaidIsOwed /\ [PaymentNext]_paymentVars => PaidIsOwed'
  BY OwedStep
<1> QED
  BY <1>1, <1>2, PaymentAlways, PTL DEF PaymentSpec
=============================================================================
