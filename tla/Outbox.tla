------------------------------- MODULE Outbox -------------------------------
(***************************************************************************)
(* The transactional outbox: a change of a booking and the event about it  *)
(* are committed together, and workers publish the events.  A worker has   *)
(* a goroutine for pending messages and one for failed ones; each fetches  *)
(* a batch, sends its messages one after the other and marks them, each by *)
(* a statement of its own.  The rows a fetch selects are locked until the  *)
(* statement ends, not until the messages are marked, and a fetch beside   *)
(* it passes over them.                                                    *)
(*                                                                         *)
(* UpdateWithOutbox, which writes a whole row back, is left out.           *)
(***************************************************************************)
EXTENDS Integers, Sequences, SequencesExt

CONSTANTS
  Booking,
  Poller, Retrier,   \* goroutines for pending and for failed messages
  BatchSize,
  MaxRetries,
  MaxStops           \* bound on marks that fail and workers that stop

ASSUME OutboxAssumption ==
  BatchSize \in Nat \ {0} /\ MaxRetries \in Nat /\ MaxStops \in Nat

VARIABLES
  bookingRow,   \* the status of each booking
  committed,    \* the messages in the order of their creation
  outbox,       \* the outbox table
  batch,        \* what each goroutine has still to send: places in committed
  sent,         \* "fetching" while the batch is locked; then whether its first
                \* message was sent, until it is marked
  topic,        \* what reached the topic
  troubled,     \* messages that failed once, were in two batches at once, or were
                \* fetched past a locked one of the same booking
  stops

outboxVars == <<bookingRow, committed, outbox, batch, sent, topic, troubled, stops>>

Outcome == {"confirmed", "cancelled", "expired"}
Message == [booking : Booking, event : {"created"} \union Outcome]
NoMessage == [status |-> "none", tries |-> 0]
Publisher == Poller \union Retrier
Sending == {"fetching", "no", "yes", "failed"}

OutboxTypeOK ==
  /\ bookingRow \in [Booking -> {"none", "reserved"} \union Outcome]
  /\ \A m \in Range(committed) : bookingRow[m.booking] # "none"
  /\ outbox \in [Message -> [status : {"none", "pending", "published", "failed"}, tries : Nat]]
  /\ \A w \in Publisher : batch[w] \subseteq DOMAIN committed /\ Cardinality(batch[w]) <= BatchSize
  /\ sent \in [Publisher -> Sending]
  /\ Range(topic) \union troubled \subseteq Range(committed)
  /\ stops \in 0..MaxStops

OutboxInit ==
  /\ bookingRow = [b \in Booking |-> "none"]
  /\ committed = <<>>
  /\ outbox = [m \in Message |-> NoMessage]
  /\ batch = [w \in Publisher |-> {}]
  /\ sent = [w \in Publisher |-> "no"]
  /\ topic = <<>>
  /\ troubled = {}
  /\ stops = 0

\* One transaction: the row under the condition on its status, and the message.
Commit(b, from, to, event) ==
  /\ bookingRow[b] = from
  /\ bookingRow' = [bookingRow EXCEPT ![b] = to]
  /\ LET m == [booking |-> b, event |-> event]
     IN /\ committed' = Append(committed, m)
        /\ outbox' = [outbox EXCEPT ![m] = [status |-> "pending", tries |-> 0]]
  /\ UNCHANGED <<batch, sent, topic, troubled, stops>>

CreateWithOutbox(b) == Commit(b, "none", "reserved", "created")
SettleWithOutbox(b) == \E outcome \in Outcome : Commit(b, "reserved", outcome, outcome)

Due(w, m) ==
  \/ w \in Poller /\ outbox[m].status = "pending"
  \/ w \in Retrier /\ outbox[m].status = "failed" /\ outbox[m].tries < MaxRetries

\* The rows that the fetches of other goroutines hold.
Locked(w) == UNION {batch[v] : v \in {u \in Publisher \ {w} : sent[u] = "fetching"}}

DueFor(w) == {i \in DOMAIN committed : Due(w, committed[i])}

\* ORDER BY created_at LIMIT BatchSize FOR UPDATE SKIP LOCKED
FirstDue(w) ==
  LET free == DueFor(w) \ Locked(w)
  IN {i \in free : Cardinality({j \in free : j < i}) < BatchSize}

Shared(w, i) == \E v \in Publisher \ {w} : i \in batch[v]
TakenPast(w, i) ==
  \E j \in DueFor(w) \intersect Locked(w) : j < i /\ committed[j].booking = committed[i].booking

Fetch(w) ==
  /\ batch[w] = {}
  /\ FirstDue(w) # {}
  /\ batch' = [batch EXCEPT ![w] = FirstDue(w)]
  /\ sent' = [sent EXCEPT ![w] = "fetching"]
  /\ troubled' = troubled \union
       {committed[i] : i \in {j \in FirstDue(w) : Shared(w, j) \/ TakenPast(w, j)}}
  /\ UNCHANGED <<bookingRow, committed, outbox, topic, stops>>

\* The statement ends, and with it the locks.
FetchEnds(w) ==
  /\ sent[w] = "fetching"
  /\ sent' = [sent EXCEPT ![w] = "no"]
  /\ UNCHANGED <<bookingRow, committed, outbox, batch, topic, troubled, stops>>

\* The first of the batch.
Turn(w) == Min(batch[w])
Current(w) == committed[Turn(w)]
NextMessage(w) == batch' = [batch EXCEPT ![w] = @ \ {Turn(w)}] /\ sent' = [sent EXCEPT ![w] = "no"]

\* A send that is reported as failed may have reached the topic.
Send(w) ==
  /\ batch[w] # {} /\ sent[w] = "no"
  /\ \/ topic' = Append(topic, Current(w)) /\ sent' = [sent EXCEPT ![w] = "yes"] /\ UNCHANGED troubled
     \/ /\ \/ topic' = Append(topic, Current(w))
           \/ UNCHANGED topic
        /\ sent' = [sent EXCEPT ![w] = "failed"]
        /\ troubled' = troubled \union {Current(w)}
  /\ UNCHANGED <<bookingRow, committed, outbox, batch, stops>>

Tried(w) == sent[w] \in {"yes", "failed"}

\* Mutant: a message that could not be sent is marked as published.
MarkedRegardless(row, ok) == [row EXCEPT !.status = "published"]

Marked(row, ok) ==
  IF ok THEN [row EXCEPT !.status = "published"] ELSE [row EXCEPT !.status = "failed", !.tries = @ + 1]

\* MarkAsPublished or MarkAsFailed, whatever the row says by now, once no fetch
\* holds it; one that was cleaned up stays away.
MarkMessage(w) ==
  /\ Tried(w) /\ Turn(w) \notin Locked(w)
  /\ outbox' = [outbox EXCEPT ![Current(w)] = IF @ = NoMessage THEN @ ELSE Marked(@, sent[w] = "yes")]
  /\ NextMessage(w)
  /\ UNCHANGED <<bookingRow, committed, topic, troubled, stops>>

\* The mark fails and the goroutine goes on with the next message.
MarkMessageFails(w) ==
  /\ Tried(w)
  /\ stops < MaxStops
  /\ stops' = stops + 1
  /\ troubled' = troubled \union {Current(w)}
  /\ NextMessage(w)
  /\ UNCHANGED <<bookingRow, committed, outbox, topic>>

\* Only what was sent and not marked is in doubt.
PublisherStops(w) ==
  /\ batch[w] # {}
  /\ stops < MaxStops
  /\ stops' = stops + 1
  /\ troubled' = troubled \union {m \in Range(committed) : Tried(w) /\ m = Current(w)}
  /\ batch' = [batch EXCEPT ![w] = {}]
  /\ sent' = [sent EXCEPT ![w] = "no"]
  /\ UNCHANGED <<bookingRow, committed, outbox, topic>>

\* Messages published long ago are deleted.
CleanUpOutbox ==
  /\ \E gone \in SUBSET {m \in Message : outbox[m].status = "published"} :
       /\ gone # {}
       /\ outbox' = [m \in Message |-> IF m \in gone THEN NoMessage ELSE outbox[m]]
  /\ UNCHANGED <<bookingRow, committed, batch, sent, topic, troubled, stops>>

OutboxNext ==
  \/ \E b \in Booking : CreateWithOutbox(b) \/ SettleWithOutbox(b)
  \/ \E w \in Publisher :
       Fetch(w) \/ FetchEnds(w) \/ Send(w) \/ MarkMessage(w) \/ MarkMessageFails(w) \/ PublisherStops(w)
  \/ CleanUpOutbox

OutboxSpec == OutboxInit /\ [][OutboxNext]_outboxVars

(***************************************************************************)
(* Properties                                                              *)
(***************************************************************************)
\* With any number of workers that fail and stop, an event counts as published, or
\* is deleted, only when it reached the topic; and the events of a booking that
\* neither failed, nor were fetched by two workers at once, nor past an earlier one
\* that another fetch had locked, come once and in order.
EventsOnce ==
  /\ \A m \in Range(committed) : outbox[m].status \in {"none", "published"} => m \in Range(topic)
  /\ \A i, j \in DOMAIN topic : i < j /\ topic[i].booking = topic[j].booking =>
       \/ {topic[i], topic[j]} \intersect troubled # {}
       \/ topic[i] # topic[j] /\ topic[i].event = "created"
=============================================================================
