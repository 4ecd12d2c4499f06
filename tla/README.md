# Booking Rush: a TLA+ model of the booking core

Booking Rush sells tickets for events under heavy load. Seats are kept in Redis
and sold by Lua scripts; bookings are rows of PostgreSQL; Kafka carries events
and saga commands between the services. This directory models the part that
decides who gets a seat, checks it with TLC on small instances and proves the
invariants with TLAPS for every value of the constants.

Paths below are relative to the repository; `booking/` abbreviates
`src/backend-booking/internal/`.

## 1. Inventory of the system

| Component | State it keeps | Operations | Hard behaviour |
|---|---|---|---|
| Redis seat inventory (`booking/repository/scripts/*.lua`, `redis_reservation_repository.go`) | `zone:availability:{zone}`, `user:reservations:{user}:{event}`, `reservation:{booking}` with TTLs | reserve, confirm, release scripts; key expiry | scripts racing each other and expiry; repeated scripts; limit counters that expire |
| Booking service (`booking/service/booking_service.go`, `booking/handler/booking_handler.go`) | `bookings` rows, unique idempotency key | ReserveSeats, ConfirmBooking, CancelBooking/ReleaseBooking | two stores without a transaction; calls cut off between them; retries; asynchronous events |
| Saga step worker (`booking/worker/saga_step_worker.go`) | none of its own; same two stores | reserve-seats, release-seats, confirm-booking, send-notification | redelivery; answers of Redis ignored; rows overwritten |
| Seat release worker (`booking/worker/seat_release_worker.go`) | same two stores | release after a failed, cancelled or refunded payment | reads a row, acts, then overwrites it |
| Expiry worker (`booking/worker/expiry_worker.go`) | same two stores, outbox | scan, release, mark expired | the reservation key has already gone |
| Inventory worker (`booking/worker/inventory_worker.go`) | deltas in memory, `seat_zones` row counts, Kafka offsets | aggregate, flush, restore, rebuild | crash between commit of offsets and flush; failed and doubtful transactions |
| Zone synchronisation (`booking/service/zone_syncer.go`, `booking/handler/admin_handler.go`, `src/backend-ticket/internal/service/*`) | writes `zone:availability` from `seat_zones` | publish, withdraw, sync on miss, admin sync, rebuild | a lagging table overwrites a live counter |
| Saga orchestrator, post-payment saga (`booking/saga/*`, `booking/service/saga_service.go`) | `saga_instances`, five kinds of Kafka topics | start, step result, compensate, time-out | duplicated and late results; several orchestrators; rows overwritten without a version |
| Saga library (`src/pkg/saga/orchestrator.go`, `postgres_store.go`) | instance in a store | execute, retry, compensate, resume | crashes between a step and its record; compensations under a dead context |
| Virtual queue (`booking/service/queue_service.go`, `booking/worker/queue_release_worker.go`, `join_queue.lua`) | sorted set of waiting users, passes with TTL | join, leave, poll, release a batch, consume a pass | count-then-act, two release workers, answers and messages that are lost, passes deleted in the background |
| Payment service (`src/backend-payment/internal/*`) | `payments` rows, intents at the gateway | create, process, cancel, refund, intents, webhooks | rows read, charged and written back; webhooks race with calls |
| Idempotency middleware (`src/pkg/middleware/idempotency.go`) | a record per key in Redis | begin, replay, store | requests the proxy gave up; records that expire; Redis failing |
| Transactional outbox (`booking/repository/postgres_outbox_repository.go`, `booking/worker/outbox_worker.go`) | `outbox` rows | fetch, publish, mark, clean up | rows are locked only while they are selected, and a fetch beside passes over them; no process starts it |
| API gateway (`src/backend-api-gateway/*`) | token buckets in Redis or in a map | rate limiting, proxying | clocks of several gateways, buckets dropped while in use |
| Auth service (`src/backend-auth/internal/service/auth_service.go`) | sessions | register, log in, refresh, log out | rotation in three statements |
| Ticket service (`src/backend-ticket/internal/service/event_service.go`, `cache/*`) | events, shows, zones; four kinds of cache keys | edit, publish, delete, read through the cache | edits start from cached copies and write whole rows |
| Audit logger (`src/pkg/middleware/audit.go`) | a channel and a batch | log, flush, close | closing while requests log |
| Notification, front end, other shared libraries | see `PROJECT.json` | mail, wrappers | keep nothing the others depend on |

How they interact. A client's reservation goes through the gateway to the
booking service, which runs `reserve_seats.lua` and then inserts the row; or it
starts a saga, whose first step does the same from a Kafka command. A payment
that succeeds starts the post-payment saga, whose step `confirm-booking`
confirms in Redis and in the table; a payment that fails, is cancelled or
refunded sends an event on which the seat release worker gives the seats back.
The API also confirms and cancels by itself. Each of these publishes
`booking-events`, from which the inventory worker updates `seat_zones`; that
table in turn is what every re-synchronisation copies back into Redis.

What makes each part correct:

- inventory: no seat is given back twice, sold twice or conjured up, and a user
  holds no more than the limit;
- API: the two stores agree about every booking that was settled, an answer
  once given stands, a request repeated with its key buys one booking;
- workers: they do not take away what a client was told, sell nothing that is
  not on record, and return unpaid seats;
- inventory worker: every event is counted once and reaches the table;
- zone synchronisation: the counter never offers seats that are taken;
- sagas: steps take effect in the order of the definition, only what took effect
  is undone, and what the row finally says is what happened;
- queue: the order of arrival is kept, passes stay bounded and within their users' reach, everyone is served;
- payments: the row agrees with the gateway, nobody is charged twice, what was
  paid is announced;
- idempotency, rate limits, refresh tokens, outbox, cache, audit log: one run per key, no
  more requests than the rate, one session per login, each event and each audit entry once,
  no edit undone by another.

## 2. Modules

| Module | What it models |
|---|---|
| `SeatSale` | the abstract sale: each booking is open, held, sold or closed, held seats fit in the zone |
| `SeatCount` | how many seats a set of bookings asks for |
| `RedisSeats` | the three Lua scripts, key expiry, repeated scripts; implements `SeatSale` |
| `BookingService` | extends `RedisSeats` with the `bookings` table and the three calls of the API |
| `BookingWorkers` | extends `BookingService` with the saga step worker, the seat release worker and the expiry scan |
| `InventoryWorker` | the topic, the offsets, the deltas and the table of the inventory worker |
| `ZoneSync` | extends `RedisSeats` with the `seat_zones` row and everybody who sets or deletes the zone counter |
| `SagaChain` | what a saga promises: one plan, steps in its order, undone only after they took effect |
| `BookingSaga` | both sagas over Kafka: their starts, step workers, orchestrators, time-outs, loss and redelivery; implements `SagaChain` |
| `Payment` | payments of one booking, the gateway and its webhooks |
| `VirtualQueue` | the line of one event, release workers, passes |
| `SagaLibrary` | the in-process orchestrator of `src/pkg/saga` with its store |
| `Idempotency` | requests under one key, from the proxy to the handler |
| `RateLimiter` | the token bucket of one client, in Redis and in memory |
| `Sessions` | refresh tokens |
| `Outbox` | the transactional outbox and its publishers |
| `EventCache` | one event of the catalogue, its row and its cache keys |
| `AuditLog` | the audit logger's channel, worker and `Close` |
| `RedisSeatsProofs` | lemmas about `SeatCount`, theorems about `RedisSeats` |
| `BookingProofs` | theorems about `BookingService` and `BookingWorkers` |
| `InventoryWorkerProofs`, `ZoneSyncProofs`, `BookingSagaProofs`, `PaymentProofs`, `VirtualQueueProofs` | theorems about the module of that name |
| `ServicesProofs` | theorems about the seven modules of `MCServices` and about that run |
| `MC*` | instances for TLC |

### RedisSeats

`available`, `userReserved` and `reservation` are the three kinds of key;
`userReserved[u] = 0` and `reservation[b] = "none"` stand for a missing key.
Redis runs a script to its end before anything else, so a script is one action;
`ReserveAnswer`, `ConfirmAnswer` and `ReleaseAnswer` are its checks in the order
of the Lua code, and an answer other than `OK` changes nothing. `ledger` and
`wasted` are history variables: what the zone counter did for each booking, and
the seats deducted again by a repeated reserve script. `HeldBy(u)` is empty when
the user's counter expires because the counter's TTL (`ttl + 60`, or 660 seconds
after a release) is renewed by each reservation and release of that user and is longer than that
of any unconfirmed hold. This needs `ttl` of at most 600 seconds, which is the
default of the configuration; with a much longer TTL a release could shorten the
counter's life below that of another hold.

Requests for a non-positive quantity do not exist: the request binding and
the service refuse them before the script, and `QtyAssumption` says so. Ownership (`INVALID_USER`) is not
modelled: every call is made by the booking's user, whom the service has
already compared with the row.

### BookingService

A call is a small program: `pc` says whether it stands before its lookup
(`start`), before its script (`script`), before its statement on the row (`row`)
or has ended. Calls interleave at every step. `Abort` ends a call anywhere: a
script's refusal, a `WHERE status = 'reserved'` that matches nothing, a store
that cannot be reached, the death of the process. `Replies` lets a statement
succeed although the handler sees an error. `Publish` is the asynchronous send
of the event. `overdue` is the set of rows whose deadline has passed: the
deadline is computed after the script ran, so the key goes first.

### BookingWorkers

A job is one Kafka message or one find of the expiry scan. It can begin again at
any time, which covers redelivery after a crash, retries and duplicates, and
`JobAborts` ends it anywhere. The saga's reserve step uses a fixed limit of 10 and a fixed TTL of 600
seconds (`saga_step_worker.go:167-182`) where the API takes both from its
configuration; the model uses one `MaxPerUser`. A payment result is an environment choice: the jobs
`sagaConfirm` and `seatRelease` may both come for one booking, because a payment
that failed may be tried again with success.

### InventoryWorker

`deltas`, `flushing` and `applied` count, for each event, how often it is in
memory, in the batch being written, and in the table. The row of a zone is thus
a function of `applied`, and `WithinChecks` is the table's CHECK constraints
over it; `CommitFlush` asks for it in every zone, since one transaction writes them all.
`Published` are the events the API publishes, each of which arrives, at any time and in any order, or is `lost`,
since they are sent from goroutines whose errors are only logged. Two goroutines share `deltas` under a mutex; each locked region is one
action. The log has one partition; the order of the events in it is arbitrary,
so several partitions add nothing. `mishaps` counts restarts, dropped polls and
commits whose answer is lost.

### ZoneSync

Here the zone counter may be missing (`present`), and others than the scripts
write it. A writer is one run of one operation, drawn at its first step: the
resynchronisation (`RebuildRedisFromDB`, the administrator's sync), the edit of a
show (`ShowRead`, `ShowWrite`, then `PublishRead` and `SetCounter` or `RemoveCounter`),
the edit of a zone (`ZoneRead`, `ZoneWrite`, `ShowCheck`, then the counter).
Each statement is an action, and `Fail` is an error of either store, which the
callers ignore. The edits write back the columns they read. `Flight` is the
single flight of `zone_syncer.go`: a caller that met `ZONE_NOT_FOUND` (`Miss`)
joins it or starts it, and tries the script once more when it has landed; between
the miss and the join anything may happen, even the end of another flight.
`synced` is what the table knows of each booking. `Flush` may bring it any
prefix of what the inventory did, for any set of bookings, and `rowAvailable`
moves with it; how events get lost on that way is the subject of
`InventoryWorker`. In `ZoneInit` a show on sale may lack its counter, since a
failed SET is ignored and Redis may have been replaced.

### BookingSaga

A Kafka topic is the set `sent` with the set `pending` of records still to be
handled: records arrive in any order and as late as one likes. Several
orchestrators (`Worker`) handle records; handling is read the row (`Take`), write
it back (`Store`), then send the next command (`SendNext`) or the compensations
(`Compensate`) and write again (`Close`), each a step of its own, so that two
handlers and `StartBookingSaga`, which writes its own old copy (`WriteRunning`),
may overwrite each other. `Crash` and `Redeliver` deliver a record again,
`GiveUp` is a handler whose error is logged and whose record is committed with
its batch. `cut` marks the sagas to which something was lost in a way nobody
repairs: a message not sent, a row overwritten, a record committed unhandled.
`ran` and `undone` are what the step workers did; what they do to the seats is
`BookingWorkers`. A step that reports a failure may have taken effect (`MayRun`: a charge made or a row
written whose answer was lost); only a notification never fails, because it goes to the dead letters instead.
A time-out whose first write of the row fails is handled to the end all the same (`StoreFails`). The chain of steps is hard-wired in the orchestrator
(`NextStep`, `StepList`) while time-outs consult the definition
(`DefinitionSteps`). `Timed` is the set of steps with a time-out: no process
registers one, the run gives every step one.

### Payment

All payments here are of one booking, since `idx_payments_booking_id` is not
unique. A call is a small program: `work[c].at` says which statement, question
to the gateway or publication comes next, and `copy` is the row as it was read and
changed. Both gateways are covered: intents opened for a customer, who pays in the
browser and of whom webhooks tell, and charges the service makes by itself. Webhooks repeat
until answered; their handlers log errors and answer 200. Some consequences a
reader may not expect: `ConfirmPaymentIntent` of a paid intent charges once more
(mock gateway) or fails (Stripe) while the payment is not yet marked
succeeded; a webhook about a refund asks the gateway to refund again; a failed attempt
marks the row failed, and the later success of the same intent is announced but not
recorded; a `process-payment` command delivered again after a success is answered
with a failure.

### VirtualQueue

Each Redis command is a step: a release worker counts the passes (`Count`), reads the
head of the line (`ReadHead`), removes it (`TakeBatch`), stores and publishes the passes one
by one. A position request asks for its place (`AskPosition`), and then either fetches the pass
the worker stored (`FetchPass`) or, at the head of the line, signs and stores a new one, whatever the
limit, and leaves the user in the line (`StoreAtHead`); the answer is a step of its own (`Answered`), and requests of one
user may overlap. A command whose reply is lost may have been carried out: `StoreAtHead`, `TakingFails` and `StoringFails`
leave both outcomes open. `pass` is what is stored, `has` who holds exactly that pass: a request or a worker on its way with
it, or the client. `Deliver` gives the client what it is sent, or loses it; a client that is given an older
pass last, or none, has no use of the stored one.
`line` gives each user its score,
the time of joining, and 0 to who is not in the sorted set; a batch is a set of
users with the scores they were read with, so a user who left and joined again is not
the one that was read. `DeletePass` may do
nothing: the deletion runs in a goroutine under the request's context; until
then the pass buys further reservations. The join key's TTL of 30 minutes does not remove the place
in the line, so the key is left out. The gateway's `QueuePassMiddleware` is wired nowhere.

### The services

`MCServices` puts seven modules without common state into one run. `focus`
is drawn in the initial state and only that part moves.

- `SagaLibrary`: `Execute` and `Resume` run one goroutine through the steps, the writes of the
  instance (which may fail and are only logged) and the compensations. A step or a
  compensation that returns an error may have taken effect. After the deadline the
  compensations run under the context that has ended.
- `Idempotency`: `Forward` is the gateway's proxy, `CutOff` its deadline; the record is read, set
  with NX, looked at again, and replaced by the answer. When Redis fails a request is
  let through, and `expired + failed` counts what excuses a second run.
- `RateLimiter`: the script and the map are two variants of `Spend`. `KeepAssumption`
  states what makes dropping an unused bucket harmless: by the time it is dropped it would be
  full, and there is room for the requests that still hold it (1000 tokens a second kept for
  60 seconds against a burst of 100). The rate is requests per minute divided by 60 in whole numbers:
  below 60 it is zero, which means unlimited, and the pattern `/api/v1/bookings` does not
  match the reserve route.
- `Sessions`: find, delete, insert. The token `Register` returns has no session; logging out with
  a token that was rotated away answers success; an insert that fails after the
  delete loses the session; `DeleteExpired` has no caller.
- `Outbox`: `FOR UPDATE SKIP LOCKED` outside a transaction holds its locks until the statement ends (`Fetch`, `FetchEnds`).
  Two workers may therefore fetch one row, and one that fetches beside another passes over the rows
  it has locked: it may send a booking's later message first, on which `EventsOnce` promises nothing
  (`troubled`). The mark waits for such a lock and then overwrites whatever status is there. A batch is a set of places in
  the order of creation and is worked off from the lowest. Failed messages are
  sent out of order.
- `EventCache`: a visitor that misses sets the key from what it read before; an edit starts
  from the cached copy (`container.go:60` hands the caching repository to the
  service) and writes the whole row. `doubtful` is raised when two edits overlap, a key is set behind the
  row, or a deletion fails: from then on, until the 5 minutes of TTL have passed, nothing is
  promised: an edit may undo the one before it, since it writes back a stale copy. The keys `event:list:all:*` are left
out (no edit reads them). A renamed event's key under its old slug is never deleted, and `UPDATE` never writes `published_at`.
- `AuditLog`: `Close` cancels the worker before it closes the channel, so entries still
  in the channel may be lost, and logging after `Close` panics. `AuditedOnce` says only that what leaves the channel is
  inserted once and in order.

### Seats that never come back

A reservation that times out in Redis is not given back to the zone: the key
expires, the counter is not told, and the later `release_seats.lua` of the expiry worker
answers `RESERVATION_NOT_FOUND`. The abstract sale says so too (a timed-out hold
stays held), because that is what the code does; run `auto_release` confronts it
with the documents, which promise the opposite.

## 3. Runs

Bounds are sets of identifiers: identifiers are drawn once and never reused, so
the state spaces are finite without counters, except where named.

| Run | Shows | Instance |
|---|---|---|
| `redis_seats` | types (the counter never below zero), `SeatConservation`, `HoldLimit`, and the refinement `ImplementsSale` | 4 bookings of 2 users, quantities 1 and 2, 4 seats, limit 3: the stock runs out, the limit bites, a user has two holds when one goes |
| `booking_service` | `RowBacked`, `SeatsFit`, `AnswersStand`, `OneBookingPerKey` | 2 deliveries of one request, a competing reservation, 2 confirms and a cancel of one booking; zone of 3 |
| `booking_workers` | `AnswersBacked`, `SalesOnRecord`, `ConfirmedRowsStand` | one job of each kind on one booking that the API also confirms and cancels, a competing booking that only the saga handles; zone of 2 |
| `overselling` | violation: more seats confirmed on record than the zone has | saga confirm and seat release on one booking, saga reserve and confirm on the other |
| `auto_release` | violation: unpaid seats do not come back on sale | one booking and the expiry scan under fairness |
| `inventory_worker` | `CountedOnce`, `EveryEventSynced` | 2 zones, 4 events in any order, each of which may be lost, so that a zone may lack an event another depends on; `MaxMishaps = 1` |
| `zone_sync` | `CaughtUpTable`, `OnlySyncsOversell`, `EveryMissAnswered` | two callers, one seat, the flight and any two operations of other writers |
| `booking_saga` | `SagaTypeOK`, `CompletedTookEffect`, `CompensationsNamed`, `EverySagaEnds`, and the refinement `ImplementsChain` | one saga of either kind, two orchestrators, one redelivery or time-out (`MaxDisturbed = 1`), any loss, failed steps with and without effect |
| `no_refund` | violation: a paid booking that cannot be confirmed ends compensated, not refunded | the same without redelivery |
| `payment` | `PaymentTypeOK`, `RecordsBacked`, `OnlyRacesChargeTwice`, `EventsTrue`, `PaidIsAnnounced` | two rows, two intents, two calls of any kind, one webhook handler that stops once |
| `virtual_queue` | `QueueTypeOK`, `PassesBounded`, `PassWithinReach`, `FirstComeFirstServed`, `EveryoneServed` | two users, one of whom joins twice, two release workers, limit 1, one reservation, one position request at a time of either user, any number of passes and lost answers, one crash or failed command |
| `services` | `OneRunPerKey`, `PassesWithinRate`, `EndsAsStored`, `OneSessionPerLogin`, `EventsOnce`, `CatalogueFollowsEdits`, `AuditedOnce`, types | seven parts, see below |

The instances of `services`: three requests of two contents under one key, one
expiry or failure of Redis; two requests at a bucket of two tokens, eight units of
time, an outage; a saga of three steps of which two can be undone, one retry, two crashes, one lost
write; two users, two calls and four refresh tokens; one booking (two messages), two pollers and
a retrier in batches of two, one stop; one event with two slugs and two requests; four audit
entries, a channel and a batch of two.

Why the bounds are enough. A property here relates at most two bookings (one
gives seats back, another takes them; two deliveries of one key) and one user's
several holds; the instances have these and one more competitor. `Capacity` is
chosen so that the last seat is contended. In `RedisSeats` a repeat of a script is bounded
by the stock alone. `MaxMishaps` bounds restarts, because each of them may
replay events for ever; `CountedOnce` speaks of behaviours before the first
one, and one mishap is enough to fire each action. In `VirtualQueue` nothing bounds the
polling, and a limit of 1 is where a polling head leaves the workers no place at all; requests of one user that overlap are covered by
the proofs alone, which hold for any set `Poll`. In `Outbox` one booking has the two messages whose order matters, and
two pollers with a retrier pass over each other's rows. In `ZoneSync` each writer
runs once; two of them and the flight are enough for each to act between any two
steps of another. Deadlock is not checked:
every instance stops when its calls, jobs and events are used up.

Fairness. The safety runs assume none. `WorkersFairSpec` (run `auto_release`)
assumes the clock advances and that the expiry scan goes on: it is started by a ticker, fetches
overdue rows again at each tick, and its statements succeed if tried often
enough. That is more than the repository has (no process starts the
worker), and the property fails all the same. `WorkerFairSpec` assumes that events
arrive or are lost, that both goroutines keep running, and that a transaction which the
constraints allow does not fail for ever (strong fairness on `CommitFlush`,
because every failure disables it until the next batch). `ZoneFairSpec` assumes that a
call keeps running and that a flight ends: the request to the ticket service
times out after five seconds. `SagaSpec` assumes that consumers keep
polling and calls and handlers run to their end; what is lost is not assumed to come back, which
is why `EverySagaEnds` excuses the sagas in `cut`. `PaymentSpec` assumes that the gateway
repeats webhooks and a handler that was not stopped goes on; calls have no
fairness. `QueueSpec` assumes that the release worker's ticker fires (`Count`), that what a worker began it finishes
(`Releases`), and that Redis expires the pass of a user who is not asking at the head of the line (`ExpiresUnasked`): every
such request stores the pass again with its whole lifetime, so under polling it need never expire. Nobody has to ask, join or
leave, and commands may fail.

## 4. What the violated runs say

1. `overselling`: `handleConfirmBooking` ignores the script's answer and writes
   the row it read earlier. If the seat release worker came first, the seats are
   on sale again and are bought by another user, and both bookings read confirmed.
   The API alone does not do this: `SeatsFit` is proved for it.
2. `auto_release`: described above.
3. `no_refund`: the compensations are those of the steps before the failed one, by
   index. `confirm-booking` is step 0 of a post-payment saga, so nothing is undone
   and the saga is written as compensated. The saga's own comment
   leaves refund and release to somebody else; nobody does it.

Other disagreements with the documents follow from the same models and have no
run of their own:

- The documented ticket limit forgets what was bought: the counter behind it expires
  `ttl + 60` seconds after the last reservation and confirmed tickets are counted nowhere else, so
  a user may buy the limit again every eleven minutes (`reserve_seats.lua:84`; README.md:418).
  `HoldLimit` is what it does guarantee.
- `doSync` SETs the counter from the table without looking whether
  somebody else has done so. Two callers miss the counter on a cold start. The
  first one's flight lands, and it reserves; the second, which had seen the miss before that,
  starts a flight of its own, reads a table that will learn of the reservation only
  at the next flush, and puts the seat back on sale. The start-up rebuild, the
  administrator's sync and the edit of a zone do the same to a live counter.
  `OnlySyncsOversell` is the other half: nothing else oversells, and
  `CaughtUpTable` says when a synchronisation is harmless.
- Taking a show off sale deletes the counter. The release of an
  open reservation creates it again (INCRBY), and so does the next caller's miss, with
  every seat of the table, because a flight looks at the zone's `is_active` and
  never at the show's status.
- The inventory worker's batch of all zones is one transaction. A zone whose row would violate a
  CHECK, because a `created` event of it never arrived, keeps every zone's changes from the table, for ever.
  `EveryEventSynced` therefore promises an event its place in the table only if what arrives makes sense in every zone
  (`Coherent`), and the run has behaviours in which it does not. Deltas not yet written are gone after a restart, because their
  offsets are committed, and a commit whose answer is lost is applied again; `CountedOnce` speaks of the time before that.
- The seat release worker writes `cancelled` over a row that it read as reserved. A booking confirmed in between then reads
  cancelled while its seats are sold. `ConfirmedRowsStand` says that no other step takes a confirmed row back.
- Two users of the API, or a redelivered payment, may create two payments for one booking, since the look-up and the insertion are two statements and the
  index is not unique, and both may be charged. `OnlyRacesChargeTwice` says that it takes such a race, or one of two calls that
  process one payment. `RefundPayment` asks the gateway before it records anything, so a repeated call asks again; the
  model's gateway refunds an intent once.
- With a limit of 1, a user at the head of the line who keeps polling stores its pass again at each poll, with its whole
  lifetime. The count of passes stays at the limit, no worker releases anybody, and those behind wait for as long as
  it polls. `EveryoneServed` promises the others their turn only if those at the head stop asking. With larger limits
  the same takes as many passes that are kept alive. A user released and back in the line behind others has a
  stored pass that no answer brings it, which `PassWithinReach` excepts.
- A result whose handling fails is committed with the others of its batch and not handled again, so its saga stays
  where it is; so does a saga whose command, answer or row was lost. A step that failed although it took effect is never
  compensated: the list of what to undo has the steps that succeeded.
- The idempotency mark of a slow request expires under it, and the retry runs beside it: `OneRunPerKey` holds until a mark
  expires or Redis fails. Of two refreshes of one token at once both find the session and both issue tokens, so
  `OneSessionPerLogin` speaks of calls that do not overlap.

## 5. Proofs

`tlapm` checks every leaf; nothing is assumed but the named `ASSUME`s of the
modules (finite sets of identifiers where something is counted, positive quantities,
natural capacities, limits and bounds, typed functions, `KeepAssumption`), which TLC
evaluates in the runs. The bounds on mishaps, stops, joins or tokens are constants too: the
theorems hold for each of their values, hence however often such things happen. Every
invariant and action property that a run checks is stated by a theorem.

| Theorem | Module | Establishes |
|---|---|---|
| `RedisTypeSafe`, `SeatsConserved`, `HoldsLimited` | `RedisSeatsProofs` | `RedisTypeOK`, `SeatConservation`, `HoldLimit` |
| `ScriptsImplementSale` | `RedisSeatsProofs` | `RedisSpec => Sale!SaleSpec` |
| `NeverOversoldInRedis` | `RedisSeatsProofs` | `Sale!NeverOversold` |
| `ApiUsesRedis` | `BookingProofs` | each API step is a step of `RedisSpec` or leaves Redis alone |
| `ApiTypeSafe`, `RowsBacked`, `AnswersKept`, `KeyBuysOneBooking`, `ApiSeatsFit` | `BookingProofs` | `ApiTypeOK`, `RowBacked`, `AnswersStand`, `OneBookingPerKey`, `SeatsFit` |
| `WorkersUseRedis` | `BookingProofs` | `WorkersSpec => RedisSpec` |
| `RedisKeepsThePromise` | `BookingProofs` | under `WorkersSpec` Redis still implements the sale, never oversells, conserves seats and limits holds |
| `WorkersTypeSafe`, `AnswersAlwaysBacked`, `SalesRecorded`, `ConfirmedRowsAlwaysStand` | `BookingProofs` | `WorkersTypeOK`, `AnswersBacked`, `SalesOnRecord`, `ConfirmedRowsStand` |
| `WorkerTypeSafe`, `EventsCountedOnce` | `InventoryWorkerProofs` | `WorkerTypeOK`, `CountedOnce` |
| `SagaTypeSafe`, `CompletedSagasTookEffect`, `CompensationsAreNamed` | `BookingSagaProofs` | `SagaTypeOK`, `CompletedTookEffect`, `CompensationsNamed` |
| `SagasImplementChain` | `BookingSagaProofs` | `SagaSpec => Chain!ChainSpec` |
| `StepsInOrder` | `BookingSagaProofs` | `Chain!InOrder`: what took effect came after what its plan puts before it, only that was undone |
| `NoSagaStranded` | `BookingSagaProofs` | `NoneStranded`: unless something was lost, a saga that has not ended is in the hands of its start, a record or a handler |
| `PaymentTypeSafe`, `RecordsAlwaysBacked`, `EventsAlwaysTrue`, `OnlyRacesCanChargeTwice` | `PaymentProofs` | `PaymentTypeOK`, `RecordsBacked`, `EventsTrue`, `OnlyRacesChargeTwice` |
| `PaidNeverForgotten` | `PaymentProofs` | `PaidIsOwed`: what a customer has paid is announced, refused by Kafka, or its webhook is still with the gateway |
| `ZoneTypeSafe`, `TableSafeWhenCaughtUp`, `OnlySyncsCanOversell` | `ZoneSyncProofs` | `ZoneTypeOK`, `CaughtUpTable`, `OnlySyncsOversell` |
| `FlightsCarryTheirCallers` | `ZoneSyncProofs` | `FlightCarriesCallers`: who waits for the zone counter waits for a flight that is under way |
| `QueueHolds`, `QueueTyped`, `PassReached`, `PassesStayBounded` | `VirtualQueueProofs` | the inductive invariant, `QueueTypeOK`, `PassWithinReach`, `PassesBounded` |
| `FirstComeServed` | `VirtualQueueProofs` | `FirstComeFirstServed`, an action property |
| `RunOnce`, `IdemTyped` | `ServicesProofs` | `OneRunPerKey`, `IdemTypeOK` |
| `PassesStayWithinRate`, `RateTyped` | `ServicesProofs` | `PassesWithinRate`, `RateTypeOK` |
| `SagaEndsAsStored`, `LibraryTyped` | `ServicesProofs` | `EndsAsStored`, `LibraryTypeOK` |
| `SessionsHold`, `SessionsTyped` | `ServicesProofs` | `OneSessionPerLogin`, `SessionsTypeOK` |
| `EventsComeOnce`, `OutboxTyped` | `ServicesProofs` | `EventsOnce`, `OutboxTypeOK` |
| `CatalogueFollows`, `CacheTyped` | `ServicesProofs` | `CatalogueFollowsEdits`, `EventCacheTypeOK` |
| `AuditOnce`, `AuditTyped` | `ServicesProofs` | `AuditedOnce`, `AuditTypeOK` |
| `ServicesTyped` | `ServicesProofs` | `ServicesTypeOK` of the run that puts the seven together |

The arguments.

- `RedisInv` = types, `KeysHaveSeats` (a live reservation key has taken seats on
  the ledger) and `SeatConservation`. Conservation alone is not inductive: a
  release must be known to return seats that were taken and not yet returned.
  `HoldLimit` is proved on top of it, from the fact that a hold adds to the counter what it adds to the user's
  seats. `RedisSeatsProofs` begins with the cardinality lemmas: the seats of a set with one
  more (or one fewer) booking, and monotonicity.
- The refinement needs, for `Hold`, that outstanding seats fit: conservation
  gives it, since outstanding bookings are those on the ledger as taken.
- `ApiInv` adds to the types `RowsHaveSeats` (a row's seats were taken),
  `CallKnows` (what a call standing at a given point may rely on about Redis and
  the row), `RowBacked` and `KeysUnique`. `CallKnows` is the heart: between the script and
  the row a confirm relies on a key that nobody else can take away, which holds because the
  API's other calls only release keys that are still `reserved`.
- With the workers `RowBacked` is lost: they overwrite rows, whatever these say.
  `WorkersInv` therefore argues from Redis, where what is settled stays settled
  (`RedisSettles`): whoever confirms seats has seen the row before (`JobHolds`,
  `CallHolds`), rows are never deleted, and so sales stay on record and
  answers stay backed by seats. `ConfirmedRowsStand` goes through every writer of a row: the API and the expiry write under
  `WHERE status = 'reserved'`, the saga's reserve step only inserts, its confirm step writes `confirmed`, and a seat release
  worker that is not in the middle of the booking has yet to read the row, which it then leaves alone.
- `WorkerInv` adds to `CountedOnce` that the log holds an event once, so the
  next record cannot be one already taken.
- `ZoneInv` adds to the types `KeysHaveSeats`, since a release may only return what was
  taken, and `TableFits` (`rowAvailable + Seats(RowTaken) <= Capacity`): a flush moves
  seats between the columns, an edit that would break it meets the CHECK.
  `SeatConservation` does not hold in `ZoneSync`; a SET forgets what was sold.
- `SagaInv` says of every message ever sent, of every copy of the row in a handler and of the
  row itself that it is true of `plan` and `ran` (`MessageTrue`, `CopyTrue`). Copies are old, but
  nothing they say becomes false: effects stay and a plan does not change (`Keeps`). So each
  action only has to show that what it adds is true (`NewIsTrue`, `QuietStep`), and no
  interleaving of handlers has to be looked at. `PlanFacts` connects the
  hard-wired chain with either definition: from confirm on they agree, and a post-payment saga
  never gets a reserve or pay command. `StarterTrue` bounds what ran by the plan, which is
  what makes a completed saga exact. A compensation names steps of a booking saga only (`ToCompensateTrue`).
- `DataInv` treats the payments the same way: a call writes back a row it read long ago, and may
  undo what others wrote, but what the row says of its intent the gateway has told, and an intent that was
  paid, refunded or canceled stays so. `WorkTrue` says what a call or webhook handler knows at
  each point, `TruthStays` that it stays true. `RaceInv` counts who may charge: unless two calls
  raced for the creation there is one row (`CreatedOnce`), and unless two raced for the processing there is,
  for each row, at most one among the calls about to charge and the charges made (`SoleCharge`); a row that says
  pending has no charge, because every write takes it out of pending. The proofs use `NamesAssumption`
  ("none" names no payment and no intent; calls and webhook handlers are different).
- Three theorems are the safety under a liveness property: what is owed has somebody to do it.
  `NoneStranded` needs `GoingInv`: a saga that was started has its row unless it was cut, and a handler that
  is about to write the row and then stop writes a saga that has ended (`Finishes`); any other handler sends a
  record or goes on itself. So no handler overwrites an ended row with a running one and goes away.
  For `PaidIsOwed`, a webhook leaves the gateway only when its handler has tried to publish (`HooksStay`,
  `AnsweredIsTold`), and only a customer pays a customer's intent (`OnlyCustomersPay`), which sends the webhook.
  For `FlightCarriesCallers`, a flight that ends answers all who joined it in the same step, and nobody but a caller
  that joins one starts it or moves it otherwise (`FlightAlone`).

- `QueueInv`. A worker acts on what it read, so `Known` says what of that is still true. Before it takes
  its batch, whoever stands in front of somebody in the batch is in the batch too (later arrivals get
  higher scores, and leaving only shortens the line), which gives `FirstComeFirstServed`, also when the command that takes them
  is reported as failed. After that, those taken are out of the line or have joined again, so that what is stored for them is within
  reach or excepted; a request that stores a pass at the head does so for a user who was at the head when it asked and has since
  left, joined again or still is, since nobody gets in front of a user in the line (`PollsInv`). Together this gives
  `PassWithinReach`, which says nothing about where an answer went: any of them may be lost.
  Who never joined has no place, no pass and no open poll (`StrangersInv`). For
  `PassesBounded` what a worker has yet to store is a column of cells, `{r} \X (1..Yet(r))`, so that the sum is
  the size of a finite set: storing a pass takes a cell away, and a worker that counts anew
  fills its column up to what the count left free, while the other columns are at most `Limit` high (`RoomForOne`).
- `IdemInv`: until the record expires or Redis fails it names the one request whose handler runs or ran, and a
  completed record names a request that took effect. A request that lost the NX still finds a record.
- `RateInv` keeps accounts. What has passed, the tokens in the bucket, and the requests
  that hold another bucket and may still spend from it are together at most the burst and what the rate was
  worth by the time of the bucket's last refill (`Accounts`). A clock that is behind fills a bucket
  later, never twice (`SpendingAccounts`). When the map drops a bucket, `KeepAssumption` says that the rate has
  paid for the burst of a new one and for all who hold the old one, so the account balances without a bucket.
- `LibraryInv`: `StoredInv` is what an instance in the store says to a process that resumes it, `RunnerInv` what
  the running goroutine knows. That a step is recorded as completed means that it took effect, until an update is
  lost, and a saga being undone has dealt with every step behind the one it has come to.
- `SessionsInv`: a call of a login nobody disturbed is alone and holds the login's session, stored or
  between the delete and the insert (`CallsInv`), so there is at most one.
- `OutboxInv` follows a message that met no trouble from the commit to the mark (`WayInv`): one goroutine at
  most holds it; once it arrived it is only marked, never fetched again; and what its booking committed
  earlier arrived before it, or is in trouble, or is ahead of it in the same batch, because a fetch that passes over the earlier one
  while it is locked makes the later one troubled (`TakenPast`). `TablesInv` gives the order of the log,
  `RecordInv` what a status says. A fetch takes the first few places that are due; that a non-empty set
  of places has a first one comes from the well-foundedness of the order of the naturals (`Least`, `FirstFew`).
- `CacheInv`: until it is doubtful, one visitor edits, what it starts from is the row, and the slug
  whose key it will drop is that of the row (`EditsInv`).
- `AuditInv` adds only the shape of the sequences to `AuditedOnce`: table, batch and channel in a row are
  the log without what was discarded, and a step moves the border between two of them (`CollectMoves`, `InsertMoves`).

`ApiTypeOK`, `WorkersTypeOK`, `ZoneTypeOK`, `Sale!NeverOversold`, `Chain!InOrder`, `NoneStranded`, `PaidIsOwed`
and `FlightCarriesCallers` are proved and not listed in a run: the runs of these modules evaluate the same
guards, two of them check the refinements from which the fourth and the fifth follow, and the last three are
what the liveness properties of their runs rest on.

Only model-checked: `EveryEventSynced`, `EveryMissAnswered`, `EverySagaEnds`, `PaidIsAnnounced` and
`EveryoneServed`, since liveness under fairness is beyond the prover. Of the first four the safety is proved
(`CountedOnce` for the first: an event taken from the topic is in the deltas, in a flush or in the table).
Induction over data is available only where it can be put as a least element: what a fold or a recursive
function, such as the sum in `InventoryWorker!Total`, computes for every input is not proved, and no theorem
depends on it.

## 6. Not modelled, and why

- Reads, listings, statistics and validation of requests change no state.
- In `BookingService` and `BookingWorkers` the counter is taken to be published
  once, before the sale; `ZoneSync` is where it is written while seats are sold,
  and it models reservations without their rows. The two are not composed:
  after a SET from the table nothing about the number of seats holds that a row could rely on.
- Edits of `total_seats` (they change the capacity under a running sale) and soft deletes of shows and zones.
- Saga lifecycle events (nobody reads them), the `StateMachine` and the Redis store of the saga
  library (no process uses them).
- Payment: stored cards, customers, the portal, and `consumer/booking_consumer.go`, which
  is wired nowhere. Money and prices: no property here depends on an amount.
- Queue: positions and waiting times, the SSE stream as a transport, the cached
  configuration. `GetAllQueueEventIDs` also finds `queue:config:*` keys, which only adds events without users.
- Gateway: routing, headers, CORS, the unwired queue-pass middleware. Auth: passwords, access
  tokens, profiles, tenants. Ticket service: venues, filters, the parts of a show or a
  zone that do not reach the zone counter.
- Notification service and front end: they keep nothing that another part reads.
- Configuration, database, logger, telemetry and Kafka wrappers: they appear as
  assumptions (at-least-once delivery, statements and commands that are atomic and may fail).

## 7. Order of the work, and what is left

1. `RedisSeats` with `SeatSale`; `BookingService`; `BookingWorkers`; `InventoryWorker`; their proofs.
2. `ZoneSync` and its proofs.
3. `SagaChain`, `BookingSaga` and their proofs.
4. `Payment` with its proofs; `VirtualQueue`.
5. `SagaLibrary`, `Idempotency`, `RateLimiter`, `Sessions`, `Outbox`, `EventCache`, `AuditLog`.
6. `VirtualQueueProofs`, `ServicesProofs`; what the two abstract specifications promise, carried over.

Left: in TLC, requests of one user that overlap in `VirtualQueue`; the composition of `BookingSaga` with `BookingWorkers`, whose product is beyond TLC at
instances where anything happens (they meet in `ran`, which stands for the effect
`BookingWorkers` gives each step); edits of `total_seats`; for `EveryoneServed`, the
invariant it rests on (a worker with a batch always has a next user to serve) as a theorem.
