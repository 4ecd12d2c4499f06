--------------------------- MODULE BookingService ---------------------------
(***************************************************************************)
(* The three calls of the booking API that change something, each made of  *)
(* steps on two stores: the Redis inventory (RedisSeats) and the bookings  *)
(* table of PostgreSQL.  Handlers of different requests interleave between *)
(* any two steps, and any of them may stop half-way: the process dies, a   *)
(* store answers with an error, or an answer is lost.                      *)
(*                                                                         *)
(*   ReserveSeats    look up the idempotency key; reserve script; INSERT   *)
(*   ConfirmBooking  read the row; confirm script; UPDATE .. 'confirmed'   *)
(*   CancelBooking   read the row; release script; UPDATE .. 'cancelled'   *)
(*                                                                         *)
(* A call that is refused before it has changed anything is not a step: it *)
(* stays at "start".  Ownership is not modelled (each call is made by the  *)
(* user of its booking).                                                   *)
(***************************************************************************)
EXTENDS RedisSeats

CONSTANTS
  Call,     \* the requests clients send, retries included
  Op,       \* what each call asks for
  Target,   \* the booking it names; for a reserve, the identifier it draws
  Key,      \* the idempotency key of the request behind each booking
  NoKey     \* no key given (stored as NULL)

VARIABLES
  pg,        \* bookings.status of each booking's row, "none" for no row
  overdue,   \* bookings whose reservation_expires_at has passed
  pc,        \* where each call stands
  published  \* calls whose event has reached the booking-events topic

dbVars == <<pg, overdue>>
apiVars == <<redisVars, dbVars, pc, published>>

ASSUME OpAssumption == Op \in [Call -> {"reserve", "confirm", "cancel"}]
ASSUME TargetAssumption == Target \in [Call -> Booking]
ASSUME KeyAssumption == DOMAIN Key = Booking

RowStatus == {"none", "reserved", "confirmed", "cancelled", "expired"}

ApiTypeOK ==
  /\ RedisTypeOK
  /\ pg \in [Booking -> RowStatus]
  /\ overdue \subseteq Booking
  /\ pc \in [Call -> {"start", "script", "row", "ok", "replayed", "failed"}]
  /\ published \subseteq Call

ApiInit ==
  /\ RedisInit
  /\ pg = [b \in Booking |-> "none"]
  /\ overdue = {}
  /\ pc = [c \in Call |-> "start"]
  /\ published = {}
-----------------------------------------------------------------------------
(***************************************************************************)
(* Statements on the bookings table.  Each returns once it has written;    *)
(* Replies then says whether the handler hears of it.                      *)
(***************************************************************************)
HasRow(b) == pg[b] # "none"

KeyTaken(b) ==
  Key[b] # NoKey /\ \E d \in Booking : Key[d] = Key[b] /\ HasRow(d)

\* Mutant: no UNIQUE constraint on the key; the lookup alone decides.
InsertRowAnyKey(b) ==
  /\ ~ HasRow(b)
  /\ pg' = [pg EXCEPT ![b] = "reserved"]

InsertRow(b) ==
  /\ ~ HasRow(b)
  /\ ~ KeyTaken(b)
  /\ pg' = [pg EXCEPT ![b] = "reserved"]

UpdateIfReserved(b, status) ==
  /\ pg[b] = "reserved"
  /\ pg' = [pg EXCEPT ![b] = status]

Goes(c, from, to) == pc[c] = from /\ pc' = [pc EXCEPT ![c] = to]

Replies(c) == Goes(c, "row", "ok") \/ Goes(c, "row", "failed")
-----------------------------------------------------------------------------
ReserveLookup(c) ==
  /\ Op[c] = "reserve"
  /\ Goes(c, "start", IF KeyTaken(Target[c]) THEN "replayed" ELSE "script")
  /\ UNCHANGED <<redisVars, dbVars, published>>

ReserveInRedis(c) ==
  /\ Op[c] = "reserve"
  /\ Goes(c, "script", "row")
  /\ ReserveScript(Target[c])
  /\ UNCHANGED <<dbVars, published>>

ReserveInRedisAgain(c) ==
  /\ Op[c] = "reserve"
  /\ pc[c] = "row"
  /\ ReserveRepeated(Target[c])
  /\ UNCHANGED <<dbVars, pc, published>>

\* Mutant: a failed INSERT is logged and the call succeeds, as the saga's
\* reserve step does.
ReserveRowBestEffort(c) ==
  /\ Op[c] = "reserve"
  /\ Goes(c, "row", "ok")
  /\ InsertRow(Target[c]) \/ UNCHANGED pg
  /\ UNCHANGED <<redisVars, overdue, published>>

ReserveRow(c) ==
  /\ Op[c] = "reserve"
  /\ Replies(c)
  /\ InsertRow(Target[c])
  /\ UNCHANGED <<redisVars, overdue, published>>

ConfirmRead(c) ==
  /\ Op[c] = "confirm"
  /\ HasRow(Target[c])
  /\ pg[Target[c]] \notin {"confirmed", "cancelled"}
  /\ Target[c] \notin overdue
  /\ Goes(c, "start", "script")
  /\ UNCHANGED <<redisVars, dbVars, published>>

\* Mutant: what the script answers is ignored, as in the saga's confirm step.
ConfirmInRedisBestEffort(c) ==
  /\ Op[c] = "confirm"
  /\ Goes(c, "script", "row")
  /\ \/ ConfirmScript(Target[c])
     \/ ConfirmAnswer(Target[c]) # "OK" /\ UNCHANGED redisVars
  /\ UNCHANGED <<dbVars, published>>

ConfirmInRedis(c) ==
  /\ Op[c] = "confirm"
  /\ Goes(c, "script", "row")
  /\ ConfirmScript(Target[c])
  /\ UNCHANGED <<dbVars, published>>

ConfirmRow(c) ==
  /\ Op[c] = "confirm"
  /\ Replies(c)
  /\ UpdateIfReserved(Target[c], "confirmed")
  /\ UNCHANGED <<redisVars, overdue, published>>

CancelRead(c) ==
  /\ Op[c] = "cancel"
  /\ HasRow(Target[c])
  /\ pg[Target[c]] \notin {"confirmed", "cancelled"}
  /\ Goes(c, "start", "script")
  /\ UNCHANGED <<redisVars, dbVars, published>>

(***************************************************************************)
(* A reservation that Redis no longer has is taken for an expired one, and *)
(* the call goes on to the row.                                            *)
(***************************************************************************)
ReleaseOrGone(b) ==
  \/ ReleaseScript(b)
  \/ ReleaseAnswer(b) = "RESERVATION_NOT_FOUND" /\ UNCHANGED redisVars

CancelInRedis(c) ==
  /\ Op[c] = "cancel"
  /\ Goes(c, "script", "row")
  /\ ReleaseOrGone(Target[c])
  /\ UNCHANGED <<dbVars, published>>

CancelRow(c) ==
  /\ Op[c] = "cancel"
  /\ Replies(c)
  /\ UpdateIfReserved(Target[c], "cancelled")
  /\ UNCHANGED <<redisVars, overdue, published>>

(***************************************************************************)
(* A call ends early: refused by a script, by the row's WHERE or by the    *)
(* unique key, or cut off.  Nothing is undone.                             *)
(***************************************************************************)
Abort(c) ==
  /\ Goes(c, "script", "failed") \/ Goes(c, "row", "failed")
  /\ UNCHANGED <<redisVars, dbVars, published>>

(***************************************************************************)
(* The event of a completed call is sent by the producer's own goroutine:  *)
(* some time later, or never.                                              *)
(***************************************************************************)
Publish(c) ==
  /\ pc[c] = "ok"
  /\ c \notin published
  /\ published' = published \cup {c}
  /\ UNCHANGED <<redisVars, dbVars, pc>>

(***************************************************************************)
(* Time.  The row's deadline is computed after the reserve script has run, *)
(* with the same duration, so the Redis key of an unconfirmed booking has  *)
(* gone by the time the row is overdue.                                    *)
(***************************************************************************)
RowOverdue(b) ==
  /\ HasRow(b)
  /\ b \notin overdue
  /\ reservation[b] # "reserved"
  /\ overdue' = overdue \cup {b}
  /\ UNCHANGED <<redisVars, pg, pc, published>>

ApiClock ==
  \/ RedisExpiry /\ UNCHANGED <<dbVars, pc, published>>
  \/ \E b \in Booking : RowOverdue(b)

ApiReserve(c) ==
  \/ ReserveLookup(c)
  \/ ReserveInRedis(c)
  \/ ReserveInRedisAgain(c)
  \/ ReserveRow(c)

ApiConfirm(c) == ConfirmRead(c) \/ ConfirmInRedis(c) \/ ConfirmRow(c)

ApiCancel(c) == CancelRead(c) \/ CancelInRedis(c) \/ CancelRow(c)

ApiCall(c) ==
  ApiReserve(c) \/ ApiConfirm(c) \/ ApiCancel(c) \/ Abort(c) \/ Publish(c)

ApiNext == (\E c \in Call : ApiCall(c)) \/ ApiClock

ApiSpec == ApiInit /\ [][ApiNext]_apiVars
-----------------------------------------------------------------------------
(***************************************************************************)
(* The two stores agree on every booking the API has settled: a confirmed  *)
(* row is backed by seats Redis holds for good, and a cancelled row has no *)
(* reservation left.                                                       *)
(***************************************************************************)
RowBacked ==
  \A b \in Booking :
    /\ pg[b] = "confirmed" => reservation[b] = "confirmed"
    /\ pg[b] = "cancelled" => reservation[b] = "none"

(***************************************************************************)
(* No overselling across the two stores: the seats still on sale, those of *)
(* live reservations and those of confirmed rows fit in the zone together. *)
(***************************************************************************)
Live == {b \in Booking : pg[b] = "confirmed" \/ reservation[b] # "none"}

SeatsFit == available + Seats(Live) <= Capacity

(***************************************************************************)
(* What a client or the event topic was told of a booking stands: it was   *)
(* reserved, confirmed or cancelled, and its row still says so.  In        *)
(* particular no booking is both acknowledged as confirmed and as          *)
(* cancelled.                                                              *)
(***************************************************************************)
Told(op, b) ==
  \E c \in Call : Op[c] = op /\ Target[c] = b /\ (pc[c] = "ok" \/ c \in published)

AnswersStand ==
  \A b \in Booking :
    /\ Told("reserve", b) => HasRow(b)
    /\ Told("confirm", b) => pg[b] = "confirmed"
    /\ Told("cancel", b) => pg[b] = "cancelled"

(***************************************************************************)
(* However often and however concurrently a client repeats a reservation   *)
(* with the same idempotency key, it buys one booking: at most one of the  *)
(* bookings drawn for the key ever gets a row, and a call that finds the   *)
(* key answers with a booking that exists.                                 *)
(***************************************************************************)
OneBookingPerKey ==
  /\ \A b, d \in Booking :
       HasRow(b) /\ HasRow(d) /\ Key[b] = Key[d] /\ Key[b] # NoKey => b = d
  /\ \A c \in Call : pc[c] = "replayed" => KeyTaken(Target[c])
=============================================================================
