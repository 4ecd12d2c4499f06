--------------------------- MODULE BookingWorkers ---------------------------
(***************************************************************************)
(* The booking API together with the background processes that write the   *)
(* same two stores: the saga step worker, the seat release worker and the  *)
(* expiry of unpaid reservations.  Unlike the API they mostly ignore what  *)
(* a script answers, and two of them write the row without looking at it   *)
(* again.                                                                  *)
(*                                                                         *)
(* A job is one message or one scan that concerns one booking.  Kafka      *)
(* delivers at least once and the handlers retry, so a job starts over at  *)
(* any time, however far it got.  Payments finish at any time: a payment   *)
(* that fails releases the seats, and one that succeeds (also later, with  *)
(* another card) confirms the booking.                                     *)
(***************************************************************************)
EXTENDS BookingService

CONSTANTS
  Job,      \* messages and scans
  Work,     \* what each job does
  Subject   \* the booking it is about; for a reserve, the identifier drawn

VARIABLE stage   \* where each job stands

workersVars == <<apiVars, stage>>

ASSUME WorkAssumption ==
  Work \in [Job -> {"sagaReserve", "sagaRelease", "sagaConfirm", "seatRelease", "expire"}]
ASSUME SubjectAssumption ==
  /\ Subject \in [Job -> Booking]
  /\ \A j \in Job : Work[j] = "sagaReserve" => Key[Subject[j]] = NoKey

WorkersTypeOK == ApiTypeOK /\ stage \in [Job -> {"idle", "redis", "row"}]

WorkersInit == ApiInit /\ stage = [j \in Job |-> "idle"]

Moves(j, from, to) == stage[j] = from /\ stage' = [stage EXCEPT ![j] = to]

OnlyMoves(j, from, to) == Moves(j, from, to) /\ UNCHANGED apiVars

OverwriteRow(b, status) == HasRow(b) /\ pg' = [pg EXCEPT ![b] = status]
-----------------------------------------------------------------------------
(***************************************************************************)
(* The saga's reserve step: the same script, then the row.  A row that     *)
(* cannot be written is logged and the step succeeds.                      *)
(***************************************************************************)
SagaReserveInRedis(j) ==
  /\ Work[j] = "sagaReserve"
  /\ Moves(j, "idle", "row")
  /\ ReserveScript(Subject[j])
  /\ UNCHANGED <<dbVars, pc, published>>

SagaReserveInRedisAgain(j) ==
  /\ Work[j] = "sagaReserve"
  /\ stage[j] = "row"
  /\ ReserveRepeated(Subject[j])
  /\ UNCHANGED <<dbVars, pc, published, stage>>

SagaReserveRow(j) ==
  /\ Work[j] = "sagaReserve"
  /\ Moves(j, "row", "idle")
  /\ InsertRow(Subject[j])
  /\ UNCHANGED <<redisVars, overdue, pc, published>>

(***************************************************************************)
(* The saga's compensation gives the seats back in Redis and leaves the    *)
(* row as it is.                                                           *)
(***************************************************************************)
SagaRelease(j) ==
  /\ Work[j] = "sagaRelease"
  /\ ReleaseScript(Subject[j])
  /\ UNCHANGED <<dbVars, pc, published, stage>>

(***************************************************************************)
(* The saga's confirm step: read the row whatever its status; try to       *)
(* confirm in Redis, and go on if Redis refuses or cannot be reached; then *)
(* write the row back as confirmed.                                        *)
(***************************************************************************)
\* Mutant: the step goes on although there is no such booking.
SagaConfirmReadBlind(j) ==
  /\ Work[j] = "sagaConfirm"
  /\ OnlyMoves(j, "idle", "redis")

SagaConfirmRead(j) ==
  /\ Work[j] = "sagaConfirm"
  /\ HasRow(Subject[j])
  /\ OnlyMoves(j, "idle", "redis")

SagaConfirmInRedis(j) ==
  /\ Work[j] = "sagaConfirm"
  /\ Moves(j, "redis", "row")
  /\ ConfirmScript(Subject[j]) \/ UNCHANGED redisVars
  /\ UNCHANGED <<dbVars, pc, published>>

SagaConfirmRow(j) ==
  /\ Work[j] = "sagaConfirm"
  /\ Moves(j, "row", "idle")
  /\ OverwriteRow(Subject[j], "confirmed")
  /\ UNCHANGED <<redisVars, overdue, pc, published>>

(***************************************************************************)
(* The seat release worker, for a failed, cancelled or refunded payment:   *)
(* skip unless the row reads reserved; release in Redis, whatever the      *)
(* script answers; write the row back as cancelled.                        *)
(***************************************************************************)
\* Mutant: a booking that is confirmed by now is not skipped.
SeatReleaseReadAny(j) ==
  /\ Work[j] = "seatRelease"
  /\ HasRow(Subject[j])
  /\ OnlyMoves(j, "idle", "redis")

SeatReleaseRead(j) ==
  /\ Work[j] = "seatRelease"
  /\ pg[Subject[j]] = "reserved"
  /\ OnlyMoves(j, "idle", "redis")

SeatReleaseInRedis(j) ==
  /\ Work[j] = "seatRelease"
  /\ Moves(j, "redis", "row")
  /\ \/ ReleaseScript(Subject[j])
     \/ ReleaseAnswer(Subject[j]) # "OK" /\ UNCHANGED redisVars
  /\ UNCHANGED <<dbVars, pc, published>>

SeatReleaseRow(j) ==
  /\ Work[j] = "seatRelease"
  /\ Moves(j, "row", "idle")
  /\ OverwriteRow(Subject[j], "cancelled")
  /\ UNCHANGED <<redisVars, overdue, pc, published>>

(***************************************************************************)
(* Expiry of unpaid reservations: fetch a reserved row whose deadline has  *)
(* passed; try to release in Redis; mark the row, if it is still reserved. *)
(* bookingService.ExpireReservations does the same without the release.    *)
(***************************************************************************)
ExpireFetch(j) ==
  /\ Work[j] = "expire"
  /\ pg[Subject[j]] = "reserved"
  /\ Subject[j] \in overdue
  /\ OnlyMoves(j, "idle", "redis")

ExpireInRedis(j) ==
  /\ Work[j] = "expire"
  /\ Moves(j, "redis", "row")
  /\ ReleaseScript(Subject[j]) \/ UNCHANGED redisVars
  /\ UNCHANGED <<dbVars, pc, published>>

ExpireRow(j) ==
  /\ Work[j] = "expire"
  /\ Moves(j, "row", "idle")
  /\ UpdateIfReserved(Subject[j], "expired")
  /\ UNCHANGED <<redisVars, overdue, pc, published>>

(***************************************************************************)
(* A job ends early, or its answer is lost: nothing is undone.             *)
(***************************************************************************)
JobAborts(j) == OnlyMoves(j, "redis", "idle") \/ OnlyMoves(j, "row", "idle")

SagaStep(j) ==
  \/ SagaReserveInRedis(j)
  \/ SagaReserveInRedisAgain(j)
  \/ SagaReserveRow(j)
  \/ SagaRelease(j)
  \/ SagaConfirmRead(j)
  \/ SagaConfirmInRedis(j)
  \/ SagaConfirmRow(j)

SeatReleaseStep(j) ==
  SeatReleaseRead(j) \/ SeatReleaseInRedis(j) \/ SeatReleaseRow(j)

ExpireStep(j) == ExpireFetch(j) \/ ExpireInRedis(j) \/ ExpireRow(j)

JobStep(j) == SagaStep(j) \/ SeatReleaseStep(j) \/ ExpireStep(j) \/ JobAborts(j)

WorkersNext ==
  \/ ApiNext /\ UNCHANGED stage
  \/ \E j \in Job : JobStep(j)

WorkersSpec == WorkersInit /\ [][WorkersNext]_workersVars

(***************************************************************************)
(* The clock advances, and the expiry scan keeps running and is not cut    *)
(* off for ever: it is started by a ticker, and fetches every overdue      *)
(* reserved row again.                                                     *)
(***************************************************************************)
WorkersFairSpec ==
  /\ WorkersSpec
  /\ WF_workersVars(ApiClock /\ UNCHANGED stage)
  /\ \A j \in Job : WF_workersVars(ExpireFetch(j)) /\ SF_workersVars(ExpireInRedis(j))
                    /\ SF_workersVars(ExpireRow(j))
-----------------------------------------------------------------------------
(***************************************************************************)
(* Whatever the workers do in between, a client told "confirmed" has seats *)
(* in Redis that no job takes away, and a client told "cancelled" has none *)
(* left.  (The row may come to say otherwise: the seat release worker      *)
(* writes it back without looking again.)                                  *)
(***************************************************************************)
AnswersBacked ==
  \A b \in Booking :
    /\ Told("confirm", b) => reservation[b] = "confirmed"
    /\ Told("cancel", b) => reservation[b] = "none"

(***************************************************************************)
(* No seats are sold without a booking on record, although reservations    *)
(* that have none do exist.                                                *)
(***************************************************************************)
SalesOnRecord ==
  \A b \in Booking : reservation[b] = "confirmed" => HasRow(b)

(***************************************************************************)
(* A row that reads confirmed while no seat release worker is in the       *)
(* middle of the booking reads so for ever.  Only a worker that had read   *)
(* the row before takes a confirmation back: not one that starts, or       *)
(* starts over, later; not the saga; not the expiry, even of a row that    *)
(* its scan fetched as reserved; not a late cancellation.                  *)
(***************************************************************************)
Settled(b) ==
  /\ pg[b] = "confirmed"
  /\ \A j \in Job : Work[j] = "seatRelease" /\ Subject[j] = b => stage[j] = "idle"

ConfirmedRowsStand == [][\A b \in Booking : Settled(b) => Settled(b)']_workersVars

(***************************************************************************)
(* "Result: 0% overselling rate" (README.md:302): the bookings on record   *)
(* as confirmed fit in the zone.  The code does not keep this: the saga's  *)
(* confirm step confirms a row whose seats have gone back on sale.         *)
(***************************************************************************)
ConfirmedRowsFit == Seats({b \in Booking : pg[b] = "confirmed"}) <= Capacity

(***************************************************************************)
(* "Auto-release unpaid reservations" (README.md:420): the seats of an     *)
(* unpaid booking are sold or come back on sale.  The code does not keep   *)
(* this, even with the expiry scan running: the reservation key has gone   *)
(* by the time the scan finds the row, and the key was the only record of  *)
(* what to give back.                                                      *)
(***************************************************************************)
AutoRelease ==
  \A b \in Booking :
    pg[b] = "reserved" /\ reservation[b] = "reserved"
      ~> ledger[b] = "returned" \/ reservation[b] = "confirmed"
=============================================================================
