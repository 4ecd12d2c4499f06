----------------------------- MODULE RedisSeats -----------------------------
(***************************************************************************)
(* The seat inventory kept in Redis and the three Lua scripts that sell it *)
(* (backend-booking/internal/repository/scripts).  Redis runs a script as  *)
(* one step, so each script is one action; what a script answers is a      *)
(* function of the state it finds.                                         *)
(*                                                                         *)
(* One zone of one event is modelled, because a script touches a single    *)
(* zone:availability key.  Publishing, withdrawing and re-synchronising a  *)
(* zone write that key as well.  Here the zone was published once, before  *)
(* the sale, so reserve_seats.lua never meets ZONE_NOT_FOUND.              *)
(***************************************************************************)
EXTENDS SeatCount

CONSTANTS
  Booking,     \* identifiers ReserveSeats draws: uuid.New(), never reused
  User,
  Owner,       \* the user of each booking
  Capacity,    \* what zone:availability:{zone_id} is set to before the sale
  MaxPerUser   \* MAX_TICKETS_PER_USER; 0 turns the limit off

VARIABLES
  available,     \* zone:availability:{zone_id}
  userReserved,  \* user:reservations:{user_id}:{event_id}; 0 for no key
  reservation,   \* reservation:{booking_id}: its status, "none" for no key
  ledger,        \* history: what the zone counter did for each booking
  wasted         \* history: seats deducted by repeats of a reserve script

redisVars == <<available, userReserved, reservation, ledger, wasted>>

ASSUME BookingAssumption == IsFiniteSet(Booking)
ASSUME OwnerAssumption == Owner \in [Booking -> User]
ASSUME QtyAssumption == Qty \in [Booking -> Nat \ {0}]
ASSUME CapacityAssumption == Capacity \in Nat
ASSUME MaxPerUserAssumption == MaxPerUser \in Nat

RedisTypeOK ==
  /\ available \in Nat
  /\ userReserved \in [User -> Nat]
  /\ reservation \in [Booking -> {"none", "reserved", "confirmed"}]
  /\ ledger \in [Booking -> {"unused", "taken", "returned"}]
  /\ wasted \in Nat

RedisInit ==
  /\ available = Capacity
  /\ userReserved = [u \in User |-> 0]
  /\ reservation = [b \in Booking |-> "none"]
  /\ ledger = [b \in Booking |-> "unused"]
  /\ wasted = 0
-----------------------------------------------------------------------------
(***************************************************************************)
(* What each script answers.                                               *)
(***************************************************************************)
WithinUserLimit(b) ==
  MaxPerUser > 0 => userReserved[Owner[b]] + Qty[b] <= MaxPerUser

\* Mutant: the stock is not compared with the quantity asked for.
ReserveAnswerNoStock(b) == IF WithinUserLimit(b) THEN "OK" ELSE "USER_LIMIT_EXCEEDED"

ReserveAnswer(b) ==
  CASE available < Qty[b]   -> "INSUFFICIENT_STOCK"
    [] ~ WithinUserLimit(b) -> "USER_LIMIT_EXCEEDED"
    [] OTHER                -> "OK"

ConfirmAnswer(b) ==
  CASE reservation[b] = "none"      -> "RESERVATION_NOT_FOUND"
    [] reservation[b] = "confirmed" -> "ALREADY_CONFIRMED"
    [] OTHER                        -> "OK"

\* Mutant: a confirmed reservation can be released.
ReleaseAnswerAnyStatus(b) ==
  IF reservation[b] = "none" THEN "RESERVATION_NOT_FOUND" ELSE "OK"

ReleaseAnswer(b) ==
  CASE reservation[b] = "none"      -> "RESERVATION_NOT_FOUND"
    [] reservation[b] = "confirmed" -> "ALREADY_RELEASED"
    [] OTHER                        -> "OK"

(***************************************************************************)
(* What each script writes when its answer is OK; any other answer leaves  *)
(* Redis as it was.                                                        *)
(***************************************************************************)
Deduct(b) ==
  /\ ReserveAnswer(b) = "OK"
  /\ available' = available - Qty[b]
  /\ userReserved' = [userReserved EXCEPT ![Owner[b]] = @ + Qty[b]]
  /\ reservation' = [reservation EXCEPT ![b] = "reserved"]

ReserveScript(b) ==
  /\ ledger[b] = "unused"
  /\ Deduct(b)
  /\ ledger' = [ledger EXCEPT ![b] = "taken"]
  /\ UNCHANGED wasted

(***************************************************************************)
(* The Redis client sends a command again when its reply is lost or times  *)
(* out (pkg/redis/redis.go:71-82 leaves the client's MaxRetries at its     *)
(* default), and the script then runs again for the same booking.  A       *)
(* repeat of the other two scripts finds the reservation confirmed or gone *)
(* and writes nothing.                                                     *)
(***************************************************************************)
ReserveRepeated(b) ==
  /\ reservation[b] = "reserved"
  /\ Deduct(b)
  /\ wasted' = wasted + Qty[b]
  /\ UNCHANGED ledger

ConfirmScript(b) ==
  /\ ConfirmAnswer(b) = "OK"
  /\ reservation' = [reservation EXCEPT ![b] = "confirmed"]
  /\ UNCHANGED <<available, userReserved, ledger, wasted>>

\* Mutant: the reservation key is not deleted.
ReleaseScriptKeepsKey(b) ==
  /\ ReleaseAnswer(b) = "OK"
  /\ available' = available + Qty[b]
  /\ userReserved' = [userReserved EXCEPT ![Owner[b]] =
                        IF @ < Qty[b] THEN 0 ELSE @ - Qty[b]]
  /\ ledger' = [ledger EXCEPT ![b] = "returned"]
  /\ UNCHANGED <<reservation, wasted>>

ReleaseScript(b) ==
  /\ ReleaseAnswer(b) = "OK"
  /\ available' = available + Qty[b]
  /\ userReserved' = [userReserved EXCEPT ![Owner[b]] =
                        IF @ < Qty[b] THEN 0 ELSE @ - Qty[b]]
  /\ reservation' = [reservation EXCEPT ![b] = "none"]
  /\ ledger' = [ledger EXCEPT ![b] = "returned"]
  /\ UNCHANGED wasted

(***************************************************************************)
(* Key expiry.  A reservation key lives ttl seconds unless it is confirmed *)
(* (PERSIST); the zone counter is not told.  A user counter lives ttl + 60 *)
(* seconds from the user's latest reservation, or 660 from the latest      *)
(* release, so with the default ttl of 600 it outlives every unconfirmed   *)
(* hold it counts.                                                         *)
(***************************************************************************)
HeldBy(u) == {b \in Booking : Owner[b] = u /\ reservation[b] = "reserved"}

ReservationExpires(b) ==
  /\ reservation[b] = "reserved"
  /\ reservation' = [reservation EXCEPT ![b] = "none"]
  /\ UNCHANGED <<available, userReserved, ledger, wasted>>

\* Mutant: a later reservation does not renew the counter's expiry.
UserCounterExpiresEarly(u) ==
  /\ userReserved[u] > 0
  /\ userReserved' = [userReserved EXCEPT ![u] = 0]
  /\ UNCHANGED <<available, reservation, ledger, wasted>>

UserCounterExpires(u) ==
  /\ userReserved[u] > 0
  /\ HeldBy(u) = {}
  /\ userReserved' = [userReserved EXCEPT ![u] = 0]
  /\ UNCHANGED <<available, reservation, ledger, wasted>>

RedisExpiry ==
  \/ \E b \in Booking : ReservationExpires(b)
  \/ \E u \in User : UserCounterExpires(u)

RedisNext ==
  \/ \E b \in Booking : \/ ReserveScript(b)
                        \/ ReserveRepeated(b)
                        \/ ConfirmScript(b)
                        \/ ReleaseScript(b)
  \/ RedisExpiry

RedisSpec == RedisInit /\ [][RedisNext]_redisVars
-----------------------------------------------------------------------------
Taken == {b \in Booking : ledger[b] = "taken"}

(***************************************************************************)
(* Every seat missing from the zone counter is accounted for, by a booking *)
(* that took it and has not given it back or by the repeat of a reserve    *)
(* script: whatever the order in which bookings are reserved, confirmed,   *)
(* released and expire, no seat is given back twice or conjured up.        *)
(***************************************************************************)
SeatConservation == available + Seats(Taken) + wasted = Capacity

(***************************************************************************)
(* The per-user counter never undercounts the unpaid seats a user holds,   *)
(* whatever was released, has expired or was confirmed in between, and     *)
(* those seats stay within the limit.                                      *)
(***************************************************************************)
Bounded(u) ==
  /\ Seats(HeldBy(u)) <= userReserved[u]
  /\ MaxPerUser > 0 => Seats(HeldBy(u)) <= MaxPerUser

HoldLimit == \A u \in User : Bounded(u)

(***************************************************************************)
(* The scripts implement the sale of SeatSale: no booking is oversold,     *)
(* sold twice, or given back after it was sold.                            *)
(***************************************************************************)
SaleOf(b) ==
  CASE ledger[b] = "unused"   -> "open"
    [] ledger[b] = "returned" -> "closed"
    [] ledger[b] = "taken"    -> IF reservation[b] = "confirmed" THEN "sold" ELSE "held"

Sale == INSTANCE SeatSale WITH sale <- [b \in Booking |-> SaleOf(b)]

ImplementsSale == Sale!SaleSpec
=============================================================================
