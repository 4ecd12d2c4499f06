-------------------------- MODULE MCBookingService --------------------------
(***************************************************************************)
(* Three bookings on a zone of three seats: b1 and b2 are drawn by two     *)
(* deliveries of one request (same idempotency key), b3 by another user.   *)
(* Two confirms race each other and a cancel on b1; b3 competes for the    *)
(* seats.                                                                  *)
(***************************************************************************)
EXTENDS BookingService, TLC

CONSTANTS b1, b2, b3, ann, bob, reserve1, reserve2, reserve3,
          confirm1, confirm1again, cancel1

MCOwner == (b1 :> ann) @@ (b2 :> ann) @@ (b3 :> bob)
MCQty == (b1 :> 1) @@ (b2 :> 1) @@ (b3 :> 2)
MCKey == (b1 :> "key") @@ (b2 :> "key") @@ (b3 :> NoKey)

MCOp ==
  [c \in {reserve1, reserve2, reserve3} |-> "reserve"]
  @@ [c \in {confirm1, confirm1again} |-> "confirm"]
  @@ [c \in {cancel1} |-> "cancel"]

MCTarget ==
  [c \in {reserve1, confirm1, confirm1again, cancel1} |-> b1]
  @@ [c \in {reserve2} |-> b2]
  @@ [c \in {reserve3} |-> b3]
=============================================================================
