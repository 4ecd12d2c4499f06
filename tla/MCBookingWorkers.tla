-------------------------- MODULE MCBookingWorkers --------------------------
(***************************************************************************)
(* Two bookings compete for a zone of two seats: b1 asks for both, b2 for  *)
(* one.  On b1 every kind of job meets the API's confirm and cancel; b2 is *)
(* reserved by the saga and confirmed by the saga.                         *)
(***************************************************************************)
EXTENDS BookingWorkers, TLC

CONSTANTS b1, b2, ann, bob, reserve1, confirm1, cancel1,
          sagaReserve2, sagaRelease1, sagaConfirm1, seatRelease1, expire1,
          sagaConfirm2

MCOwner == (b1 :> ann) @@ (b2 :> bob)
MCQty == (b1 :> 2) @@ (b2 :> 1)
MCKey == [b \in {b1, b2} |-> NoKey]

OpOf ==
  (reserve1 :> "reserve") @@ (confirm1 :> "confirm") @@ (cancel1 :> "cancel")

WorkOf ==
  (sagaReserve2 :> "sagaReserve") @@ (sagaRelease1 :> "sagaRelease")
  @@ (sagaConfirm1 :> "sagaConfirm") @@ (seatRelease1 :> "seatRelease")
  @@ (expire1 :> "expire") @@ (sagaConfirm2 :> "sagaConfirm")

\* Each run has some of the calls and jobs.
MCOp == [c \in Call |-> OpOf[c]]
MCTarget == [c \in Call |-> b1]
MCWork == [j \in Job |-> WorkOf[j]]
MCSubject == [j \in Job |-> IF j \in {sagaReserve2, sagaConfirm2} THEN b2 ELSE b1]
=============================================================================
