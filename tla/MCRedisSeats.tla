---------------------------- MODULE MCRedisSeats ----------------------------
(***************************************************************************)
(* Four bookings of two users on a zone of four seats: a limit of three    *)
(* seats per user, a stock that runs out, and room for every order of the  *)
(* scripts and of key expiry.                                              *)
(***************************************************************************)
EXTENDS RedisSeats, TLC

CONSTANTS b1, b2, b3, b4, ann, bob

MCOwner == (b1 :> ann) @@ (b2 :> ann) @@ (b3 :> bob) @@ (b4 :> bob)
MCQty == (b1 :> 1) @@ (b2 :> 2) @@ (b3 :> 2) @@ (b4 :> 1)
=============================================================================
