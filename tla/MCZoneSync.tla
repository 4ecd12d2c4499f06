---------------------------- MODULE MCZoneSync -----------------------------
(***************************************************************************)
(* Two bookings compete for the only seat of a zone.  The user limit is    *)
(* off.  Two writers do any two of the operations.                         *)
(***************************************************************************)
EXTENDS ZoneSync, TLC

CONSTANTS b1, b2, ann, flight, w1, w2

MCOwner == [b \in {b1, b2} |-> ann]
MCQty == [b \in {b1, b2} |-> 1]
=============================================================================
