----------------------------- MODULE SeatCount ------------------------------
(***************************************************************************)
(* How many seats a set of bookings asks for.  The seats are counted as a  *)
(* set of <<booking, i>> pairs, one per seat, and not added up as numbers, *)
(* so that the theorems can use the library's facts about Cardinality.     *)
(***************************************************************************)
EXTENDS Integers, FiniteSets

CONSTANT Qty   \* the seats each booking asks for

SeatsOf(B) == UNION {{b} \X (1 .. Qty[b]) : b \in B}

Seats(B) == Cardinality(SeatsOf(B))
=============================================================================
