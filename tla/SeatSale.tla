------------------------------ MODULE SeatSale ------------------------------
(***************************************************************************)
(* The promise the Redis inventory makes to the rest of Booking Rush: the  *)
(* sale of the seats of one zone, seen one booking at a time.              *)
(*                                                                         *)
(* A booking is open until it takes its seats; held while they are taken   *)
(* and not paid; sold once confirmed; closed once they are given back.     *)
(* Seats are held only while they fit in the zone, and each booking's      *)
(* seats go back at most once.  A hold that times out promises nothing:    *)
(* it stays held (see the README, "Seats that never come back").           *)
(***************************************************************************)
EXTENDS Integers

CONSTANTS
  Booking,   \* booking identifiers: one UUID per reservation attempt
  Capacity,  \* seats of the zone
  Seats(_)   \* how many seats a set of bookings asks for

VARIABLE sale
-----------------------------------------------------------------------------
SaleTypeOK == sale \in [Booking -> {"open", "held", "sold", "closed"}]

Outstanding == {b \in Booking : sale[b] \in {"held", "sold"}}

SaleInit == sale = [b \in Booking |-> "open"]

Hold(b) ==
  /\ sale[b] = "open"
  /\ Seats(Outstanding \cup {b}) <= Capacity
  /\ sale' = [sale EXCEPT ![b] = "held"]

Sell(b) ==
  /\ sale[b] = "held"
  /\ sale' = [sale EXCEPT ![b] = "sold"]

GiveBack(b) ==
  /\ sale[b] = "held"
  /\ sale' = [sale EXCEPT ![b] = "closed"]

SaleNext == \E b \in Booking : Hold(b) \/ Sell(b) \/ GiveBack(b)

SaleSpec == SaleInit /\ [][SaleNext]_sale
-----------------------------------------------------------------------------
(***************************************************************************)
(* Bookings never hold more seats than the zone has.                       *)
(***************************************************************************)
NeverOversold == Seats(Outstanding) <= Capacity
=============================================================================
