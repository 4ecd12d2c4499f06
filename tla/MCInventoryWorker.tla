------------------------- MODULE MCInventoryWorker --------------------------
(***************************************************************************)
(* Two zones with one booking each: b1 is created and confirmed, b2 is     *)
(* created and cancelled.                                                  *)
(***************************************************************************)
EXTENDS InventoryWorker, TLC

CONSTANTS b1, b2, z1, z2

MCZoneOf == (b1 :> z1) @@ (b2 :> z2)
MCQty == (b1 :> 1) @@ (b2 :> 2)
MCCapacity == (z1 :> 1) @@ (z2 :> 2)

Sent(kind, b) == [kind |-> kind, booking |-> b]

MCPublished ==
  {Sent("created", b1), Sent("confirmed", b1), Sent("created", b2), Sent("cancelled", b2)}
=============================================================================
