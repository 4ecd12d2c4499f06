----------------------------- MODULE MCPayment -----------------------------
(***************************************************************************)
(* Two rows for one booking, so that a second one can be created; two      *)
(* calls of any kind, and one webhook handler.                             *)
(***************************************************************************)
EXTENDS Payment, TLC

CONSTANTS p1, p2, i1, i2, c1, c2, w1
=============================================================================
