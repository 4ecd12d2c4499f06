--------------------------- MODULE MCBookingSaga ---------------------------
(***************************************************************************)
(* One saga, of either kind, and two orchestrators that may hold the same  *)
(* row at once.                                                            *)
(***************************************************************************)
EXTENDS BookingSaga

CONSTANTS s1, w1, w2
=============================================================================
