--------------------------- MODULE MCClaimBuilder --------------------------
(***************************************************************************)
(* ClaimBuilder for TLC: two coins.  At the start height a coin can be     *)
(* unborn or 1, 45 or 64 blocks deep, so its difficulty can be at either   *)
(* end and inside the range, at whole bytes and between them.              *)
(***************************************************************************)
EXTENDS ClaimBuilder
=============================================================================
