---------------------------- MODULE MCFaucetScan ---------------------------
(***************************************************************************)
(* FaucetScan for TLC: two scripts and up to four transactions that spend  *)
(* one coin or none and pay any scripts, pages of two, and one or three    *)
(* pages per script: histories that end on a short page, on a full one,    *)
(* and beyond the last page read.                                          *)
(***************************************************************************)
EXTENDS FaucetScan
=============================================================================
