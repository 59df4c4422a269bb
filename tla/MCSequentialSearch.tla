------------------------- MODULE MCSequentialSearch -------------------------
(***************************************************************************)
(* SequentialSearch on a nonce space of five values: every start, every    *)
(* set of good nonces, every limit up to two past the size of the space,   *)
(* and a cancellation at every point.                                      *)
(***************************************************************************)
EXTENDS SequentialSearch
=============================================================================
