--------------------------- MODULE MCBatchSolver ---------------------------
(***************************************************************************)
(* BatchSolver for TLC.  Five nonces, blocks of two threads, batches of    *)
(* one to four: a limit can end inside a batch, inside a block, at the     *)
(* end of the nonce space and beyond it, and a batch can wrap.             *)
(***************************************************************************)
EXTENDS BatchSolver
=============================================================================
