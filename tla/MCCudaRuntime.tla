---------------------------- MODULE MCCudaRuntime --------------------------
(***************************************************************************)
(* CudaRuntime for TLC: two OS threads, and every library that lacks one   *)
(* symbol, or none.                                                        *)
(***************************************************************************)
EXTENDS CudaRuntime
=============================================================================
