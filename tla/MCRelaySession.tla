---------------------------- MODULE MCRelaySession -------------------------
(***************************************************************************)
(* RelaySession for TLC: two messages in each direction, two ping nonces;  *)
(* sessions with a stranger, with a node and deadlines, and with a node    *)
(* and time enough; a node that has the claim already, and one that lacks  *)
(* it.                                                                     *)
(***************************************************************************)
EXTENDS RelaySession
=============================================================================
