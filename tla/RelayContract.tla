---------------------------- MODULE RelayContract --------------------------
(***************************************************************************)
(* What RelayTxWithOptions (powcoins/relay.go) promises the caller and the *)
(* peer: after a handshake of both sides the claim is offered, it is       *)
(* handed over once to a peer that asks for it after the offer, and the    *)
(* call says what became of it.  RelayTx implements this; PowcoinsCli is   *)
(* built on it.                                                            *)
(***************************************************************************)
EXTENDS Naturals

VARIABLES
    listens,    \* the caller wants to hear the peer after the hand-over
    greeted,    \* both sides have sent version and verack
    offered,    \* the claim was announced
    requested,  \* the peer asked for it after that
    given,      \* how often it was handed over
    answer      \* "none" while the call runs, then "ok" or "failed"

vars == <<listens, greeted, offered, requested, given, answer>>

Init ==
    /\ listens \in BOOLEAN
    /\ greeted = FALSE
    /\ offered = FALSE
    /\ requested = FALSE
    /\ given = 0
    /\ answer = "none"

Greet ==
    /\ answer = "none"
    /\ ~greeted
    /\ greeted' = TRUE
    /\ UNCHANGED <<listens, offered, requested, given, answer>>

Offer ==
    /\ answer = "none"
    /\ greeted
    /\ ~offered
    /\ offered' = TRUE
    /\ UNCHANGED <<listens, greeted, requested, given, answer>>

Request ==
    /\ answer = "none"
    /\ offered
    /\ ~requested
    /\ requested' = TRUE
    /\ UNCHANGED <<listens, greeted, offered, given, answer>>

\* A caller that does not listen has its answer with the hand-over.
Give ==
    /\ answer = "none"
    /\ requested
    /\ given = 0
    /\ given' = 1
    /\ answer' = IF listens THEN "none" ELSE "ok"
    /\ UNCHANGED <<listens, greeted, offered, requested>>

\* The listening ends: in time, or because the connection is lost.
EndListening ==
    /\ answer = "none"
    /\ given = 1
    /\ answer' \in {"ok", "failed"}
    /\ UNCHANGED <<listens, greeted, offered, requested, given>>

\* Until the claim is handed over every end of the call is an error.
GiveUp ==
    /\ answer = "none"
    /\ given = 0
    /\ answer' = "failed"
    /\ UNCHANGED <<listens, greeted, offered, requested, given>>

Next == Greet \/ Offer \/ Request \/ Give \/ EndListening \/ GiveUp

Spec == Init /\ [][Next]_vars
=============================================================================
