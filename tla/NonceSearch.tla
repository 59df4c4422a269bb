---------------------------- MODULE NonceSearch ----------------------------
(***************************************************************************)
(* What a search for a nonce promises its caller, whatever does the        *)
(* hashing: the contract of Solver.Solve (shasolve/hal.go:38) and of       *)
(* GrindHeader (powcoins/grind.go:22).  The sequential searches and the    *)
(* GPU batch loop are shown to implement it, each with its own MayMiss.    *)
(***************************************************************************)
EXTENDS NonceSpace

CONSTANT MayMiss   \* the nonces this implementation may fail to report

VARIABLES
    job,       \* the job being solved
    ctxDone,   \* the caller's context is canceled or past its deadline
    outcome,   \* how the call ended
    nonce      \* the nonce returned when outcome is "found"

vars == <<job, ctxDone, outcome, nonce>>

Init ==
    /\ job \in Job
    /\ ctxDone \in BOOLEAN
    /\ outcome = "running"
    /\ nonce = NotFound

Interrupt ==
    /\ ctxDone' = TRUE
    /\ UNCHANGED <<job, outcome, nonce>>

\* Success: a nonce that meets the difficulty, out of those the job reaches.
Report(n) ==
    /\ outcome = "running"
    /\ job.supported
    /\ n \in job.good \cap Reachable(job)
    /\ outcome' = "found"
    /\ nonce' = n
    /\ UNCHANGED <<job, ctxDone>>

\* "no solution": every requested nonce was tried, and at most those the
\* implementation cannot report were passed over.
GiveUp ==
    /\ outcome = "running"
    /\ job.supported
    /\ job.good \cap Requested(job) \subseteq MayMiss
    /\ outcome' = "none"
    /\ UNCHANGED <<job, ctxDone, nonce>>

\* ctx.Err(): only when the caller's context really is done.
Canceled ==
    /\ outcome = "running"
    /\ ctxDone
    /\ outcome' = "canceled"
    /\ UNCHANGED <<job, ctxDone, nonce>>

\* An unsupported job, or an error of the device or its driver.
Fail ==
    /\ outcome = "running"
    /\ outcome' = "failed"
    /\ UNCHANGED <<job, ctxDone, nonce>>

Next ==
    \/ Interrupt
    \/ \E n \in Nonces : Report(n)
    \/ GiveUp
    \/ Canceled
    \/ Fail

Spec == Init /\ [][Next]_vars
=============================================================================
