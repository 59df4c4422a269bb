-------------------------- MODULE SequentialSearch --------------------------
(***************************************************************************)
(* The two searches that try one nonce after another on the CPU:           *)
(* CPUSolver.Solve (shasolve/cpu.go), the reference for the GPU solvers,   *)
(* and GrindHeader (powcoins/grind.go), which the claim path uses when no  *)
(* solver was chosen.                                                      *)
(*                                                                         *)
(* They differ in their jobs and in where they look at the context:        *)
(* CPUSolver before each hash, GrindHeader after each one that missed.     *)
(* So GrindHeader always hashes nonce 0, and both alternate between the    *)
(* phases "look" and "hash" from then on.  The context may be canceled     *)
(* between any two steps.                                                  *)
(***************************************************************************)
EXTENDS NonceSpace

VARIABLES
    solver,    \* which search this is, read-only
    job,       \* the job, read-only
    ctxDone,   \* ctx.Err() is not nil
    outcome,   \* "running" until the search returns
    nonce,     \* the nonce returned
    cursor,    \* the loop's nonce
    tries,     \* nonces hashed so far
    phase      \* "look" at the context, or "hash"

callVars == <<solver, job>>
vars == <<callVars, ctxDone, outcome, nonce, cursor, tries, phase>>

\* GrindHeader starts at nonce 0 and has no limit.
Init ==
    /\ solver \in {"CPUSolver", "GrindHeader"}
    /\ job \in Job
    /\ solver = "GrindHeader" => job.start = 0 /\ job.limit = 0
    /\ ctxDone \in BOOLEAN
    /\ outcome = "running"
    /\ nonce = NotFound
    /\ cursor = job.start
    /\ tries = 0
    /\ phase = IF solver = "GrindHeader" THEN "hash" ELSE "look"

Cancel ==
    /\ ~ctxDone
    /\ outcome = "running"
    /\ ctxDone' = TRUE
    /\ UNCHANGED <<callVars, outcome, nonce, cursor, tries, phase>>

\* The difficulty is above 80, or the header is not 80 bytes.
Reject ==
    /\ outcome = "running"
    /\ ~job.supported
    /\ outcome' = "failed"
    /\ UNCHANGED <<callVars, ctxDone, nonce, cursor, tries, phase>>

\* Mutation: the loop condition read as tries <= limit.
LoopingOnceMore ==
    outcome = "running" /\ job.supported /\ tries <= SearchLimit(job)

\* The loop goes round once more: tries < limit in CPUSolver, and always in
\* GrindHeader, where only the last nonce ends it.
Looping ==
    /\ outcome = "running"
    /\ job.supported
    /\ solver = "CPUSolver" => tries < SearchLimit(job)

StopOnCancel ==
    /\ phase = "look"
    /\ Looping
    /\ ctxDone
    /\ outcome' = "canceled"
    /\ UNCHANGED <<callVars, ctxDone, nonce, cursor, tries, phase>>

GoOn ==
    /\ phase = "look"
    /\ Looping
    /\ ~ctxDone
    /\ phase' = "hash"
    /\ UNCHANGED <<callVars, ctxDone, outcome, nonce, cursor, tries>>

\* The limit is used up.
Exhaust ==
    /\ solver = "CPUSolver"
    /\ phase = "look"
    /\ outcome = "running"
    /\ job.supported
    /\ tries >= SearchLimit(job)
    /\ outcome' = "none"
    /\ UNCHANGED <<callVars, ctxDone, nonce, cursor, tries, phase>>

\* Mutation: the nonce after the one that was verified is returned.
HitNext ==
    /\ phase = "hash"
    /\ Looping
    /\ cursor \in job.good
    /\ tries' = tries + 1
    /\ outcome' = "found"
    /\ nonce' = Advance(cursor, 1)
    /\ UNCHANGED <<callVars, ctxDone, cursor, phase>>

\* The hash of this nonce meets the difficulty.
Hit ==
    /\ phase = "hash"
    /\ Looping
    /\ cursor \in job.good
    /\ tries' = tries + 1
    /\ outcome' = "found"
    /\ nonce' = cursor
    /\ UNCHANGED <<callVars, ctxDone, cursor, phase>>

\* Mutation: the nonce in a wider integer, and nothing that ends the loop.
MissWide ==
    /\ phase = "hash"
    /\ Looping
    /\ cursor \notin job.good
    /\ tries' = tries + 1
    /\ cursor' = cursor + 1
    /\ phase' = "look"
    /\ UNCHANGED <<callVars, ctxDone, outcome, nonce>>

\* Mutation: the loop ends one nonce before the last.
MissEnds ==
    /\ phase = "hash"
    /\ Looping
    /\ cursor \notin job.good
    /\ tries' = tries + 1
    /\ \/ cursor + 1 = NotFound /\ outcome' = "none" /\ UNCHANGED <<cursor, phase>>
       \/ cursor + 1 # NotFound /\ cursor' = cursor + 1 /\ phase' = "look" /\ UNCHANGED outcome
    /\ UNCHANGED <<callVars, ctxDone, nonce>>

\* Mutation: nothing ends the loop at the last nonce, and nonce++ starts again at
\* 0.  GrindHeader's count stands still after a round, for TLC.
MissWraps ==
    /\ phase = "hash"
    /\ Looping
    /\ cursor \notin job.good
    /\ tries' = IF solver = "GrindHeader" /\ tries > MaxNonce THEN tries ELSE tries + 1
    /\ cursor' = Advance(cursor, 1)
    /\ phase' = "look"
    /\ UNCHANGED <<callVars, ctxDone, outcome, nonce>>

\* It does not: the next nonce, unless this was the last of the space.
Miss ==
    /\ phase = "hash"
    /\ Looping
    /\ cursor \notin job.good
    /\ tries' = tries + 1
    /\ \/ cursor = NotFound /\ outcome' = "none" /\ UNCHANGED <<cursor, phase>>
       \/ cursor # NotFound /\ cursor' = cursor + 1 /\ phase' = "look" /\ UNCHANGED outcome
    /\ UNCHANGED <<callVars, ctxDone, nonce>>

Search == Reject \/ StopOnCancel \/ GoOn \/ Exhaust \/ Hit \/ Miss

Next == Cancel \/ Search

\* The goroutine of the search keeps running; nothing makes the context be
\* canceled.
Spec == Init /\ [][Next]_vars /\ WF_vars(Search)

(***************************************************************************)
(* Properties                                                              *)
(***************************************************************************)

\* The values the variables take (hal.go:18, the locals of cpu.go:13 and of
\* grind.go:22).
TypeOK ==
    /\ solver \in {"CPUSolver", "GrindHeader"}
    /\ job \in Job
    /\ ctxDone \in BOOLEAN
    /\ outcome \in Outcomes
    /\ nonce \in Nonces
    /\ cursor \in Nonces
    /\ tries \in Nat
    /\ phase \in {"look", "hash"}

\* The hashes counted stay within the limit and within the nonces that are
\* left above the start, also when the limit reaches beyond 0xffffffff
\* (cpu.go:25 and cpu.go:35).
TriesWithinJob ==
    /\ tries <= SearchLimit(job)
    /\ job.start + tries <= MaxNonce + 1

\* The nonce returned is the smallest requested one that meets the difficulty:
\* the search is deterministic, whenever a cancellation arrives (cpu.go:25,
\* grind.go:34).
FindsLeast ==
    outcome = "found" =>
        /\ nonce \in Requested(job) \cap job.good
        /\ \A n \in Requested(job) \cap job.good : nonce <= n

\* "no solution" is an answer about every requested nonce, the sentinel value
\* 0xffffffff included: a sequential search misses nothing (cpu.go:35,
\* cpu.go:39 and grind.go:49).
NoneIsExhaustive ==
    outcome = "none" => Requested(job) \cap job.good = {}

Contract == INSTANCE NonceSearch WITH MayMiss <- {}

\* Both searches keep the contract of Solver.Solve with nothing they may miss,
\* so the claim path may use either: what is returned was asked for and meets
\* the difficulty, "no solution" means there is none, and "canceled" means the
\* context was done (hal.go:38, claim.go:282).
KeepsContract == Contract!Spec

\* A search returns for every job even if its context never ends: also at the
\* top of the nonce space, where nonce++ would start again at 0 (cpu.go:35,
\* grind.go:49).
Terminates == <>(outcome # "running")

(***************************************************************************)
(* The inductive strengthening: the loop's position, and the nonces behind *)
(* it are tried and not good.                                              *)
(***************************************************************************)

\* The jobs GrindHeader takes.
GrindsFromZero == solver = "GrindHeader" => job.start = 0 /\ job.limit = 0

Position ==
    outcome \in {"running", "canceled"} =>
        /\ cursor = job.start + tries
        /\ tries <= SearchLimit(job)

Tried == {n \in Nonces : job.start <= n /\ n < job.start + tries}

NothingMissed ==
    outcome \in {"running", "canceled"} => Tried \cap job.good = {}

IInv ==
    /\ TypeOK
    /\ GrindsFromZero
    /\ TriesWithinJob
    /\ Position
    /\ NothingMissed
    /\ FindsLeast
    /\ NoneIsExhaustive
=============================================================================
