---------------------------- MODULE BatchSolver ----------------------------
(***************************************************************************)
(* Solve of the three GPU backends: the host loop that launches one batch  *)
(* of nonces after another (cuda_linux.go and cuda_impl.c, metal_darwin.go *)
(* and metal_impl_darwin.m, webgpu.go) and the kernel threads of a batch,  *)
(* which race for the one result cell in device memory.                    *)
(*                                                                         *)
(* The backends share the loop and differ in where they look at the        *)
(* context, in how a kernel thread writes the cell, and in what becomes of *)
(* a device error; "backend" is chosen once, at the start.  Threads are    *)
(* numbered by their global id.  A thread's read of the cell before it     *)
(* hashes is a racy one, so it may or may not see another thread's write.  *)
(***************************************************************************)
EXTENDS NonceSpace

CONSTANTS
    Backends,           \* the backends considered
    DefaultBatchSize,   \* hal.go: the batch when none is asked for, and a cap
    MaxBatch,           \* the largest batch size a caller asks for
    Workgroup,          \* threads per block or workgroup, 256 in the code
    Faults              \* what may go wrong on the device

ASSUME BackendsAssumption == Backends \subseteq {"cuda", "metal", "webgpu"}
ASSUME BatchAssumption ==
    /\ DefaultBatchSize \in Nonces \ {0}
    /\ MaxBatch \in Nonces
    /\ Workgroup \in Nat \ {0}
ASSUME FaultsAssumption == Faults \subseteq {"spuriousCas", "deviceError"}

VARIABLES
    job,        \* the job, read-only
    backend,    \* which Solve this is
    batch,      \* job.BatchSize once Solve has settled it
    ctxDone,    \* ctx.Err() is not nil
    outcome,    \* "running" until Solve returns
    found,      \* the nonce read back, or NotFound
    phase,      \* where the host is
    rc,         \* the native solve's return code
    cursor,     \* current: the first nonce of the batch
    remaining,  \* nonces left of the limit
    count,      \* nonces in the batch
    tries,      \* nonces counted as hashed
    cell,       \* the result word in device memory
    pending,    \* threads of the batch that have not run
    armed,      \* threads that hold a good nonce and have yet to write it
    mishaps     \* history: the faults that have happened

hostVars == <<cursor, remaining, tries>>
gridVars == <<count, cell, pending, armed>>
callVars == <<job, backend, batch>>
vars == <<callVars, ctxDone, outcome, found, phase, rc, hostVars, gridVars, mishaps>>

\* CUDA and Metal run the whole loop in one C call, between two context checks.
Native == backend \in {"cuda", "metal"}

\* Mutation: the solver's own batch size is taken without the cap.
SettledBatchUncapped(b, override, asked) ==
    IF override # 0 THEN override ELSE IF asked = 0 THEN DefaultBatchSize ELSE asked

\* NormalizeJob, the solver's own BatchSize, and the cap the Metal one lacks.
SettledBatch(b, override, asked) ==
    LET size == IF override # 0 THEN override
                ELSE IF asked = 0 THEN DefaultBatchSize ELSE asked
    IN  IF b # "metal" /\ size > DefaultBatchSize THEN DefaultBatchSize ELSE size

\* The global ids of a launch of n nonces: whole blocks, but for Metal.
ThreadsLaunched(b, n) ==
    IF b = "metal" THEN 0..(n - 1)
    ELSE 0..(((n + Workgroup - 1) \div Workgroup) * Workgroup - 1)

Init ==
    /\ job \in Job
    /\ backend \in Backends
    /\ \E override, asked \in 0..MaxBatch : batch = SettledBatch(backend, override, asked)
    /\ ctxDone \in BOOLEAN
    /\ outcome = "running"
    /\ found = NotFound
    /\ phase = "enter"
    /\ rc = 0
    /\ cursor = job.start
    /\ remaining = SearchLimit(job)
    /\ count = 0
    /\ tries = 0
    /\ cell \in Nonces          \* the buffer is allocated, not cleared
    /\ pending = {}
    /\ armed = {}
    /\ mishaps = {}

Return(result) == outcome' = result /\ phase' = "returned"

Cancel ==
    /\ ~ctxDone
    /\ outcome = "running"
    /\ ctxDone' = TRUE
    /\ UNCHANGED <<callVars, outcome, found, phase, rc, hostVars, gridVars, mishaps>>

(***************************************************************************)
(* Before the loop                                                         *)
(***************************************************************************)

\* The native solvers look at the context first; WebGPU does not.
EnterCanceled ==
    /\ phase = "enter"
    /\ Native
    /\ ctxDone
    /\ Return("canceled")
    /\ UNCHANGED <<callVars, ctxDone, found, rc, hostVars, gridVars, mishaps>>

\* checkDifficulty fails.
Reject ==
    /\ phase = "enter"
    /\ ~job.supported
    /\ Native => ~ctxDone
    /\ Return("failed")
    /\ UNCHANGED <<callVars, ctxDone, found, rc, hostVars, gridVars, mishaps>>

\* No device, library, kernel or buffer is to be had: prepare and WebGPU's
\* set-up return the error; the native solve hands back a return code of 1.
SetupFails ==
    /\ phase = "enter"
    /\ job.supported
    /\ Native => ~ctxDone
    /\ "deviceError" \in Faults
    /\ mishaps' = mishaps \cup {"deviceError"}
    /\ \/ Return("failed") /\ UNCHANGED rc
       \/ Native /\ phase' = "epilogue" /\ rc' = 1 /\ UNCHANGED outcome
    /\ UNCHANGED <<callVars, ctxDone, found, hostVars, gridVars>>

Enter ==
    /\ phase = "enter"
    /\ job.supported
    /\ Native => ~ctxDone
    /\ phase' = "loop"
    /\ UNCHANGED <<callVars, ctxDone, outcome, found, rc, hostVars, gridVars, mishaps>>

(***************************************************************************)
(* The batch loop                                                          *)
(***************************************************************************)

\* What ends the loop without an answer: WebGPU returns, C goes back to Go.
LeaveLoop ==
    IF Native THEN phase' = "epilogue" /\ UNCHANGED outcome ELSE Return("none")

LimitReached ==
    /\ phase = "loop"
    /\ remaining = 0
    /\ LeaveLoop
    /\ UNCHANGED <<callVars, ctxDone, found, rc, hostVars, gridVars, mishaps>>

\* WebGPU checks the context before each batch.
StopOnCancel ==
    /\ phase = "loop"
    /\ ~Native
    /\ remaining > 0
    /\ ctxDone
    /\ Return("canceled")
    /\ UNCHANGED <<callVars, ctxDone, found, rc, hostVars, gridVars, mishaps>>

\* Mutation of Launch: the result cell keeps what it held.
LaunchUncleared ==
    /\ phase = "loop"
    /\ remaining > 0
    /\ Native \/ ~ctxDone
    /\ count' = IF remaining > batch THEN batch ELSE remaining
    /\ pending' = ThreadsLaunched(backend, count')
    /\ armed' = {}
    /\ phase' = "kernel"
    /\ UNCHANGED <<callVars, ctxDone, outcome, found, rc, hostVars, cell, mishaps>>

\* Mutation of Launch: the last batch is not cut to what remains.
LaunchWholeBatch ==
    /\ phase = "loop"
    /\ remaining > 0
    /\ Native \/ ~ctxDone
    /\ count' = batch
    /\ cell' = NotFound
    /\ pending' = ThreadsLaunched(backend, count')
    /\ armed' = {}
    /\ phase' = "kernel"
    /\ UNCHANGED <<callVars, ctxDone, outcome, found, rc, hostVars, mishaps>>

\* One batch: the cell is reset, then the grid is started.
Launch ==
    /\ phase = "loop"
    /\ remaining > 0
    /\ Native \/ ~ctxDone
    /\ count' = IF remaining > batch THEN batch ELSE remaining
    /\ cell' = NotFound
    /\ pending' = ThreadsLaunched(backend, count')
    /\ armed' = {}
    /\ phase' = "kernel"
    /\ UNCHANGED <<callVars, ctxDone, outcome, found, rc, hostVars, mishaps>>

(***************************************************************************)
(* The kernel, one thread at a time                                        *)
(***************************************************************************)

NonceOf(t) == Advance(cursor, t)

\* Mutation: no bound check, the threads of a last partial block hash too.
ThreadRunUnbounded(t) ==
    /\ phase = "kernel"
    /\ t \in pending
    /\ pending' = pending \ {t}
    /\ armed' = IF NonceOf(t) \in job.good THEN armed \cup {t} ELSE armed
    /\ UNCHANGED <<callVars, ctxDone, outcome, found, phase, rc, hostVars, count, cell, mishaps>>

\* The thread returns at once past the count; otherwise it hashes its nonce.
ThreadRun(t) ==
    /\ phase = "kernel"
    /\ t \in pending
    /\ pending' = pending \ {t}
    /\ armed' = IF t < count /\ NonceOf(t) \in job.good THEN armed \cup {t} ELSE armed
    /\ UNCHANGED <<callVars, ctxDone, outcome, found, phase, rc, hostVars, count, cell, mishaps>>

\* CUDA and Metal threads return when they see that a nonce has been found.
ThreadEarlyExit(t) ==
    /\ phase = "kernel"
    /\ Native
    /\ t \in pending
    /\ cell # NotFound
    /\ pending' = pending \ {t}
    /\ UNCHANGED <<callVars, ctxDone, outcome, found, phase, rc, hostVars, count, cell, armed, mishaps>>

\* Compare-and-swap of NotFound against the thread's nonce.
ThreadCas(t) ==
    /\ phase = "kernel"
    /\ t \in armed
    /\ armed' = armed \ {t}
    /\ cell' = IF cell = NotFound THEN NonceOf(t) ELSE cell
    /\ UNCHANGED <<callVars, ctxDone, outcome, found, phase, rc, hostVars, count, pending, mishaps>>

\* The weak exchange of Metal and WebGPU may fail although the cell holds
\* NotFound, and neither kernel tries again.
ThreadCasSpurious(t) ==
    /\ phase = "kernel"
    /\ backend # "cuda"
    /\ "spuriousCas" \in Faults
    /\ t \in armed
    /\ cell = NotFound
    /\ armed' = armed \ {t}
    /\ mishaps' = mishaps \cup {"spuriousCas"}
    /\ UNCHANGED <<callVars, ctxDone, outcome, found, phase, rc, hostVars, count, cell, pending>>

Thread(t) == ThreadRun(t) \/ ThreadEarlyExit(t) \/ ThreadCas(t) \/ ThreadCasSpurious(t)

(***************************************************************************)
(* After the kernel                                                        *)
(***************************************************************************)

KernelDone == phase = "kernel" /\ pending = {} /\ armed = {}

\* A nonce was found: WebGPU returns it, C hands it back to Go.
ReadBackHit ==
    /\ KernelDone
    /\ cell # NotFound
    /\ found' = cell
    /\ tries' = tries + count
    /\ IF Native THEN phase' = "epilogue" /\ UNCHANGED outcome ELSE Return("found")
    /\ UNCHANGED <<callVars, ctxDone, rc, cursor, remaining, gridVars, mishaps>>

\* Mutation: the same batch is launched again, without advancing.
ReadBackMissAgain ==
    /\ KernelDone
    /\ cell = NotFound
    /\ phase' = "loop"
    /\ UNCHANGED <<callVars, ctxDone, outcome, found, rc, hostVars, gridVars, mishaps>>

\* None was: on to the next batch, unless this one reached the last nonce.
ReadBackMiss ==
    /\ KernelDone
    /\ cell = NotFound
    /\ tries' = tries + count
    /\ IF NotFound - cursor < count
       THEN LeaveLoop /\ UNCHANGED <<cursor, remaining>>
       ELSE /\ cursor' = cursor + count
            /\ remaining' = remaining - count
            /\ phase' = "loop"
            /\ UNCHANGED outcome
    /\ UNCHANGED <<callVars, ctxDone, found, rc, gridVars, mishaps>>

\* WebGPU's Map gives up waiting for the kernel when the context is done.
MapCanceled ==
    /\ phase = "kernel"
    /\ ~Native
    /\ ctxDone
    /\ Return("canceled")
    /\ UNCHANGED <<callVars, ctxDone, found, rc, hostVars, gridVars, mishaps>>

\* A driver call of the batch fails, or the kernel does: WebGPU returns the
\* error, Metal hands it back as a return code of 1.  CUDA sets the message,
\* leaves the loop and returns 0.
DeviceFails ==
    /\ "deviceError" \in Faults
    /\ \/ phase = "loop" /\ remaining > 0 /\ backend # "metal" /\ (Native \/ ~ctxDone)
       \/ phase = "kernel"
    /\ mishaps' = mishaps \cup {"deviceError"}
    /\ IF Native
       THEN /\ phase' = "epilogue"
            /\ rc' = IF backend = "metal" THEN 1 ELSE 0
            /\ UNCHANGED outcome
       ELSE Return("failed") /\ UNCHANGED rc
    /\ UNCHANGED <<callVars, ctxDone, found, hostVars, gridVars>>

\* The native solvers, back in Go: the context is looked at before the answer.
NativeReturn ==
    /\ phase = "epilogue"
    /\ Return(IF ctxDone THEN "canceled"
              ELSE IF rc # 0 THEN "failed"
              ELSE IF found = NotFound THEN "none" ELSE "found")
    /\ UNCHANGED <<callVars, ctxDone, found, rc, hostVars, gridVars, mishaps>>

Host ==
    \/ EnterCanceled
    \/ Reject
    \/ Enter
    \/ LimitReached
    \/ StopOnCancel
    \/ Launch
    \/ ReadBackHit
    \/ ReadBackMiss
    \/ NativeReturn

Kernel == \E t \in pending \cup armed : Thread(t)

Next == Cancel \/ Host \/ Kernel \/ MapCanceled \/ SetupFails \/ DeviceFails

\* The host goroutine runs on and the device runs the threads it was given;
\* no fault and no cancellation is made to happen.
Spec == Init /\ [][Next]_vars /\ WF_vars(Host) /\ WF_vars(Kernel)

(***************************************************************************)
(* Properties                                                              *)
(***************************************************************************)

\* The values the variables take (the locals of the three Solve functions and
\* of shasolve_cuda_solve and shasolve_metal_solve).
TypeOK ==
    /\ job \in Job
    /\ backend \in Backends
    /\ batch \in Nonces \ {0}
    /\ ctxDone \in BOOLEAN
    /\ outcome \in Outcomes
    /\ found \in Nonces
    /\ phase \in {"enter", "loop", "kernel", "epilogue", "returned"}
    /\ rc \in {0, 1}
    /\ cursor \in Nonces
    /\ remaining \in Nat
    /\ count \in Nonces
    /\ tries \in Nat
    /\ cell \in Nonces
    /\ pending \in SUBSET Nat
    /\ armed \in SUBSET Nat
    /\ mishaps \in SUBSET Faults

AnswerInLastBatch ==
    /\ found \in job.good
    /\ job.supported
    /\ tries <= SearchLimit(job)
    /\ \E i \in 0..(tries - 1) : i >= tries - count /\ found = Advance(job.start, i)

\* Whatever the threads race for, whatever was in device memory and whatever
\* goes wrong: a nonce that is returned meets the difficulty, is one the job
\* reaches, lies in the last batch that was counted, and the count of hashes
\* is within the limit (cuda_impl.c:435, webgpu.go:216).
FoundIsFromLastBatch ==
    outcome = "found" => AnswerInLastBatch

\* When nothing has gone wrong on the device, "no solution" is an answer about
\* every requested nonce but 0xffffffff, however the threads were scheduled
\* and however the batches cut the range (cuda_impl.c:442, webgpu.go:220).
NoneIsExhaustive ==
    outcome = "none" /\ mishaps = {} => Requested(job) \cap job.good \subseteq {NotFound}

\* A CUDA or WebGPU launch stays within 65535 blocks of 256 threads, whatever
\* batch size the job, the flag or the solver asks for (webgpu.go:29).
DispatchFits ==
    phase = "kernel" /\ backend # "metal" =>
        pending \subseteq 0..(((DefaultBatchSize + Workgroup - 1) \div Workgroup) * Workgroup - 1)

\* What the caller can rely on.  The "no solution" of a search in which the
\* device or a driver call failed says nothing about the nonces, so it counts
\* as a failed search; the nonce matters only when one was found.
ReliableOutcome == IF outcome = "none" /\ mishaps # {} THEN "failed" ELSE outcome

Contract == INSTANCE NonceSearch WITH
    outcome <- ReliableOutcome,
    nonce <- IF outcome = "found" THEN found ELSE NotFound,
    MayMiss <- {NotFound}

\* The batch search keeps the contract of Solver.Solve, under every schedule
\* of the threads and with device faults too: what it returns was reached by
\* the job and meets the difficulty, "canceled" means the context was done,
\* and "no solution" without a fault has ruled out every nonce but the
\* sentinel (hal.go:38, cuda_linux.go:78).
KeepsContract == Contract!Spec

\* Solve returns for every job and every schedule of the threads, although a
\* batch may run past 0xffffffff and the kernel never looks at the context.
Terminates == <>(outcome # "running")

(***************************************************************************)
(* What the repository says and the code does not do                       *)
(***************************************************************************)

\* "cuda solve failed: %s" (cuda_linux.go:76): a driver error of the solve is
\* returned as an error of the solve, not as the absence of a solution.
DriverErrorsReported == outcome = "none" => "deviceError" \notin mishaps

(***************************************************************************)
(* The inductive strengthening                                             *)
(***************************************************************************)

\* Where the loop is: the batches so far are the first nonces of the job.
Position ==
    phase \in {"enter", "loop", "kernel"} =>
        /\ outcome = "running"
        /\ found = NotFound
        /\ rc = 0
        /\ cursor = job.start + tries
        /\ remaining = SearchLimit(job) - tries
        /\ job.supported \/ phase = "enter"

\* The nonces of the batches so far.
Behind == {n \in Nonces : job.start <= n /\ n < job.start + tries}

NothingMissed ==
    phase \in {"enter", "loop", "kernel"} /\ mishaps = {} =>
        Behind \cap job.good \subseteq {NotFound}

\* The batch in flight: the threads that hold a nonce hold a good one, the cell
\* holds NotFound or a good nonce of this batch, and as long as it holds
\* NotFound every good nonce of the batch is still with a thread.
InFlight ==
    phase = "kernel" =>
        /\ count \in 1..remaining
        /\ \A t \in armed : t < count /\ NonceOf(t) \in job.good
        /\ cell # NotFound =>
               cell \in job.good /\ \E t \in 0..(count - 1) : cell = NonceOf(t)
        /\ cell = NotFound /\ mishaps = {} =>
               \A t \in 0..(count - 1) :
                   NonceOf(t) \in job.good \ {NotFound} => t \in pending \cup armed

\* Back in Go after the native loop.
AtEpilogue ==
    phase = "epilogue" =>
        /\ Native
        /\ job.supported
        /\ outcome = "running"
        /\ found # NotFound => AnswerInLastBatch
        /\ found = NotFound /\ rc = 0 /\ mishaps = {} =>
               Requested(job) \cap job.good \subseteq {NotFound}

\* A call that has returned runs no more.
Returned == phase = "returned" <=> outcome # "running"

IInv ==
    /\ TypeOK
    /\ Position
    /\ NothingMissed
    /\ InFlight
    /\ AtEpilogue
    /\ Returned
    /\ FoundIsFromLastBatch
    /\ NoneIsExhaustive

\* For DispatchFits: the batch was capped, and the grid has no threads beyond
\* the blocks of its count.
GridIsBounded ==
    /\ backend # "metal" => batch <= DefaultBatchSize
    /\ phase = "kernel" => count <= batch /\ pending \subseteq ThreadsLaunched(backend, count)
=============================================================================
