------------------------- MODULE BatchSolverProofs -------------------------
(***************************************************************************)
(* Proofs about BatchSolver, for every nonce space, job, batch size, block *)
(* size, schedule of the threads and set of faults: the loop invariant,    *)
(* what follows from it, and that the batch search implements NonceSearch. *)
(***************************************************************************)
EXTENDS BatchSolver, NonceSpaceTheorems, FiniteSetTheorems, TLAPS

\* Rounding up to whole blocks launches a thread for every nonce of the batch
\* (webgpu.go:191, cuda_impl.c:417).
LEMMA RoundingUpCovers ==
    ASSUME NEW n \in Nat \ {0}
    PROVE  ((n + Workgroup - 1) \div Workgroup) * Workgroup >= n
<1> DEFINE m == n + Workgroup - 1
<1>1. m \in Nat /\ Workgroup \in Nat \ {0}
  BY BatchAssumption
<1>2. (m \div Workgroup) * Workgroup + (m % Workgroup) = m /\ m % Workgroup < Workgroup
      /\ m % Workgroup \in Nat /\ m \div Workgroup \in Nat
  BY <1>1
<1>3. (m \div Workgroup) * Workgroup \in Nat
  BY <1>1, <1>2
<1> HIDE DEF m
<1>4. (m \div Workgroup) * Workgroup >= n
  BY <1>1, <1>2, <1>3 DEF m
<1> QED BY <1>4 DEF m

\* Every nonce of the batch has a thread, on the backends that launch whole
\* blocks and on Metal.
LEMMA EveryNonceHasAThread ==
    ASSUME NEW b, NEW n \in Nat \ {0}, NEW t \in 0..(n - 1)
    PROVE  t \in ThreadsLaunched(b, n)
<1>1. ((n + Workgroup - 1) \div Workgroup) * Workgroup \in Int
  BY BatchAssumption
<1> QED BY <1>1, RoundingUpCovers DEF ThreadsLaunched

\* Global ids count from 0.
LEMMA ThreadIdsAreNatural ==
    ASSUME NEW b, NEW n \in Nat \ {0}
    PROVE  ThreadsLaunched(b, n) \in SUBSET Nat
BY BatchAssumption DEF ThreadsLaunched

\* The batch size Solve settles on is a usable one (metal_darwin.go:52).
LEMMA SettledBatchUsable ==
    ASSUME NEW b, NEW override \in 0..MaxBatch, NEW asked \in 0..MaxBatch
    PROVE  SettledBatch(b, override, asked) \in Nonces \ {0}
BY BatchAssumption, MaxNonceAssumption DEF SettledBatch, Nonces

(***************************************************************************)
(* The loop invariant                                                      *)
(***************************************************************************)

\* The invariant holds before Solve has looked at the job.
LEMMA InvariantInitially == Init => IInv
<1> SUFFICES ASSUME Init PROVE IInv
  OBVIOUS
<1>1. batch \in Nonces \ {0}
  BY SettledBatchUsable DEF Init
<1>2. SearchLimit(job) \in Nat \ {0} /\ job.start \in Nonces
  BY SearchLimitPositive DEF Init, Job
<1>3. TypeOK
  BY <1>1, <1>2, MaxNonceAssumption DEF Init, TypeOK, Outcomes, Nonces, NotFound
<1>4. Position
  BY <1>2 DEF Init, Position, Nonces
<1>5. NothingMissed
  BY <1>2 DEF Init, NothingMissed, Behind, Nonces
<1> QED
  BY <1>3, <1>4, <1>5
  DEF Init, IInv, InFlight, AtEpilogue, Returned, FoundIsFromLastBatch, NoneIsExhaustive

\* The types of the job's parts, used at every step below.
LEMMA JobParts ==
    ASSUME TypeOK
    PROVE  /\ SearchLimit(job) \in Nat \ {0}
           /\ job.start \in Nonces
           /\ job.good \subseteq Nonces
BY SearchLimitPositive DEF TypeOK, Job

\* The nonces a finished batch has ruled out, when its cell holds NotFound.
LEMMA BatchRuledOut ==
    ASSUME IInv, KernelDone, cell = NotFound, mishaps = {},
           NEW n \in Nonces, job.start <= n, n < job.start + tries + count
    PROVE  n \notin job.good \ {NotFound}
<1>1. cursor = job.start + tries /\ cursor \in Nonces /\ count \in Nat /\ tries \in Nat
  BY DEF IInv, KernelDone, Position, TypeOK, Nonces
<1>2. CASE n < cursor
  BY <1>1, <1>2 DEF IInv, KernelDone, NothingMissed, Behind
<1>3. CASE cursor <= n
  <2>1. n - cursor \in 0..(count - 1)
    BY <1>1, <1>3 DEF Nonces
  <2>2. NonceOf(n - cursor) = n
    BY <1>1, <2>1, AdvanceInside, MaxNonceAssumption DEF NonceOf, Nonces
  <2> QED
    BY <2>1, <2>2 DEF IInv, KernelDone, InFlight
<1> QED
  BY <1>1, <1>2, <1>3 DEF Nonces

\* Every step of the host, of a thread and of a fault keeps the invariant.
LEMMA InvariantKept == IInv /\ [Next]_vars => IInv'
<1> SUFFICES ASSUME IInv, [Next]_vars PROVE IInv'
  OBVIOUS
<1> USE DEF IInv
<1>0. SearchLimit(job) \in Nat \ {0} /\ job.start \in Nonces /\ job.good \subseteq Nonces
  BY JobParts
<1>1. CASE Cancel
  BY <1>1 DEF Cancel, callVars, hostVars, gridVars, TypeOK, Position, NothingMissed, Behind,
      InFlight, NonceOf, AtEpilogue, Native, AnswerInLastBatch, Returned,
      FoundIsFromLastBatch, NoneIsExhaustive
<1>2. CASE EnterCanceled
  BY <1>2 DEF EnterCanceled, Return, callVars, hostVars, gridVars, TypeOK, Position,
      NothingMissed, InFlight, AtEpilogue, Returned, FoundIsFromLastBatch,
      NoneIsExhaustive, Outcomes
<1>3. CASE Reject
  BY <1>3 DEF Reject, Return, callVars, hostVars, gridVars, TypeOK, Position,
      NothingMissed, InFlight, AtEpilogue, Returned, FoundIsFromLastBatch,
      NoneIsExhaustive, Outcomes
<1>4. CASE SetupFails
  <2>1. mishaps' \in SUBSET Faults /\ mishaps' # {}
    BY <1>4 DEF SetupFails, TypeOK
  <2>2. CASE outcome' = "failed" /\ phase' = "returned"
    BY <1>4, <2>1, <2>2 DEF SetupFails, callVars, hostVars, gridVars, TypeOK, Position,
        NothingMissed, InFlight, AtEpilogue, Returned, FoundIsFromLastBatch,
        NoneIsExhaustive, Outcomes
  <2>3. CASE Native /\ phase' = "epilogue" /\ rc' = 1 /\ UNCHANGED outcome
    BY <1>4, <2>1, <2>3 DEF SetupFails, callVars, hostVars, gridVars, TypeOK, Position,
        NothingMissed, InFlight, AtEpilogue, Native, Returned, FoundIsFromLastBatch,
        NoneIsExhaustive, Outcomes
  <2> QED BY <1>4, <2>2, <2>3 DEF SetupFails, Return
<1>5. CASE Enter
  BY <1>5 DEF Enter, callVars, hostVars, gridVars, TypeOK, Position, NothingMissed, Behind,
      InFlight, AtEpilogue, Returned, FoundIsFromLastBatch, NoneIsExhaustive
<1>6. CASE LimitReached
  <2>1. tries = SearchLimit(job)
    BY <1>0, <1>6 DEF LimitReached, Position, TypeOK
  <2>2. mishaps = {} => Requested(job) \cap job.good \subseteq {NotFound}
    BY <1>6, <2>1 DEF LimitReached, NothingMissed, Behind, Requested
  <2>3. UNCHANGED <<job, backend, mishaps, found, rc>> /\ phase = "loop" /\ outcome = "running"
        /\ found = NotFound /\ job.supported
    BY <1>6 DEF LimitReached, callVars, Position
  <2>4. TypeOK'
    BY <1>6 DEF LimitReached, LeaveLoop, Return, callVars, hostVars, gridVars, TypeOK, Outcomes
  <2>5. CASE Native
    BY <1>6, <2>2, <2>3, <2>4, <2>5 DEF LimitReached, LeaveLoop,
        Position, NothingMissed, InFlight, AtEpilogue, Native, Returned,
        FoundIsFromLastBatch, NoneIsExhaustive
  <2>6. CASE ~Native
    BY <1>6, <2>2, <2>3, <2>4, <2>6 DEF LimitReached, LeaveLoop, Return,
        Position, NothingMissed, InFlight, AtEpilogue, Returned,
        FoundIsFromLastBatch, NoneIsExhaustive
  <2> QED BY <2>5, <2>6
<1>7. CASE StopOnCancel
  BY <1>7 DEF StopOnCancel, Return, callVars, hostVars, gridVars, TypeOK, Position,
      NothingMissed, InFlight, AtEpilogue, Returned, FoundIsFromLastBatch,
      NoneIsExhaustive, Outcomes
<1>8. CASE Launch
  <2>1. count' \in 1..remaining /\ count' \in Nonces
    <3>1. remaining \in Nat /\ remaining > 0 /\ batch \in 1..MaxNonce
      BY <1>8, MaxNonceAssumption DEF Launch, TypeOK, Nonces
    <3>2. count' = IF remaining > batch THEN batch ELSE remaining
      BY <1>8 DEF Launch
    <3> QED BY <3>1, <3>2, MaxNonceAssumption DEF Nonces
  <2>2. pending' \in SUBSET Nat
    BY <1>8, <2>1, ThreadIdsAreNatural DEF Launch
  <2>3. \A t \in 0..(count' - 1) : t \in pending'
    BY <1>8, <2>1, EveryNonceHasAThread DEF Launch
  <2>4. TypeOK'
    BY <1>8, <2>1, <2>2, MaxNonceAssumption
    DEF Launch, callVars, hostVars, TypeOK, Nonces, NotFound
  <2>5. InFlight'
    BY <1>8, <2>1, <2>3 DEF Launch, hostVars, InFlight
  <2> QED
    BY <1>8, <2>4, <2>5 DEF Launch, callVars, hostVars, Position, NothingMissed, Behind,
        AtEpilogue, Returned, FoundIsFromLastBatch, NoneIsExhaustive
<1>9. ASSUME NEW t \in pending \cup armed, Thread(t) PROVE IInv'
  <2>1. t \in Nat
    BY DEF TypeOK
  <2>2. phase = "kernel" /\ UNCHANGED <<callVars, ctxDone, outcome, found, phase, rc, hostVars, count>>
    BY <1>9 DEF Thread, ThreadRun, ThreadEarlyExit, ThreadCas, ThreadCasSpurious
  <2>3. TypeOK' /\ InFlight'
    <3> USE <2>2 DEF callVars, hostVars
    <3>1. CASE ThreadRun(t)
      BY <2>1, <3>1 DEF ThreadRun, TypeOK, InFlight, NonceOf
    <3>2. CASE ThreadEarlyExit(t)
      BY <2>1, <3>2 DEF ThreadEarlyExit, TypeOK, InFlight, NonceOf
    <3>3. CASE ThreadCas(t)
      <4>1. NonceOf(t) \in Nonces /\ NonceOf(t) \in job.good /\ t \in 0..(count - 1)
        BY <1>0, <2>1, <3>3 DEF ThreadCas, InFlight, TypeOK
      <4>2. TypeOK'
        BY <3>3, <4>1 DEF ThreadCas, TypeOK
      <4>3. InFlight'
        BY <3>3, <4>1 DEF ThreadCas, InFlight, NonceOf
      <4> QED BY <4>2, <4>3
    <3>4. CASE ThreadCasSpurious(t)
      BY <2>1, <3>4 DEF ThreadCasSpurious, TypeOK, InFlight, NonceOf
    <3> QED BY <1>9, <3>1, <3>2, <3>3, <3>4 DEF Thread
  <2>4. mishaps' = {} => mishaps = {}
    BY <1>9 DEF Thread, ThreadRun, ThreadEarlyExit, ThreadCas, ThreadCasSpurious
  <2> QED
    BY <2>2, <2>3, <2>4 DEF callVars, hostVars, Position, NothingMissed, Behind, AtEpilogue,
        Returned, FoundIsFromLastBatch, NoneIsExhaustive
<1>10. CASE ReadBackHit
  <2>1. PICK t \in 0..(count - 1) : cell = NonceOf(t)
    BY <1>10 DEF ReadBackHit, KernelDone, InFlight
  <2>2. cell \in job.good /\ count \in 1..remaining /\ job.supported
    BY <1>10 DEF ReadBackHit, KernelDone, InFlight, Position
  <2>3. cell = Advance(job.start, tries + t)
    <3>1. cursor = job.start + tries /\ tries \in Nat /\ t \in Nat
      BY <1>10, <2>1 DEF ReadBackHit, KernelDone, Position, TypeOK, Nonces
    <3> QED BY <1>0, <2>1, <3>1, AdvanceFrom DEF NonceOf
  <2>4. remaining = SearchLimit(job) - tries /\ tries \in Nat /\ count \in Nat
    BY <1>10 DEF ReadBackHit, KernelDone, Position, TypeOK, Nonces
  <2>5. UNCHANGED <<job, count>> /\ tries' = tries + count /\ found' = cell
    BY <1>10 DEF ReadBackHit, callVars, gridVars
  <2>6. AnswerInLastBatch'
    <3>1. tries + count <= SearchLimit(job)
      BY <1>0, <2>2, <2>4
    <3>2. tries + t \in 0..((tries + count) - 1) /\ tries + t >= (tries + count) - count
      BY <2>1, <2>4
    <3> QED BY <2>2, <2>3, <2>5, <3>1, <3>2 DEF AnswerInLastBatch
  <2>7. TypeOK'
    BY <1>10, <2>4 DEF ReadBackHit, Return, callVars, gridVars, TypeOK, Outcomes
  <2> QED
    BY <1>10, <2>6, <2>7 DEF ReadBackHit, KernelDone, Return, callVars, gridVars, Position,
        NothingMissed, InFlight, AtEpilogue, Native, Returned, FoundIsFromLastBatch,
        NoneIsExhaustive
<1>11. CASE ReadBackMiss
  <2>1. /\ cursor = job.start + tries /\ remaining = SearchLimit(job) - tries
        /\ cursor \in Nonces /\ tries \in Nat /\ count \in 1..remaining /\ remaining \in Nat
    BY <1>11 DEF ReadBackMiss, KernelDone, Position, InFlight, TypeOK
  <2>2. ASSUME mishaps = {}, NEW n \in Nonces, job.start <= n, n < job.start + tries + count
        PROVE  n \notin job.good \ {NotFound}
    BY <1>11, <2>2, BatchRuledOut DEF ReadBackMiss
  <2>3. CASE NotFound - cursor < count
    <3>1. mishaps = {} => Requested(job) \cap job.good \subseteq {NotFound}
      BY <1>0, <2>1, <2>2, <2>3, MaxNonceAssumption DEF Requested, Nonces, NotFound
    <3>2. TypeOK'
      BY <1>11, <2>1, <2>3 DEF ReadBackMiss, KernelDone, LeaveLoop, Return, callVars,
          gridVars, TypeOK, Outcomes
    <3> QED
      BY <1>11, <2>3, <3>1, <3>2 DEF ReadBackMiss, KernelDone, LeaveLoop, Return, callVars,
          gridVars, Position, NothingMissed, InFlight, AtEpilogue, Native, Returned,
          FoundIsFromLastBatch, NoneIsExhaustive
  <2>4. CASE ~(NotFound - cursor < count)
    <3>1. /\ cursor' = cursor + count /\ remaining' = remaining - count
          /\ tries' = tries + count /\ phase = "kernel" /\ phase' = "loop"
          /\ UNCHANGED <<callVars, ctxDone, outcome, found, rc, gridVars, mishaps>>
      BY <1>11, <2>4 DEF ReadBackMiss, KernelDone
    <3>2. TypeOK'
      BY <2>1, <2>4, <3>1, MaxNonceAssumption
      DEF callVars, gridVars, TypeOK, Nonces, NotFound
    <3>3. Position'
      BY <1>0, <2>1, <3>1 DEF callVars, Position, Nonces
    <3>4. NothingMissed'
      BY <1>0, <2>1, <2>2, <3>1 DEF callVars, NothingMissed, Behind, Nonces
    <3> QED
      BY <3>1, <3>2, <3>3, <3>4 DEF InFlight, AtEpilogue, Returned, FoundIsFromLastBatch,
          NoneIsExhaustive
  <2> QED BY <2>3, <2>4
<1>12. CASE MapCanceled
  BY <1>12 DEF MapCanceled, Return, callVars, hostVars, gridVars, TypeOK, Position,
      NothingMissed, InFlight, AtEpilogue, Returned, FoundIsFromLastBatch,
      NoneIsExhaustive, Outcomes
<1>13. CASE DeviceFails
  <2>1. mishaps' \in SUBSET Faults /\ mishaps' # {}
    BY <1>13 DEF DeviceFails, TypeOK
  <2>2. CASE Native
    BY <1>13, <2>1, <2>2 DEF DeviceFails, callVars, hostVars, gridVars, TypeOK, Position,
        NothingMissed, InFlight, AtEpilogue, Native, Returned, FoundIsFromLastBatch,
        NoneIsExhaustive
  <2>3. CASE ~Native
    BY <1>13, <2>1, <2>3 DEF DeviceFails, Return, callVars, hostVars, gridVars, TypeOK,
        Position, NothingMissed, InFlight, AtEpilogue, Returned, FoundIsFromLastBatch,
        NoneIsExhaustive, Outcomes
  <2> QED BY <2>2, <2>3
<1>14. CASE NativeReturn
  <2>1. TypeOK' /\ Returned'
    BY <1>14 DEF NativeReturn, Return, callVars, hostVars, gridVars, TypeOK, Returned, Outcomes
  <2>2. FoundIsFromLastBatch' /\ NoneIsExhaustive'
    BY <1>14 DEF NativeReturn, Return, callVars, hostVars, gridVars, AtEpilogue,
        AnswerInLastBatch, FoundIsFromLastBatch, NoneIsExhaustive
  <2> QED
    BY <1>14, <2>1, <2>2 DEF NativeReturn, Return, Position, NothingMissed, InFlight, AtEpilogue
<1>15. CASE UNCHANGED vars
  BY <1>15 DEF vars, callVars, hostVars, gridVars, TypeOK, Position, NothingMissed, Behind,
      InFlight, NonceOf, AtEpilogue, Native, AnswerInLastBatch, Returned,
      FoundIsFromLastBatch, NoneIsExhaustive
<1> QED
  BY <1>1, <1>2, <1>3, <1>4, <1>5, <1>6, <1>7, <1>8, <1>9, <1>10, <1>11, <1>12, <1>13,
     <1>14, <1>15 DEF Next, Host, Kernel

\* The loop invariant of the three batch loops, under every schedule of the
\* kernel threads and every fault.
THEOREM LoopInvariant == Spec => []IInv
BY InvariantInitially, InvariantKept, PTL DEF Spec

\* The variables keep their types.
THEOREM TypeCorrect == Spec => []TypeOK
BY LoopInvariant, PTL DEF IInv

\* A nonce that is returned is good, reached by the job, and from the batch
\* counted last, whatever the threads race for (cuda_impl.c:435, webgpu.go:216).
THEOREM AnswerIsSound == Spec => []FoundIsFromLastBatch
BY LoopInvariant, PTL DEF IInv

\* Without a device fault "no solution" rules out every requested nonce but
\* the sentinel (cuda_impl.c:442, webgpu.go:220).
THEOREM Exhaustive == Spec => []NoneIsExhaustive
BY LoopInvariant, PTL DEF IInv

(***************************************************************************)
(* The size of a launch                                                    *)
(***************************************************************************)

\* A smaller batch needs no more blocks (webgpu.go:191, cuda_impl.c:417).
LEMMA RoundingUpIsMonotonic ==
    ASSUME NEW m \in Nat, NEW n \in Nat, m <= n
    PROVE  ((m + Workgroup - 1) \div Workgroup) * Workgroup
               <= ((n + Workgroup - 1) \div Workgroup) * Workgroup
<1> DEFINE a == m + Workgroup - 1
           b == n + Workgroup - 1
           p == a \div Workgroup
           q == b \div Workgroup
<1>1. Workgroup \in Nat \ {0} /\ a \in Nat /\ b \in Nat /\ a <= b
  BY BatchAssumption
<1>2. p \in Nat /\ q \in Nat /\ p * Workgroup <= a /\ b < q * Workgroup + Workgroup
  <2>1. p \in Nat /\ p * Workgroup + (a % Workgroup) = a /\ a % Workgroup \in Nat
    BY <1>1
  <2>2. q \in Nat /\ q * Workgroup + (b % Workgroup) = b /\ b % Workgroup < Workgroup
    BY <1>1
  <2> HIDE DEF a, b, p, q
  <2>3. p * Workgroup \in Nat /\ q * Workgroup \in Nat
    BY <1>1, <2>1, <2>2
  <2> QED BY <1>1, <2>1, <2>2, <2>3
<1> HIDE DEF a, b, p, q
<1>3. p <= q
  <2> SUFFICES ASSUME q + 1 <= p PROVE FALSE
    BY <1>2
  <2>1. (q + 1) * Workgroup <= p * Workgroup
    BY <1>1, <1>2
  <2>2. (q + 1) * Workgroup = q * Workgroup + Workgroup
    BY <1>1, <1>2
  <2> QED BY <1>1, <1>2, <2>1, <2>2
<1>4. p * Workgroup <= q * Workgroup
  BY <1>1, <1>2, <1>3
<1> QED BY <1>4 DEF a, b, p, q

\* No launch of CUDA or WebGPU has more blocks than one of the default batch,
\* which is the largest that fits 65535 of them (webgpu.go:29, cuda_linux.go:33).
THEOREM LaunchFits == Spec => []DispatchFits
<1>1. Init => GridIsBounded
  BY BatchAssumption DEF Init, GridIsBounded, SettledBatch, Nonces
<1>2. TypeOK /\ GridIsBounded /\ [Next]_vars => GridIsBounded'
  <2> SUFFICES ASSUME TypeOK, GridIsBounded, [Next]_vars PROVE GridIsBounded'
    OBVIOUS
  <2>1. CASE Launch
    <3>1. count' <= batch
      BY <2>1 DEF Launch, TypeOK, Nonces
    <3> QED BY <2>1, <3>1 DEF Launch, callVars, GridIsBounded
  <2>2. CASE Kernel
    BY <2>2 DEF Kernel, Thread, ThreadRun, ThreadEarlyExit, ThreadCas, ThreadCasSpurious,
        callVars, GridIsBounded
  <2>3. CASE Cancel \/ UNCHANGED vars
    BY <2>3 DEF Cancel, vars, callVars, gridVars, GridIsBounded
  <2>4. CASE MapCanceled \/ SetupFails \/ DeviceFails
    BY <2>4 DEF MapCanceled, SetupFails, DeviceFails, Return, callVars, gridVars, GridIsBounded
  <2>5. CASE Host /\ ~Launch
    BY <2>5 DEF Host, EnterCanceled, Reject, Enter, LimitReached, StopOnCancel, ReadBackHit,
        ReadBackMiss, NativeReturn, LeaveLoop, KernelDone, Return, callVars, gridVars,
        GridIsBounded
  <2> QED BY <2>1, <2>2, <2>3, <2>4, <2>5 DEF Next
<1>3. TypeOK /\ GridIsBounded => DispatchFits
  <2> SUFFICES ASSUME TypeOK, GridIsBounded, phase = "kernel", backend # "metal"
               PROVE  ThreadsLaunched(backend, count) \subseteq
                          0..(((DefaultBatchSize + Workgroup - 1) \div Workgroup) * Workgroup - 1)
    BY DEF GridIsBounded, DispatchFits
  <2>1. count \in Nat /\ DefaultBatchSize \in Nat /\ count <= DefaultBatchSize
    BY BatchAssumption DEF TypeOK, GridIsBounded, Nonces
  <2>2. /\ ((count + Workgroup - 1) \div Workgroup) * Workgroup \in Int
        /\ ((DefaultBatchSize + Workgroup - 1) \div Workgroup) * Workgroup \in Int
    BY <2>1, BatchAssumption
  <2> QED BY <2>1, <2>2, RoundingUpIsMonotonic DEF ThreadsLaunched
<1> QED BY <1>1, <1>2, <1>3, TypeCorrect, PTL DEF Spec

(***************************************************************************)
(* The contract                                                            *)
(***************************************************************************)

\* The contract is stated over the same nonce space and the same jobs.
LEMMA SameVocabulary ==
    /\ Contract!Nonces = Nonces
    /\ Contract!NotFound = NotFound
    /\ Contract!Job = Job
    /\ \A j : Contract!Requested(j) = Requested(j)
    /\ \A j : Contract!Reachable(j) = Reachable(j)
<1>1. Contract!Nonces = Nonces /\ Contract!NotFound = NotFound /\ Contract!Job = Job
  BY DEF Contract!Nonces, Nonces, Contract!NotFound, NotFound, Contract!Job, Job
<1>2. \A j : Contract!SearchLimit(j) = SearchLimit(j)
  BY DEF Contract!SearchLimit, SearchLimit
<1>3. \A n, i : Contract!Advance(n, i) = Advance(n, i)
  BY DEF Contract!Advance, Advance
<1>4. \A j : Contract!Requested(j) = Requested(j)
  BY <1>1, <1>2 DEF Contract!Requested, Requested
<1>5. \A j : Contract!Reachable(j) = Reachable(j)
  BY <1>2, <1>3 DEF Contract!Reachable, Reachable
<1> QED BY <1>1, <1>4, <1>5

\* A nonce at an offset below the count of hashes is one the job reaches.
LEMMA OffsetIsReachable ==
    ASSUME NEW j \in Job, NEW t \in Nat, t <= SearchLimit(j),
           NEW n, \E i \in 0..(t - 1) : n = Advance(j.start, i)
    PROVE  n \in Reachable(j)
<1>1. PICK i \in 0..(t - 1) : n = Advance(j.start, i)
  OBVIOUS
<1>2. i \in 0..(SearchLimit(j) - 1)
  BY SearchLimitPositive
<1> QED BY <1>1, <1>2 DEF Reachable

\* The ways a search ends, in the contract's terms.  The first: a nonce.
LEMMA FoundIsReported ==
    ASSUME IInv', outcome = "running", outcome' = "found", UNCHANGED <<job, ctxDone>>
    PROVE  Contract!Next
<1>1. AnswerInLastBatch' /\ TypeOK'
  BY DEF IInv, FoundIsFromLastBatch
<1>2. found' \in Reachable(job)
  BY <1>1, OffsetIsReachable DEF AnswerInLastBatch, TypeOK
<1>3. found' \in job.good \cap Reachable(job) /\ job.supported /\ found' \in Nonces
  BY <1>1, <1>2 DEF AnswerInLastBatch, TypeOK
<1>4. Contract!Report(found')
  BY <1>3, SameVocabulary DEF Contract!Report, ReliableOutcome
<1> QED BY <1>3, <1>4, SameVocabulary DEF Contract!Next

\* "no solution" is the contract's GiveUp, or its Fail after a mishap.
LEMMA NoneIsGivenUp ==
    ASSUME IInv', outcome = "running", outcome' = "none", job.supported,
           UNCHANGED <<job, ctxDone>>
    PROVE  Contract!Next
<1>1. CASE mishaps' = {}
  <2>1. Requested(job) \cap job.good \subseteq {NotFound}
    BY <1>1 DEF IInv, NoneIsExhaustive
  <2> QED
    BY <1>1, <2>1, SameVocabulary DEF Contract!Next, Contract!GiveUp, ReliableOutcome
<1>2. CASE mishaps' # {}
  BY <1>2 DEF Contract!Next, Contract!Fail, ReliableOutcome
<1> QED BY <1>1, <1>2

\* A context error is the contract's Canceled.
LEMMA CancelIsCanceled ==
    ASSUME ctxDone, outcome = "running", outcome' = "canceled", UNCHANGED <<job, ctxDone>>
    PROVE  Contract!Next
BY DEF Contract!Next, Contract!Canceled, ReliableOutcome

\* A job that is refused, or a device error that is reported, is its Fail.
LEMMA FailureIsFail ==
    ASSUME outcome = "running", outcome' = "failed", UNCHANGED <<job, ctxDone>>
    PROVE  Contract!Next
BY DEF Contract!Next, Contract!Fail, ReliableOutcome

\* A step inside a call that goes on does not show.
LEMMA RunningIsStutter ==
    ASSUME outcome = "running", UNCHANGED <<job, ctxDone, outcome>>
    PROVE  UNCHANGED Contract!vars
BY DEF Contract!vars, ReliableOutcome

\* Every behavior of the batch search is one that the contract allows with the
\* sentinel as the only nonce it may miss: the host's bookkeeping and all the
\* threads' steps are stutters, whatever faults there are (hal.go:38).
THEOREM ImplementsContract == Spec => KeepsContract
<1>1. Init => Contract!Init
  BY SameVocabulary DEF Init, Contract!Init, ReliableOutcome
<1>2. IInv /\ IInv' /\ [Next]_vars => [Contract!Next]_(Contract!vars)
  <2> SUFFICES ASSUME IInv, IInv', [Next]_vars
               PROVE  Contract!Next \/ UNCHANGED Contract!vars
    OBVIOUS
  <2>0. outcome = "running" <=> phase # "returned"
    BY DEF IInv, Returned
  <2>1. CASE Cancel
    BY <2>1 DEF Cancel, callVars, Contract!Next, Contract!Interrupt, ReliableOutcome
  <2>2. CASE EnterCanceled \/ StopOnCancel \/ MapCanceled
    BY <2>0, <2>2, CancelIsCanceled DEF EnterCanceled, StopOnCancel, MapCanceled, Return, callVars
  <2>3. CASE Reject
    BY <2>0, <2>3, FailureIsFail DEF Reject, Return, callVars
  <2>4. CASE Enter \/ Launch \/ Kernel
    BY <2>0, <2>4, RunningIsStutter DEF Enter, Launch, Kernel, Thread, ThreadRun,
        ThreadEarlyExit, ThreadCas, ThreadCasSpurious, callVars
  <2>5. CASE LimitReached
    <3>1. outcome = "running" /\ job.supported
      BY <2>5 DEF LimitReached, IInv, Position
    <3>2. CASE Native
      BY <2>5, <3>1, <3>2, RunningIsStutter DEF LimitReached, LeaveLoop, callVars
    <3>3. CASE ~Native
      BY <2>5, <3>1, <3>3, NoneIsGivenUp DEF LimitReached, LeaveLoop, Return, callVars
    <3> QED BY <3>2, <3>3
  <2>6. CASE ReadBackHit
    <3>1. CASE Native
      BY <2>0, <2>6, <3>1, RunningIsStutter DEF ReadBackHit, KernelDone, callVars
    <3>2. CASE ~Native
      BY <2>0, <2>6, <3>2, FoundIsReported DEF ReadBackHit, KernelDone, Return, callVars
    <3> QED BY <3>1, <3>2
  <2>7. CASE ReadBackMiss
    <3>1. outcome = "running" /\ job.supported /\ UNCHANGED <<job, ctxDone>>
      BY <2>7 DEF ReadBackMiss, KernelDone, IInv, Position, callVars
    <3>2. CASE outcome' = "none"
      BY <3>1, <3>2, NoneIsGivenUp
    <3>3. CASE UNCHANGED outcome
      BY <3>1, <3>3, RunningIsStutter
    <3> QED BY <2>7, <3>2, <3>3 DEF ReadBackMiss, LeaveLoop, Return
  <2>8. CASE SetupFails \/ DeviceFails
    <3>1. outcome = "running" /\ UNCHANGED <<job, ctxDone>>
      BY <2>0, <2>8 DEF SetupFails, DeviceFails, callVars
    <3>2. outcome' = "failed" \/ UNCHANGED outcome
      BY <2>8 DEF SetupFails, DeviceFails, Return
    <3> QED BY <3>1, <3>2, FailureIsFail, RunningIsStutter
  <2>9. CASE NativeReturn
    <3>1. outcome = "running" /\ UNCHANGED <<job, ctxDone, found>>
      BY <2>0, <2>9 DEF NativeReturn, callVars
    <3>2. CASE outcome' = "canceled"
      BY <2>9, <3>1, <3>2, CancelIsCanceled DEF NativeReturn, Return
    <3>3. CASE outcome' = "failed"
      BY <3>1, <3>3, FailureIsFail
    <3>4. CASE outcome' = "none"
      BY <2>9, <3>1, <3>4, NoneIsGivenUp DEF NativeReturn, IInv, AtEpilogue
    <3>5. CASE outcome' = "found"
      BY <3>1, <3>5, FoundIsReported
    <3> QED BY <2>9, <3>2, <3>3, <3>4, <3>5 DEF NativeReturn, Return
  <2>10. CASE UNCHANGED vars
    BY <2>10 DEF vars, callVars, Contract!vars, ReliableOutcome
  <2> QED
    BY <2>1, <2>2, <2>3, <2>4, <2>5, <2>6, <2>7, <2>8, <2>9, <2>10 DEF Next, Host
<1> QED
  BY <1>1, <1>2, LoopInvariant, PTL DEF Spec, KeepsContract, Contract!Spec

(***************************************************************************)
(* Device errors                                                           *)
(***************************************************************************)

\* After a device error no nonce is handed back, and what is left to say is an
\* error, but for CUDA, whose host code lost the return code.
ErrorHandled ==
    "deviceError" \in mishaps =>
        /\ found = NotFound
        /\ \/ phase = "epilogue" /\ (rc = 1 \/ backend = "cuda")
           \/ phase = "returned" /\ outcome \in {"failed", "canceled"}
           \/ phase = "returned" /\ outcome = "none" /\ backend = "cuda"

\* The fate of a device error, step by step.
LEMMA ErrorHandledAlways == Spec => []ErrorHandled
<1>1. Init => ErrorHandled
  BY DEF Init, ErrorHandled
<1>2. IInv /\ ErrorHandled /\ [Next]_vars => ErrorHandled'
  <2> SUFFICES ASSUME IInv, ErrorHandled, [Next]_vars PROVE ErrorHandled'
    OBVIOUS
  <2>0. phase \in {"enter", "loop", "kernel"} => found = NotFound
    BY DEF IInv, Position
  <2>1. CASE Cancel \/ UNCHANGED vars
    BY <2>1 DEF Cancel, vars, callVars, hostVars, ErrorHandled
  <2>2. CASE Kernel
    BY <2>2 DEF Kernel, Thread, ThreadRun, ThreadEarlyExit, ThreadCas, ThreadCasSpurious,
        callVars, ErrorHandled
  <2>3. CASE SetupFails
    BY <2>0, <2>3 DEF SetupFails, Return, callVars, ErrorHandled
  <2>4. CASE DeviceFails
    <3>1. found' = NotFound /\ backend' = backend
      BY <2>0, <2>4 DEF DeviceFails, callVars
    <3>2. CASE Native
      BY <2>4, <3>1, <3>2 DEF DeviceFails, Native, ErrorHandled
    <3>3. CASE ~Native
      BY <2>4, <3>1, <3>3 DEF DeviceFails, Return, ErrorHandled
    <3> QED
      BY <3>2, <3>3
  <2>5. CASE NativeReturn
    BY <2>5 DEF NativeReturn, Return, callVars, ErrorHandled
  <2>6. CASE MapCanceled \/ (Host /\ ~NativeReturn)
    <3>1. phase \in {"enter", "loop", "kernel"} /\ UNCHANGED mishaps
      BY <2>6 DEF MapCanceled, Host, EnterCanceled, Reject, Enter, LimitReached, StopOnCancel,
          Launch, ReadBackHit, ReadBackMiss, KernelDone
    <3> QED
      BY <3>1 DEF ErrorHandled
  <2> QED
    BY <2>1, <2>2, <2>3, <2>4, <2>5, <2>6 DEF Next
<1> QED
  BY <1>1, <1>2, LoopInvariant, PTL DEF Spec

\* The solvers of Metal and WebGPU keep the promise that the CUDA solver
\* breaks: a driver error is never returned as "no solution" (metal_darwin.go,
\* webgpu.go; the finding is about cuda_linux.go:76).
THEOREM OtherBackendsReportErrors == Spec => [](backend # "cuda" => DriverErrorsReported)
<1>1. IInv /\ ErrorHandled => (backend # "cuda" => DriverErrorsReported)
  BY DEF IInv, Returned, ErrorHandled, DriverErrorsReported
<1> QED
  BY <1>1, LoopInvariant, ErrorHandledAlways, PTL

\* On no backend is a nonce returned after a device error.
THEOREM NoAnswerAfterError == Spec => [](outcome = "found" => "deviceError" \notin mishaps)
<1>1. IInv /\ ErrorHandled => (outcome = "found" => "deviceError" \notin mishaps)
  BY DEF IInv, Returned, ErrorHandled
<1> QED
  BY <1>1, LoopInvariant, ErrorHandledAlways, PTL

(***************************************************************************)
(* Progress                                                                *)
(***************************************************************************)

\* The order in which the host passes its places within one batch.
Rank(p) ==
    CASE p = "enter" -> 4 [] p = "loop" -> 3 [] p = "kernel" -> 2
      [] p = "epilogue" -> 1 [] OTHER -> 0

\* The steps left to the threads of the batch: one to hash, one to write.
ThreadWork == 2 * Cardinality(pending) + Cardinality(armed)

\* Closer to the end: fewer nonces remain, or a later place with as many, or
\* less work for the threads.
ComesCloser ==
    \/ remaining' < remaining
    \/ remaining' = remaining /\ Rank(phase') < Rank(phase)
    \/ remaining' = remaining /\ phase' = phase /\ ThreadWork' < ThreadWork

FiniteGrid == IsFiniteSet(pending) /\ IsFiniteSet(armed)

\* A launch starts finitely many threads.
LEMMA FiniteLaunch ==
    ASSUME NEW b, NEW n \in Nat \ {0}
    PROVE  IsFiniteSet(ThreadsLaunched(b, n))
<1>1. ((n + Workgroup - 1) \div Workgroup) * Workgroup - 1 \in Int /\ n - 1 \in Int
  BY BatchAssumption
<1> QED
  BY <1>1, FS_Interval DEF ThreadsLaunched

\* The grid is finite at every step.
LEMMA GridIsFinite == Spec => []FiniteGrid
<1>1. Init => FiniteGrid
  BY FS_EmptySet DEF Init, FiniteGrid
<1>2. TypeOK /\ TypeOK' /\ FiniteGrid /\ [Next]_vars => FiniteGrid'
  <2> SUFFICES ASSUME TypeOK, TypeOK', FiniteGrid, [Next]_vars PROVE FiniteGrid'
    OBVIOUS
  <2>1. CASE Launch
    <3>1. count' \in Nat \ {0}
      BY <2>1, MaxNonceAssumption DEF Launch, TypeOK, Nonces
    <3> QED
      BY <2>1, <3>1, FiniteLaunch, FS_EmptySet DEF Launch, FiniteGrid
  <2>2. CASE Kernel
    <3>1. PICK t \in pending \cup armed : Thread(t)
      BY <2>2 DEF Kernel
    <3>2. pending' \in {pending, pending \ {t}} /\ armed' \in {armed, armed \ {t}, armed \cup {t}}
      BY <3>1 DEF Thread, ThreadRun, ThreadEarlyExit, ThreadCas, ThreadCasSpurious
    <3> QED
      BY <3>2, FS_RemoveElement, FS_AddElement DEF FiniteGrid
  <2>3. CASE ~Launch /\ ~Kernel
    <3>1. UNCHANGED <<pending, armed>>
      BY <2>3 DEF Next, Cancel, Host, EnterCanceled, Reject, Enter, LimitReached, StopOnCancel,
          ReadBackHit, ReadBackMiss, NativeReturn, MapCanceled, SetupFails, DeviceFails,
          vars, gridVars
    <3> QED
      BY <3>1 DEF FiniteGrid
  <2> QED
    BY <2>1, <2>2, <2>3
<1> QED
  BY <1>1, <1>2, TypeCorrect, PTL DEF Spec

\* A thread's step leaves less for the threads to do.
LEMMA ThreadsFinish ==
    ASSUME TypeOK, FiniteGrid, NEW t \in pending \cup armed, Thread(t)
    PROVE  ComesCloser
<1>1. /\ Cardinality(pending) \in Nat /\ Cardinality(armed) \in Nat
      /\ t \in pending => Cardinality(pending \ {t}) = Cardinality(pending) - 1
      /\ t \in armed => Cardinality(armed \ {t}) = Cardinality(armed) - 1
      /\ Cardinality(armed \cup {t}) \in {Cardinality(armed), Cardinality(armed) + 1}
  BY FS_CardinalityType, FS_RemoveElement, FS_AddElement DEF FiniteGrid
<1>2. remaining' = remaining /\ phase' = phase
  BY DEF Thread, ThreadRun, ThreadEarlyExit, ThreadCas, ThreadCasSpurious, hostVars
<1>3. CASE ThreadRun(t)
  BY <1>1, <1>2, <1>3 DEF ThreadRun, ComesCloser, ThreadWork
<1>4. CASE ThreadEarlyExit(t)
  BY <1>1, <1>2, <1>4 DEF ThreadEarlyExit, ComesCloser, ThreadWork
<1>5. CASE ThreadCas(t)
  BY <1>1, <1>2, <1>5 DEF ThreadCas, ComesCloser, ThreadWork
<1>6. CASE ThreadCasSpurious(t)
  BY <1>1, <1>2, <1>6 DEF ThreadCasSpurious, ComesCloser, ThreadWork
<1> QED
  BY <1>3, <1>4, <1>5, <1>6 DEF Thread

\* A step of the host, or a fault, takes it to a later place or shortens the
\* search.
LEMMA HostMovesOn ==
    ASSUME IInv, Host \/ MapCanceled \/ SetupFails \/ DeviceFails
    PROVE  ComesCloser
<1>1. remaining \in Nat
  BY DEF IInv, TypeOK
<1>2. CASE ReadBackMiss
  <2>1. count \in 1..remaining
    BY <1>2 DEF ReadBackMiss, KernelDone, IInv, InFlight
  <2>2. CASE NotFound - cursor < count
    BY <1>2, <2>2 DEF ReadBackMiss, KernelDone, LeaveLoop, Return, ComesCloser, Rank
  <2>3. CASE ~(NotFound - cursor < count)
    BY <1>1, <1>2, <2>1, <2>3 DEF ReadBackMiss, ComesCloser
  <2> QED
    BY <2>2, <2>3
<1>3. CASE Host /\ ~ReadBackMiss
  <2>1. remaining' = remaining
    BY <1>3 DEF Host, EnterCanceled, Reject, Enter, LimitReached, StopOnCancel, Launch,
        ReadBackHit, NativeReturn, hostVars
  <2>2. Rank(phase') < Rank(phase)
    BY <1>3 DEF Host, EnterCanceled, Reject, Enter, LimitReached, StopOnCancel, Launch,
        ReadBackHit, NativeReturn, LeaveLoop, KernelDone, Return, Rank
  <2> QED
    BY <2>1, <2>2 DEF ComesCloser
<1>4. CASE MapCanceled \/ SetupFails \/ DeviceFails
  <2>1. remaining' = remaining
    BY <1>4 DEF MapCanceled, SetupFails, DeviceFails, hostVars
  <2>2. Rank(phase') < Rank(phase)
    BY <1>4 DEF MapCanceled, SetupFails, DeviceFails, Return, Rank
  <2> QED
    BY <2>1, <2>2 DEF ComesCloser
<1> QED
  BY <1>2, <1>3, <1>4

\* Solve cannot go on for ever: every step but the cancellation of the context,
\* which happens at most once, lowers a triple of natural numbers, so no
\* schedule of the threads and no batch size keeps the loop going.
THEOREM EveryStepComesCloser ==
    Spec => /\ [](remaining \in Nat /\ Rank(phase) \in Nat /\ ThreadWork \in Nat)
            /\ [][ComesCloser \/ (~ctxDone /\ ctxDone')]_vars
<1>1. TypeOK /\ FiniteGrid => remaining \in Nat /\ Rank(phase) \in Nat /\ ThreadWork \in Nat
  BY FS_CardinalityType DEF TypeOK, FiniteGrid, Rank, ThreadWork
<1>2. IInv /\ FiniteGrid /\ [Next]_vars => [ComesCloser \/ (~ctxDone /\ ctxDone')]_vars
  <2> SUFFICES ASSUME IInv, FiniteGrid, Next PROVE ComesCloser \/ (~ctxDone /\ ctxDone')
    OBVIOUS
  <2>1. CASE Cancel
    BY <2>1 DEF Cancel
  <2>2. CASE Kernel
    BY <2>2, ThreadsFinish DEF Kernel, IInv
  <2>3. CASE Host \/ MapCanceled \/ SetupFails \/ DeviceFails
    BY <2>3, HostMovesOn
  <2> QED
    BY <2>1, <2>2, <2>3 DEF Next
<1> QED
  BY <1>1, <1>2, LoopInvariant, TypeCorrect, GridIsFinite, PTL DEF Spec
=============================================================================
