---------------------- MODULE SequentialSearchProofs ------------------------
(***************************************************************************)
(* Proofs about SequentialSearch, for every nonce space and every job: the *)
(* loop invariant, and that both searches implement NonceSearch.           *)
(***************************************************************************)
EXTENDS SequentialSearch, NonceSpaceTheorems, TLAPS

\* A loop that goes round has hashes left, also GrindHeader's, whose loop looks at
\* nothing: it starts at 0 and asks for the whole space.
LEMMA RoomLeft ==
  ASSUME IInv, Looping PROVE tries < SearchLimit(job)
<1>1. CASE solver = "CPUSolver"
  BY <1>1 DEF Looping
<1>2. CASE solver = "GrindHeader"
  <2>1. job.start = 0 /\ SearchLimit(job) = MaxNonce + 1 /\ tries \in Nat
    BY <1>2, MaxNonceAssumption DEF IInv, GrindsFromZero, SearchLimit, TypeOK
  <2>2. cursor = job.start + tries /\ cursor \in 0..MaxNonce
    BY DEF Looping, IInv, Position, TypeOK, Nonces
  <2> QED
    BY <2>1, <2>2, MaxNonceAssumption
<1> QED
  BY <1>1, <1>2 DEF IInv, TypeOK

\* The loop invariant holds at the start and is kept by every step: the cursor
\* is where the count of hashes says, and what is behind it is not good.
THEOREM LoopInvariant == Spec => []IInv
<1>1. Init => IInv
  BY SearchLimitPositive, MaxNonceAssumption
  DEF Init, IInv, TypeOK, GrindsFromZero, TriesWithinJob, Position, NothingMissed, Tried,
      FindsLeast, NoneIsExhaustive, Job, Nonces, NotFound, Outcomes
<1>2. IInv /\ [Next]_vars => IInv'
  <2> SUFFICES ASSUME IInv, [Next]_vars PROVE IInv'
    OBVIOUS
  <2> USE DEF IInv, callVars
  <2>from0. GrindsFromZero'
    BY DEF GrindsFromZero, Next, Search, Cancel, Reject, StopOnCancel, GoOn, Exhaust, Hit,
           Miss, vars
  <2>0. SearchLimit(job) \in Nat \ {0} /\ job.start \in Nonces /\ job.good \subseteq Nonces
    BY SearchLimitPositive DEF TypeOK, Job
  <2>1. CASE Cancel
    BY <2>from0, <2>1 DEF Cancel, TypeOK, TriesWithinJob, Position, NothingMissed, Tried,
                FindsLeast, NoneIsExhaustive
  <2>2. CASE Reject
    BY <2>from0, <2>2 DEF Reject, TypeOK, TriesWithinJob, Position, NothingMissed, Tried,
                FindsLeast, NoneIsExhaustive, Outcomes
  <2>3. CASE StopOnCancel
    BY <2>from0, <2>3 DEF StopOnCancel, Looping, TypeOK, TriesWithinJob, Position,
                NothingMissed, Tried, FindsLeast, NoneIsExhaustive, Outcomes
  <2>4. CASE GoOn
    BY <2>from0, <2>4 DEF GoOn, TypeOK, TriesWithinJob, Position, NothingMissed, Tried,
                FindsLeast, NoneIsExhaustive
  <2>5. CASE Hit
    <3>0. tries < SearchLimit(job)
      BY <2>5, RoomLeft DEF Hit
    <3>1. TypeOK' /\ TriesWithinJob' /\ Position' /\ NothingMissed' /\ NoneIsExhaustive'
      BY <2>0, <2>5, <3>0, MaxNonceAssumption
      DEF Hit, Looping, TypeOK, TriesWithinJob, Position, NothingMissed,
          NoneIsExhaustive, Outcomes, Nonces
    <3>2. FindsLeast'
      <4>1. cursor \in Requested(job)
        BY <2>0, <2>5, <3>0 DEF Hit, Looping, Position, TypeOK, Requested, Nonces
      <4>2. ASSUME NEW n \in Requested(job) \cap job.good, n < cursor PROVE FALSE
        BY <2>0, <2>5, <3>0, <4>2 DEF Hit, Looping, Position, NothingMissed, Tried, TypeOK,
                                Requested, Nonces
      <4>3. \A n \in Requested(job) \cap job.good : cursor <= n
        BY <4>2, <2>0, MaxNonceAssumption DEF Nonces, Requested, TypeOK
      <4> QED BY <2>5, <4>1, <4>3 DEF Hit, FindsLeast
    <3> QED BY <2>from0, <3>1, <3>2
  <2>6. CASE Miss
    <3>1. outcome = "running" /\ cursor = job.start + tries /\ tries < SearchLimit(job)
      BY <2>6, RoomLeft DEF Miss, Looping, Position
    <3>2. TypeOK' /\ TriesWithinJob' /\ Position' /\ FindsLeast'
      BY <2>0, <2>6, <3>1, MaxNonceAssumption
      DEF Miss, TypeOK, TriesWithinJob, Position, FindsLeast, Outcomes, Nonces, NotFound
    <3>3. ASSUME NEW n \in Nonces, job.start <= n, n < job.start + tries + 1
          PROVE  n \notin job.good
      BY <2>0, <2>6, <3>1, <3>3 DEF Miss, NothingMissed, Tried, TypeOK, Nonces
    <3>4. NothingMissed'
      <4>1. tries' = tries + 1 /\ job' = job
        BY <2>from0, <2>6 DEF Miss
      <4>2. Tried' \cap job.good = {}
        BY <2>0, <3>3, <4>1 DEF Tried, TypeOK, Nonces
      <4> QED BY <4>1, <4>2 DEF NothingMissed
    <3>5. NoneIsExhaustive'
      BY <2>0, <2>6, <3>1, <3>3, MaxNonceAssumption
      DEF Miss, NoneIsExhaustive, Requested, TypeOK, Nonces, NotFound
    <3> QED BY <2>from0, <3>2, <3>4, <3>5
  <2>7. CASE Exhaust
    <3>1. tries = SearchLimit(job)
      BY <2>0, <2>7 DEF Exhaust, Position, TypeOK
    <3>2. NoneIsExhaustive'
      BY <2>0, <2>7, <3>1 DEF Exhaust, NoneIsExhaustive, NothingMissed, Tried, Requested
    <3> QED
      BY <2>from0, <2>7, <3>2 DEF Exhaust, TypeOK, TriesWithinJob, Position, NothingMissed,
                        FindsLeast, Outcomes
  <2>8. CASE UNCHANGED vars
    BY <2>from0, <2>8 DEF vars, TypeOK, TriesWithinJob, Position, NothingMissed, Tried,
                          FindsLeast, NoneIsExhaustive
  <2> QED
    BY <2>1, <2>2, <2>3, <2>5, <2>6, <2>7, <2>8, <2>4 DEF Next, Search
<1> QED
  BY <1>1, <1>2, PTL DEF Spec

\* The variables keep their types (hal.go:18, cpu.go:13, grind.go:22).
THEOREM TypeCorrect == Spec => []TypeOK
BY LoopInvariant, PTL DEF IInv

\* The hashes counted stay within the limit and the nonce space, for every
\* start and every limit (cpu.go:25, cpu.go:35).
THEOREM TriesBounded == Spec => []TriesWithinJob
BY LoopInvariant, PTL DEF IInv

\* The nonce returned is the least requested one that is good (cpu.go:30, grind.go:38).
THEOREM LeastNonce == Spec => []FindsLeast
BY LoopInvariant, PTL DEF IInv

\* "no solution" holds of every requested nonce (cpu.go:39, grind.go:50).
THEOREM Exhaustive == Spec => []NoneIsExhaustive
BY LoopInvariant, PTL DEF IInv

\* The contract is stated over the same nonce space and the same jobs.
LEMMA SameVocabulary ==
    /\ Contract!Nonces = Nonces
    /\ Contract!NotFound = NotFound
    /\ Contract!Job = Job
    /\ \A j : Contract!Requested(j) = Requested(j)
    /\ \A j : Contract!Reachable(j) = Reachable(j)
<1>1. Contract!Nonces = Nonces /\ Contract!NotFound = NotFound /\ Contract!Job = Job
  BY DEF Contract!Nonces, Nonces, Contract!NotFound, NotFound, Contract!Job, Job
<1>2. \A j : Contract!SearchLimit(j) = SearchLimit(j)
  BY DEF Contract!SearchLimit, SearchLimit
<1>3. \A n, i : Contract!Advance(n, i) = Advance(n, i)
  BY DEF Contract!Advance, Advance
<1>4. \A j : Contract!Requested(j) = Requested(j)
  BY <1>1, <1>2 DEF Contract!Requested, Requested
<1>5. \A j : Contract!Reachable(j) = Reachable(j)
  BY <1>2, <1>3 DEF Contract!Reachable, Reachable
<1> QED BY <1>1, <1>4, <1>5

\* Every behavior of a sequential search is one the contract allows, with
\* nothing missed: initial states map to initial states, Hit to Report, the
\* two ways of running out to GiveUp, and a miss to a stutter (cpu.go:13,
\* grind.go:22).
THEOREM ImplementsContract == Spec => KeepsContract
<1>1. Init => Contract!Init
  BY SameVocabulary DEF Init, Contract!Init
<1>2. IInv /\ IInv' /\ [Next]_vars => [Contract!Next]_(Contract!vars)
  <2> SUFFICES ASSUME IInv, IInv', [Next]_vars
               PROVE  Contract!Next \/ UNCHANGED Contract!vars
    OBVIOUS
  <2> USE DEF IInv, callVars
  <2>1. CASE Cancel
    BY <2>1 DEF Cancel, Contract!Next, Contract!Interrupt
  <2>2. CASE Reject
    BY <2>2 DEF Reject, Contract!Next, Contract!Fail
  <2>3. CASE StopOnCancel
    BY <2>3 DEF StopOnCancel, Looping, Contract!Next, Contract!Canceled
  <2>4. CASE GoOn
    BY <2>4 DEF GoOn, Contract!vars
  <2>5. CASE Hit
    <3>1. nonce' \in Requested(job) \cap job.good
      BY <2>5 DEF Hit, FindsLeast
    <3>2. nonce' \in job.good \cap Reachable(job) /\ nonce' \in Nonces
      BY <3>1, RequestedIsReachable DEF TypeOK, Requested
    <3>3. Contract!Report(nonce')
      BY <2>5, <3>2, SameVocabulary DEF Hit, Looping, Contract!Report
    <3> QED BY <3>2, <3>3, SameVocabulary DEF Contract!Next
  <2>6. CASE Miss
    <3>1. CASE cursor = NotFound
      <4>1. Requested(job) \cap job.good = {}
        BY <2>6, <3>1 DEF Miss, NoneIsExhaustive
      <4> QED
        BY <2>6, <3>1, <4>1, SameVocabulary DEF Miss, Looping, Contract!Next, Contract!GiveUp
    <3>2. CASE cursor # NotFound
      BY <2>6, <3>2 DEF Miss, Contract!vars
    <3> QED BY <3>1, <3>2
  <2>7. CASE Exhaust
    <3>1. Requested(job) \cap job.good = {}
      BY <2>7 DEF Exhaust, NoneIsExhaustive
    <3> QED BY <2>7, <3>1, SameVocabulary DEF Exhaust, Contract!Next, Contract!GiveUp
  <2>8. CASE UNCHANGED vars
    BY <2>8 DEF vars, Contract!vars
  <2> QED
    BY <2>1, <2>2, <2>3, <2>5, <2>6, <2>7, <2>8, <2>4 DEF Next, Search
<1> QED
  BY <1>1, <1>2, LoopInvariant, PTL DEF Spec, KeepsContract, Contract!Spec

(***************************************************************************)
(* Progress                                                                *)
(***************************************************************************)

\* The looks at the context and the hashes that are left at most.
StepsLeft ==
    IF outcome # "running" THEN 0
    ELSE 2 * (SearchLimit(job) - tries) + (IF phase = "look" THEN 2 ELSE 1)

\* A search cannot go on for ever, also at the top of the nonce space: what is
\* left of it is a natural number, at most twice the limit and two, and every
\* step lowers it but the cancellation of the context (cpu.go:25, grind.go:34).
THEOREM EveryStepComesCloser ==
    Spec => /\ [](StepsLeft \in 0..(2 * SearchLimit(job) + 2))
            /\ [][\/ StepsLeft' < StepsLeft
                  \/ StepsLeft' = StepsLeft /\ ~ctxDone /\ ctxDone']_vars
<1>1. IInv => StepsLeft \in 0..(2 * SearchLimit(job) + 2)
  <2> SUFFICES ASSUME IInv PROVE StepsLeft \in 0..(2 * SearchLimit(job) + 2)
    OBVIOUS
  <2>1. SearchLimit(job) \in Nat /\ tries \in Nat /\ tries <= SearchLimit(job)
    BY SearchLimitPositive DEF IInv, TypeOK, TriesWithinJob
  <2> QED
    BY <2>1 DEF StepsLeft
<1>2. IInv /\ Next => \/ StepsLeft' < StepsLeft
                      \/ StepsLeft' = StepsLeft /\ ~ctxDone /\ ctxDone'
  <2> SUFFICES ASSUME IInv, Next
               PROVE  \/ StepsLeft' < StepsLeft
                      \/ StepsLeft' = StepsLeft /\ ~ctxDone /\ ctxDone'
    OBVIOUS
  <2>1. SearchLimit(job) \in Nat /\ tries \in Nat /\ tries <= SearchLimit(job) /\ job' = job
    BY SearchLimitPositive DEF IInv, TypeOK, TriesWithinJob, Next, Search, Cancel, Reject,
        StopOnCancel, GoOn, Exhaust, Hit, Miss, callVars
  <2>2. CASE Cancel
    BY <2>1, <2>2 DEF Cancel, StepsLeft
  <2>3. CASE Reject \/ StopOnCancel \/ Exhaust \/ Hit
    BY <2>1, <2>3, RoomLeft DEF Reject, StopOnCancel, Exhaust, Hit, Looping, StepsLeft
  <2>4. CASE GoOn
    BY <2>1, <2>4 DEF GoOn, Looping, StepsLeft
  <2>5. CASE Miss
    BY <2>1, <2>5, RoomLeft DEF Miss, Looping, StepsLeft
  <2> QED
    BY <2>2, <2>3, <2>4, <2>5 DEF Next, Search
<1> QED
  BY <1>1, <1>2, LoopInvariant, PTL DEF Spec
=============================================================================
