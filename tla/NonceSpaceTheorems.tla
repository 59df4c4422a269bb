------------------------ MODULE NonceSpaceTheorems -------------------------
(***************************************************************************)
(* Facts about the nonce arithmetic that every search relies on.           *)
(***************************************************************************)
EXTENDS NonceSpace, TLAPS

\* A limit, given or left open, is at least one nonce (cpu.go:20).
LEMMA SearchLimitPositive ==
    ASSUME NEW j \in Job
    PROVE  SearchLimit(j) \in Nat \ {0}
BY MaxNonceAssumption, MaxLimitAssumption DEF SearchLimit, Job, Nonces

\* uint32 addition stays in the nonce space.
LEMMA AdvanceInSpace ==
    ASSUME NEW n \in Nonces, NEW i \in Nat
    PROVE  Advance(n, i) \in Nonces
BY MaxNonceAssumption DEF Advance, Nonces

\* Below the end of the space it does not wrap.
LEMMA AdvanceInside ==
    ASSUME NEW n \in Nonces, NEW i \in Nat, n + i <= MaxNonce
    PROVE  Advance(n, i) = n + i
BY MaxNonceAssumption DEF Advance, Nonces

\* A batch that starts inside the space continues the job's own numbering.
LEMMA AdvanceFrom ==
    ASSUME NEW n \in Nonces, NEW i \in Nat, NEW k \in Nat
    PROVE  Advance(n + k, i) = Advance(n, k + i)
BY MaxNonceAssumption DEF Advance, Nonces

\* What the caller asked for is among what the job's numbering reaches.
LEMMA RequestedIsReachable ==
    ASSUME NEW j \in Job, NEW n \in Requested(j)
    PROVE  n \in Reachable(j)
<1>1. n - j.start \in 0..(SearchLimit(j) - 1)
  BY SearchLimitPositive DEF Requested, Nonces, Job
<1>2. Advance(j.start, n - j.start) = n
  BY <1>1, AdvanceInside, MaxNonceAssumption DEF Requested, Nonces, Job
<1> QED BY <1>1, <1>2 DEF Reachable
=============================================================================
