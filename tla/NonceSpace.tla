----------------------------- MODULE NonceSpace ----------------------------
(***************************************************************************)
(* The vocabulary of a nonce search: the 32-bit nonce space, the job a     *)
(* solver is given (shasolve/hal.go), and the nonces that job asks for.    *)
(*                                                                         *)
(* SHA-256 is left out: a job carries the set "good" of the nonces whose   *)
(* header hash meets the difficulty, and a search must work for every such *)
(* set.  The nonce space is 0..MaxNonce, and its last value doubles as the *)
(* sentinel NotFound, as 0xffffffff does in the code.                      *)
(***************************************************************************)
EXTENDS Integers

CONSTANTS
    MaxNonce,   \* the largest nonce, 2^32 - 1 in the code
    MaxLimit    \* the largest Job.Limit considered

ASSUME MaxNonceAssumption == MaxNonce \in Nat \ {0}
ASSUME MaxLimitAssumption == MaxLimit \in Nat

Nonces == 0..MaxNonce

NotFound == MaxNonce

\* The fields of shasolve.Job a search reads, with "good" for its header and
\* "supported" for a difficulty of at most 80.
Job == [start : Nonces, limit : 0..MaxLimit, good : SUBSET Nonces,
        supported : BOOLEAN]

\* A limit of 0 asks for every nonce from the start to the end of the space.
SearchLimit(job) ==
    IF job.limit = 0 THEN MaxNonce - job.start + 1 ELSE job.limit

\* nonce + offset in uint32 arithmetic.
Advance(nonce, offset) == (nonce + offset) % (MaxNonce + 1)

\* The nonces the caller asked for, ending where the nonce space ends.
Requested(job) ==
    {n \in Nonces : job.start <= n /\ n < job.start + SearchLimit(job)}

\* The nonces a search may try: a batch that passes the end wraps to 0.
Reachable(job) == {Advance(job.start, i) : i \in 0..(SearchLimit(job) - 1)}

Outcomes == {"running", "found", "none", "canceled", "failed"}
=============================================================================
