----------------------------- MODULE MCPowRule -----------------------------
(***************************************************************************)
(* A sweep of the proof-of-work rules: one sample hash, every difficulty   *)
(* from 0 to 80 in turn.  The samples are the hashes that end in zero      *)
(* bytes, then a boundary byte, then a constant filler: only the last      *)
(* eleven bytes can matter to a difficulty of at most 80, and the boundary *)
(* byte runs over one value per position of its highest and lowest bit.    *)
(***************************************************************************)
EXTENDS PowRule

CONSTANTS
    BoundaryBytes,   \* the values of the last non-zero byte
    Fillers          \* the values of the bytes before it

ASSUME SamplesAssumption == BoundaryBytes \subseteq Byte /\ Fillers \subseteq Byte

VARIABLES hash, diff

hashVars == <<hash, diff>>

SampleHash(k, b, filler) ==
    [i \in ByteIndex |-> IF i > k THEN 0 ELSE IF i = k THEN b ELSE filler]

HashInit ==
    /\ hash \in {SampleHash(k, b, filler) :
                    k \in 19..31, b \in BoundaryBytes, filler \in Fillers}
    /\ diff = 0

Raise ==
    /\ diff < 80
    /\ diff' = diff + 1
    /\ UNCHANGED hash

HashNext == Raise

HashSpec == HashInit /\ [][HashNext]_hashVars

(***************************************************************************)
(* Properties                                                              *)
(***************************************************************************)

\* The three kernels and the CPU check count the same bits: a nonce a device
\* reports is one that Verify accepts, and no nonce Verify accepts is passed
\* over by a device (cuda_impl.c, metal_impl_darwin.m, webgpu.go, hal.go).
KernelsAgreeWithVerify ==
    /\ HasTrailingZeroBits(hash, diff) <=> Verify(hash, diff)
    /\ HasTrailingDifficulty(hash, diff) <=> Verify(hash, diff)

\* validPowHash is the comparison of the hash, as a little-endian number, with
\* the target mantissa * 256^(exponent - 3) that fakeHeader writes into the
\* header the hash is taken of (grind.go:64 and grind.go:84).
ValidMeansBelowHeaderTarget ==
    LET e == TargetExponent(diff) - 3
        below == /\ \A i \in ByteIndex : i > e => hash[i] = 0
                 /\ e \in ByteIndex => hash[e] < TargetMantissa(diff)
    IN  ValidPowHash(hash, diff) <=> below

\* For every difficulty the scripts allow, what splitPowWitness cuts from a hash
\* is a witness the script accepts exactly when splitPowWitness lets it pass:
\* no claim it signs is refused, and no proof the script would take is lost
\* (grind.go:91 and scripts.go:45).
SplitMatchesScript ==
    ScriptDifficultyInRange(diff) =>
        (ScriptAcceptsProof(SplitPowWitness(hash, diff), hash)
            <=> SplitAccepts(hash, diff))

\* At whole bytes the two host rules are the same rule; the backend probe, at
\* difficulty 8, is therefore no test of the rule used at other difficulties.
RulesAgreeOnWholeBytes ==
    diff % 8 = 0 => (Verify(hash, diff) <=> ValidPowHash(hash, diff))
=============================================================================
