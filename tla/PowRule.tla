------------------------------ MODULE PowRule ------------------------------
(***************************************************************************)
(* The proof-of-work rules of powcoins-go as operators on a 32-byte double *)
(* SHA-256.  The repository states "hash h proves difficulty d" four       *)
(* times, in four shapes:                                                  *)
(*   - validPowHash (powcoins/grind.go), used by the host grinder and by   *)
(*     splitPowWitness: the last bytes are zero and the next byte, read    *)
(*     from the end, is small;                                             *)
(*   - TrailingZeroBits and Verify (shasolve/hal.go), used by CPUSolver    *)
(*     and by sha-bench: the number of zero bits counted from the end;     *)
(*   - the device kernels (CUDA and Metal word tests, and the conditions   *)
(*     generated for WebGPU);                                              *)
(*   - the faucet's own script (powcoins/scripts.go), which is what a node *)
(*     evaluates.                                                          *)
(* A hash is a function from byte index to byte, with the code's indices:  *)
(* index 31 is the byte Bitcoin reads as the most significant one.         *)
(***************************************************************************)
EXTENDS Integers, Sequences, FiniteSetsExt

Byte == 0..255

ByteIndex == 0..31

Difficulties == 0..80

(***************************************************************************)
(* grind.go                                                                *)
(***************************************************************************)

\* validPowHash: the d \div 8 last bytes are zero and the one before them
\* keeps its d % 8 highest bits clear.
ValidPowHash(hash, d) ==
    /\ \A i \in 0..((d \div 8) - 1) : hash[31 - i] = 0
    /\ d % 8 # 0 => hash[31 - (d \div 8)] < 2^(8 - (d % 8))

\* Mutation of TargetMantissa: shift by the partial bits, not by what they leave.
TargetMantissaSwapped(d) == (2^(d % 8)) % 256

\* The compact target fakeHeader writes: mantissa in header[72], exponent in
\* header[75], both cut to a byte.
TargetMantissa(d) == (2^((280 - d) % 8)) % 256
TargetExponent(d) == ((280 - d) \div 8) % 256

\* The index at which splitPowWitness cuts the hash.
SplitIndex(d) == 31 - (d \div 8)

\* Mutation of the split: one more byte is left to the script's zeros.
SplitPowWitnessShort(hash, d) ==
    [hB |-> [i \in 1..SplitIndex(d) - 1 |-> hash[i - 1]],
     hA |-> hash[SplitIndex(d) - 1], d |-> d]

\* The hash parts splitPowWitness puts on the witness stack: everything below
\* the boundary byte, the boundary byte, and the difficulty (claim.go adds it).
SplitPowWitness(hash, d) ==
    [hB |-> [i \in 1..SplitIndex(d) |-> hash[i - 1]],
     hA |-> hash[SplitIndex(d)], d |-> d]

\* splitPowWitness returns no error.
SplitAccepts(hash, d) ==
    /\ ValidPowHash(hash, d)
    /\ SplitIndex(d) \in 0..31

(***************************************************************************)
(* hal.go                                                                  *)
(***************************************************************************)

TrailingZeros8(b) == CHOOSE n \in 0..7 : b % 2^n = 0 /\ b % 2^(n + 1) # 0

TrailingZeroBits(hash) ==
    LET nonZero == {i \in ByteIndex : hash[i] # 0} IN
    IF nonZero = {} THEN 256
    ELSE 8 * (31 - Max(nonZero)) + TrailingZeros8(hash[Max(nonZero)])

\* Mutation: more zero bits than the difficulty asks for.
VerifyStrict(hash, d) == TrailingZeroBits(hash) > d

\* Verify(job, nonce), on the hash of the job's header with that nonce.
Verify(hash, d) == TrailingZeroBits(hash) >= d

(***************************************************************************)
(* The kernels.  Word w of the digest is bytes 4w..4w+3, big-endian, so    *)
(* bit j of the word lives in byte 4w + 3 - j \div 8.                      *)
(***************************************************************************)

\* Mutation: the word read with its bytes in little-endian order.
LowBitsZeroLittleEndian(hash, w, n) ==
    \A j \in 0..n - 1 : (hash[4 * w + (j \div 8)] \div 2^(j % 8)) % 2 = 0

\* word_trailing_zero(word, n): the n lowest bits of the word are zero.
LowBitsZero(hash, w, n) ==
    \A j \in 0..n - 1 : (hash[4 * w + 3 - (j \div 8)] \div 2^(j % 8)) % 2 = 0

\* has_trailing_zero_bits of the CUDA and Metal kernels.
HasTrailingZeroBits(hash, d) ==
    IF d <= 32 THEN LowBitsZero(hash, 7, d)
    ELSE /\ LowBitsZero(hash, 7, 32)
         /\ IF d <= 64 THEN LowBitsZero(hash, 6, d - 32)
            ELSE LowBitsZero(hash, 6, 32) /\ LowBitsZero(hash, 5, d - 64)

\* buildWebGPUDifficultyCheck: the word tests it emits, h7 first.
WebGPUDifficultyCheck(d) ==
    {<<7 - k, IF d - 32 * k >= 32 THEN 32 ELSE d - 32 * k>> :
        k \in {j \in 0..2 : d - 32 * j > 0}}

\* has_trailing_difficulty of the generated shader.
HasTrailingDifficulty(hash, d) ==
    \A test \in WebGPUDifficultyCheck(d) : LowBitsZero(hash, test[1], test[2])

(***************************************************************************)
(* scripts.go: the tail of the faucet script, opcode by opcode:            *)
(*   16 SUB DUP 0 GTE VERIFY DUP <40> LT VERIFY       16 <= d < 80         *)
(*   <0000> ... 32/16/8 GTE IF <zeros> CAT ... ENDIF  the zero bytes       *)
(*   SIZE 1 EQUALVERIFY ... <0001>|<8000>|...|2 LT VERIFY   the threshold  *)
(*   CAT CAT ... HASH256 FROMALT EQUALVERIFY          the hash is rebuilt  *)
(***************************************************************************)

ScriptDifficultyInRange(d) == d - 16 >= 0 /\ d - 16 < 64

\* The zero bytes the script appends for x = d - 16: two, then four, two and
\* one for the binary digits of x \div 8.
ScriptZeroBytes(x) == 2 + 4 * (x \div 32) + 2 * ((x % 32) \div 16) + (x % 16) \div 8

\* What is left of x after those subtractions selects the bound on hA.
ScriptThreshold(x) == 2^(8 - (x % 8))

ScriptAcceptsProof(witness, hash) ==
    LET x == witness.d - 16 IN
    /\ ScriptDifficultyInRange(witness.d)
    /\ witness.hA < ScriptThreshold(x)
    /\ witness.hB \o <<witness.hA>> \o [i \in 1..ScriptZeroBytes(x) |-> 0]
         = [i \in 1..32 |-> hash[i - 1]]
=============================================================================
