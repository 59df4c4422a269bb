----------------------------- MODULE RuleProofs ----------------------------
(***************************************************************************)
(* Proofs about the rules: the claim arithmetic for every number of        *)
(* confirmations, every size of the unsigned claim and every fee rate, and *)
(* the four statements of the proof-of-work rule for every 32-byte hash.   *)
(***************************************************************************)
EXTENDS MCClaimPolicy, MCPowRule, SequenceTheorems, WellFoundedInduction,
        TLAPS

(***************************************************************************)
(* The claim arithmetic                                                    *)
(***************************************************************************)

\* The difficulty stays in the range of the constants in scripts.go, and the
\* lock time it stands for is no longer than the coin is old.
LEMMA CsvIsMature ==
  ASSUME NEW s \in Scripts, NEW n \in Nat
  PROVE  /\ Difficulty(s, n) \in MinDiff..MaxDiff
         /\ Csv(s, Difficulty(s, n)) \in Nat
         /\ Csv(s, Difficulty(s, n)) <= n
<1>1. CASE s = 1
  BY <1>1 DEF Difficulty, Csv, Delay, MinDiff, MaxDiff
<1>2. CASE s = 2
  <2> DEFINE steps == n \div 4
  <2>1. Delay(s) = 4
    BY <1>2 DEF Delay
  <2>2. steps \in Nat /\ 4 * steps <= n
    OBVIOUS
  <2>3. Difficulty(s, n) = IF 80 - steps < 16 THEN 16 ELSE 80 - steps
    BY <2>1 DEF Difficulty, MinDiff, MaxDiff
  <2> HIDE DEF steps
  <2>4. Difficulty(s, n) \in 16..80 /\ 80 - Difficulty(s, n) <= steps
    BY <2>2, <2>3
  <2>5. Csv(s, Difficulty(s, n)) = 4 * (80 - Difficulty(s, n))
    BY <2>1, <2>4 DEF Csv, MaxDiff
  <2> QED
    BY <2>2, <2>4, <2>5 DEF MinDiff, MaxDiff
<1>3. CASE s = 3
  BY <1>3 DEF Difficulty, Csv, Delay, MinDiff, MaxDiff
<1> QED
  BY <1>1, <1>2, <1>3 DEF Scripts

\* The Go constants and the script templates describe the same lock time.
LEMMA CsvIsTheScripts ==
  ASSUME NEW s \in Scripts, NEW d \in MinDiff..MaxDiff
  PROVE  Csv(s, d) = ScriptSequence(s, d)
<1>1. s = 1 \/ s = 2 \/ s = 3
  BY DEF Scripts
<1> QED
  BY <1>1 DEF Csv, ScriptSequence, Delay, MinDiff, MaxDiff

\* One more confirmation makes a coin easier by at most one bit.
LEMMA OneStepOrNone ==
  ASSUME NEW s \in Scripts, NEW n \in Nat
  PROVE  Difficulty(s, n + 1) \in {Difficulty(s, n) - 1, Difficulty(s, n)}
<1>1. CASE s = 1
  BY <1>1 DEF Difficulty, Delay, MinDiff, MaxDiff
<1>2. CASE s = 2
  BY <1>2 DEF Difficulty, Delay, MinDiff, MaxDiff
<1>3. CASE s = 3
  BY <1>3 DEF Difficulty, Delay, MinDiff, MaxDiff
<1> QED
  BY <1>1, <1>2, <1>3 DEF Scripts

\* The weight the fee is computed of covers the witness from difficulty 24 up.
LEMMA FeeCoversWitness ==
  ASSUME NEW s \in Scripts, NEW d \in MinDiff..MaxDiff, NEW size \in Nat,
         NEW f \in Nat \ {0}, d >= 24 \/ f >= 2
  PROVE  Fee(s, size, f) >= VirtualSize(s, d, size)
<1> DEFINE weight == 4 * size + ExtraWeight(s)
           actual == 4 * size + WitnessSize(s, d)
<1>1. s = 1 \/ s = 2 \/ s = 3
  BY DEF Scripts
<1>2. weight \in Nat /\ actual \in Nat
  BY <1>1 DEF ExtraWeight, WitnessSize, HashPrefixLength, ScriptLength, MinDiff, MaxDiff
<1>3. weight * f >= actual /\ weight * f \in Nat
  <2>1. CASE f >= 2
    <3>1. 2 * weight >= actual
      BY <1>1 DEF ExtraWeight, WitnessSize, HashPrefixLength, ScriptLength, MinDiff, MaxDiff
    <3> HIDE DEF weight, actual
    <3> QED
      BY <3>1, <2>1, <1>2
  <2>2. CASE d >= 24 /\ f = 1
    <3>1. weight >= actual
      BY <1>1, <2>2 DEF ExtraWeight, WitnessSize, HashPrefixLength, ScriptLength, MinDiff, MaxDiff
    <3> HIDE DEF weight, actual
    <3> QED
      BY <3>1, <2>2, <1>2
  <2> QED
    BY <2>1, <2>2
<1>4. Fee(s, size, f) = (weight * f + 3) \div 4 /\ VirtualSize(s, d, size) = (actual + 3) \div 4
  BY DEF Fee, VirtualSize
<1> HIDE DEF weight, actual
<1> DEFINE paid == weight * f
<1>5. paid >= actual /\ paid \in Nat
  BY <1>3
<1>6. Fee(s, size, f) = (paid + 3) \div 4
  BY <1>4
<1> HIDE DEF paid
<1> QED
  BY <1>2, <1>4, <1>5, <1>6

\* The sweep's variables.
SweepInv ==
    /\ script \in Scripts
    /\ tip \in Nat \ {0}
    /\ stripped \in Nat
    /\ feerate \in Nat \ {0}

\* The coin's age is a positive number of confirmations, at every step.
LEMMA SweepInvariant == Spec => []SweepInv
<1>1. Init => SweepInv
  BY StrippedSizesAssumption, FeeRatesAssumption DEF Init, SweepInv
<1>2. SweepInv /\ [Next]_vars => SweepInv'
  BY DEF SweepInv, Next, Block, vars
<1> QED
  BY <1>1, <1>2, PTL DEF Spec

\* What the invariant says of the two definitions that follow the coin.
LEMMA CoinParts == SweepInv => conf \in Nat /\ conf = tip /\ difficulty \in MinDiff..MaxDiff
<1> SUFFICES ASSUME SweepInv PROVE conf \in Nat /\ conf = tip /\ difficulty \in MinDiff..MaxDiff
  OBVIOUS
<1>1. conf = tip /\ conf \in Nat /\ script \in Scripts
  BY DEF SweepInv, conf, Confirmations
<1> QED
  BY <1>1, CsvIsMature DEF difficulty

\* For every coin age: the lock time of a claim has passed when the next block
\* is found, so the guard of claim.go:150 never refuses a coin.
THEOREM LockTimePassed == Spec => []LockTimeHasPassed
<1>1. SweepInv => LockTimeHasPassed
  BY CoinParts, CsvIsMature DEF LockTimeHasPassed, SweepInv, difficulty
<1> QED
  BY <1>1, SweepInvariant, PTL

\* For every coin age: the sequence of a claim is the one the script computes
\* (claim.go:149 and the templates of scripts.go:37).
THEOREM SequenceAgrees == Spec => []SequenceIsTheScripts
<1>1. SweepInv => SequenceIsTheScripts
  BY CoinParts, CsvIsTheScripts DEF SequenceIsTheScripts, SweepInv
<1> QED
  BY <1>1, SweepInvariant, PTL

\* For every size of the claim and every fee rate: from difficulty 24 up, or at
\* two satoshis per byte, the claim pays the minimum relay fee (claim.go:336).
THEOREM MinimumRelayFeePaid == Spec => []PaysMinimumRelayFee
<1>1. SweepInv => PaysMinimumRelayFee
  BY CoinParts, FeeCoversWitness DEF PaysMinimumRelayFee, SweepInv
<1> QED
  BY <1>1, SweepInvariant, PTL

\* For every coin age: a block makes a coin easier by one bit or not at all
\* (claim.go:143).
THEOREM DifficultyNeverJumps == Spec => DifficultyFallsBySteps
<1>1. SweepInv /\ [Next]_vars =>
        [Difficulty(script', Confirmations(tip', 1)) \in {difficulty - 1, difficulty}]_vars
  <2> SUFFICES ASSUME SweepInv, Block
               PROVE  Difficulty(script', Confirmations(tip', 1)) \in {difficulty - 1, difficulty}
    BY DEF Next
  <2>1. script' = script /\ Confirmations(tip', 1) = conf + 1
    BY DEF Block, SweepInv, conf, Confirmations
  <2>2. script \in Scripts /\ conf \in Nat
    BY CoinParts DEF SweepInv
  <2> QED
    BY <2>1, <2>2, OneStepOrNone DEF difficulty
<1> QED
  BY <1>1, SweepInvariant, PTL DEF Spec, DifficultyFallsBySteps

(***************************************************************************)
(* The proof-of-work rule.  Verify and the kernels all say BitRule: the    *)
(* d \div 8 last bytes are zero, and so are the d % 8 lowest bits of the   *)
(* byte before them.                                                       *)
(***************************************************************************)

Hash == [ByteIndex -> Byte]

LastBytesZero(h, n) == \A i \in 0..n - 1 : h[31 - i] = 0

BitRule(h, d) ==
    /\ LastBytesZero(h, d \div 8)
    /\ h[31 - (d \div 8)] % 2^(d % 8) = 0

\* The powers the rules use.
LEMMA Powers ==
  /\ 2^0 = 1 /\ 2^1 = 2 /\ 2^2 = 4 /\ 2^3 = 8 /\ 2^4 = 16
  /\ 2^5 = 32 /\ 2^6 = 64 /\ 2^7 = 128 /\ 2^8 = 256
OBVIOUS

\* A difficulty is a number of whole bytes and a rest.
LEMMA WholeBytesAndRest ==
  ASSUME NEW d \in Difficulties
  PROVE  /\ d \div 8 \in 0..10 /\ d % 8 \in 0..7
         /\ d = 8 * (d \div 8) + (d % 8)
         /\ d % 8 # 0 => d \div 8 \in 0..9
BY DEF Difficulties

\* The n lowest bits of a byte are zero exactly when 2^n divides it.
LEMMA LowBitsOfByte ==
  ASSUME NEW b \in Byte, NEW n \in 0..8
  PROVE  (\A j \in 0..n - 1 : (b \div 2^j) % 2 = 0) <=> b % 2^n = 0
<1>0. CASE n = 0
  <2>1. (\A j \in 0..n - 1 : (b \div 2^j) % 2 = 0) <=>
               TRUE
    BY <1>0, Powers DEF Byte
  <2> QED
    BY <1>0, <2>1, Powers DEF Byte
<1>1. CASE n = 1
  <2>1. (\A j \in 0..n - 1 : (b \div 2^j) % 2 = 0) <=>
               b % 2 = 0
    BY <1>1, Powers DEF Byte
  <2> QED
    BY <1>1, <2>1, Powers DEF Byte
<1>2. CASE n = 2
  <2>1. (\A j \in 0..n - 1 : (b \div 2^j) % 2 = 0) <=>
               /\ b % 2 = 0
               /\ (b \div 2) % 2 = 0
    BY <1>2, Powers DEF Byte
  <2> QED
    BY <1>2, <2>1, Powers DEF Byte
<1>3. CASE n = 3
  <2>1. (\A j \in 0..n - 1 : (b \div 2^j) % 2 = 0) <=>
               /\ b % 2 = 0
               /\ (b \div 2) % 2 = 0
               /\ (b \div 4) % 2 = 0
    BY <1>3, Powers DEF Byte
  <2> QED
    BY <1>3, <2>1, Powers DEF Byte
<1>4. CASE n = 4
  <2>1. (\A j \in 0..n - 1 : (b \div 2^j) % 2 = 0) <=>
               /\ b % 2 = 0
               /\ (b \div 2) % 2 = 0
               /\ (b \div 4) % 2 = 0
               /\ (b \div 8) % 2 = 0
    BY <1>4, Powers DEF Byte
  <2> QED
    BY <1>4, <2>1, Powers DEF Byte
<1>5. CASE n = 5
  <2>1. (\A j \in 0..n - 1 : (b \div 2^j) % 2 = 0) <=>
               /\ b % 2 = 0
               /\ (b \div 2) % 2 = 0
               /\ (b \div 4) % 2 = 0
               /\ (b \div 8) % 2 = 0
               /\ (b \div 16) % 2 = 0
    BY <1>5, Powers DEF Byte
  <2> QED
    BY <1>5, <2>1, Powers DEF Byte
<1>6. CASE n = 6
  <2>1. (\A j \in 0..n - 1 : (b \div 2^j) % 2 = 0) <=>
               /\ b % 2 = 0
               /\ (b \div 2) % 2 = 0
               /\ (b \div 4) % 2 = 0
               /\ (b \div 8) % 2 = 0
               /\ (b \div 16) % 2 = 0
               /\ (b \div 32) % 2 = 0
    BY <1>6, Powers DEF Byte
  <2> QED
    BY <1>6, <2>1, Powers DEF Byte
<1>7. CASE n = 7
  <2>1. (\A j \in 0..n - 1 : (b \div 2^j) % 2 = 0) <=>
               /\ b % 2 = 0
               /\ (b \div 2) % 2 = 0
               /\ (b \div 4) % 2 = 0
               /\ (b \div 8) % 2 = 0
               /\ (b \div 16) % 2 = 0
               /\ (b \div 32) % 2 = 0
               /\ (b \div 64) % 2 = 0
    BY <1>7, Powers DEF Byte
  <2> QED
    BY <1>7, <2>1, Powers DEF Byte
<1>8. CASE n = 8
  <2>1. (\A j \in 0..n - 1 : (b \div 2^j) % 2 = 0) <=>
               /\ b % 2 = 0
               /\ (b \div 2) % 2 = 0
               /\ (b \div 4) % 2 = 0
               /\ (b \div 8) % 2 = 0
               /\ (b \div 16) % 2 = 0
               /\ (b \div 32) % 2 = 0
               /\ (b \div 64) % 2 = 0
               /\ (b \div 128) % 2 = 0
    BY <1>8, Powers DEF Byte
  <2> QED
    BY <1>8, <2>1, Powers DEF Byte
<1> QED
  BY <1>0, <1>1, <1>2, <1>3, <1>4, <1>5, <1>6, <1>7, <1>8

\* The test of the n lowest bits of a digest word, by bytes: "last" is the
\* index of the word's last byte.
LEMMA LowBitsOfWord ==
  ASSUME NEW h \in Hash, NEW n \in 0..32,
         NEW w \in 5..7, NEW last \in {23, 27, 31}, last = 4 * w + 3
  PROVE  LowBitsZero(h, w, n) <=>
           /\ \A i \in 0..(n \div 8) - 1 : h[last - i] = 0
           /\ n % 8 # 0 => h[last - (n \div 8)] % 2^(n % 8) = 0
<1> DEFINE q == n \div 8
           r == n % 8
           byte(i) == h[last - i]
           bit(j) == (byte(j \div 8) \div 2^(j % 8)) % 2 = 0
<1>1. q \in 0..4 /\ r \in 0..7 /\ n = 8 * q + r /\ (r # 0 => q \in 0..3)
  OBVIOUS
<1>2. \A i \in 0..3 : byte(i) \in Byte
  <2> TAKE i \in 0..3
  <2>1. last - i \in ByteIndex
    BY DEF ByteIndex
  <2> QED
    BY <2>1 DEF Hash
<1>3. LowBitsZero(h, w, n) <=> \A j \in 0..n - 1 : bit(j)
  BY DEF LowBitsZero
<1> HIDE DEF byte
<1>4. ASSUME NEW i \in 0..3, NEW k \in 0..8, 8 * i + k <= n
      PROVE  (\A j \in 8 * i..8 * i + k - 1 : bit(j)) <=> byte(i) % 2^k = 0
  <2>1. ASSUME NEW j \in 0..k - 1
        PROVE  bit(8 * i + j) <=> (byte(i) \div 2^j) % 2 = 0
    <3>1. (8 * i + j) \div 8 = i /\ (8 * i + j) % 8 = j
      OBVIOUS
    <3> QED
      BY <3>1
  <2> HIDE DEF bit
  <2>2. (\A j \in 8 * i..8 * i + k - 1 : bit(j)) <=> \A j \in 0..k - 1 : bit(8 * i + j)
    <3>1. ASSUME \A j \in 0..k - 1 : bit(8 * i + j), NEW j \in 8 * i..8 * i + k - 1
          PROVE  bit(j)
      <4>1. j - 8 * i \in 0..k - 1 /\ 8 * i + (j - 8 * i) = j
        OBVIOUS
      <4> QED
        BY <3>1, <4>1
    <3>2. ASSUME \A j \in 8 * i..8 * i + k - 1 : bit(j), NEW j \in 0..k - 1
          PROVE  bit(8 * i + j)
      BY <3>2
    <3> QED
      BY <3>1, <3>2
  <2>3. (\A j \in 0..k - 1 : bit(8 * i + j)) <=> \A j \in 0..k - 1 : (byte(i) \div 2^j) % 2 = 0
    BY <2>1
  <2> QED
    BY <1>2, <2>2, <2>3, LowBitsOfByte
<1> HIDE DEF q, r, bit
<1>5. (\A j \in 0..n - 1 : bit(j)) <=>
        /\ \A i \in 0..q - 1 : \A j \in 8 * i..8 * i + 7 : bit(j)
        /\ \A j \in 8 * q..8 * q + r - 1 : bit(j)
  <2>1. ASSUME NEW j \in 0..n - 1
        PROVE  \/ j \div 8 \in 0..q - 1 /\ j \in 8 * (j \div 8)..8 * (j \div 8) + 7
               \/ j \in 8 * q..8 * q + r - 1
    BY <1>1
  <2>2. ASSUME NEW i \in 0..q - 1, NEW j \in 8 * i..8 * i + 7 PROVE j \in 0..n - 1
    BY <1>1
  <2>3. ASSUME NEW j \in 8 * q..8 * q + r - 1 PROVE j \in 0..n - 1
    BY <1>1
  <2> QED
    BY <2>1, <2>2, <2>3
<1>6. ASSUME NEW i \in 0..q - 1
      PROVE  (\A j \in 8 * i..8 * i + 7 : bit(j)) <=> byte(i) = 0
  <2>1. i \in 0..3 /\ 8 * i + 8 <= n
    BY <1>1
  <2>2. (\A j \in 8 * i..8 * i + 8 - 1 : bit(j)) <=> byte(i) % 2^8 = 0
    BY <1>4, <2>1
  <2>3. byte(i) % 2^8 = 0 <=> byte(i) = 0
    BY <1>2, <2>1, Powers DEF Byte
  <2> QED
    BY <2>2, <2>3
<1>7. (\A j \in 8 * q..8 * q + r - 1 : bit(j)) <=> (r # 0 => byte(q) % 2^r = 0)
  <2>1. CASE r = 0
    BY <1>1, <2>1
  <2>2. CASE r # 0
    <3>1. q \in 0..3 /\ r \in 0..8 /\ 8 * q + r <= n
      BY <1>1, <2>2
    <3>2. (\A j \in 8 * q..8 * q + r - 1 : bit(j)) <=> byte(q) % 2^r = 0
      BY <1>4, <3>1
    <3> QED
      BY <2>2, <3>2
  <2> QED
    BY <2>1, <2>2
<1>8. LowBitsZero(h, w, n) <=>
        (\A i \in 0..q - 1 : byte(i) = 0) /\ (r # 0 => byte(q) % 2^r = 0)
  BY <1>3, <1>5, <1>6, <1>7
<1> QED
  BY <1>8 DEF q, r, byte

\* A rest of no bits asks nothing of the byte before the zero bytes.
LEMMA NoBitsNoTest ==
  ASSUME NEW h \in Hash, NEW d \in Difficulties
  PROVE  BitRule(h, d) <=>
           /\ LastBytesZero(h, d \div 8)
           /\ d % 8 # 0 => h[31 - (d \div 8)] % 2^(d % 8) = 0
<1>1. 31 - (d \div 8) \in ByteIndex
  BY WholeBytesAndRest DEF ByteIndex
<1>2. ASSUME d % 8 = 0
      PROVE  h[31 - (d \div 8)] % 2^(d % 8) = 0
  <2>1. h[31 - (d \div 8)] \in 0..255
    BY <1>1 DEF Hash, Byte
  <2> DEFINE b == h[31 - (d \div 8)]
  <2> HIDE DEF b
  <2>2. b % 2^0 = 0
    BY <2>1, Powers DEF b
  <2> QED
    BY <1>2, <2>2 DEF b
<1> QED
  BY <1>2 DEF BitRule

\* The CUDA and Metal kernels, word by word, test BitRule.
LEMMA KernelIsBitRule ==
  ASSUME NEW h \in Hash, NEW d \in Difficulties
  PROVE  HasTrailingZeroBits(h, d) <=> BitRule(h, d)
<1> DEFINE q == d \div 8
           r == d % 8
<1>1. q \in 0..10 /\ r \in 0..7 /\ d = 8 * q + r
  BY WholeBytesAndRest
<1>2. BitRule(h, d) <=> LastBytesZero(h, q) /\ (r # 0 => h[31 - q] % 2^r = 0)
  BY NoBitsNoTest
<1>3. LowBitsZero(h, 7, 32) <=> \A i \in 0..3 : h[31 - i] = 0
  <2>1. 32 \div 8 = 4 /\ 32 % 8 = 0 /\ 31 = 4 * 7 + 3
    OBVIOUS
  <2> QED
    BY <2>1, LowBitsOfWord
<1>4. LowBitsZero(h, 6, 32) <=> \A i \in 0..3 : h[27 - i] = 0
  <2>1. 32 \div 8 = 4 /\ 32 % 8 = 0 /\ 27 = 4 * 6 + 3
    OBVIOUS
  <2> QED
    BY <2>1, LowBitsOfWord
<1>5. CASE d <= 32
  <2>1. d \in 0..32 /\ 7 \in 5..7 /\ 31 = 4 * 7 + 3
    BY <1>5 DEF Difficulties
  <2>2. LowBitsZero(h, 7, d) <=>
          (\A i \in 0..q - 1 : h[31 - i] = 0) /\ (r # 0 => h[31 - q] % 2^r = 0)
    BY <2>1, LowBitsOfWord
  <2> QED
    BY <1>2, <1>5, <2>2 DEF HasTrailingZeroBits, LastBytesZero
<1>6. CASE d > 32 /\ d <= 64
  <2>1. d - 32 \in 0..32 /\ 6 \in 5..7 /\ 27 = 4 * 6 + 3
    BY <1>6 DEF Difficulties
  <2>2. (d - 32) \div 8 = q - 4 /\ (d - 32) % 8 = r /\ q >= 4
    BY <1>6 DEF Difficulties
  <2>3. LowBitsZero(h, 6, d - 32) <=>
          /\ \A i \in 0..q - 4 - 1 : h[27 - i] = 0
          /\ r # 0 => h[31 - q] % 2^r = 0
    <3> DEFINE n == d - 32
    <3>1. n \in 0..32 /\ n \div 8 = q - 4 /\ n % 8 = r
      BY <2>1, <2>2
    <3> HIDE DEF n, q, r
    <3>2. LowBitsZero(h, 6, n) <=>
            /\ \A i \in 0..(n \div 8) - 1 : h[27 - i] = 0
            /\ n % 8 # 0 => h[27 - (n \div 8)] % 2^(n % 8) = 0
      BY <2>1, <3>1, LowBitsOfWord
    <3>3. 27 - (q - 4) = 31 - q
      BY <1>1
    <3> QED
      BY <3>1, <3>2, <3>3 DEF n
  <2> HIDE DEF q, r
  <2>4. LastBytesZero(h, q) <=>
          (\A i \in 0..3 : h[31 - i] = 0) /\ (\A i \in 0..q - 4 - 1 : h[27 - i] = 0)
    <3>1. ASSUME NEW i \in 0..q - 1, i > 3
          PROVE  i - 4 \in 0..q - 4 - 1 /\ 31 - i = 27 - (i - 4)
      BY <1>1, <2>2, <3>1
    <3>2. ASSUME NEW i \in 0..q - 4 - 1
          PROVE  i + 4 \in 0..q - 1 /\ 31 - (i + 4) = 27 - i
      BY <1>1, <2>2
    <3>3. ASSUME NEW i \in 0..3 PROVE i \in 0..q - 1
      BY <1>1, <2>2
    <3>4. ASSUME LastBytesZero(h, q)
          PROVE  (\A i \in 0..3 : h[31 - i] = 0) /\ (\A i \in 0..q - 4 - 1 : h[27 - i] = 0)
      BY <3>2, <3>3, <3>4 DEF LastBytesZero
    <3>5. ASSUME \A i \in 0..3 : h[31 - i] = 0,
                 \A i \in 0..q - 4 - 1 : h[27 - i] = 0,
                 NEW i \in 0..q - 1
          PROVE  h[31 - i] = 0
      <4>1. CASE i > 3
        BY <3>1, <3>5, <4>1
      <4>2. CASE i <= 3
        BY <3>5, <4>2
      <4> QED
        BY <4>1, <4>2, <1>1
    <3> QED
      BY <3>4, <3>5 DEF LastBytesZero
  <2>5. HasTrailingZeroBits(h, d) <=> LowBitsZero(h, 7, 32) /\ LowBitsZero(h, 6, d - 32)
    BY <1>6 DEF HasTrailingZeroBits, Difficulties
  <2> QED
    BY <1>2, <1>3, <2>3, <2>4, <2>5
<1>7. CASE d > 64
  <2>1. d - 64 \in 0..32 /\ 5 \in 5..7 /\ 23 = 4 * 5 + 3
    BY <1>7 DEF Difficulties
  <2>2. (d - 64) \div 8 = q - 8 /\ (d - 64) % 8 = r /\ q >= 8
    BY <1>7 DEF Difficulties
  <2>3. LowBitsZero(h, 5, d - 64) <=>
          /\ \A i \in 0..q - 8 - 1 : h[23 - i] = 0
          /\ r # 0 => h[31 - q] % 2^r = 0
    <3> DEFINE n == d - 64
    <3>1. n \in 0..32 /\ n \div 8 = q - 8 /\ n % 8 = r
      BY <2>1, <2>2
    <3> HIDE DEF n, q, r
    <3>2. LowBitsZero(h, 5, n) <=>
            /\ \A i \in 0..(n \div 8) - 1 : h[23 - i] = 0
            /\ n % 8 # 0 => h[23 - (n \div 8)] % 2^(n % 8) = 0
      BY <2>1, <3>1, LowBitsOfWord
    <3>3. 23 - (q - 8) = 31 - q
      BY <1>1
    <3> QED
      BY <3>1, <3>2, <3>3 DEF n
  <2> HIDE DEF q, r
  <2>4. LastBytesZero(h, q) <=>
          /\ \A i \in 0..3 : h[31 - i] = 0
          /\ \A i \in 0..3 : h[27 - i] = 0
          /\ \A i \in 0..q - 8 - 1 : h[23 - i] = 0
    <3>1. ASSUME NEW i \in 0..q - 1, i > 7
          PROVE  i - 8 \in 0..q - 8 - 1 /\ 31 - i = 23 - (i - 8)
      BY <1>1, <2>2, <3>1
    <3>2. ASSUME NEW i \in 0..q - 1, i > 3, i <= 7
          PROVE  i - 4 \in 0..3 /\ 31 - i = 27 - (i - 4)
      BY <1>1, <3>2
    <3>3. ASSUME NEW i \in 0..q - 8 - 1
          PROVE  i + 8 \in 0..q - 1 /\ 31 - (i + 8) = 23 - i
      BY <1>1, <2>2
    <3>4. ASSUME NEW i \in 0..3
          PROVE  i \in 0..q - 1 /\ i + 4 \in 0..q - 1 /\ 31 - (i + 4) = 27 - i
      BY <1>1, <2>2
    <3>5. ASSUME LastBytesZero(h, q)
          PROVE  /\ \A i \in 0..3 : h[31 - i] = 0
                 /\ \A i \in 0..3 : h[27 - i] = 0
                 /\ \A i \in 0..q - 8 - 1 : h[23 - i] = 0
      BY <3>3, <3>4, <3>5 DEF LastBytesZero
    <3>6. ASSUME /\ \A i \in 0..3 : h[31 - i] = 0
                 /\ \A i \in 0..3 : h[27 - i] = 0
                 /\ \A i \in 0..q - 8 - 1 : h[23 - i] = 0,
                 NEW i \in 0..q - 1
          PROVE  h[31 - i] = 0
      <4>1. CASE i > 7
        BY <3>1, <3>6, <4>1
      <4>2. CASE i > 3 /\ i <= 7
        BY <3>2, <3>6, <4>2
      <4>3. CASE i <= 3
        BY <3>6, <4>3
      <4> QED
        BY <4>1, <4>2, <4>3, <1>1
    <3> QED
      BY <3>5, <3>6 DEF LastBytesZero
  <2>5. HasTrailingZeroBits(h, d) <=>
          LowBitsZero(h, 7, 32) /\ LowBitsZero(h, 6, 32) /\ LowBitsZero(h, 5, d - 64)
    BY <1>7 DEF HasTrailingZeroBits, Difficulties
  <2> QED
    BY <1>2, <1>3, <1>4, <2>3, <2>4, <2>5
<1> QED
  BY <1>5, <1>6, <1>7 DEF Difficulties

\* The tests generated for WebGPU are the words of the other kernels.
LEMMA GeneratedTestsAreTheKernels ==
  ASSUME NEW h \in Hash, NEW d \in Difficulties
  PROVE  HasTrailingDifficulty(h, d) <=> HasTrailingZeroBits(h, d)
<1> DEFINE bits(k) == IF d - 32 * k >= 32 THEN 32 ELSE d - 32 * k
<1>1. HasTrailingDifficulty(h, d) <=>
        \A k \in 0..2 : d - 32 * k > 0 => LowBitsZero(h, 7 - k, bits(k))
  <2>1. ASSUME HasTrailingDifficulty(h, d), NEW k \in 0..2, d - 32 * k > 0
        PROVE  LowBitsZero(h, 7 - k, bits(k))
    <3>1. <<7 - k, bits(k)>> \in WebGPUDifficultyCheck(d)
      BY <2>1 DEF WebGPUDifficultyCheck
    <3> QED
      BY <2>1, <3>1 DEF HasTrailingDifficulty
  <2>2. ASSUME \A k \in 0..2 : d - 32 * k > 0 => LowBitsZero(h, 7 - k, bits(k)),
               NEW test \in WebGPUDifficultyCheck(d)
        PROVE  LowBitsZero(h, test[1], test[2])
    <3>1. PICK k \in 0..2 : d - 32 * k > 0 /\ test = <<7 - k, bits(k)>>
      BY DEF WebGPUDifficultyCheck
    <3> QED
      BY <2>2, <3>1
  <2> QED
    BY <2>1, <2>2 DEF HasTrailingDifficulty
<1>2. HasTrailingDifficulty(h, d) <=>
        /\ d > 0 => LowBitsZero(h, 7, bits(0))
        /\ d > 32 => LowBitsZero(h, 6, bits(1))
        /\ d > 64 => LowBitsZero(h, 5, bits(2))
  BY <1>1 DEF Difficulties
<1>3. d = 0 => LowBitsZero(h, 7, d)
  BY DEF LowBitsZero
<1> QED
  BY <1>2, <1>3 DEF HasTrailingZeroBits, Difficulties

\* A set of byte indices that is not empty has a largest one.
LEMMA LargestIndex ==
  ASSUME NEW S \in SUBSET ByteIndex, S # {}
  PROVE  Max(S) \in S /\ \A y \in S : y <= Max(S)
<1> DEFINE T == {n \in Nat : 31 - n \in S}
<1>1. T \subseteq Nat /\ T # {}
  <2>1. PICK x \in S : x \in 0..31
    BY DEF ByteIndex
  <2>2. 31 - x \in T
    BY <2>1
  <2> QED
    BY <2>2
<1>2. \E n \in T : \A m \in T : ~ (<<m, n>> \in OpToRel(<, Nat))
  BY <1>1, WFMin, NatLessThanWellFounded
<1>3. PICK n \in T : \A m \in T : ~(m < n)
  BY <1>2 DEF OpToRel
<1>4. ASSUME NEW y \in S PROVE y <= 31 - n
  <2>1. y \in 0..31 /\ 31 - (31 - y) = y
    BY DEF ByteIndex
  <2>2. 31 - y \in T
    BY <2>1
  <2>3. ~(31 - y < n) /\ n \in Nat
    BY <1>3, <2>2
  <2> QED
    BY <2>1, <2>3
<1>5. 31 - n \in S
  OBVIOUS
<1>6. \E x \in S : \A y \in S : x >= y
  <2>1. \A y \in S : 31 - n >= y
    BY <1>4, <1>5 DEF ByteIndex
  <2> QED
    BY <1>5, <2>1
<1>7. Max(S) \in S /\ \A y \in S : Max(S) >= y
  BY <1>6 DEF Max
<1> QED
  BY <1>7 DEF ByteIndex

\* What CHOOSE finds: bits.TrailingZeros8 of a byte that is not zero.
LEMMA TrailingZerosOfByte ==
  ASSUME NEW b \in Byte, b # 0
  PROVE  /\ TrailingZeros8(b) \in 0..7
         /\ b % 2^TrailingZeros8(b) = 0
         /\ b % 2^(TrailingZeros8(b) + 1) # 0
<1>1. \E n \in 0..7 : b % 2^n = 0 /\ b % 2^(n + 1) # 0
  <2>1. b % 2^0 = 0 /\ b % 2^8 # 0
    BY Powers DEF Byte
  <2>2. \/ b % 2^0 = 0 /\ b % 2^1 # 0
        \/ b % 2^1 = 0 /\ b % 2^2 # 0
        \/ b % 2^2 = 0 /\ b % 2^3 # 0
        \/ b % 2^3 = 0 /\ b % 2^4 # 0
        \/ b % 2^4 = 0 /\ b % 2^5 # 0
        \/ b % 2^5 = 0 /\ b % 2^6 # 0
        \/ b % 2^6 = 0 /\ b % 2^7 # 0
        \/ b % 2^7 = 0 /\ b % 2^8 # 0
    BY <2>1, Zenon
  <2> QED
    BY <2>2
<1> QED
  BY <1>1 DEF TrailingZeros8

\* No bits of a zero byte are set.
LEMMA ZeroByte == \A k \in 0..8 : 0 % 2^k = 0
<1> SUFFICES ASSUME NEW k \in 0..8 PROVE 0 % 2^k = 0
  OBVIOUS
<1>0. CASE k = 0
  BY <1>0, Powers
<1>1. CASE k = 1
  BY <1>1, Powers
<1>2. CASE k = 2
  BY <1>2, Powers
<1>3. CASE k = 3
  BY <1>3, Powers
<1>4. CASE k = 4
  BY <1>4, Powers
<1>5. CASE k = 5
  BY <1>5, Powers
<1>6. CASE k = 6
  BY <1>6, Powers
<1>7. CASE k = 7
  BY <1>7, Powers
<1>8. CASE k = 8
  BY <1>8, Powers
<1> QED
  BY <1>0, <1>1, <1>2, <1>3, <1>4, <1>5, <1>6, <1>7, <1>8

\* 2^k divides a byte exactly when it has at least k zero bits at its end.
LEMMA EnoughTrailingZeros ==
  ASSUME NEW b \in Byte, b # 0, NEW k \in 0..7
  PROVE  TrailingZeros8(b) >= k <=> b % 2^k = 0
<1> DEFINE t == TrailingZeros8(b)
           D(n) == b % 2^n = 0
<1>1. t \in 0..7 /\ D(t) /\ ~D(t + 1)
  BY TrailingZerosOfByte
<1>2. /\ D(0) /\ (D(2) => D(1)) /\ (D(3) => D(2)) /\ (D(4) => D(3))
      /\ (D(5) => D(4)) /\ (D(6) => D(5)) /\ (D(7) => D(6)) /\ (D(8) => D(7))
  BY Powers DEF Byte
<1> SUFFICES t >= k <=> D(k)
  OBVIOUS
<1> HIDE DEF t, D
<1>3. k = 0 \/ k = 1 \/ k = 2 \/ k = 3 \/ k = 4 \/ k = 5 \/ k = 6 \/ k = 7
  OBVIOUS
<1>4. CASE t = 0
  <2>1. D(0) /\ ~D(1)
    BY <1>1, <1>4 DEF D
  <2> QED
    BY <1>2, <1>3, <1>4, <2>1
<1>5. CASE t = 1
  <2>1. D(1) /\ ~D(2)
    BY <1>1, <1>5 DEF D
  <2> QED
    BY <1>2, <1>3, <1>5, <2>1
<1>6. CASE t = 2
  <2>1. D(2) /\ ~D(3)
    BY <1>1, <1>6 DEF D
  <2> QED
    BY <1>2, <1>3, <1>6, <2>1
<1>7. CASE t = 3
  <2>1. D(3) /\ ~D(4)
    BY <1>1, <1>7 DEF D
  <2> QED
    BY <1>2, <1>3, <1>7, <2>1
<1>8. CASE t = 4
  <2>1. D(4) /\ ~D(5)
    BY <1>1, <1>8 DEF D
  <2> QED
    BY <1>2, <1>3, <1>8, <2>1
<1>9. CASE t = 5
  <2>1. D(5) /\ ~D(6)
    BY <1>1, <1>9 DEF D
  <2> QED
    BY <1>2, <1>3, <1>9, <2>1
<1>10. CASE t = 6
  <2>1. D(6) /\ ~D(7)
    BY <1>1, <1>10 DEF D
  <2> QED
    BY <1>2, <1>3, <1>10, <2>1
<1>11. CASE t = 7
  <2>1. D(7) /\ ~D(8)
    BY <1>1, <1>11 DEF D
  <2> QED
    BY <1>2, <1>3, <1>11, <2>1
<1> QED
  BY <1>1, <1>4, <1>5, <1>6, <1>7, <1>8, <1>9, <1>10, <1>11

\* Verify, which counts the zero bits of the whole hash, is BitRule.
LEMMA VerifyIsBitRule ==
  ASSUME NEW h \in Hash, NEW d \in Difficulties
  PROVE  Verify(h, d) <=> BitRule(h, d)
<1> DEFINE q == d \div 8
           r == d % 8
           nonZero == {i \in ByteIndex : h[i] # 0}
           m == Max(nonZero)
<1>1. q \in 0..10 /\ r \in 0..7 /\ d = 8 * q + r /\ 31 - q \in ByteIndex
  BY WholeBytesAndRest DEF ByteIndex
<1>2. CASE nonZero = {}
  <2>1. \A i \in ByteIndex : h[i] = 0
    BY <1>2
  <2>2. TrailingZeroBits(h) = 256
    BY <1>2 DEF TrailingZeroBits
  <2>3. LastBytesZero(h, q)
    BY <1>1, <2>1 DEF LastBytesZero, ByteIndex
  <2>4. r # 0 => h[31 - q] % 2^r = 0
    <3>1. h[31 - q] = 0
      BY <1>1, <2>1
    <3> HIDE DEF r, q
    <3>2. r \in 0..8
      BY <1>1
    <3> QED
      BY <3>1, <3>2, ZeroByte
  <2>5. BitRule(h, d)
    BY <2>3, <2>4, NoBitsNoTest
  <2>6. Verify(h, d)
    BY <2>2 DEF Verify, Difficulties
  <2> QED
    BY <2>5, <2>6
<1>3. CASE nonZero # {}
  <2>1. m \in ByteIndex /\ h[m] # 0 /\ h[m] \in Byte /\ \A i \in ByteIndex : i > m => h[i] = 0
    <3>1. m \in nonZero /\ \A i \in nonZero : i <= m
      BY <1>3, LargestIndex
    <3>2. m \in ByteIndex /\ h[m] # 0
      BY <3>1
    <3>3. ASSUME NEW i \in ByteIndex, i > m PROVE h[i] = 0
      BY <3>1, <3>2, <3>3 DEF ByteIndex
    <3> QED
      BY <3>2, <3>3 DEF Hash
  <2>2. TrailingZeroBits(h) = 8 * (31 - m) + TrailingZeros8(h[m])
    BY <1>3 DEF TrailingZeroBits
  <2>3. TrailingZeros8(h[m]) \in 0..7
    BY <2>1, TrailingZerosOfByte
  <2> HIDE DEF m, q, r
  <2>4. BitRule(h, d) <=> LastBytesZero(h, q) /\ (r # 0 => h[31 - q] % 2^r = 0)
    BY NoBitsNoTest DEF q, r
  <2>5. CASE 31 - m < q
    <3>1. ~LastBytesZero(h, q)
      <4>1. 31 - m \in 0..q - 1 /\ 31 - (31 - m) = m
        BY <1>1, <2>1, <2>5 DEF ByteIndex
      <4> QED
        BY <2>1, <4>1 DEF LastBytesZero
    <3>2. ~Verify(h, d)
      BY <1>1, <2>1, <2>2, <2>3, <2>5 DEF Verify, ByteIndex
    <3> QED
      BY <2>4, <3>1, <3>2
  <2>6. CASE 31 - m >= q
    <3>1. LastBytesZero(h, q)
      <4> SUFFICES ASSUME NEW i \in 0..q - 1 PROVE h[31 - i] = 0
        BY DEF LastBytesZero
      <4>1. 31 - i \in ByteIndex /\ 31 - i > m
        BY <1>1, <2>1, <2>6 DEF ByteIndex
      <4> QED
        BY <2>1, <4>1
    <3>2. CASE 31 - m > q
      <4>1. h[31 - q] = 0
        BY <1>1, <2>1, <3>2 DEF ByteIndex
      <4>2. r \in 0..8
        BY <1>1
      <4>3. h[31 - q] % 2^r = 0
        BY <4>1, <4>2, ZeroByte
      <4>4. Verify(h, d)
        BY <1>1, <2>1, <2>2, <2>3, <3>2 DEF Verify, ByteIndex
      <4> QED
        BY <2>4, <3>1, <4>3, <4>4
    <3>3. CASE 31 - m = q
      <4>1. m = 31 - q
        BY <1>1, <2>1, <3>3 DEF ByteIndex
      <4>2. Verify(h, d) <=> TrailingZeros8(h[m]) >= r
        BY <1>1, <2>1, <2>2, <2>3, <3>3 DEF Verify, ByteIndex
      <4>3. TrailingZeros8(h[m]) >= r <=> h[m] % 2^r = 0
        BY <1>1, <2>1, EnoughTrailingZeros
      <4>4. r = 0 => h[m] % 2^r = 0
        BY <2>3, <4>3
      <4> QED
        BY <2>4, <3>1, <4>1, <4>2, <4>3, <4>4
    <3> QED
      BY <1>1, <2>1, <2>6, <3>2, <3>3 DEF ByteIndex
  <2> QED
    BY <1>1, <2>1, <2>5, <2>6 DEF ByteIndex
<1> QED
  BY <1>2, <1>3

\* A mantissa of at most seven bits is not cut.
LEMMA MantissaFits == \A k \in 0..7 : 2^k % 256 = 2^k
<1> SUFFICES ASSUME NEW k \in 0..7 PROVE 2^k % 256 = 2^k
  OBVIOUS
<1>0. CASE k = 0
  BY <1>0, Powers
<1>1. CASE k = 1
  BY <1>1, Powers
<1>2. CASE k = 2
  BY <1>2, Powers
<1>3. CASE k = 3
  BY <1>3, Powers
<1>4. CASE k = 4
  BY <1>4, Powers
<1>5. CASE k = 5
  BY <1>5, Powers
<1>6. CASE k = 6
  BY <1>6, Powers
<1>7. CASE k = 7
  BY <1>7, Powers
<1> QED
  BY <1>0, <1>1, <1>2, <1>3, <1>4, <1>5, <1>6, <1>7

\* The mantissa and the exponent fakeHeader writes for q whole bytes and r bits.
LEMMA HeaderTarget ==
  ASSUME NEW d \in Difficulties
  PROVE  /\ d % 8 = 0 => TargetMantissa(d) = 1 /\ TargetExponent(d) = 35 - (d \div 8)
         /\ d % 8 # 0 => /\ TargetMantissa(d) = 2^(8 - (d % 8))
                         /\ TargetExponent(d) = 34 - (d \div 8)
<1> DEFINE q == d \div 8
           r == d % 8
<1>1. q \in 0..10 /\ r \in 0..7 /\ d = 8 * q + r
  BY WholeBytesAndRest
<1> HIDE DEF q, r
<1>2. CASE r = 0
  <2>1. 280 - d = 8 * (35 - q)
    BY <1>1, <1>2
  <2>2. (280 - d) % 8 = 0 /\ (280 - d) \div 8 = 35 - q
    BY <1>1, <2>1
  <2>3. (35 - q) % 256 = 35 - q
    BY <1>1
  <2>4. 2^0 % 256 = 1
    BY Powers
  <2>5. TargetMantissa(d) = 1 /\ TargetExponent(d) = 35 - q
    BY <2>2, <2>3, <2>4 DEF TargetMantissa, TargetExponent
  <2> QED
    BY <1>2, <2>5 DEF q, r
<1>3. CASE r # 0
  <2>1. 280 - d = 8 * (34 - q) + (8 - r) /\ 8 - r \in 1..7
    BY <1>1, <1>3
  <2>2. (280 - d) % 8 = 8 - r /\ (280 - d) \div 8 = 34 - q
    BY <1>1, <2>1
  <2>3. (34 - q) % 256 = 34 - q
    BY <1>1
  <2>4. 2^(8 - r) % 256 = 2^(8 - r)
    <3>1. 8 - r \in 0..7
      BY <2>1
    <3> QED
      BY <3>1, MantissaFits
  <2> QED
    BY <1>3, <2>2, <2>3, <2>4 DEF TargetMantissa, TargetExponent, q, r
<1> QED
  BY <1>2, <1>3 DEF q, r

\* validPowHash is the comparison with the target of the header.
LEMMA ValidIsBelowTarget ==
  ASSUME NEW h \in Hash, NEW d \in Difficulties
  PROVE  LET e == TargetExponent(d) - 3
         IN  ValidPowHash(h, d) <=>
               /\ \A i \in ByteIndex : i > e => h[i] = 0
               /\ e \in ByteIndex => h[e] < TargetMantissa(d)
<1> DEFINE q == d \div 8
           r == d % 8
           e == TargetExponent(d) - 3
<1>1. q \in 0..10 /\ r \in 0..7 /\ (r # 0 => q \in 0..9)
  BY WholeBytesAndRest
<1>2. ValidPowHash(h, d) <=> LastBytesZero(h, q) /\ (r # 0 => h[31 - q] < 2^(8 - r))
  BY DEF ValidPowHash, LastBytesZero
<1> HIDE DEF q, r
<1>3. LastBytesZero(h, q) <=> \A i \in ByteIndex : i > 31 - q => h[i] = 0
  <2>1. ASSUME NEW i \in ByteIndex, i > 31 - q
        PROVE  31 - i \in 0..q - 1 /\ 31 - (31 - i) = i
    BY <1>1, <2>1 DEF ByteIndex
  <2>2. ASSUME NEW i \in 0..q - 1
        PROVE  31 - i \in ByteIndex /\ 31 - i > 31 - q
    BY <1>1 DEF ByteIndex
  <2> QED
    BY <2>1, <2>2 DEF LastBytesZero
<1>4. CASE r # 0
  <2>1. e = 31 - q /\ e \in ByteIndex /\ TargetMantissa(d) = 2^(8 - r)
    BY <1>1, <1>4, HeaderTarget DEF q, r, ByteIndex
  <2> HIDE DEF e
  <2>2. ValidPowHash(h, d) <=>
          (\A i \in ByteIndex : i > e => h[i] = 0) /\ (e \in ByteIndex => h[e] < TargetMantissa(d))
    BY <1>2, <1>3, <1>4, <2>1
  <2> QED
    BY <2>2 DEF e
<1>5. CASE r = 0
  <2>1. e = 32 - q /\ TargetMantissa(d) = 1
    BY <1>1, <1>5, HeaderTarget DEF q, r
  <2> HIDE DEF e
  <2>2. e \in ByteIndex => (h[e] < TargetMantissa(d) <=> h[e] = 0)
    BY <2>1 DEF Hash, Byte
  <2>3. \A i \in ByteIndex : i > 31 - q <=> i > e \/ i = e
    BY <1>1, <2>1 DEF ByteIndex
  <2>4. ValidPowHash(h, d) <=>
          (\A i \in ByteIndex : i > e => h[i] = 0) /\ (e \in ByteIndex => h[e] < TargetMantissa(d))
    BY <1>2, <1>3, <1>5, <2>2, <2>3
  <2> QED
    BY <2>4 DEF e
<1> QED
  BY <1>4, <1>5

\* The zero bytes the script appends and the bound it sets on hA are the q and
\* the r of the difficulty it is given.
LEMMA ScriptCountsTheSame ==
  ASSUME NEW d \in Difficulties, ScriptDifficultyInRange(d)
  PROVE  /\ ScriptZeroBytes(d - 16) = d \div 8
         /\ ScriptThreshold(d - 16) = 2^(8 - (d % 8))
<1>1. d \in 16..79
  BY DEF ScriptDifficultyInRange, Difficulties
<1>2. (d - 16) % 8 = d % 8
  BY <1>1
<1>3. ScriptZeroBytes(d - 16) = d \div 8
  BY <1>1 DEF ScriptZeroBytes
<1> QED
  BY <1>2, <1>3 DEF ScriptThreshold

\* The hash as the script's HASH256 sees it.
AsSequence(h) == [i \in 1..32 |-> h[i - 1]]

\* What splitPowWitness leaves for the script to append is q zero bytes.
LEMMA RebuiltIsHash ==
  ASSUME NEW h \in Hash, NEW q \in 0..10,
         NEW prefix \in [1..31 - q -> Byte], \A i \in 1..31 - q : prefix[i] = h[i - 1],
         NEW boundary \in Byte, boundary = h[31 - q],
         NEW zeros \in [1..q -> Byte], \A i \in 1..q : zeros[i] = 0
  PROVE  prefix \o <<boundary>> \o zeros = AsSequence(h) <=> LastBytesZero(h, q)
<1> DEFINE rebuilt == prefix \o <<boundary>> \o zeros
           original == AsSequence(h)
<1>1. \A i \in ByteIndex : h[i] \in Byte
  BY DEF Hash
<1>2. prefix \in Seq(Byte) /\ Len(prefix) = 31 - q /\ \A i \in 1..31 - q : prefix[i] = h[i - 1]
  <2>1. 31 - q \in Nat
    OBVIOUS
  <2> QED
    BY <2>1
<1>3. <<boundary>> \in Seq(Byte) /\ Len(<<boundary>>) = 1 /\ <<boundary>>[1] = h[31 - q]
  OBVIOUS
<1>4. zeros \in Seq(Byte) /\ Len(zeros) = q /\ \A i \in 1..q : zeros[i] = 0
  OBVIOUS
<1>5. /\ prefix \o <<boundary>> \in Seq(Byte)
      /\ Len(prefix \o <<boundary>>) = 32 - q
      /\ \A i \in 1..31 - q : (prefix \o <<boundary>>)[i] = h[i - 1]
      /\ (prefix \o <<boundary>>)[32 - q] = h[31 - q]
  <2>1. \A i \in 1..32 - q : (prefix \o <<boundary>>)[i] =
          IF i <= 31 - q THEN prefix[i] ELSE <<boundary>>[i - (31 - q)]
    BY <1>2, <1>3, ConcatProperties
  <2>2. prefix \o <<boundary>> \in Seq(Byte) /\ Len(prefix \o <<boundary>>) = 32 - q
    BY <1>2, <1>3, ConcatProperties
  <2>3. \A i \in 1..31 - q : (prefix \o <<boundary>>)[i] = h[i - 1]
    <3> SUFFICES ASSUME NEW i \in 1..31 - q PROVE (prefix \o <<boundary>>)[i] = h[i - 1]
      OBVIOUS
    <3>1. i \in 1..32 - q /\ i <= 31 - q
      OBVIOUS
    <3>2. (prefix \o <<boundary>>)[i] = prefix[i]
      BY <2>1, <3>1
    <3> QED
      BY <1>2, <3>2
  <2>4. 32 - q \in 1..32 - q /\ ~(32 - q <= 31 - q) /\ 32 - q - (31 - q) = 1
    OBVIOUS
  <2>5. (prefix \o <<boundary>>)[32 - q] = h[31 - q]
    BY <1>3, <2>1, <2>4
  <2> QED
    BY <2>2, <2>3, <2>5
<1>6. \A i \in 1..32 - q : (prefix \o <<boundary>>)[i] = h[i - 1]
  <2> SUFFICES ASSUME NEW i \in 1..32 - q PROVE (prefix \o <<boundary>>)[i] = h[i - 1]
    OBVIOUS
  <2>1. CASE i <= 31 - q
    BY <1>5, <2>1
  <2>2. CASE i > 31 - q
    <3>1. i = 32 - q /\ i - 1 = 31 - q
      BY <2>2
    <3> QED
      BY <1>5, <3>1
  <2> QED
    BY <2>1, <2>2
<1>7. /\ rebuilt \in Seq(Byte) /\ Len(rebuilt) = 32
      /\ \A i \in 1..32 - q : rebuilt[i] = h[i - 1]
      /\ \A i \in 33 - q..32 : rebuilt[i] = 0
  <2> DEFINE front == prefix \o <<boundary>>
  <2>1. front \in Seq(Byte) /\ Len(front) = 32 - q /\ \A i \in 1..32 - q : front[i] = h[i - 1]
    BY <1>5, <1>6
  <2> HIDE DEF front
  <2>2. /\ front \o zeros \in Seq(Byte) /\ Len(front \o zeros) = 32
        /\ \A i \in 1..32 : (front \o zeros)[i] =
                               IF i <= 32 - q THEN front[i] ELSE zeros[i - (32 - q)]
    <3>1. Len(front) + Len(zeros) = 32
      BY <1>4, <2>1
    <3>2. /\ front \o zeros \in Seq(Byte) /\ Len(front \o zeros) = Len(front) + Len(zeros)
          /\ \A i \in 1..Len(front) + Len(zeros) : (front \o zeros)[i] =
               IF i <= Len(front) THEN front[i] ELSE zeros[i - Len(front)]
      <4>1. front \in Seq(Byte) /\ zeros \in Seq(Byte)
        BY <1>4, <2>1
      <4> QED
        BY ONLY <4>1, ConcatProperties
    <3>3. Len(front) = 32 - q
      BY <2>1
    <3> QED
      BY <3>1, <3>2, <3>3
  <2>3. \A i \in 1..32 - q : (front \o zeros)[i] = h[i - 1]
    <3> SUFFICES ASSUME NEW i \in 1..32 - q PROVE (front \o zeros)[i] = h[i - 1]
      OBVIOUS
    <3>1. i \in 1..32 /\ i <= 32 - q
      OBVIOUS
    <3>2. (front \o zeros)[i] = front[i]
      BY <2>2, <3>1
    <3> QED
      BY <2>1, <3>2
  <2>4. \A i \in 33 - q..32 : i \in 1..32 /\ ~(i <= 32 - q) /\ i - (32 - q) \in 1..q
    OBVIOUS
  <2>5. \A i \in 33 - q..32 : (front \o zeros)[i] = 0
    <3> SUFFICES ASSUME NEW i \in 33 - q..32 PROVE (front \o zeros)[i] = 0
      OBVIOUS
    <3>1. (front \o zeros)[i] = zeros[i - (32 - q)]
      BY <2>2, <2>4
    <3> QED
      BY <1>4, <2>4, <3>1
  <2> QED
    BY <2>2, <2>3, <2>5 DEF front
<1> HIDE DEF rebuilt
<1> USE DEF AsSequence
<1>8. ASSUME LastBytesZero(h, q) PROVE rebuilt = original
  <2>1. ASSUME NEW i \in 1..32 PROVE rebuilt[i] = h[i - 1]
    <3>1. CASE i <= 32 - q
      BY <1>7, <3>1
    <3>2. CASE i > 32 - q
      <4>1. 32 - i \in 0..q - 1 /\ 31 - (32 - i) = i - 1 /\ i \in 33 - q..32
        BY <3>2
      <4>2. h[31 - (32 - i)] = 0
        BY <1>8, <4>1 DEF LastBytesZero
      <4> QED
        BY <1>7, <4>1, <4>2
    <3> QED
      BY <3>1, <3>2
  <2> QED
    BY <1>7, <2>1
<1>9. ASSUME rebuilt = original PROVE LastBytesZero(h, q)
  <2> SUFFICES ASSUME NEW i \in 0..q - 1 PROVE h[31 - i] = 0
    BY DEF LastBytesZero
  <2>1. 32 - i \in 33 - q..32 /\ 32 - i \in 1..32 /\ (32 - i) - 1 = 31 - i
    OBVIOUS
  <2>2. rebuilt[32 - i] = 0 /\ original[32 - i] = h[31 - i]
    BY <1>7, <2>1
  <2> QED
    BY <1>9, <2>2
<1> QED
  BY <1>8, <1>9 DEF rebuilt

\* The script's check of the witness is splitPowWitness's check of the hash.
LEMMA ScriptIsSplit ==
  ASSUME NEW h \in Hash, NEW d \in Difficulties, ScriptDifficultyInRange(d)
  PROVE  ScriptAcceptsProof(SplitPowWitness(h, d), h) <=> SplitAccepts(h, d)
<1> DEFINE q == d \div 8
           r == d % 8
           w == SplitPowWitness(h, d)
           zeros == [i \in 1..ScriptZeroBytes(w.d - 16) |-> 0]
<1>1. q \in 0..10 /\ r \in 0..7
  BY WholeBytesAndRest
<1>2. w.d = d /\ w.hA = h[31 - q] /\ w.hB = [i \in 1..31 - q |-> h[i - 1]]
  BY DEF SplitPowWitness, SplitIndex
<1>3. zeros = [i \in 1..q |-> 0] /\ ScriptThreshold(w.d - 16) = 2^(8 - r)
  BY <1>2, ScriptCountsTheSame
<1>4. w.hB \o <<w.hA>> \o zeros = [i \in 1..32 |-> h[i - 1]] <=> LastBytesZero(h, q)
  <2> DEFINE prefix == w.hB
             boundary == w.hA
  <2>1. \A i \in ByteIndex : h[i] \in Byte
    BY DEF Hash
  <2> HIDE DEF w, zeros, q
  <2>3. prefix \in [1..31 - q -> Byte] /\ \A i \in 1..31 - q : prefix[i] = h[i - 1]
    <3>1. \A i \in 1..31 - q : i - 1 \in ByteIndex
      BY <1>1 DEF ByteIndex
    <3> QED
      BY <1>2, <2>1, <3>1
  <2>4. boundary \in Byte /\ boundary = h[31 - q]
    <3>1. 31 - q \in ByteIndex
      BY <1>1 DEF ByteIndex
    <3> QED
      BY <1>2, <2>1, <3>1
  <2>5. zeros \in [1..q -> Byte] /\ \A i \in 1..q : zeros[i] = 0
    BY <1>3 DEF Byte
  <2> HIDE DEF prefix, boundary
  <2>6. prefix \o <<boundary>> \o zeros = AsSequence(h) <=> LastBytesZero(h, q)
    BY <1>1, <2>3, <2>4, <2>5, RebuiltIsHash
  <2> QED
    BY <2>6 DEF prefix, boundary, AsSequence
<1>5. ScriptAcceptsProof(w, h) <=> h[31 - q] < 2^(8 - r) /\ LastBytesZero(h, q)
  <2>1. ScriptDifficultyInRange(w.d)
    BY <1>2
  <2> HIDE DEF w, q, r
  <2> QED
    BY <1>2, <1>3, <1>4, <2>1 DEF ScriptAcceptsProof, zeros
<1>6. SplitAccepts(h, d) <=> LastBytesZero(h, q) /\ (r # 0 => h[31 - q] < 2^(8 - r))
  BY <1>1 DEF SplitAccepts, SplitIndex, ValidPowHash, LastBytesZero
<1>7. r = 0 => h[31 - q] < 2^(8 - r)
  <2>1. h[31 - q] \in Byte
    BY <1>1 DEF Hash, ByteIndex
  <2> HIDE DEF q, r
  <2> QED
    BY <2>1, Powers DEF Byte
<1> QED
  BY <1>5, <1>6, <1>7

\* With no bits left over, the two host rules ask for the same zero bytes.
LEMMA RulesMeetAtWholeBytes ==
  ASSUME NEW h \in Hash, NEW d \in Difficulties, d % 8 = 0
  PROVE  Verify(h, d) <=> ValidPowHash(h, d)
BY VerifyIsBitRule, NoBitsNoTest DEF ValidPowHash, LastBytesZero

(***************************************************************************)
(* The sweep's properties hold of every hash, sampled or not.              *)
(***************************************************************************)

HashInv == hash \in Hash /\ diff \in Difficulties

\* The sweep stays among the 32-byte hashes and the difficulties up to 80.
LEMMA HashInvariant == HashSpec => []HashInv
<1>1. HashInit => HashInv
  <2> SUFFICES ASSUME HashInit PROVE HashInv
    OBVIOUS
  <2>1. PICK k \in 19..31, b \in BoundaryBytes, filler \in Fillers : hash = SampleHash(k, b, filler)
    BY DEF HashInit
  <2>2. b \in Byte /\ filler \in Byte /\ 0 \in Byte
    BY SamplesAssumption DEF Byte
  <2> QED
    BY <2>1, <2>2 DEF HashInit, HashInv, SampleHash, Hash, Difficulties
<1>2. HashInv /\ [HashNext]_hashVars => HashInv'
  BY DEF HashInv, HashNext, Raise, hashVars, Difficulties
<1> QED
  BY <1>1, <1>2, PTL DEF HashSpec

\* For every hash and difficulty: the CUDA, Metal and WebGPU kernels accept
\* the nonces that Verify accepts, and no others (hal.go:114).
THEOREM KernelsAgree == HashInv => KernelsAgreeWithVerify
BY VerifyIsBitRule, KernelIsBitRule, GeneratedTestsAreTheKernels
   DEF HashInv, KernelsAgreeWithVerify

\* For every hash and difficulty: validPowHash accepts the hashes below the
\* target in the header that was hashed (grind.go:64 and grind.go:84).
THEOREM HeaderTargetIsRule == HashInv => ValidMeansBelowHeaderTarget
BY ValidIsBelowTarget DEF HashInv, ValidMeansBelowHeaderTarget

\* For every hash: the script takes the witness splitPowWitness cuts exactly
\* when splitPowWitness returns it, at all difficulties the scripts know.
THEOREM ScriptTakesTheSplit == HashInv => SplitMatchesScript
BY ScriptIsSplit DEF HashInv, SplitMatchesScript

\* For every hash: at whole bytes Verify and validPowHash are one rule.
THEOREM OneRuleAtWholeBytes == HashInv => RulesAgreeOnWholeBytes
BY RulesMeetAtWholeBytes DEF HashInv, RulesAgreeOnWholeBytes

\* The four statements of the rule agree as above at every step of the sweep.
THEOREM RulesOfTheSweep ==
  HashSpec => [](/\ KernelsAgreeWithVerify /\ ValidMeansBelowHeaderTarget
                 /\ SplitMatchesScript /\ RulesAgreeOnWholeBytes)
<1>1. HashInv => /\ KernelsAgreeWithVerify /\ ValidMeansBelowHeaderTarget
                 /\ SplitMatchesScript /\ RulesAgreeOnWholeBytes
  BY KernelsAgree, HeaderTargetIsRule, ScriptTakesTheSplit, OneRuleAtWholeBytes
<1> QED
  BY <1>1, HashInvariant, PTL

(***************************************************************************)
(* Between whole bytes the two host rules are independent.                 *)
(***************************************************************************)

\* A hash of zeros but for the boundary byte of difficulty d.
HashWithBoundary(d, b) == [i \in ByteIndex |-> IF i = 31 - (d \div 8) THEN b ELSE 0]

\* What the two rules say of such a hash.
LEMMA BoundaryByteDecides ==
  ASSUME NEW d \in Difficulties, NEW b \in Byte
  PROVE  /\ HashWithBoundary(d, b) \in Hash
         /\ Verify(HashWithBoundary(d, b), d) <=> b % 2^(d % 8) = 0
         /\ ValidPowHash(HashWithBoundary(d, b), d) <=> (d % 8 # 0 => b < 2^(8 - (d % 8)))
<1> DEFINE h == HashWithBoundary(d, b)
           q == d \div 8
<1>1. q \in 0..10 /\ 31 - q \in ByteIndex
  BY WholeBytesAndRest DEF ByteIndex
<1>2. h \in Hash /\ h[31 - q] = b
  BY <1>1 DEF HashWithBoundary, Hash, Byte
<1>3. LastBytesZero(h, q)
  <2> SUFFICES ASSUME NEW i \in 0..q - 1 PROVE h[31 - i] = 0
    BY DEF LastBytesZero
  <2>1. 31 - i \in ByteIndex /\ 31 - i # 31 - q
    BY <1>1 DEF ByteIndex
  <2> QED
    BY <2>1 DEF HashWithBoundary
<1> HIDE DEF h
<1>4. Verify(h, d) <=> b % 2^(d % 8) = 0
  BY <1>2, <1>3, VerifyIsBitRule DEF BitRule
<1>5. ValidPowHash(h, d) <=> (d % 8 # 0 => b < 2^(8 - (d % 8)))
  BY <1>2, <1>3 DEF ValidPowHash, LastBytesZero
<1> QED
  BY <1>2, <1>4, <1>5 DEF h

\* The bytes 0, 1, 128 and 129 give the rules every pair of answers.
LEMMA FourBytes ==
  ASSUME NEW r \in 1..7
  PROVE  /\ 0 % 2^r = 0 /\ 0 < 2^(8 - r)
         /\ 128 % 2^r = 0 /\ ~(128 < 2^(8 - r))
         /\ 1 % 2^r # 0 /\ 1 < 2^(8 - r)
         /\ 129 % 2^r # 0 /\ ~(129 < 2^(8 - r))
<1>1. CASE r = 1
  BY <1>1, Powers
<1>2. CASE r = 2
  BY <1>2, Powers
<1>3. CASE r = 3
  BY <1>3, Powers
<1>4. CASE r = 4
  BY <1>4, Powers
<1>5. CASE r = 5
  BY <1>5, Powers
<1>6. CASE r = 6
  BY <1>6, Powers
<1>7. CASE r = 7
  BY <1>7, Powers
<1> QED
  BY <1>1, <1>2, <1>3, <1>4, <1>5, <1>6, <1>7

\* The hashes that show it, for a difficulty between whole bytes.
LEMMA FourHashes ==
  ASSUME NEW d \in Difficulties, d % 8 # 0
  PROVE  /\ \A b \in {0, 128, 1, 129} : HashWithBoundary(d, b) \in Hash
         /\ Verify(HashWithBoundary(d, 0), d) /\ ValidPowHash(HashWithBoundary(d, 0), d)
         /\ Verify(HashWithBoundary(d, 128), d) /\ ~ValidPowHash(HashWithBoundary(d, 128), d)
         /\ ~Verify(HashWithBoundary(d, 1), d) /\ ValidPowHash(HashWithBoundary(d, 1), d)
         /\ ~Verify(HashWithBoundary(d, 129), d) /\ ~ValidPowHash(HashWithBoundary(d, 129), d)
<1> DEFINE r == d % 8
           with(b) == HashWithBoundary(d, b)
<1>1. r \in 1..7
  BY WholeBytesAndRest
<1>2. ASSUME NEW b \in {0, 128, 1, 129}
      PROVE  /\ with(b) \in Hash
             /\ Verify(with(b), d) <=> b % 2^r = 0
             /\ ValidPowHash(with(b), d) <=> b < 2^(8 - r)
  <2>1. b \in Byte
    BY DEF Byte
  <2> HIDE DEF with
  <2>2. with(b) \in Hash /\ (Verify(with(b), d) <=> b % 2^(d % 8) = 0)
    BY <2>1, BoundaryByteDecides DEF with
  <2>3. ValidPowHash(with(b), d) <=> (d % 8 # 0 => b < 2^(8 - (d % 8)))
    BY <2>1, BoundaryByteDecides DEF with
  <2> QED
    BY <2>2, <2>3
<1> HIDE DEF r, with
<1>3. /\ 0 % 2^r = 0 /\ 0 < 2^(8 - r)
      /\ 128 % 2^r = 0 /\ ~(128 < 2^(8 - r))
      /\ 1 % 2^r # 0 /\ 1 < 2^(8 - r)
      /\ 129 % 2^r # 0 /\ ~(129 < 2^(8 - r))
  BY <1>1, FourBytes, Zenon
<1>4. /\ \A b \in {0, 128, 1, 129} : with(b) \in Hash
      /\ Verify(with(0), d) /\ ValidPowHash(with(0), d)
      /\ Verify(with(128), d) /\ ~ValidPowHash(with(128), d)
      /\ ~Verify(with(1), d) /\ ValidPowHash(with(1), d)
      /\ ~Verify(with(129), d) /\ ~ValidPowHash(with(129), d)
  BY <1>2, <1>3
<1> QED
  BY <1>4 DEF with

\* A GPU solver and the grinder look for different hashes: at every difficulty
\* between whole bytes there is one that Verify and the kernels accept and
\* validPowHash refuses, and one the other way round (hal.go:114, grind.go:64).
THEOREM RulesDifferBetweenBytes ==
  ASSUME NEW d \in Difficulties, d % 8 # 0
  PROVE  /\ \E h \in Hash : Verify(h, d) /\ ~ValidPowHash(h, d)
         /\ \E h \in Hash : ~Verify(h, d) /\ ValidPowHash(h, d)
<1>1. HashWithBoundary(d, 128) \in Hash /\ HashWithBoundary(d, 1) \in Hash
  BY FourHashes
<1>2. Verify(HashWithBoundary(d, 128), d) /\ ~ValidPowHash(HashWithBoundary(d, 128), d)
  BY FourHashes
<1>3. ~Verify(HashWithBoundary(d, 1), d) /\ ValidPowHash(HashWithBoundary(d, 1), d)
  BY FourHashes
<1> QED
  BY <1>1, <1>2, <1>3

(***************************************************************************)
(* ClaimBuilder's abstraction of a header hash, the two answers "low" and  *)
(* "high", is the one that the bytes justify.                              *)
(***************************************************************************)

AnswersOf(h, d) == [low |-> Verify(h, d), high |-> ValidPowHash(h, d)]

\* The two rules are predicates.
LEMMA AnswersAreBoolean ==
  ASSUME NEW h, NEW d
  PROVE  AnswersOf(h, d) \in [low : BOOLEAN, high : BOOLEAN]
BY DEF AnswersOf, Verify, ValidPowHash

\* No hash gives answers the claim model leaves out.
THEOREM AnswersAreModelled ==
  ASSUME NEW h \in Hash, NEW d \in Difficulties
  PROVE  AnswersOf(h, d) \in Hashes(d)
<1>1. d % 8 = 0 => (Verify(h, d) <=> ValidPowHash(h, d))
  BY RulesMeetAtWholeBytes
<1>2. d % 8 = 0 => Verify(h, d) = ValidPowHash(h, d)
  <2>1. Verify(h, d) \in BOOLEAN /\ ValidPowHash(h, d) \in BOOLEAN
    BY DEF Verify, ValidPowHash
  <2> QED
    BY <1>1, <2>1
<1> QED
  BY <1>2, AnswersAreBoolean DEF AnswersOf, Hashes

\* Every pair of answers the claim model allows is that of some hash, once a
\* difficulty asks for anything at all.
THEOREM ModelledAnswersOccur ==
  ASSUME NEW d \in Difficulties \ {0}, NEW a \in Hashes(d)
  PROVE  \E h \in Hash : AnswersOf(h, d) = a
<1>1. a.low \in BOOLEAN /\ a.high \in BOOLEAN /\ a = [low |-> a.low, high |-> a.high]
  BY DEF Hashes
<1>2. ASSUME NEW h \in Hash, Verify(h, d) <=> a.low, ValidPowHash(h, d) <=> a.high
      PROVE  AnswersOf(h, d) = a
  <2>1. Verify(h, d) \in BOOLEAN /\ ValidPowHash(h, d) \in BOOLEAN
    BY DEF Verify, ValidPowHash
  <2>2. Verify(h, d) = a.low /\ ValidPowHash(h, d) = a.high
    BY <1>1, <1>2, <2>1
  <2> QED
    BY <1>1, <2>2 DEF AnswersOf
<1>3. CASE d % 8 # 0
  <2> DEFINE with(b) == HashWithBoundary(d, b)
  <2>1. d \in Difficulties
    OBVIOUS
  <2>2. /\ with(0) \in Hash /\ with(128) \in Hash /\ with(1) \in Hash /\ with(129) \in Hash
        /\ Verify(with(0), d) /\ ValidPowHash(with(0), d)
        /\ Verify(with(128), d) /\ ~ValidPowHash(with(128), d)
        /\ ~Verify(with(1), d) /\ ValidPowHash(with(1), d)
        /\ ~Verify(with(129), d) /\ ~ValidPowHash(with(129), d)
    BY <1>3, <2>1, FourHashes
  <2> HIDE DEF with
  <2>5. CASE a.low /\ a.high
    BY <1>2, <2>2, <2>5
  <2>6. CASE a.low /\ ~a.high
    BY <1>2, <2>2, <2>6
  <2>7. CASE ~a.low /\ a.high
    BY <1>2, <2>2, <2>7
  <2>8. CASE ~a.low /\ ~a.high
    BY <1>2, <2>2, <2>8
  <2> QED
    BY <2>5, <2>6, <2>7, <2>8
<1>4. CASE d % 8 = 0
  <2> DEFINE ones == [i \in ByteIndex |-> 1]
             zeros == HashWithBoundary(d, 0)
  <2>1. zeros \in Hash /\ Verify(zeros, d) /\ ValidPowHash(zeros, d)
    <3>1. 0 \in Byte /\ d \in Difficulties
      BY DEF Byte
    <3>2. 0 % 2^(d % 8) = 0
      <4> DEFINE r == d % 8
      <4>1. r \in 0..8
        BY <1>4
      <4> HIDE DEF r
      <4>2. 0 % 2^r = 0
        BY <4>1, ZeroByte
      <4> QED
        BY <4>2 DEF r
    <3> QED
      BY <1>4, <3>1, <3>2, BoundaryByteDecides
  <2>2. ones \in Hash /\ ~Verify(ones, d) /\ ~ValidPowHash(ones, d)
    <3>1. d \div 8 \in 1..10 /\ d \in Difficulties
      BY <1>4 DEF Difficulties
    <3>2. ones \in Hash /\ ones[31 - 0] = 1
      BY DEF Hash, ByteIndex, Byte
    <3> HIDE DEF ones
    <3>3. ~LastBytesZero(ones, d \div 8)
      BY <3>1, <3>2 DEF LastBytesZero
    <3>4. ~Verify(ones, d)
      BY <3>1, <3>2, <3>3, VerifyIsBitRule DEF BitRule
    <3> QED
      BY <1>4, <3>1, <3>2, <3>4, RulesMeetAtWholeBytes
  <2> HIDE DEF ones, zeros
  <2>3. a.low <=> a.high
    BY <1>4 DEF Hashes
  <2>4. CASE a.low
    BY <1>2, <2>1, <2>3, <2>4
  <2>5. CASE ~a.low
    BY <1>2, <2>2, <2>3, <2>5
  <2> QED
    BY <2>4, <2>5
<1> QED
  BY <1>3, <1>4

(***************************************************************************)
(* The fee rate, once more: what README.md:75 promises and PaysRequested-  *)
(* FeeRate refutes below difficulty 24 holds from there on, for every rate *)
(* and size, per unit of weight (claim.go:335).                            *)
(***************************************************************************)

\* Four times the fee covers the rate for each of the witness's bytes and four
\* times each of the others'.
PaysRateByWeight ==
    difficulty >= 24 =>
        4 * Fee(script, stripped, feerate)
            >= feerate * (4 * stripped + WitnessSize(script, difficulty))

\* A coin of difficulty 24 and more pays the requested rate for its weight.
THEOREM RequestedRatePaidByWeight == Spec => []PaysRateByWeight
<1>1. SweepInv => PaysRateByWeight
  <2> SUFFICES ASSUME SweepInv, difficulty >= 24
               PROVE  4 * Fee(script, stripped, feerate)
                        >= feerate * (4 * stripped + WitnessSize(script, difficulty))
    BY DEF PaysRateByWeight
  <2> DEFINE weight == 4 * stripped + ExtraWeight(script)
             actual == 4 * stripped + WitnessSize(script, difficulty)
  <2>1. script \in Scripts /\ difficulty \in MinDiff..MaxDiff
        /\ stripped \in Nat /\ feerate \in Nat
    BY CoinParts DEF SweepInv
  <2>2. script = 1 \/ script = 2 \/ script = 3
    BY <2>1 DEF Scripts
  <2> HIDE DEF difficulty
  <2>3. weight \in Nat /\ actual \in Nat /\ weight >= actual
    BY <2>1, <2>2
       DEF ExtraWeight, WitnessSize, HashPrefixLength, ScriptLength, MinDiff, MaxDiff
  <2>4. Fee(script, stripped, feerate) = (weight * feerate + 3) \div 4
    BY DEF Fee
  <2> HIDE DEF weight, actual
  <2>5. weight * feerate \in Nat /\ weight * feerate >= feerate * actual /\ feerate * actual \in Nat
    BY <2>1, <2>3
  <2> DEFINE paid == weight * feerate
             asked == feerate * actual
  <2>6. paid \in Nat /\ asked \in Nat /\ paid >= asked
    BY <2>5
  <2>7. Fee(script, stripped, feerate) = (paid + 3) \div 4
    BY <2>4
  <2> HIDE DEF paid, asked
  <2>8. 4 * ((paid + 3) \div 4) >= asked
    BY <2>6
  <2> QED
    BY <2>7, <2>8 DEF asked, actual
<1> QED
  BY <1>1, SweepInvariant, PTL

=============================================================================
