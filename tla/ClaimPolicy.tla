---------------------------- MODULE ClaimPolicy ----------------------------
(***************************************************************************)
(* The arithmetic of a claim: the three faucet scripts (scripts.go), the   *)
(* difficulty and the relative lock time BuildClaim derives from a coin's  *)
(* confirmations, and the fee unsignedClaimTx takes (claim.go), beside     *)
(* what the script itself and the finished transaction require of them.    *)
(* All numbers are the program's own.                                      *)
(***************************************************************************)
EXTENDS Integers

(***************************************************************************)
(* scripts.go                                                              *)
(***************************************************************************)

Scripts == 1..3

Delay(s) == CASE s = 1 -> 10 [] s = 2 -> 4 [] s = 3 -> 1

ExtraWeight(s) == CASE s = 1 -> 360 [] s = 2 -> 356 [] s = 3 -> 351

MinDiff == 16
MaxDiff == 80

\* The bytes of the three script templates.
ScriptLength(s) == CASE s = 1 -> 175 [] s = 2 -> 171 [] s = 3 -> 166

\* 16 SUB DUP 0 GTE VERIFY DUP <40> LT VERIFY.
ScriptTakesDifficulty(d) == d - 16 >= 0 /\ d - 16 < 64

\* The operand of the script's CHECKSEQUENCEVERIFY: <80 02>, <00 01> or <40>
\* less d - 16, which DUP ADD has multiplied by the delay.
ScriptSequence(s, d) ==
    CASE s = 1 -> 640 - 10 * (d - 16)
      [] s = 2 -> 256 - 4 * (d - 16)
      [] s = 3 -> 64 - (d - 16)

(***************************************************************************)
(* claim.go: the filter of BuildClaim                                      *)
(***************************************************************************)

\* Mutation: the block after the tip is counted as a confirmation too.
ConfirmationsNext(tip, height) == tip - height + 2

Confirmations(tip, height) == tip - height + 1

\* Mutation: the remainder where the quotient is meant.
DifficultyRemainder(s, conf) ==
    LET d == MaxDiff - (conf % Delay(s)) IN IF d < MinDiff THEN MinDiff ELSE d

\* One bit less for every Delay confirmations, down to the floor.
Difficulty(s, conf) ==
    LET d == MaxDiff - (conf \div Delay(s)) IN IF d < MinDiff THEN MinDiff ELSE d

\* Mutation: the lock time is counted from the floor.
CsvFromFloor(s, d) == (d - MinDiff) * Delay(s)

\* The confirmations that made the difficulty fall to d: the input's sequence.
Csv(s, d) == (MaxDiff - d) * Delay(s)

(***************************************************************************)
(* claim.go: unsignedClaimTx.  "stripped" is the size of the transaction   *)
(* without its witness; ceil(weight / 4 * feerate) is exact in integers.   *)
(***************************************************************************)

\* Mutation: rounded down.
FeeRoundedDown(s, stripped, feerate) ==
    ((4 * stripped + ExtraWeight(s)) * feerate) \div 4

Fee(s, stripped, feerate) ==
    ((4 * stripped + ExtraWeight(s)) * feerate + 3) \div 4

DustLimit == 10000

(***************************************************************************)
(* claim.go: the witness that is attached after the fee was fixed          *)
(***************************************************************************)

\* The bytes of hB: splitPowWitness keeps 32 - d \div 8 - 1 of them.
HashPrefixLength(d) == 31 - (d \div 8)

\* Marker and flag, the number of items, and the nine items with their length
\* bytes: signature, public key, prefix, suffix, hB, hA, difficulty, script
\* and control block.
WitnessSize(s, d) ==
    2 + 1 + 65 + 33 + 4 + 12 + (1 + HashPrefixLength(d)) + 2 + 2
      + (1 + ScriptLength(s)) + 34

VirtualSize(s, d, stripped) == (4 * stripped + WitnessSize(s, d) + 3) \div 4

(***************************************************************************)
(* grind.go and hal.go: what the program finds out about a header hash.    *)
(***************************************************************************)

\* The answers of Verify, "low", and of validPowHash, "high", at difficulty d:
\* at whole bytes the two tests are one, elsewhere any two answers are possible.
Hashes(d) == {h \in [low : BOOLEAN, high : BOOLEAN] : d % 8 = 0 => h.low = h.high}
=============================================================================
