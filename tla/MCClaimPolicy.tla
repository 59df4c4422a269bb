--------------------------- MODULE MCClaimPolicy ---------------------------
(***************************************************************************)
(* A sweep of the claim arithmetic: one coin of each script gains a        *)
(* confirmation per step, for every size of a destination's transaction    *)
(* and a few fee rates.                                                    *)
(***************************************************************************)
EXTENDS ClaimPolicy

CONSTANTS
    MaxConfirmations,   \* how far a coin is followed
    StrippedSizes,      \* P2WPKH, P2SH, P2PKH, P2WSH and P2TR destinations
    FeeRates

ASSUME MaxConfirmationsAssumption == MaxConfirmations \in Nat
ASSUME StrippedSizesAssumption == StrippedSizes \subseteq Nat
ASSUME FeeRatesAssumption == FeeRates \subseteq Nat \ {0}

VARIABLES script, tip, stripped, feerate

vars == <<script, tip, stripped, feerate>>

\* The coin is in block 1.
conf == Confirmations(tip, 1)

difficulty == Difficulty(script, conf)

Init ==
    /\ script \in Scripts
    /\ tip = 1
    /\ stripped \in StrippedSizes
    /\ feerate \in FeeRates

Block ==
    /\ tip < MaxConfirmations
    /\ tip' = tip + 1
    /\ UNCHANGED <<script, stripped, feerate>>

Next == Block

Spec == Init /\ [][Next]_vars

(***************************************************************************)
(* Properties                                                              *)
(***************************************************************************)

\* The lock time a claim carries has passed when the next block is found: the
\* guard "conf < csv" of claim.go:150 never has to refuse a coin, at no
\* script and at neither end of the difficulty range.
LockTimeHasPassed == 1 + Csv(script, difficulty) <= tip + 1

\* The sequence of the claim satisfies the lock time that the script computes
\* from the difficulty on the stack, and is no longer than that.
SequenceIsTheScripts == Csv(script, difficulty) = ScriptSequence(script, difficulty)

\* A coin never gets harder with age, and gets easier by one bit at a time.
DifficultyFallsBySteps ==
    [][Difficulty(script', Confirmations(tip', 1)) \in {difficulty - 1, difficulty}]_vars

\* From difficulty 24 up, or at two satoshis per byte and more, the fee is at
\* least one satoshi per virtual byte of the finished transaction, whose
\* witness depends on a difficulty the fee estimate does not know.
PaysMinimumRelayFee ==
    difficulty >= 24 \/ feerate >= 2 =>
        Fee(script, stripped, feerate) >= VirtualSize(script, difficulty, stripped)

(***************************************************************************)
(* What the repository says and the code does not do                       *)
(***************************************************************************)

\* "`-fee-rate` and `-feerate` are aliases for the manual fee-rate override in
\* sat/vB; the default is `1`" (README.md:75): the finished transaction pays
\* that many satoshis for each of its virtual bytes.
PaysRequestedFeeRate ==
    Fee(script, stripped, feerate) >= feerate * VirtualSize(script, difficulty, stripped)
=============================================================================
