---------------------------- MODULE ClaimBuilder ---------------------------
(***************************************************************************)
(* BuildClaim (powcoins/claim.go): from the tip height and the scanned     *)
(* faucet coins to a finished claim, while blocks are found, the user      *)
(* answers prompts and the context may end.                                *)
(*                                                                         *)
(* FaucetScan models the scan; here it may report any confirmed coins,     *)
(* since others may have been spent or lie beyond the pages read.  A       *)
(* coin's value is 2^k satoshis.  The header hash of the nonce that        *)
(* grinding returns is taken by the two tests the program makes of it:     *)
(* "low" is Verify's (the solvers'), "high" is validPowHash's (and the     *)
(* script's); PowRule relates them to the bytes.                           *)
(***************************************************************************)
EXTENDS ClaimPolicy, FiniteSets, Sequences, SequencesExt

CONSTANTS
    Coins,          \* the faucet's coins
    BirthHeights,   \* the heights at which coins confirm
    StartHeight,    \* the tip when the command starts
    MaxHeight,      \* bound on the blocks found meanwhile
    ValueLogs,      \* log2 of the values
    Stripped,       \* size of the unsigned claim
    MinOptions,     \* -min-difficulty
    MaxOptions,     \* -max-difficulty
    FeeOptions      \* -fee-rate

ASSUME HeightAssumption ==
    /\ StartHeight \in Nat
    /\ MaxHeight \in Nat
    /\ StartHeight <= MaxHeight
    /\ BirthHeights \subseteq 1..MaxHeight

ASSUME CoinsAssumption == IsFiniteSet(Coins)
ASSUME OptionsAssumption ==
    /\ ValueLogs \subseteq Nat
    /\ Stripped \in Nat
    /\ MinOptions \subseteq Int /\ MaxOptions \subseteq Int /\ FeeOptions \subseteq Int

Options == [min : MinOptions, max : MaxOptions, feerate : FeeOptions, native : BOOLEAN]

CoinRecord == [height : BirthHeights, script : Scripts, log : ValueLogs]

\* No call of BuildClaim has been made.
NoOptions == [min |-> 0, max |-> 0, feerate |-> 0, native |-> FALSE]

\* A -max-difficulty or -fee-rate that is not positive means the default.
MaxDifficulty(o) == IF o.max <= 0 THEN 35 ELSE o.max
FeeRate(o) == IF o.feerate <= 0 THEN 1 ELSE o.feerate

VARIABLES
    coin,         \* the coins, by name; a coin exists once its block is found
    height,       \* the height of the chain
    opts,         \* ClaimOptions
    ctxDone,      \* the context is done
    phase,        \* where BuildClaim is
    reason,       \* why it returned an error
    tip,          \* the tip height it read
    utxos,        \* the coins the scan reported
    candidates,   \* the sorted candidates
    index,        \* the candidate being asked about, then the selected one
    hash          \* what the tests say of the header hash that was ground

chainVars == <<coin, height>>
vars == <<chainVars, opts, ctxDone, phase, reason, tip, utxos, candidates, index, hash>>

NoHash == [low |-> FALSE, high |-> FALSE]

Init ==
    /\ coin \in [Coins -> CoinRecord]
    /\ height = StartHeight
    /\ opts = NoOptions
    /\ ctxDone = FALSE
    /\ phase = "idle"
    /\ reason = "none"
    /\ tip = 0
    /\ utxos = {}
    /\ candidates = <<>>
    /\ index = 0
    /\ hash = NoHash

Fail(why) == phase' = "failed" /\ reason' = why

(***************************************************************************)
(* The world around the command                                            *)
(***************************************************************************)

Block ==
    /\ height < MaxHeight
    /\ height' = height + 1
    /\ UNCHANGED <<coin, opts, ctxDone, phase, reason, tip, utxos, candidates, index, hash>>

Cancel ==
    /\ ~ctxDone
    /\ phase \notin {"built", "failed"}
    /\ ctxDone' = TRUE
    /\ UNCHANGED <<chainVars, opts, phase, reason, tip, utxos, candidates, index, hash>>

\* BuildClaim is called with the options o.
Call(o) ==
    /\ phase = "idle"
    /\ opts' = o
    /\ phase' = "tip"
    /\ UNCHANGED <<chainVars, ctxDone, reason, tip, utxos, candidates, index, hash>>

(***************************************************************************)
(* Tip, scan and filter                                                    *)
(***************************************************************************)

\* The range of difficulties BuildClaim accepts.
OptionsInOrder == 0 <= opts.min /\ opts.min <= MaxDifficulty(opts)

\* The range is not in order, or the address, which is no part of opts here, is
\* missing or not one of signet.
RejectOptions ==
    /\ phase = "tip"
    /\ Fail("options")
    /\ UNCHANGED <<chainVars, opts, ctxDone, tip, utxos, candidates, index, hash>>

\* The tip height; a request fails if the context is done.
ReadTip ==
    /\ phase = "tip"
    /\ OptionsInOrder
    /\ ~ctxDone
    /\ tip' = height
    /\ phase' = "scan"
    /\ UNCHANGED <<chainVars, opts, ctxDone, reason, utxos, candidates, index, hash>>

\* The scan comes later than the tip: blocks found in between are in it.
Scan ==
    /\ phase = "scan"
    /\ ~ctxDone
    /\ utxos' \in SUBSET {c \in Coins : coin[c].height <= height}
    /\ IF utxos' = {} THEN Fail("no utxos")
       ELSE phase' = "filter" /\ UNCHANGED reason
    /\ UNCHANGED <<chainVars, opts, ctxDone, tip, candidates, index, hash>>

\* A request for the tip or for the scan fails.  A fee rate between 0 and 1, which
\* Options leaves out, is refused between the two.
EsploraFails ==
    /\ phase \in {"tip", "scan"}
    /\ OptionsInOrder
    /\ Fail("esplora")
    /\ UNCHANGED <<chainVars, opts, ctxDone, tip, utxos, candidates, index, hash>>

\* A candidate as BuildClaim fills it in.
CandidateOf(c) ==
    LET conf == Confirmations(tip, coin[c].height)
        d == Difficulty(coin[c].script, conf)
    IN  [coin |-> c, conf |-> conf, diff |-> d, csv |-> Csv(coin[c].script, d),
         fee |-> Fee(coin[c].script, Stripped, FeeRate(opts))]

\* Mutation: coins above the tip are kept.
EligibleAboveTip(c) ==
    LET k == CandidateOf(c) IN
    /\ k.diff >= opts.min /\ k.diff <= MaxDifficulty(opts)
    /\ k.conf >= k.csv
    /\ 2^(coin[c].log) - k.fee >= DustLimit

\* The five ways the filter skips a coin.
Eligible(c) ==
    LET k == CandidateOf(c) IN
    /\ coin[c].height <= tip
    /\ k.diff >= opts.min /\ k.diff <= MaxDifficulty(opts)
    /\ k.conf >= k.csv
    /\ 2^(coin[c].log) - k.fee >= DustLimit

\* The score without its random part, which is below one: where the values are
\* powers of two it decides between equal scores and nothing else.
Score(c) == coin[c].log - CandidateOf(c).diff

SortedByScore(order) ==
    \A i, j \in DOMAIN order : i < j => Score(order[i]) >= Score(order[j])

\* The loop over the scanned coins, then the sort: ties in any order.
Filter ==
    /\ phase = "filter"
    /\ LET kept == {c \in utxos : Eligible(c)} IN
       IF kept = {}
       THEN Fail("no candidate") /\ UNCHANGED <<candidates, index>>
       ELSE /\ \E order \in SetToSeqs(kept) :
                  /\ SortedByScore(order)
                  /\ candidates' = [i \in DOMAIN order |-> CandidateOf(order[i])]
            /\ index' = 1
            /\ phase' = "prompt"
            /\ UNCHANGED reason
    /\ UNCHANGED <<chainVars, opts, ctxDone, tip, utxos, hash>>

(***************************************************************************)
(* selectClaimCandidate                                                    *)
(***************************************************************************)

selected == candidates[index]

\* "yes", or no ConfirmUTXO callback and the first candidate.
Accept ==
    /\ phase = "prompt"
    /\ phase' = "grind"
    /\ UNCHANGED <<chainVars, opts, ctxDone, reason, tip, utxos, candidates, index, hash>>

\* Mutation: skipping wraps to the first candidate.
SkipAround ==
    /\ phase = "prompt"
    /\ index' = 1 + (index % Len(candidates))
    /\ UNCHANGED <<chainVars, opts, ctxDone, phase, reason, tip, utxos, candidates, hash>>

Skip ==
    /\ phase = "prompt"
    /\ IF index < Len(candidates)
       THEN index' = index + 1 /\ UNCHANGED <<phase, reason>>
       ELSE Fail("none selected") /\ UNCHANGED index
    /\ UNCHANGED <<chainVars, opts, ctxDone, tip, utxos, candidates, hash>>

Decline ==
    /\ phase = "prompt"
    /\ Fail("canceled")
    /\ UNCHANGED <<chainVars, opts, ctxDone, tip, utxos, candidates, index, hash>>

\* The callback returns an error of its own.
ConfirmFails ==
    /\ phase = "prompt"
    /\ Fail("confirm")
    /\ UNCHANGED <<chainVars, opts, ctxDone, tip, utxos, candidates, index, hash>>

(***************************************************************************)
(* grindHeader and the witness                                             *)
(***************************************************************************)

\* GrindHeader stops at a hash validPowHash accepts; a GrindSolver at one
\* Verify accepts.
GrindFinds ==
    /\ phase = "grind"
    /\ hash' \in {h \in Hashes(selected.diff) : IF opts.native THEN h.low ELSE h.high}
    /\ phase' = "split"
    /\ UNCHANGED <<chainVars, opts, ctxDone, reason, tip, utxos, candidates, index>>

\* No nonce, a device error, or a context that is done.
GrindFails ==
    /\ phase = "grind"
    /\ \/ Fail("grind")
       \/ ctxDone /\ Fail("context")
    /\ UNCHANGED <<chainVars, opts, ctxDone, tip, utxos, candidates, index, hash>>

\* Mutation: the header is taken from the solver without a look at its hash.
SplitUnchecked ==
    /\ phase = "split"
    /\ phase' = "built"
    /\ UNCHANGED <<chainVars, opts, ctxDone, reason, tip, utxos, candidates, index, hash>>

\* splitPowWitness tests the hash again before it is cut.
Split ==
    /\ phase = "split"
    /\ IF hash.high THEN phase' = "built" /\ UNCHANGED reason ELSE Fail("difficulty")
    /\ UNCHANGED <<chainVars, opts, ctxDone, tip, utxos, candidates, index, hash>>

\* What BuildClaim does without asking.
Works ==
    \/ RejectOptions \/ ReadTip \/ Scan \/ EsploraFails \/ Filter
    \/ GrindFinds \/ GrindFails \/ Split

Claim == Works \/ Accept \/ Skip \/ Decline \/ ConfirmFails

Next ==
    \/ \E o \in Options : Call(o)
    \/ Block \/ Cancel \/ Claim

\* Once called the program runs on, the callback answers, and the grind ends one
\* way or other.
Spec == Init /\ [][Next]_vars /\ WF_vars(Claim)

(***************************************************************************)
(* Properties                                                              *)
(***************************************************************************)

CandidateRecord ==
    [coin : Coins, conf : 1..MaxHeight, diff : MinDiff..MaxDiff, csv : Nat, fee : Nat]

\* The values the variables take; a candidate has at least one confirmation
\* although the scan runs after the tip was read (claim.go:139).
TypeOK ==
    /\ coin \in [Coins -> CoinRecord]
    /\ height \in StartHeight..MaxHeight
    /\ opts \in Options \cup {NoOptions}
    /\ ctxDone \in BOOLEAN
    /\ phase \in {"idle", "tip", "scan", "filter", "prompt", "grind", "split", "built", "failed"}
    /\ reason \in {"none", "options", "esplora", "no utxos", "no candidate", "none selected",
                    "canceled", "confirm", "grind", "context", "difficulty"}
    /\ tip \in 0..height
    /\ utxos \subseteq Coins
    /\ candidates \in Seq(CandidateRecord)
    /\ index \in 0..Len(candidates)
    /\ hash \in [low : BOOLEAN, high : BOOLEAN]

\* A claim that BuildClaim returns can be in the next block, however long the
\* prompts and the grind took and whoever did the grinding: the script takes
\* its difficulty, its sequence and its proof, the lock time has passed, and
\* the output is no dust.  Difficulty 80 is left out: no script takes it.
BuiltIsSpendable ==
    phase = "built" /\ selected.diff < MaxDiff =>
        LET c == coin[selected.coin] IN
        /\ ScriptTakesDifficulty(selected.diff)
        /\ selected.csv >= ScriptSequence(c.script, selected.diff)
        /\ c.height + selected.csv <= height + 1
        /\ hash.high
        /\ 2^(c.log) - selected.fee >= DustLimit

\* Every call ends, with a claim or an error, if the user keeps answering: each
\* candidate is asked about once (claim.go:263).
Terminates == phase = "tip" ~> phase \in {"built", "failed"}

(***************************************************************************)
(* What the repository says and the code does not do                       *)
(***************************************************************************)

\* "`yes` mines and spends that UTXO" (README.md:43), with any of the solver
\* backends (README.md:9): a nonce that was mined is never refused for the
\* difficulty it was mined for.
YesMinesAndSpends == reason # "difficulty"
=============================================================================
