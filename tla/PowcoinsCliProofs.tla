-------------------------- MODULE PowcoinsCliProofs ------------------------
(***************************************************************************)
(* Proofs about the command and about BuildClaim, whether the command or   *)
(* another program calls it, for every finite set of coins, every block    *)
(* height and every options: what BuildClaim builds can be spent, what is  *)
(* announced is what the user agreed to, and the exit status is true.      *)
(***************************************************************************)
EXTENDS PowcoinsCli, FiniteSetTheorems, TLAPS

(*************************************************************************)
(* A candidate is old enough                                             *)
(*************************************************************************)

\* At any age the difficulty is in range, the sequence of the claim is no longer
\* than the coin is old, and it is the script's.
LEMMA OldEnough ==
  ASSUME NEW s \in Scripts, NEW n \in Nat
  PROVE  /\ Difficulty(s, n) \in MinDiff..MaxDiff
         /\ Csv(s, Difficulty(s, n)) \in Nat
         /\ Csv(s, Difficulty(s, n)) <= n
         /\ Csv(s, Difficulty(s, n)) = ScriptSequence(s, Difficulty(s, n))
<1>1. s \in {1, 2, 3} /\ Delay(s) \in {1, 4, 10}
  BY DEF Scripts, Delay
<1> DEFINE steps == n \div Delay(s)
<1>2. steps \in Nat /\ Delay(s) * steps <= n
  BY <1>1
<1>3. Difficulty(s, n) = IF 80 - steps < 16 THEN 16 ELSE 80 - steps
  BY DEF Difficulty, MinDiff, MaxDiff
<1> HIDE DEF steps
<1> DEFINE fallen == 80 - Difficulty(s, n)
<1>4. Difficulty(s, n) \in 16..80 /\ fallen \in 0..64 /\ fallen <= steps
  BY <1>2, <1>3
<1>5. Csv(s, Difficulty(s, n)) = Delay(s) * fallen
  BY <1>1, <1>4 DEF Csv, MaxDiff
<1>6. ScriptSequence(s, Difficulty(s, n)) = Delay(s) * fallen
  BY <1>1, <1>4 DEF ScriptSequence, Delay
<1> HIDE DEF fallen
<1>7. Delay(s) * fallen <= n /\ Delay(s) * fallen \in Nat
  BY <1>1, <1>2, <1>4
<1> QED
  BY <1>4, <1>5, <1>6, <1>7 DEF MinDiff, MaxDiff

\* A fee is a natural number, whatever the fee rate (claim.go:336).
LEMMA FeeIsNatural ==
  ASSUME NEW s \in Scripts, NEW f \in Nat
  PROVE  Fee(s, Stripped, f) \in Nat
<1> DEFINE weight == 4 * Stripped + ExtraWeight(s)
<1>1. weight \in Nat
  BY OptionsAssumption DEF ExtraWeight, Scripts
<1> HIDE DEF weight
<1>2. weight * f \in Nat
  BY <1>1
<1> DEFINE paid == weight * f
<1> HIDE DEF paid
<1>3. (paid + 3) \div 4 \in Nat
  BY <1>2 DEF paid
<1> QED
  BY <1>3 DEF Fee, weight, paid

\* A candidate's claim can be in the block after the tip, now and later.
Mature(k) ==
    /\ k.csv >= ScriptSequence(coin[k.coin].script, k.diff)
    /\ coin[k.coin].height + k.csv <= tip + 1
    /\ 2^(coin[k.coin].log) - k.fee >= DustLimit

\* What the filter keeps is mature: the sequence of its claim is no longer than
\* the coin is old (claim.go:136 to claim.go:157).
LEMMA EligibleIsMature ==
  ASSUME TypeOK, NEW c \in Coins, Eligible(c)
  PROVE  CandidateOf(c) \in CandidateRecord /\ Mature(CandidateOf(c))
<1> DEFINE conf == Confirmations(tip, coin[c].height)
           s == coin[c].script
<1>1. coin[c] \in CoinRecord
  BY DEF TypeOK
<1>2. /\ coin[c].height \in Nat \ {0} /\ coin[c].height <= tip /\ s \in Scripts
      /\ tip \in Nat /\ tip <= MaxHeight
  <2>1. coin[c].height \in BirthHeights /\ s \in Scripts
    BY <1>1 DEF CoinRecord
  <2>2. coin[c].height <= tip
    BY DEF Eligible
  <2>3. height \in StartHeight..MaxHeight /\ tip \in 0..height
    BY DEF TypeOK
  <2>4. coin[c].height \in Nat \ {0}
    <3>1. coin[c].height \in 1..MaxHeight
      BY <2>1, HeightAssumption, Zenon
    <3> QED
      BY <3>1, HeightAssumption
  <2>5. tip \in Nat /\ tip <= MaxHeight
    BY <2>3, HeightAssumption
  <2> QED
    BY <2>1, <2>2, <2>4, <2>5
<1>3. conf \in 1..MaxHeight /\ coin[c].height + conf = tip + 1
  BY <1>2, HeightAssumption DEF Confirmations
<1> HIDE DEF conf
<1>4. /\ Difficulty(s, conf) \in MinDiff..MaxDiff
      /\ Csv(s, Difficulty(s, conf)) \in Nat
      /\ Csv(s, Difficulty(s, conf)) <= conf
      /\ Csv(s, Difficulty(s, conf)) = ScriptSequence(s, Difficulty(s, conf))
  BY <1>2, <1>3, OldEnough
<1>5. FeeRate(opts) \in Nat
  <2>1. opts \in Options \/ opts = NoOptions
    BY DEF TypeOK
  <2>2. opts.feerate \in Int
    <3>1. CASE opts \in Options
      <4>1. opts.feerate \in FeeOptions
        BY <3>1 DEF Options
      <4> QED
        BY <4>1, OptionsAssumption
    <3>2. CASE opts = NoOptions
      BY <3>2 DEF NoOptions
    <3> QED
      BY <2>1, <3>1, <3>2
  <2> QED
    BY <2>2 DEF FeeRate
<1>6. Fee(s, Stripped, FeeRate(opts)) \in Nat
  BY <1>2, <1>5, FeeIsNatural
<1>7. CandidateOf(c) = [coin |-> c, conf |-> conf, diff |-> Difficulty(s, conf),
                        csv |-> Csv(s, Difficulty(s, conf)),
                        fee |-> Fee(s, Stripped, FeeRate(opts))]
  BY DEF CandidateOf, conf
<1>8. CandidateOf(c) \in CandidateRecord
  BY <1>3, <1>4, <1>6, <1>7 DEF CandidateRecord
<1>9. 2^(coin[c].log) - CandidateOf(c).fee >= DustLimit
  BY DEF Eligible
<1>10. CandidateOf(c).csv >= ScriptSequence(s, CandidateOf(c).diff)
  BY <1>4, <1>7
<1>11. coin[c].height + CandidateOf(c).csv <= tip + 1
  BY <1>2, <1>3, <1>4, <1>7
<1>12. CandidateOf(c).coin = c
  BY <1>7
<1> QED
  BY <1>8, <1>9, <1>10, <1>11, <1>12 DEF Mature

(*************************************************************************)
(* BuildClaim                                                            *)
(*************************************************************************)

\* What is known of BuildClaim at each place.
Progress ==
    /\ phase \in {"prompt", "grind", "split", "built"} => index \in 1..Len(candidates)
    /\ phase \in {"idle", "tip", "scan", "filter"} => index = 0 /\ candidates = <<>>
    /\ phase # "failed" => reason = "none"
    /\ phase = "split" => (IF opts.native THEN hash.low ELSE hash.high)
    /\ phase = "built" => hash.high
    /\ reason = "difficulty" => opts.native
    /\ \A i \in 1..Len(candidates) : Mature(candidates[i])

\* The values apart from the list of candidates.
PlainTypes ==
    /\ coin \in [Coins -> CoinRecord]
    /\ height \in StartHeight..MaxHeight
    /\ opts \in Options \cup {NoOptions}
    /\ ctxDone \in BOOLEAN
    /\ tip \in 0..height
    /\ utxos \subseteq Coins
    /\ hash \in [low : BOOLEAN, high : BOOLEAN]

Places == {"idle", "tip", "scan", "filter", "prompt", "grind", "split", "built", "failed"}

Reasons == {"none", "options", "esplora", "no utxos", "no candidate", "none selected",
            "canceled", "confirm", "grind", "context", "difficulty"}

\* The values of the list of candidates.
CandidateTypes ==
    /\ candidates \in Seq(CandidateRecord)
    /\ index \in 0..Len(candidates)

\* BuildClaim's type splits into the list of candidates and the rest.
LEMMA BuildParts ==
    TypeOK <=> PlainTypes /\ CandidateTypes /\ phase \in Places /\ reason \in Reasons
BY DEF TypeOK, PlainTypes, CandidateTypes, Places, Reasons

\* Every step leads to a place of BuildClaim, and an error has one of its
\* reasons.
LEMMA KeepsPlaces ==
  ASSUME phase \in Places, reason \in Reasons, [Next]_vars
  PROVE  phase' \in Places /\ reason' \in Reasons
BY DEF Next, Claim, Works, vars, Call, Block, Cancel, RejectOptions, ReadTip, Scan,
   EsploraFails, Filter,
   GrindFinds, GrindFails,
       Split, Accept, Skip, Decline, ConfirmFails, Fail, Places, Reasons

\* Every step keeps the values of BuildClaim's variables, the candidates apart.
LEMMA KeepsPlainTypes ==
  ASSUME PlainTypes, [Next]_vars PROVE PlainTypes'
<1> USE DEF PlainTypes
<1>0. height \in Nat /\ StartHeight \in Nat /\ MaxHeight \in Nat
  BY HeightAssumption
<1>1. CASE \E o \in Options : Call(o)
  BY <1>1 DEF Call, chainVars
<1>2. CASE Block
  BY <1>0, <1>2 DEF Block
<1>3. CASE Cancel
  BY <1>3 DEF Cancel, chainVars
<1>4. CASE ReadTip
  BY <1>0, <1>4 DEF ReadTip, chainVars
<1>5. CASE Scan
  <2>1. utxos' \subseteq Coins
    BY <1>5 DEF Scan
  <2> QED
    BY <1>5, <2>1 DEF Scan, chainVars
<1>6. CASE GrindFinds
  <2>1. hash' \in [low : BOOLEAN, high : BOOLEAN]
    BY <1>6 DEF GrindFinds, Hashes
  <2> QED
    BY <1>6, <2>1 DEF GrindFinds, chainVars
<1>7. CASE \/ RejectOptions \/ EsploraFails \/ Filter \/ GrindFails \/ Split
           \/ Accept \/ Skip \/ Decline \/ ConfirmFails \/ UNCHANGED vars
  <2>1. UNCHANGED <<coin, height, opts, ctxDone, tip, utxos, hash>>
    BY <1>7 DEF RejectOptions, EsploraFails, Filter, GrindFails, Split, Accept, Skip, Decline,
       ConfirmFails, vars, chainVars
  <2> QED
    BY <2>1
<1> QED
  BY <1>1, <1>2, <1>3, <1>4, <1>5, <1>6, <1>7 DEF Next, Claim, Works

\* The loop over the coins and the sort.
LEMMA FilterKeeps ==
  ASSUME TypeOK, Filter, phase' = "prompt"
  PROVE  /\ candidates' \in Seq(CandidateRecord) /\ Len(candidates') > 0
         /\ index' = 1
         /\ \A i \in 1..Len(candidates') : Mature(candidates'[i])
<1> DEFINE kept == {c \in utxos : Eligible(c)}
<1>1. kept # {} /\ index' = 1
  BY DEF Filter, Fail
<1>2. IsFiniteSet(kept)
  BY CoinsAssumption, FS_Subset DEF TypeOK
<1>3. Cardinality(kept) \in Nat \ {0}
  BY <1>1, <1>2, FS_CardinalityType, FS_EmptySet
<1>4. PICK order \in SetToSeqs(kept) : candidates' = [i \in DOMAIN order |-> CandidateOf(order[i])]
  BY <1>1 DEF Filter
<1>5. order \in [1..Cardinality(kept) -> kept]
  BY <1>4 DEF SetToSeqs
<1>6. \A c \in kept : CandidateOf(c) \in CandidateRecord /\ Mature(CandidateOf(c))
  BY EligibleIsMature DEF TypeOK
<1> HIDE DEF kept
<1>7. \A i \in 1..Cardinality(kept) : order[i] \in kept
  BY <1>5
<1>8. candidates' = [i \in 1..Cardinality(kept) |-> CandidateOf(order[i])]
  BY <1>4, <1>5
<1>9. candidates' \in [1..Cardinality(kept) -> CandidateRecord]
  BY <1>6, <1>7, <1>8
<1>10. candidates' \in Seq(CandidateRecord) /\ Len(candidates') = Cardinality(kept)
  BY <1>3, <1>9
<1> QED
  BY <1>1, <1>3, <1>6, <1>7, <1>8, <1>10

\* Every other step leaves the candidates as they are, and the chain only grows.
LEMMA OthersLeaveCandidates ==
  ASSUME PlainTypes, [Next]_vars, phase \in Places, ~(Filter /\ phase' = "prompt")
  PROVE  /\ candidates' = candidates /\ coin' = coin
         /\ tip' = tip \/ phase = "tip"
         /\ index' \in {index, index + 1}
         /\ index' = index \/ (index < Len(candidates) /\ phase = "prompt" /\ phase' = "prompt")
BY DEF Next, Claim, Works, vars, chainVars, Call, Block, Cancel, RejectOptions, ReadTip, Scan,
   EsploraFails, Filter, GrindFinds, GrindFails,
       Split, Accept, Skip, Decline, ConfirmFails, Fail

\* The candidates stay a list of mature ones.
LEMMA KeepsCandidates ==
  ASSUME TypeOK, Progress, [Next]_vars
  PROVE  CandidateTypes' /\ \A i \in 1..Len(candidates') : Mature(candidates[i])'
<1>1. PlainTypes /\ CandidateTypes /\ phase \in Places
  BY BuildParts
<1>2. CASE Filter /\ phase' = "prompt"
  <2>1. UNCHANGED <<coin, tip>>
    BY <1>2 DEF Filter, chainVars
  <2> QED
    BY <1>2, <2>1, FilterKeeps DEF CandidateTypes, Mature
<1>3. CASE ~(Filter /\ phase' = "prompt")
  <2>1. /\ candidates' = candidates /\ coin' = coin
        /\ tip' = tip \/ phase = "tip"
        /\ index' = index \/ (index' = index + 1 /\ index < Len(candidates))
    BY <1>1, <1>3, OthersLeaveCandidates
  <2>2. CandidateTypes'
    BY <1>1, <2>1 DEF CandidateTypes
  <2>3. CASE phase = "tip"
    <3>1. Len(candidates') = 0
      BY <2>1, <2>3 DEF Progress
    <3> QED
      BY <2>2, <3>1
  <2>4. CASE phase # "tip"
    BY <2>1, <2>2, <2>4 DEF Progress, Mature
  <2> QED
    BY <2>3, <2>4
<1> QED
  BY <1>2, <1>3

\* Where BuildClaim stands, without the candidates.
Standing ==
    /\ phase # "failed" => reason = "none"
    /\ phase = "split" => (IF opts.native THEN hash.low ELSE hash.high)
    /\ phase = "built" => hash.high
    /\ reason = "difficulty" => opts.native

\* A claim is built only from a hash that was found, and only a native solver is
\* told of a bad difficulty.
LEMMA KeepsStanding ==
  ASSUME Standing, phase \in Places, reason \in Reasons, [Next]_vars PROVE Standing'
<1> USE DEF Standing, Places
<1>1. CASE \E o \in Options : Call(o)
  BY <1>1 DEF Call
<1>2. CASE Block \/ Cancel \/ UNCHANGED vars
  BY <1>2 DEF Block, Cancel, vars
<1>3. CASE RejectOptions \/ ReadTip \/ Scan \/ EsploraFails
  BY <1>3 DEF RejectOptions, ReadTip, Scan, EsploraFails, Fail
<1>4. CASE Filter
  BY <1>4 DEF Filter, Fail
<1>5. CASE GrindFinds
  BY <1>5 DEF GrindFinds
<1>6. CASE GrindFails
  BY <1>6 DEF GrindFails, Fail
<1>7. CASE Split
  BY <1>7 DEF Split, Fail
<1>8. CASE Accept \/ Skip \/ Decline \/ ConfirmFails
  BY <1>8 DEF Accept, Skip, Decline, ConfirmFails, Fail
<1> QED
  BY <1>1, <1>2, <1>3, <1>4, <1>5, <1>6, <1>7, <1>8 DEF Next, Claim, Works

\* A candidate is selected from the prompt on, and none before.
Selection ==
    /\ phase \in {"prompt", "grind", "split", "built"} => index \in 1..Len(candidates)
    /\ phase \in {"idle", "tip", "scan", "filter"} => index = 0 /\ candidates = <<>>

\* A candidate is selected from the prompt on, and none before (claim.go:263).
LEMMA KeepsSelection ==
  ASSUME TypeOK, Progress, [Next]_vars PROVE Selection'
<1>1. PlainTypes /\ CandidateTypes /\ phase \in Places
  BY BuildParts
<1>2. CASE Filter /\ phase' = "prompt"
  BY <1>2, FilterKeeps DEF Selection
<1>3. CASE ~(Filter /\ phase' = "prompt")
  <2>1. /\ candidates' = candidates
        /\ index' = index \/ (index < Len(candidates) /\ phase = "prompt" /\ phase' = "prompt")
        /\ index' \in {index, index + 1}
    BY <1>1, <1>3, OthersLeaveCandidates
  <2>2. /\ phase' \in {"prompt", "grind", "split", "built"} =>
              phase \in {"prompt", "grind", "split", "built"}
        /\ phase' \in {"idle", "tip", "scan", "filter"}
             => phase \in {"idle", "tip", "scan", "filter"}
    BY <1>1, <1>3 DEF Next, Claim, Works, vars, Call, Block, Cancel, RejectOptions, ReadTip, Scan,
       EsploraFails, Filter,
       GrindFinds, GrindFails, Split, Accept, Skip, Decline, ConfirmFails, Fail, Places
  <2> QED
    BY <1>1, <2>1, <2>2 DEF Progress, Selection, CandidateTypes
<1> QED
  BY <1>2, <1>3

\* The invariant of BuildClaim.
BuildInv == TypeOK /\ Progress

\* The invariant of BuildClaim holds before it is called.
LEMMA BuildInitially == Init => BuildInv
<1> SUFFICES ASSUME Init PROVE BuildInv
  OBVIOUS
<1>1. phase = "idle" /\ reason = "none" /\ index = 0 /\ candidates = <<>>
  BY DEF Init
<1>2. PlainTypes
  <2>1. height \in StartHeight..MaxHeight /\ tip \in 0..height /\ utxos \subseteq Coins
    BY HeightAssumption DEF Init
  <2>2. hash \in [low : BOOLEAN, high : BOOLEAN]
    BY DEF Init, NoHash
  <2> QED
    BY <2>1, <2>2 DEF Init, PlainTypes
<1>3. CandidateTypes
  BY <1>1 DEF CandidateTypes
<1>4. TypeOK
  BY <1>1, <1>2, <1>3, BuildParts DEF Places, Reasons
<1> QED
  BY <1>1, <1>4 DEF BuildInv, Progress

\* Every step of BuildClaim, of its caller and of the chain keeps its invariant.
LEMMA BuildKeeps == ASSUME BuildInv, [Next]_vars PROVE BuildInv'
<1>1. PlainTypes /\ CandidateTypes /\ phase \in Places /\ reason \in Reasons
  BY BuildParts DEF BuildInv
<1>2. PlainTypes' /\ CandidateTypes' /\ phase' \in Places /\ reason' \in Reasons
  BY <1>1, KeepsPlainTypes, KeepsPlaces, KeepsCandidates DEF BuildInv
<1>3. TypeOK'
  BY <1>2 DEF TypeOK, PlainTypes, CandidateTypes, Places, Reasons
<1>4. Standing'
  BY <1>1, KeepsStanding DEF BuildInv, Progress, Standing
<1>5. Progress'
  BY <1>4, KeepsSelection, KeepsCandidates DEF BuildInv, Standing, Selection, Progress
<1> QED
  BY <1>3, <1>5 DEF BuildInv

\* A claim that is built from a mature candidate can be spent, also after blocks
\* that came since the tip was read.
LEMMA SpendableBecause == BuildInv => BuiltIsSpendable
<1> SUFFICES ASSUME BuildInv, phase = "built", selected.diff < MaxDiff
             PROVE  LET c == coin[selected.coin] IN
                    /\ ScriptTakesDifficulty(selected.diff)
                    /\ selected.csv >= ScriptSequence(c.script, selected.diff)
                    /\ c.height + selected.csv <= height + 1
                    /\ hash.high
                    /\ 2^(c.log) - selected.fee >= DustLimit
  BY DEF BuiltIsSpendable
<1>1. index \in 1..Len(candidates) /\ hash.high
  BY DEF BuildInv, Progress
<1>2. selected \in CandidateRecord /\ Mature(selected)
  BY <1>1 DEF BuildInv, TypeOK, Progress, selected
<1>3. selected.diff \in MinDiff..MaxDiff /\ selected.csv \in Nat /\ selected.coin \in Coins
  BY <1>2 DEF CandidateRecord
<1>4. coin[selected.coin] \in CoinRecord
  BY <1>3 DEF BuildInv, TypeOK
<1>5. coin[selected.coin].height \in BirthHeights
  BY <1>4 DEF CoinRecord
<1>6. coin[selected.coin].height \in 1..MaxHeight
  BY <1>5, HeightAssumption, Zenon
<1>7. tip \in 0..height /\ height \in StartHeight..MaxHeight
  BY DEF BuildInv, TypeOK
<1>8. coin[selected.coin].height + selected.csv <= height + 1
  BY <1>2, <1>3, <1>6, <1>7, HeightAssumption DEF Mature
<1>9. ScriptTakesDifficulty(selected.diff)
  BY <1>3 DEF ScriptTakesDifficulty, MinDiff, MaxDiff
<1> QED
  BY <1>1, <1>2, <1>8, <1>9 DEF Mature

(*************************************************************************)
(* The command and the relay                                             *)
(*************************************************************************)

\* The command calls BuildClaim as any program may: each of its steps is one of
\* ClaimBuilder's or leaves BuildClaim alone (main.go:72).
LEMMA CommandUsesBuildClaim == ASSUME [CliNext]_allVars PROVE [Next]_vars
<1>1. CASE ReadFlags \/ ProbePasses \/ ProbeFails
  BY <1>1 DEF ReadFlags, ProbePasses, ProbeFails, Chosen, CallsWith, Next
<1>2. CASE Builds \/ Answers \/ AsksAgain \/ BuildFails \/ Built
  BY <1>2 DEF Builds, Answers, AsksAgain, BuildFails, Built, SaysYes, SaysSkip, SaysCancel,
     InputEnds, Next, Claim
<1>3. CASE Relays \/ Relayed
  BY <1>3 DEF Relays, Relayed
<1>4. CASE Outside
  BY <1>4 DEF Outside, Next
<1>5. CASE UNCHANGED allVars
  BY <1>5 DEF allVars
<1> QED
  BY <1>1, <1>2, <1>3, <1>4, <1>5 DEF CliNext, Command

\* What the contract has promised so far.
RelaySoFar ==
    /\ listens \in BOOLEAN /\ greeted \in BOOLEAN /\ offered \in BOOLEAN /\ requested \in BOOLEAN
    /\ given \in 0..1
    /\ answer \in {"none", "ok", "failed"}
    /\ answer = "ok" => given = 1
    /\ given = 1 /\ answer # "ok" => listens

\* The contract gives the claim once at most, and says so.
LEMMA RelayPromises == ASSUME RelaySoFar, [Relay!Next]_relayVars PROVE RelaySoFar'
<1> USE DEF RelaySoFar
<1>1. CASE Relay!Greet
  BY <1>1 DEF Relay!Greet
<1>2. CASE Relay!Offer
  BY <1>2 DEF Relay!Offer
<1>3. CASE Relay!Request
  BY <1>3 DEF Relay!Request
<1>4. CASE Relay!Give
  BY <1>4 DEF Relay!Give
<1>5. CASE Relay!EndListening
  BY <1>5 DEF Relay!EndListening
<1>6. CASE Relay!GiveUp
  BY <1>6 DEF Relay!GiveUp
<1>7. CASE UNCHANGED relayVars
  BY <1>7 DEF relayVars
<1> QED
  BY <1>1, <1>2, <1>3, <1>4, <1>5, <1>6, <1>7 DEF Relay!Next

\* No relay has begun.
Untouched == ~offered /\ given = 0 /\ answer = "none"

\* The values of the flags and of the choice.
FlagTypes ==
    /\ command \in BOOLEAN
    /\ solver \in {"auto", "unknown", "metal", "cuda", "webgpu", "cpu"}
    /\ dryRun \in BOOLEAN
    /\ backend \in {"none", "metal", "cuda", "webgpu", "cpu"}
    /\ unusable \subseteq {"metal", "cuda", "webgpu", "cpu"}
    /\ idle \in 0..MaxIdle
    /\ stage = "probe" => backend # "none"

\* How far main and BuildClaim are, and that the relay has not begun before its
\* stage.
StageInv ==
    /\ stage \in {"flags", "probe", "build", "relay", "exit"}
    /\ exit \in {"none", "success", "fatal"}
    /\ (exit # "none") = (stage = "exit")
    /\ ~command => stage = "flags"
    /\ stage \in {"flags", "probe", "build"} => Untouched
    /\ command /\ stage \in {"flags", "probe"} => phase = "idle"
    /\ stage = "build" => phase # "idle"
    /\ stage = "relay" => phase = "built" /\ ~dryRun
    /\ stage = "exit" => phase \in {"idle", "failed", "built"}
    /\ offered => phase = "built" /\ ~dryRun

\* What the exit status says.
EndInv ==
    /\ exit = "success" =>
          \/ reason = "canceled"
          \/ phase = "built" /\ (IF dryRun THEN ~offered ELSE given = 1)
    /\ exit = "fatal" /\ given = 1 => listens

\* Each backend is probed after the ones before it have failed.
BackendInv ==
    command =>
        /\ stage = "probe" => solver \notin {"cpu", "unknown"}
             /\ (solver # "auto" => backend = solver)
        /\ stage = "flags" => backend = "none"
        /\ backend = "cuda" /\ solver = "auto" => "metal" \in unusable
        /\ backend = "webgpu" /\ solver = "auto" => {"metal", "cuda"} \subseteq unusable
        /\ backend = "cpu" => solver = "cpu" \/ (solver = "auto"
             /\ {"metal", "cuda", "webgpu"} \subseteq unusable)
        /\ backend = "cpu" /\ stage \notin {"flags", "probe"}
             /\ phase # "idle" => opts.native = FALSE

\* The list of backends, written out (main.go:118).
LEMMA BackendList ==
    /\ Backends[1] = "metal" /\ Backends[2] = "cuda" /\ Backends[3] = "webgpu"
         /\ Backends[4] = "cpu"
    /\ Len(Backends) = 4 /\ Last(Backends) = "cpu"
    /\ ToSet(Backends) = {"metal", "cuda", "webgpu", "cpu"}
<1>1. /\ Backends[1] = "metal" /\ Backends[2] = "cuda" /\ Backends[3] = "webgpu"
           /\ Backends[4] = "cpu"
      /\ Len(Backends) = 4 /\ DOMAIN Backends = {1, 2, 3, 4}
  BY DEF Backends
<1> QED
  BY <1>1 DEF Last, ToSet

\* Where the choice goes after a probe that fails.
LEMMA NextBackend ==
  ASSUME ProbeFails, solver = "auto", backend # "cpu"
  PROVE  /\ \/ backend = "metal" /\ backend' = "cuda"
            \/ backend = "cuda" /\ backend' = "webgpu"
            \/ backend = "webgpu" /\ backend' = "cpu"
         /\ stage' = "probe" /\ exit' = exit
<1>1. PICK i \in 2..Len(Backends) : backend = Backends[i - 1] /\ backend' = Backends[i]
  BY BackendList DEF ProbeFails
<1>2. i \in {2, 3, 4}
  BY BackendList
<1>3. stage' = "probe" /\ exit' = exit
  BY BackendList DEF ProbeFails
<1> QED
  BY <1>1, <1>2, <1>3, BackendList

\* Every step keeps the values of the flags and of the choice of a backend.
LEMMA FlagsKept ==
  ASSUME FlagTypes, [CliNext]_allVars PROVE FlagTypes'
<1> USE DEF FlagTypes
<1>1. CASE ReadFlags
  <2>1. UNCHANGED <<command, solver, dryRun, unusable, idle>>
    BY <1>1 DEF ReadFlags, flags, dialog, choice
  <2>2. \/ backend' = backend /\ stage' = "exit"
        \/ backend' = "cpu" /\ stage' = "build"
        \/ backend' = "metal" /\ stage' = "probe"
        \/ backend' = solver /\ solver \notin {"auto", "unknown"}
    BY <1>1, BackendList DEF ReadFlags, choice, Exit, Chosen, CallsWith
  <2> QED
    BY <2>1, <2>2
<1>2. CASE ProbeFails
  <2>1. stage = "probe" /\ UNCHANGED <<command, solver, dryRun, idle>>
          /\ unusable' = unusable \cup {backend}
    BY <1>2 DEF ProbeFails, flags, dialog
  <2> QED
    <3>1. backend \in {"metal", "cuda", "webgpu", "cpu"}
            /\ backend' \in {"metal", "cuda", "webgpu", "cpu"}
      BY <1>2, <2>1, NextBackend, BackendList DEF ProbeFails
    <3> QED
      BY <2>1, <3>1
<1>3. CASE AsksAgain
  BY <1>3, MaxIdleAssumption DEF AsksAgain, flags, choice
<1>4. CASE ProbePasses \/ Builds \/ Answers \/ BuildFails \/ Built \/ Relays \/ Relayed
             \/ Outside \/ UNCHANGED allVars
  <2>1. UNCHANGED <<command, solver, dryRun, backend, unusable, idle>>
          /\ (stage' = "probe" => stage = "probe")
    BY <1>4 DEF ProbePasses, Chosen, CallsWith, Exit, Builds, Answers, SaysYes, SaysSkip,
       SaysCancel, InputEnds, Decides, BuildFails, Built, Relays, Relayed, Outside,
       allVars, cliVars, flags, choice, dialog
  <2> QED
    BY <2>1
<1> QED
  BY <1>1, <1>2, <1>3, <1>4 DEF CliNext, Command

\* A call never becomes idle again, and what it returned stays.
LEMMA CallsAreFinal ==
  ASSUME [Next]_vars
  PROVE  /\ phase # "idle" => phase' # "idle"
         /\ phase \in {"built", "failed"} => phase' = phase /\ reason' = reason
<1>1. CASE (\E o \in Options : Call(o)) \/ Block \/ Cancel \/ UNCHANGED vars
  BY <1>1 DEF Call, Block, Cancel, vars
<1>2. CASE RejectOptions \/ ReadTip \/ Scan \/ EsploraFails \/ Filter
  BY <1>2 DEF RejectOptions, ReadTip, Scan, EsploraFails, Filter, Fail
<1>3. CASE Accept \/ Skip \/ Decline \/ ConfirmFails \/ GrindFinds \/ GrindFails \/ Split
  BY <1>3 DEF Accept, Skip, Decline, ConfirmFails, GrindFinds, GrindFails, Split, Fail
<1> QED
  BY <1>1, <1>2, <1>3 DEF Next, Claim, Works

\* The steps that leave main where it is and the relay as it is.
LEMMA QuietSteps ==
  ASSUME Builds \/ SaysYes \/ SaysSkip \/ SaysCancel \/ InputEnds \/ AsksAgain \/ Outside
           \/ UNCHANGED allVars
  PROVE  /\ UNCHANGED <<flags, stage, choice, exit, relayVars>>
         /\ command => stage = "build" \/ UNCHANGED <<phase, reason>>
<1>1. CASE Builds \/ Outside \/ UNCHANGED allVars
  BY <1>1 DEF Builds, Outside, Block, allVars, vars, cliVars
<1>2. CASE SaysYes \/ SaysSkip \/ SaysCancel \/ InputEnds \/ AsksAgain
  BY <1>2 DEF SaysYes, SaysSkip, SaysCancel, InputEnds, AsksAgain, Decides, choice
<1> QED
  BY <1>1, <1>2

\* The relay's variables, one by one.
LEMMA RelayLeft ==
  ASSUME UNCHANGED relayVars
  PROVE  UNCHANGED <<listens, offered, given, answer>> /\ (Untouched => Untouched')
BY DEF relayVars, Untouched

\* The stages of main follow one another, and the relay begins after the claim is
\* built and no dry run was asked for (main.go:72 to main.go:99).
LEMMA StageKept ==
  ASSUME StageInv, [CliNext]_allVars PROVE StageInv'
<1> USE DEF StageInv
<1>0. /\ phase # "idle" => phase' # "idle"
      /\ phase \in {"built", "failed"} => phase' = phase /\ reason' = reason
  BY CommandUsesBuildClaim, CallsAreFinal
<1>1. CASE command /\ ReadFlags
  <2>1. UNCHANGED <<command, dryRun, relayVars>> /\ stage = "flags" /\ phase = "idle"
    BY <1>1 DEF ReadFlags, flags
  <2>2. \/ stage' = "exit" /\ exit' = "fatal" /\ phase' = phase
        \/ stage' = "build" /\ exit' = exit /\ phase' = "tip"
        \/ stage' = "probe" /\ exit' = exit /\ phase' = phase
    BY <1>1 DEF ReadFlags, Exit, vars, Chosen, CallsWith, Call
  <2> QED
    BY <1>1, <2>1, <2>2, RelayLeft DEF Untouched
<1>2. CASE command /\ ProbePasses
  <2>1. UNCHANGED <<command, dryRun, exit, relayVars>> /\ stage = "probe"
          /\ stage' = "build" /\ phase' = "tip"
    BY <1>2 DEF ProbePasses, Chosen, CallsWith, Call, flags
  <2> QED
    BY <1>2, <2>1, RelayLeft DEF Untouched
<1>3. CASE command /\ ProbeFails
  <2>1. UNCHANGED <<command, dryRun, relayVars, phase>> /\ stage = "probe"
    BY <1>3 DEF ProbeFails, flags, vars
  <2>2. \/ stage' = "exit" /\ exit' = "fatal"
        \/ stage' = "probe" /\ exit' = exit
    BY <1>3 DEF ProbeFails, Exit
  <2> QED
    BY <1>3, <2>1, <2>2, RelayLeft DEF Untouched
<1>4. CASE command /\ (BuildFails \/ Built)
  <2>1. UNCHANGED <<command, dryRun, relayVars, phase>> /\ stage = "build"
    BY <1>4 DEF BuildFails, Built, flags, vars
  <2>2. \/ stage' = "exit" /\ exit' \in {"success", "fatal"} /\ phase \in {"failed", "built"}
        \/ stage' = "relay" /\ exit' = exit /\ phase = "built" /\ ~dryRun
    BY <1>4 DEF BuildFails, Built, Exit
  <2> QED
    BY <1>4, <2>1, <2>2, RelayLeft DEF Untouched
<1>5. CASE command /\ Relays
  BY <1>5 DEF Relays, vars, flags
<1>6. CASE command /\ Relayed
  <2>1. UNCHANGED <<command, dryRun, relayVars, phase>> /\ stage = "relay"
          /\ stage' = "exit" /\ exit' \in {"success", "fatal"}
    BY <1>6 DEF Relayed, Exit, flags, vars
  <2> QED
    BY <1>6, <2>1, RelayLeft
<1>7. CASE Builds \/ SaysYes \/ SaysSkip \/ SaysCancel \/ InputEnds \/ AsksAgain \/ Outside
             \/ UNCHANGED allVars
  <2>1. /\ UNCHANGED <<command, dryRun, stage, exit, relayVars>>
        /\ command => stage = "build" \/ phase' = phase
    BY <1>7, QuietSteps DEF flags
  <2> QED
    BY <1>0, <2>1, RelayLeft DEF Untouched
<1> QED
  BY <1>1, <1>2, <1>3, <1>4, <1>5, <1>6, <1>7 DEF CliNext, Command, Answers

\* Each way out of main ends with the status that fits it (main.go:72 to
\* main.go:107).
LEMMA EndKept ==
  ASSUME StageInv, EndInv, RelaySoFar, [CliNext]_allVars PROVE EndInv'
<1> USE DEF StageInv, EndInv
<1>0. /\ phase \in {"built", "failed"} => phase' = phase /\ reason' = reason
  BY CommandUsesBuildClaim, CallsAreFinal
<1>1. CASE ReadFlags \/ ProbePasses \/ ProbeFails
  <2>1. UNCHANGED relayVars /\ stage \in {"flags", "probe"} /\ (exit' = exit \/ exit' = "fatal")
    BY <1>1 DEF ReadFlags, ProbePasses, ProbeFails, Exit
  <2> QED
    BY <2>1, RelayLeft DEF Untouched
<1>2. CASE BuildFails
  BY <1>2, RelayLeft DEF BuildFails, Exit, Untouched, vars
<1>3. CASE Built
  <2>1. UNCHANGED <<relayVars, dryRun, phase>> /\ stage = "build" /\ phase = "built"
          /\ exit = "none" 
        /\ IF dryRun THEN exit' = "success" ELSE exit' = exit
    BY <1>3 DEF Built, Exit, flags, vars
  <2> QED
    BY <2>1, RelayLeft DEF Untouched
<1>4. CASE Relays
  BY <1>4 DEF Relays
<1>5. CASE Relayed
  <2>1. UNCHANGED <<relayVars, dryRun, phase>> /\ stage = "relay"
          /\ exit' = (IF answer = "ok" THEN "success" ELSE "fatal")
    BY <1>5 DEF Relayed, Exit, flags, vars
  <2> QED
    BY <2>1, RelayLeft DEF RelaySoFar
<1>6. CASE Builds \/ SaysYes \/ SaysSkip \/ SaysCancel \/ InputEnds \/ AsksAgain \/ Outside
             \/ UNCHANGED allVars
  <2>1. /\ UNCHANGED <<command, dryRun, stage, exit, relayVars>>
        /\ command => stage = "build" \/ UNCHANGED <<phase, reason>>
    BY <1>6, QuietSteps DEF flags
  <2> QED
    BY <2>1, RelayLeft
<1> QED
  BY <1>1, <1>2, <1>3, <1>4, <1>5, <1>6 DEF CliNext, Command, Answers

\* A backend is probed after the ones before it have failed, and the CPU is never
\* handed over as a native solver (main.go:118 to main.go:173).
LEMMA BackendKept ==
  ASSUME BackendInv, StageInv, FlagTypes, [CliNext]_allVars PROVE BackendInv'
<1> USE DEF BackendInv
<1>1. CASE command /\ ReadFlags
  <2>1. UNCHANGED <<command, solver, unusable>> /\ backend = "none"
    BY <1>1 DEF ReadFlags, flags, dialog, choice
  <2>2. \/ backend' = backend /\ stage' = "exit"
        \/ backend' = "cpu" /\ solver = "cpu" /\ stage' = "build" /\ opts'.native = FALSE
        \/ backend' = "metal" /\ solver = "auto" /\ stage' = "probe"
        \/ backend' = solver /\ solver \notin {"auto", "unknown", "cpu"} /\ stage' = "probe"
    BY <1>1, BackendList DEF ReadFlags, choice, Exit, Chosen, CallsWith, Call
  <2> QED
    BY <1>1, <2>1, <2>2
<1>2. CASE command /\ ProbePasses
  <2>1. UNCHANGED <<command, solver, choice>> /\ stage = "probe" /\ stage' = "build"
        /\ opts'.native = (backend # "cpu")
    BY <1>2 DEF ProbePasses, Chosen, CallsWith, Call, flags
  <2> QED
    BY <1>2, <2>1 DEF choice
<1>3. CASE command /\ ProbeFails
  <2>1. UNCHANGED <<command, solver>> /\ unusable' = unusable \cup {backend} /\ stage = "probe"
    BY <1>3 DEF ProbeFails, flags
  <2>2. CASE solver = "auto" /\ backend # "cpu"
    <3>1. /\ \/ backend = "metal" /\ backend' = "cuda"
             \/ backend = "cuda" /\ backend' = "webgpu"
             \/ backend = "webgpu" /\ backend' = "cpu"
          /\ stage' = "probe"
      BY <1>3, <2>2, NextBackend
    <3> QED
      BY <1>3, <2>1, <2>2, <3>1
  <2>3. CASE ~(solver = "auto" /\ backend # "cpu")
    <3>1. backend' = backend /\ stage' = "exit" /\ phase' = phase /\ phase = "idle"
      BY <1>3, <2>1, <2>3, BackendList DEF ProbeFails, Exit, vars, StageInv
    <3> QED
      BY <1>3, <2>1, <3>1
  <2> QED
    BY <2>2, <2>3
<1>4. CASE command /\ (BuildFails \/ Built \/ Relays \/ Relayed)
  <2>1. UNCHANGED <<command, solver, choice, phase, opts>>
          /\ stage \notin {"flags", "probe"} /\ stage' \notin {"flags", "probe"}
    BY <1>4 DEF BuildFails, Built, Relays, Relayed, flags, vars, Exit
  <2> QED
    BY <2>1 DEF choice
<1>5. CASE Builds \/ SaysYes \/ SaysSkip \/ SaysCancel \/ InputEnds \/ AsksAgain \/ Outside
             \/ UNCHANGED allVars
  <2>1. /\ UNCHANGED <<command, solver, choice, stage>>
        /\ command => stage = "build" \/ phase' = phase
    BY <1>5, QuietSteps DEF flags
  <2>2. command => opts' = opts
    BY <1>5 DEF Builds, Works, SaysYes, SaysSkip, SaysCancel, InputEnds, AsksAgain,
       Outside, allVars, vars,
           Block, RejectOptions, ReadTip, Scan, EsploraFails, Filter, GrindFinds, GrindFails, Split,
           Accept, Skip, Decline, ConfirmFails
  <2> QED
    BY <2>1, <2>2 DEF StageInv, choice
<1> QED
  BY <1>1, <1>2, <1>3, <1>4, <1>5 DEF CliNext, Command, Answers

(*************************************************************************)
(* The answers of the user                                               *)
(*************************************************************************)

\* Sequences of skips.
LEMMA SkippedIs ==
    /\ Skipped(0) = <<>>
    /\ \A n \in Nat : Skipped(n) \in Seq({"skip"}) /\ Len(Skipped(n)) = n
    /\ \A n \in Nat : Append(Skipped(n), "skip") = Skipped(n + 1)
<1>1. Skipped(0) = <<>>
  BY DEF Skipped
<1>2. ASSUME NEW n \in Nat PROVE Skipped(n) \in Seq({"skip"}) /\ Len(Skipped(n)) = n
  BY DEF Skipped
<1>3. ASSUME NEW n \in Nat PROVE Append(Skipped(n), "skip") = Skipped(n + 1)
  BY DEF Skipped
<1> QED
  BY <1>1, <1>2, <1>3

\* Skipping the candidate at an index makes as many skips as the index.
LEMMA OneMoreSkipped ==
  ASSUME NEW i \in Nat \ {0}, NEW n \in Nat, i <= n
  PROVE  /\ Append(Skipped(i - 1), "skip") = Skipped(i)
         /\ (i + 1) - 1 = i
         /\ ~(i < n) => i = n
<1>1. i - 1 \in Nat /\ (i - 1) + 1 = i
  OBVIOUS
<1>2. Append(Skipped(i - 1), "skip") = Skipped((i - 1) + 1)
  BY <1>1, SkippedIs
<1>3. (i + 1) - 1 = i /\ (~(i < n) => i = n)
  OBVIOUS
<1> QED
  BY <1>1, <1>2, <1>3

\* What the user's answers say about BuildClaim.
AnswersInv ==
    command =>
        /\ phase \in {"idle", "tip", "scan", "filter"} => answers = <<>>
        /\ phase = "prompt" => answers = Skipped(index - 1)
        /\ phase \in {"grind", "split", "built"} => answers = Append(Skipped(index - 1), "yes")
        /\ reason = "none selected" => answers = Skipped(Len(candidates))
        /\ reason = "canceled" => answers = Append(Skipped(index - 1), "cancel")
        /\ reason = "confirm" => answers = Append(Skipped(index - 1), "nothing")

\* What BuildClaim does on its own needs no answer and undoes none.
LEMMA WorksNeedNoAnswer ==
  ASSUME BuildInv, AnswersInv, Works, UNCHANGED <<command, answers>> PROVE AnswersInv'
<1> USE DEF AnswersInv
<1>1. CASE RejectOptions \/ ReadTip \/ Scan \/ EsploraFails
  <2>1. /\ phase \in {"idle", "tip", "scan"} /\ phase' \in {"scan", "filter", "failed"}
        /\ phase' = "failed" => reason' \in {"options", "esplora", "no utxos"}
        /\ phase' # "failed" => reason' = reason
    BY <1>1 DEF RejectOptions, ReadTip, Scan, EsploraFails, Fail
  <2> QED
    BY <2>1 DEF BuildInv, Progress
<1>2. CASE Filter
  <2>1. /\ phase = "filter"
        /\ \/ phase' = "failed" /\ reason' = "no candidate"
           \/ phase' = "prompt" /\ reason' = reason /\ index' = 1
    BY <1>2 DEF Filter, Fail
  <2>2. command => answers' = <<>>
    BY <2>1
  <2>3. CASE phase' = "failed"
    BY <2>1, <2>3
  <2>4. CASE phase' = "prompt"
    <3>1. index' - 1 = 0 /\ reason' = "none"
      BY <2>1, <2>4 DEF BuildInv, Progress
    <3>2. Skipped(index' - 1) = <<>>
      BY <3>1, SkippedIs
    <3> QED
      BY <2>2, <2>4, <3>1, <3>2
  <2> QED
    BY <2>1, <2>3, <2>4
<1>3. CASE GrindFinds \/ GrindFails \/ Split
  <2>1. /\ phase \in {"grind", "split"} /\ UNCHANGED index
        /\ \/ phase' = "failed" /\ reason' \in {"grind", "context", "difficulty"}
           \/ phase' \in {"split", "built"} /\ reason' = reason
    BY <1>3 DEF GrindFinds, GrindFails, Split, Fail
  <2> QED
    BY <2>1 DEF BuildInv, Progress
<1> QED
  BY <1>1, <1>2, <1>3 DEF Works

\* Each step of BuildClaim's dialog is what the user just answered (main.go:225
\* to main.go:241).
LEMMA AnswersKept ==
  ASSUME AnswersInv, BuildInv, StageInv, [CliNext]_allVars PROVE AnswersInv'
<1> USE DEF AnswersInv
<1>0. phase = "prompt" =>
        /\ index \in Nat \ {0} /\ Len(candidates) \in Nat /\ index <= Len(candidates)
        /\ reason = "none"
  <2>1. candidates \in Seq(CandidateRecord)
          /\ (phase = "prompt" => index \in 1..Len(candidates) /\ reason = "none")
    BY DEF BuildInv, Progress, TypeOK
  <2> QED
    BY <2>1
<1>1. CASE command /\ (ReadFlags \/ ProbePasses \/ ProbeFails)
  <2>1. UNCHANGED <<command, answers, reason>> /\ phase = "idle" /\ phase' \in {"idle", "tip"}
    BY <1>1 DEF ReadFlags, ProbePasses, ProbeFails, Chosen, CallsWith, Call, flags, dialog,
       vars, StageInv
  <2> QED
    BY <2>1 DEF BuildInv, Progress
<1>2. CASE Builds
  BY <1>2, WorksNeedNoAnswer DEF Builds, cliVars, flags, dialog
<1>3. CASE SaysYes
  BY <1>0, <1>3 DEF SaysYes, Accept, Decides, flags
<1>4. CASE SaysSkip
  <2>1. /\ phase = "prompt" /\ UNCHANGED <<command, candidates>>
        /\ answers' = Append(answers, "skip")
        /\ \/ index < Len(candidates) /\ index' = index + 1 /\ UNCHANGED <<phase, reason>>
           \/ ~(index < Len(candidates)) /\ index' = index /\ phase' = "failed"
                /\ reason' = "none selected"
    BY <1>0, <1>4 DEF SaysSkip, Skip, Decides, flags, Fail
  <2>2. /\ Append(Skipped(index - 1), "skip") = Skipped(index)
        /\ (index + 1) - 1 = index
        /\ ~(index < Len(candidates)) => index = Len(candidates)
    BY <1>0, <2>1, OneMoreSkipped
  <2>3. command => answers' = Skipped(index)
    BY <2>1, <2>2
  <2>4. CASE phase' = "failed"
    BY <1>0, <2>1, <2>2, <2>3, <2>4
  <2>5. CASE phase' = "prompt"
    <3>1. index' - 1 = index
      BY <1>0, <2>1, <2>2, <2>5
    <3> QED
      BY <1>0, <2>1, <2>3, <2>5, <3>1
  <2> QED
    BY <2>1, <2>4, <2>5
<1>5. CASE SaysCancel
  BY <1>0, <1>5 DEF SaysCancel, Decline, Decides, flags, Fail
<1>6. CASE InputEnds
  BY <1>0, <1>6 DEF InputEnds, ConfirmFails, Decides, flags, Fail
<1>7. CASE AsksAgain \/ BuildFails \/ Built \/ Relays \/ Relayed \/ UNCHANGED allVars
  <2>1. UNCHANGED <<command, answers, vars>>
    BY <1>7 DEF AsksAgain, BuildFails, Built, Relays, Relayed, allVars, cliVars, flags, dialog
  <2> QED
    BY <2>1 DEF vars
<1>8. CASE Outside
  BY <1>8 DEF Outside, Block, cliVars, flags, dialog
<1> QED
  BY <1>1, <1>2, <1>3, <1>4, <1>5, <1>6, <1>7, <1>8 DEF CliNext, Command, Answers

\* The whole invariant.
CliInv ==
    /\ BuildInv /\ RelaySoFar /\ FlagTypes /\ StageInv /\ EndInv /\ BackendInv /\ AnswersInv
    /\ answers \in Seq({"yes", "skip", "cancel", "nothing"})

\* The answers are the four decisions.
LEMMA AnswersTyped ==
  ASSUME answers \in Seq({"yes", "skip", "cancel", "nothing"}), [CliNext]_allVars
  PROVE  answers' \in Seq({"yes", "skip", "cancel", "nothing"})
<1>1. \/ answers' = answers
      \/ \E d \in {"yes", "skip", "cancel", "nothing"} : answers' = Append(answers, d)
  BY DEF CliNext, Command, Answers, ReadFlags, ProbePasses, ProbeFails, Builds, SaysYes,
     SaysSkip, SaysCancel, InputEnds,
     Decides, AsksAgain, BuildFails, Built, Relays, Relayed, Outside, allVars, cliVars, dialog
<1> QED
  BY <1>1

\* What the relay has promised holds through every step of the command.
LEMMA RelayKept == ASSUME RelaySoFar, [CliNext]_allVars PROVE RelaySoFar'
<1>1. [Relay!Next]_relayVars
  BY DEF CliNext, Command, Answers, ReadFlags, ProbePasses, ProbeFails, Builds, SaysYes,
     SaysSkip, SaysCancel, InputEnds,
     Decides, AsksAgain, BuildFails, Built, Relays, Relayed, Outside, allVars, cliVars
<1> QED
  BY <1>1, RelayPromises

\* The invariant holds when main starts.
LEMMA CliInitially == CliInit => CliInv
<1> SUFFICES ASSUME CliInit PROVE CliInv
  OBVIOUS
<1>1. BuildInv /\ phase = "idle" /\ reason = "none"
  BY BuildInitially DEF CliInit, Init
<1>2. RelaySoFar /\ Untouched
  <2>1. Relay!Init
    BY DEF CliInit
  <2>2. listens \in BOOLEAN /\ greeted = FALSE /\ offered = FALSE /\ requested = FALSE
        /\ given = 0 /\ answer = "none"
    BY <2>1 DEF Relay!Init
  <2>3. offered \in BOOLEAN /\ greeted \in BOOLEAN /\ requested \in BOOLEAN
    BY <2>2, Zenon
  <2> QED
    BY <2>2, <2>3 DEF RelaySoFar, Untouched
<1>3. FlagTypes
  BY BackendList, MaxIdleAssumption DEF CliInit, FlagTypes
<1>4. StageInv /\ EndInv
  <2>1. stage = "flags" /\ exit = "none"
    BY DEF CliInit
  <2> QED
    BY <1>1, <1>2, <2>1 DEF StageInv, EndInv, Untouched
<1>5. BackendInv
  BY <1>1 DEF CliInit, BackendInv
<1>6. AnswersInv /\ answers \in Seq({"yes", "skip", "cancel", "nothing"})
  BY <1>1 DEF CliInit, AnswersInv
<1> QED
  BY <1>1, <1>2, <1>3, <1>4, <1>5, <1>6 DEF CliInv

\* The inductive invariant of the command, of BuildClaim under it, and of the
\* relay it starts.
THEOREM CliInvariant == CliSpec => []CliInv
<1>1. CliInv /\ [CliNext]_allVars => CliInv'
  BY CommandUsesBuildClaim, BuildKeeps, RelayKept, FlagsKept, StageKept, EndKept,
     BackendKept, AnswersKept, AnswersTyped DEF CliInv
<1> QED
  BY CliInitially, <1>1, PTL DEF CliSpec

\* Type correctness, for every set of coins, options and block heights.
THEOREM CliTypeCorrect == CliSpec => []CliTypeOK
<1>1. CliInv => CliTypeOK
  BY BackendList DEF CliInv, BuildInv, RelaySoFar, FlagTypes, StageInv, CliTypeOK
<1> QED
  BY <1>1, CliInvariant, PTL

\* A claim that is built can be in the next block and in every later one: the
\* script takes its difficulty, the sequence is long enough for the script and
\* not longer than the coin is old, and its output is no dust (claim.go:136 to
\* claim.go:157, claim.go:316).
THEOREM ClaimCanBeSpent == CliSpec => []BuiltIsSpendable
<1>1. CliInv => BuiltIsSpendable
  BY SpendableBecause DEF CliInv
<1> QED
  BY <1>1, CliInvariant, PTL

\* What becomes of BuildClaim is what the user answered, candidate by candidate
\* (main.go:225 to main.go:241, claim.go:263).
THEOREM UserDecides == CliSpec => []AnswersDecide
<1>1. CliInv => AnswersDecide
  BY DEF CliInv, AnswersInv, AnswersDecide
<1> QED
  BY <1>1, CliInvariant, PTL

\* Only a finished claim of the coin the user said yes to is announced, and none
\* in a dry run (main.go:72 to main.go:99).
THEOREM OnlyWantedIsAnnounced == CliSpec => []AnnouncedIsWanted
<1>1. CliInv => AnnouncedIsWanted
  <2> SUFFICES ASSUME CliInv, offered PROVE ~dryRun /\ phase = "built"
                        /\ Len(answers) = index /\ Last(answers) = "yes"
    BY DEF AnnouncedIsWanted
  <2>1. ~dryRun /\ phase = "built" /\ command
    BY DEF CliInv, StageInv, Untouched, FlagTypes
  <2>2. index - 1 \in Nat /\ answers = Append(Skipped(index - 1), "yes")
    BY <2>1 DEF CliInv, AnswersInv, BuildInv, Progress
  <2>3. Len(answers) = index /\ answers[index] = "yes"
    <3> DEFINE skips == Skipped(index - 1)
    <3>1. skips \in Seq({"skip"}) /\ Len(skips) = index - 1
      BY <2>2, SkippedIs
    <3>2. answers = Append(skips, "yes")
      BY <2>2
    <3> HIDE DEF skips
    <3>3. index \in Nat
      BY <2>1 DEF CliInv, BuildInv, Progress
    <3> QED
      BY <2>2, <3>1, <3>2, <3>3
  <2> QED
    BY <2>1, <2>3 DEF Last
<1> QED
  BY <1>1, CliInvariant, PTL

\* The exit status tells what was done (main.go:72 to main.go:107).
THEOREM StatusIsTrue == CliSpec => []ExitIsTrue
<1>1. CliInv => ExitIsTrue
  BY DEF CliInv, StageInv, EndInv, ExitIsTrue
<1> QED
  BY <1>1, CliInvariant, PTL

\* "auto" comes down to the CPU only when every other backend failed its probe,
\* and then no claim is refused for its difficulty (main.go:118 to main.go:173,
\* claim.go:223).
THEOREM CpuComesLast == CliSpec => []CpuIsTheLastResort
<1>1. CliInv => CpuIsTheLastResort
  <2> SUFFICES ASSUME CliInv, command, backend = "cpu"
               PROVE  /\ solver = "cpu" \/ (solver = "auto"
                           /\ {"metal", "cuda", "webgpu"} \subseteq unusable)
                      /\ reason # "difficulty"
    BY DEF CpuIsTheLastResort
  <2>1. reason = "difficulty" => phase = "failed" /\ opts.native
    BY DEF CliInv, BuildInv, Progress
  <2>2. phase = "failed" => stage \notin {"flags", "probe"}
    BY DEF CliInv, StageInv
  <2> QED
    BY <2>1, <2>2 DEF CliInv, BackendInv
<1> QED
  BY <1>1, CliInvariant, PTL
(***************************************************************************)
(* The difficulties at which a nonce is refused                            *)
(***************************************************************************)

\* The hash that was ground is one the solver can have found, and a refused one
\* was found by a native solver, at a difficulty between whole bytes.
Refusal ==
    /\ phase = "split" => hash \in Hashes(selected.diff)
    /\ reason = "difficulty" =>
          phase = "failed" /\ opts.native /\ index \in 1..Len(candidates) /\ selected.diff % 8 # 0

\* Every step keeps what is known of a refused nonce.
LEMMA RefusalKept == ASSUME BuildInv, Refusal, [Next]_vars PROVE Refusal'
<1>0. /\ phase \in Places /\ reason \in Reasons
      /\ phase # "failed" => reason = "none"
      /\ phase \in {"prompt", "grind", "split", "built"} => index \in 1..Len(candidates)
      /\ phase = "split" => (IF opts.native THEN hash.low ELSE hash.high)
      /\ hash.low \in BOOLEAN /\ hash.high \in BOOLEAN
  BY BuildParts DEF BuildInv, Progress, PlainTypes
<1>1. CASE GrindFinds
  <2>1. /\ phase = "grind" /\ phase' = "split" /\ reason' = reason
        /\ hash' \in Hashes(selected.diff) /\ UNCHANGED <<candidates, index>>
    BY <1>1 DEF GrindFinds
  <2>2. selected' = selected
    BY <2>1 DEF selected
  <2>3. Hashes(selected.diff)' = Hashes(selected.diff)
    BY <2>2 DEF Hashes
  <2> QED
    BY <1>0, <2>1, <2>3 DEF Refusal
<1>2. CASE Split
  <2>1. /\ phase = "split" /\ reason = "none" /\ UNCHANGED <<opts, candidates, index>>
        /\ index \in 1..Len(candidates)
        /\ \/ hash.high /\ phase' = "built" /\ reason' = reason
           \/ ~hash.high /\ phase' = "failed" /\ reason' = "difficulty"
    BY <1>0, <1>2 DEF Split, Fail
  <2>2. selected' = selected
    BY <2>1 DEF selected
  <2>3. ASSUME ~hash.high PROVE opts.native /\ selected.diff % 8 # 0
    <3>1. opts.native /\ hash.low
      BY <1>0, <2>1, <2>3
    <3>2. hash.low # hash.high
      BY <2>3, <3>1
    <3>3. selected.diff % 8 = 0 => hash.low = hash.high
      BY <2>1 DEF Refusal, Hashes
    <3> QED
      BY <3>1, <3>2, <3>3
  <2> QED
    BY <2>1, <2>2, <2>3 DEF Refusal
<1>3. CASE UNCHANGED <<opts, phase, reason, candidates, index, hash>>
  <2>1. selected' = selected
    BY <1>3 DEF selected
  <2> QED
    BY <1>3, <2>1 DEF Refusal, Hashes
<1>4. CASE phase' # "split" /\ reason' # "difficulty"
  BY <1>4 DEF Refusal
<1>5. GrindFinds \/ Split \/ UNCHANGED <<opts, phase, reason, candidates, index, hash>>
        \/ (phase' # "split" /\ reason' # "difficulty")
  <2>1. CASE Block \/ Cancel \/ UNCHANGED vars
    BY <2>1 DEF Block, Cancel, vars
  <2>2. CASE \/ \E o \in Options : Call(o)
             \/ RejectOptions \/ ReadTip \/ Scan \/ EsploraFails \/ Filter
    BY <1>0, <2>2 DEF Call, RejectOptions, ReadTip, Scan, EsploraFails, Filter, Fail
  <2>3. CASE Accept \/ Skip \/ Decline \/ ConfirmFails \/ GrindFails
    BY <1>0, <2>3 DEF Accept, Skip, Decline, ConfirmFails, GrindFails, Fail
  <2> QED
    BY <2>1, <2>2, <2>3 DEF Next, Claim, Works
<1> QED
  BY <1>1, <1>2, <1>3, <1>4, <1>5

\* A ground nonce is refused only if a native solver ground it, and only at a
\* difficulty that is no multiple of 8: GrindHeader's never is, and where every
\* candidate has a multiple of 8 no solver's is, so README.md:43 holds there
\* (claim.go:223).
THEOREM RefusedOnlyBetweenBytes ==
  CliSpec => /\ []Refusal
             /\ []((\A i \in 1..Len(candidates) : candidates[i].diff % 8 = 0)
                     => YesMinesAndSpends)
<1>1. CliInit => Refusal
  BY DEF CliInit, Init, Refusal
<1>2. CliInv /\ Refusal /\ [CliNext]_allVars => Refusal'
  BY CommandUsesBuildClaim, RefusalKept DEF CliInv
<1>3. Refusal => ((\A i \in 1..Len(candidates) : candidates[i].diff % 8 = 0)
                    => YesMinesAndSpends)
  BY DEF Refusal, YesMinesAndSpends, selected
<1> QED
  BY <1>1, <1>2, <1>3, CliInvariant, PTL DEF CliSpec

(***************************************************************************)
(* Progress                                                                *)
(***************************************************************************)

\* The steps BuildClaim has before it at most: each coin may be asked about.
BuildLeft ==
    CASE phase = "idle"   -> 6 + Cardinality(Coins)
      [] phase = "tip"    -> 5 + Cardinality(Coins)
      [] phase = "scan"   -> 4 + Cardinality(Coins)
      [] phase = "filter" -> 3 + Cardinality(Coins)
      [] phase = "prompt" -> 3 + (Len(candidates) - index)
      [] phase = "grind"  -> 2
      [] phase = "split"  -> 1
      [] OTHER            -> 0

\* The probes that are left from a backend on.
ProbesLeft(b) ==
    CASE b = "metal" -> 4 [] b = "cuda" -> 3 [] b = "webgpu" -> 2 [] OTHER -> 1

StagesLeft ==
    CASE stage = "flags" -> 7
      [] stage = "probe" -> 2 + ProbesLeft(backend)
      [] stage = "build" -> 2
      [] stage = "relay" -> 1
      [] OTHER           -> 0

Pending(done) == IF done THEN 0 ELSE 1

RelayStepsLeft ==
    Pending(greeted) + Pending(offered) + Pending(requested) + Pending(given = 1)
      + Pending(answer # "none")

LinesLeft == MaxIdle - idle

\* The steps main has before it at most.
StepsLeft == StagesLeft + BuildLeft + LinesLeft + RelayStepsLeft

\* Each coin is a candidate once at most.
FewCandidates == Len(candidates) <= Cardinality(Coins)

LEMMA FewCandidatesKept ==
  ASSUME BuildInv, FewCandidates, [Next]_vars PROVE FewCandidates'
<1>1. CASE Filter /\ phase' = "prompt"
  <2> DEFINE kept == {c \in utxos : Eligible(c)}
  <2>1. kept # {}
    BY <1>1 DEF Filter, Fail
  <2>2. kept \subseteq Coins
    BY DEF BuildInv, TypeOK
  <2>3. IsFiniteSet(kept) /\ Cardinality(kept) <= Cardinality(Coins)
    BY <2>2, CoinsAssumption, FS_Subset
  <2>4. PICK order \in SetToSeqs(kept) :
            candidates' = [i \in DOMAIN order |-> CandidateOf(order[i])]
    BY <1>1, <2>1 DEF Filter
  <2>5. order \in [1..Cardinality(kept) -> kept] /\ Cardinality(kept) \in Nat
    BY <2>3, <2>4, FS_CardinalityType DEF SetToSeqs
  <2> HIDE DEF kept
  <2>6. DOMAIN order = 1..Cardinality(kept)
    BY <2>5
  <2>7. Len(candidates') = Cardinality(kept)
    BY <2>4, <2>5, <2>6
  <2> QED
    BY <2>3, <2>7 DEF FewCandidates
<1>2. CASE ~(Filter /\ phase' = "prompt")
  BY <1>2, BuildParts, OthersLeaveCandidates DEF BuildInv, FewCandidates
<1> QED
  BY <1>1, <1>2

\* The values of what is left of BuildClaim.
BuildLeftTyped ==
    /\ Cardinality(Coins) \in Nat
    /\ BuildLeft \in 0..(6 + Cardinality(Coins))
    /\ phase = "prompt" => index \in 1..Len(candidates) /\ Len(candidates) \in Nat

\* What is left of BuildClaim is a number of steps.
LEMMA BuildLeftIs == BuildInv /\ FewCandidates => BuildLeftTyped
<1> USE DEF BuildLeftTyped
<1> HAVE BuildInv /\ FewCandidates
<1>1. Cardinality(Coins) \in Nat
  BY CoinsAssumption, FS_CardinalityType
<1>2. phase = "prompt" => index \in 1..Len(candidates) /\ Len(candidates) \in Nat
        /\ Len(candidates) <= Cardinality(Coins)
  BY DEF BuildInv, TypeOK, Progress, FewCandidates
<1> QED
  BY <1>1, <1>2 DEF BuildLeft

\* The same of the next state.
LEMMA BuildLeftNext == BuildInv' /\ FewCandidates' => BuildLeftTyped'
BY BuildLeftIs, PTL

\* Every step of BuildClaim lowers what is left of it; the chain and the context
\* go on beside it (claim.go:263).
LEMMA BuildComesCloser ==
  ASSUME BuildInv, BuildInv', FewCandidates, FewCandidates', [Next]_vars
  PROVE  \/ BuildLeft' < BuildLeft
         \/ UNCHANGED <<coin, opts, phase, reason, tip, utxos, candidates, index, hash>>
<1> DEFINE n == Cardinality(Coins)
<1>0. /\ n \in Nat /\ BuildLeft \in Nat /\ BuildLeft' \in Nat
      /\ phase = "prompt" => index \in 1..Len(candidates) /\ Len(candidates) \in Nat
      /\ phase' = "prompt" => index' \in 1..Len(candidates') /\ Len(candidates') \in Nat
  BY BuildLeftIs, BuildLeftNext DEF BuildLeftTyped
<1>1. CASE Block \/ Cancel \/ UNCHANGED vars
  BY <1>1 DEF Block, Cancel, vars, chainVars
<1>2. CASE (\E o \in Options : Call(o)) \/ RejectOptions \/ ReadTip \/ Scan \/ EsploraFails
  <2>1. \/ phase \in {"idle", "tip", "scan"} /\ phase' = "failed"
        \/ phase = "idle" /\ phase' = "tip"
        \/ phase = "tip" /\ phase' = "scan"
        \/ phase = "scan" /\ phase' = "filter"
    BY <1>2 DEF Call, RejectOptions, ReadTip, Scan, EsploraFails, Fail
  <2> QED
    BY <1>0, <2>1 DEF BuildLeft
<1>3. CASE Filter
  <2>1. phase = "filter" /\ (phase' = "failed" \/ (phase' = "prompt" /\ index' = 1))
    BY <1>3 DEF Filter, Fail
  <2>2. Len(candidates') <= n
    BY DEF FewCandidates
  <2> QED
    BY <1>0, <2>1, <2>2 DEF BuildLeft
<1>4. CASE Skip
  <2>1. /\ phase = "prompt" /\ candidates' = candidates
        /\ phase' = "failed" \/ (phase' = "prompt" /\ index' = index + 1)
    BY <1>4 DEF Skip, Fail
  <2> QED
    BY <1>0, <2>1 DEF BuildLeft
<1>5. CASE Accept \/ Decline \/ ConfirmFails \/ GrindFinds \/ GrindFails \/ Split
  <2>1. \/ phase \in {"prompt", "grind", "split"} /\ phase' \in {"built", "failed"}
        \/ phase = "prompt" /\ phase' = "grind"
        \/ phase = "grind" /\ phase' = "split"
    BY <1>5 DEF Accept, Decline, ConfirmFails, GrindFinds, GrindFails, Split, Fail
  <2> QED
    BY <1>0, <2>1 DEF BuildLeft
<1> QED
  BY <1>1, <1>2, <1>3, <1>4, <1>5 DEF Next, Claim, Works

\* What is left of the relay is a number of steps, and each of them lowers it.
LEMMA RelayComesCloser ==
  ASSUME RelaySoFar, RelaySoFar'
  PROVE  /\ RelayStepsLeft \in 0..5 /\ RelayStepsLeft' \in 0..5
         /\ Relay!Next => RelayStepsLeft' < RelayStepsLeft
         /\ UNCHANGED relayVars => RelayStepsLeft' = RelayStepsLeft
<1>1. RelayStepsLeft \in 0..5 /\ RelayStepsLeft' \in 0..5
  <2>1. \A b : Pending(b) \in 0..1
    BY DEF Pending
  <2> QED
    BY <2>1 DEF RelayStepsLeft
<1> DEFINE g == Pending(greeted)
           o == Pending(offered)
           q == Pending(requested)
           h == Pending(given = 1)
           a == Pending(answer # "none")
<1>2. PICK g2, o2, q2, h2, a2 \in 0..1 :
          /\ g2 = Pending(greeted') /\ o2 = Pending(offered') /\ q2 = Pending(requested')
          /\ h2 = Pending(given' = 1) /\ a2 = Pending(answer' # "none")
  BY DEF Pending
<1>3. g \in 0..1 /\ o \in 0..1 /\ q \in 0..1 /\ h \in 0..1 /\ a \in 0..1
  BY DEF Pending
<1>4. RelayStepsLeft = g + o + q + h + a /\ RelayStepsLeft' = g2 + o2 + q2 + h2 + a2
  BY <1>2 DEF RelayStepsLeft, Pending
<1>5. ASSUME Relay!Next
      PROVE  /\ g2 <= g /\ o2 <= o /\ q2 <= q /\ h2 <= h /\ a2 <= a
             /\ g2 # g \/ o2 # o \/ q2 # q \/ h2 # h \/ a2 # a
  <2>1. CASE Relay!Greet
    BY <1>2, <2>1 DEF Relay!Greet, Pending
  <2>2. CASE Relay!Offer
    BY <1>2, <2>2 DEF Relay!Offer, Pending
  <2>3. CASE Relay!Request
    BY <1>2, <2>3 DEF Relay!Request, Pending
  <2>4. CASE Relay!Give
    BY <1>2, <2>4 DEF Relay!Give, Pending
  <2>5. CASE Relay!EndListening \/ Relay!GiveUp
    BY <1>2, <2>5 DEF Relay!EndListening, Relay!GiveUp, Pending
  <2> QED
    BY <1>5, <2>1, <2>2, <2>3, <2>4, <2>5 DEF Relay!Next
<1>6. UNCHANGED relayVars => RelayStepsLeft' = RelayStepsLeft
  BY DEF relayVars, RelayStepsLeft
<1> HIDE DEF g, o, q, h, a
<1>7. (/\ g2 <= g /\ o2 <= o /\ q2 <= q /\ h2 <= h /\ a2 <= a
       /\ g2 # g \/ o2 # o \/ q2 # q \/ h2 # h \/ a2 # a)
        => g2 + o2 + q2 + h2 + a2 < g + o + q + h + a
  BY <1>3
<1> QED
  BY <1>1, <1>4, <1>5, <1>6, <1>7

\* Every step of the command lowers what is left of it.
LEMMA CommandComesCloser ==
  ASSUME CliInv, CliInv', FewCandidates, FewCandidates', [CliNext]_allVars
  PROVE  \/ StepsLeft' < StepsLeft
         \/ UNCHANGED <<coin, opts, phase, reason, tip, utxos, candidates, index, hash, cliVars>>
<1>0. BuildInv /\ BuildInv' /\ RelaySoFar /\ RelaySoFar' /\ FlagTypes /\ FlagTypes' /\ StageInv
  BY DEF CliInv
<1>1. /\ BuildLeft \in Nat /\ BuildLeft' \in Nat
      /\ RelayStepsLeft \in 0..5 /\ RelayStepsLeft' \in 0..5
      /\ LinesLeft \in Nat /\ LinesLeft' \in Nat
      /\ idle' = idle => LinesLeft' = LinesLeft
      /\ idle' = idle + 1 => LinesLeft' < LinesLeft
  <2>1. /\ BuildLeft \in 0..(6 + Cardinality(Coins)) /\ BuildLeft' \in 0..(6 + Cardinality(Coins))
        /\ Cardinality(Coins) \in Nat
    BY <1>0, BuildLeftIs, BuildLeftNext DEF BuildLeftTyped
  <2>2. RelayStepsLeft \in 0..5 /\ RelayStepsLeft' \in 0..5
    BY <1>0, RelayComesCloser
  <2>3. MaxIdle \in Nat /\ idle \in 0..MaxIdle /\ idle' \in 0..MaxIdle
    BY <1>0, MaxIdleAssumption DEF FlagTypes
  <2>4. PICK i \in 0..MaxIdle : i = idle'
    BY <2>3
  <2>5. LinesLeft = MaxIdle - idle /\ LinesLeft' = MaxIdle - i
    BY <2>4 DEF LinesLeft
  <2>6. LinesLeft \in Nat /\ LinesLeft' \in Nat
    <3>1. MaxIdle - idle \in Nat /\ MaxIdle - i \in Nat
      BY <2>3
    <3> QED
      BY <2>5, <3>1
  <2>7. /\ idle' = idle => LinesLeft' = LinesLeft
        /\ idle' = idle + 1 => LinesLeft' < LinesLeft
    <3>1. i = idle + 1 => MaxIdle - i < MaxIdle - idle
      BY <2>3
    <3> QED
      BY <2>4, <2>5, <3>1
  <2>8. BuildLeft \in Nat /\ BuildLeft' \in Nat
    BY <2>1
  <2> QED
    BY <2>2, <2>6, <2>7, <2>8
<1>2. StagesLeft \in 0..7 /\ StagesLeft' \in 0..7
  BY DEF StagesLeft, ProbesLeft
<1>3. \/ BuildLeft' < BuildLeft
      \/ UNCHANGED <<coin, opts, phase, reason, tip, utxos, candidates, index, hash>>
  BY <1>0, CommandUsesBuildClaim, BuildComesCloser
<1>4. UNCHANGED <<phase, candidates, index>> => BuildLeft' = BuildLeft
  BY DEF BuildLeft
<1>5. UNCHANGED <<stage, backend>> => StagesLeft' = StagesLeft
  BY DEF StagesLeft
<1>6. BuildLeft' <= BuildLeft
  BY <1>1, <1>3, <1>4
<1>7. UNCHANGED relayVars => RelayStepsLeft' = RelayStepsLeft
  BY <1>0, RelayComesCloser
<1>sizes. PICK s \in 0..7, b \in Nat, l \in Nat, r \in 0..5 :
          s = StagesLeft' /\ b = BuildLeft' /\ l = LinesLeft' /\ r = RelayStepsLeft'
  BY <1>1, <1>2
<1>sums. StepsLeft = StagesLeft + BuildLeft + LinesLeft + RelayStepsLeft
      /\ StepsLeft' = s + b + l + r
  BY <1>sizes DEF StepsLeft
<1>less. ASSUME s <= StagesLeft, b <= BuildLeft, l <= LinesLeft, r <= RelayStepsLeft,
             s # StagesLeft \/ b # BuildLeft \/ l # LinesLeft \/ r # RelayStepsLeft
      PROVE  StepsLeft' < StepsLeft
  BY <1>1, <1>2, <1>sums, <1>less
<1>8. ASSUME UNCHANGED <<idle, relayVars>>, StagesLeft' < StagesLeft
      PROVE  StepsLeft' < StepsLeft
  <2>1. s < StagesLeft /\ b <= BuildLeft /\ l = LinesLeft /\ r = RelayStepsLeft
    BY <1>1, <1>6, <1>7, <1>8, <1>sizes
  <2> QED
    BY <1>1, <1>2, <1>less, <2>1
<1>9. ASSUME UNCHANGED <<idle, relayVars, stage, backend>>, BuildLeft' < BuildLeft
      PROVE  StepsLeft' < StepsLeft
  <2>1. s = StagesLeft /\ b < BuildLeft /\ l = LinesLeft /\ r = RelayStepsLeft
    BY <1>1, <1>5, <1>7, <1>9, <1>sizes
  <2> QED
    BY <1>1, <1>2, <1>less, <2>1
<1>10. CASE ReadFlags \/ ProbePasses
  <2>1. /\ UNCHANGED <<idle, relayVars>>
        /\ \/ stage = "flags" /\ stage' \in {"probe", "build", "exit"}
           \/ stage = "probe" /\ stage' = "build"
    BY <1>10 DEF ReadFlags, ProbePasses, Chosen, CallsWith, Exit, dialog
  <2>2. StagesLeft' < StagesLeft
    BY <2>1 DEF StagesLeft, ProbesLeft
  <2> QED
    BY <1>8, <2>1, <2>2
<1>11. CASE ProbeFails
  <2>1. UNCHANGED <<idle, relayVars>> /\ stage = "probe"
    BY <1>11 DEF ProbeFails, dialog
  <2>2. CASE solver = "auto" /\ backend # "cpu"
    <3>1. /\ stage' = "probe"
          /\ \/ backend = "metal" /\ backend' = "cuda"
             \/ backend = "cuda" /\ backend' = "webgpu"
             \/ backend = "webgpu" /\ backend' = "cpu"
      BY <1>11, <2>2, NextBackend
    <3>2. StagesLeft' < StagesLeft
      BY <2>1, <3>1 DEF StagesLeft, ProbesLeft
    <3> QED
      BY <1>8, <2>1, <3>2
  <2>3. CASE ~(solver = "auto" /\ backend # "cpu")
    <3>1. stage' = "exit"
      BY <1>11, <2>3, BackendList DEF ProbeFails, Exit
    <3>2. StagesLeft' < StagesLeft
      BY <2>1, <3>1 DEF StagesLeft, ProbesLeft
    <3> QED
      BY <1>8, <2>1, <3>2
  <2> QED
    BY <2>2, <2>3
<1>12. CASE Builds
  <2>1. UNCHANGED cliVars
    BY <1>12 DEF Builds
  <2>2. UNCHANGED <<idle, relayVars, stage, backend>>
    BY <2>1 DEF cliVars, dialog, choice
  <2> QED
    BY <1>3, <1>9, <2>1, <2>2
<1>13. CASE SaysYes \/ SaysSkip \/ SaysCancel \/ InputEnds
  <2>1. UNCHANGED <<idle, relayVars, stage, backend>>
    BY <1>13 DEF SaysYes, SaysSkip, SaysCancel, InputEnds, Decides, choice
  <2>2. BuildLeft' < BuildLeft
    <3>1. phase = "prompt" /\ (phase' # "prompt" \/ index' = index + 1)
      BY <1>13 DEF SaysYes, SaysSkip, SaysCancel, InputEnds, Accept, Skip, Decline,
         ConfirmFails, Fail
    <3>2. phase = "prompt" => index \in Nat
      BY <1>0, BuildLeftIs DEF BuildLeftTyped
    <3>3. phase' # phase \/ index' # index
      BY <3>1, <3>2
    <3> QED
      BY <1>3, <3>3
  <2> QED
    BY <1>9, <2>1, <2>2
<1>14. CASE AsksAgain
  <2>1. /\ idle' = idle + 1 /\ UNCHANGED <<stage, backend, relayVars>>
    BY <1>14 DEF AsksAgain, choice
  <2>2. s = StagesLeft /\ b <= BuildLeft /\ l < LinesLeft /\ r = RelayStepsLeft
    BY <1>1, <1>5, <1>6, <1>7, <1>sizes, <2>1
  <2> QED
    BY <1>1, <1>2, <1>less, <2>2
<1>15. CASE BuildFails \/ Built \/ Relayed
  <2>1. /\ UNCHANGED <<idle, relayVars>>
        /\ \/ stage = "build" /\ stage' \in {"relay", "exit"}
           \/ stage = "relay" /\ stage' = "exit"
    BY <1>15 DEF BuildFails, Built, Relayed, Exit, dialog
  <2>2. StagesLeft' < StagesLeft
    BY <2>1 DEF StagesLeft
  <2> QED
    BY <1>8, <2>1, <2>2
<1>16. CASE Relays
  <2>1. Relay!Next /\ UNCHANGED <<idle, stage, backend>>
    BY <1>16 DEF Relays, dialog, choice
  <2>2. RelayStepsLeft' < RelayStepsLeft
    BY <1>0, <2>1, RelayComesCloser
  <2>3. s = StagesLeft /\ b <= BuildLeft /\ l = LinesLeft /\ r < RelayStepsLeft
    BY <1>1, <1>5, <1>6, <1>sizes, <2>1, <2>2
  <2> QED
    BY <1>1, <1>2, <1>less, <2>3
<1>17. CASE Outside \/ UNCHANGED allVars
  <2>1. UNCHANGED cliVars
    BY <1>17 DEF Outside, allVars
  <2>2. UNCHANGED <<idle, relayVars, stage, backend>>
    BY <2>1 DEF cliVars, dialog, choice
  <2> QED
    BY <1>3, <1>9, <2>1, <2>2
<1> QED
  BY <1>10, <1>11, <1>12, <1>13, <1>14, <1>15, <1>16, <1>17 DEF CliNext, Command, Answers

\* The command cannot go on for ever: it has at most 18 steps, one for each coin
\* and one for each line that decides nothing before it, and whatever it or
\* BuildClaim's other callers do lowers what is left; only the chain and the
\* context move beside it (main.go:72, claim.go:263).
THEOREM EveryStepComesCloser ==
  CliSpec => /\ [](StepsLeft \in 0..(18 + Cardinality(Coins) + MaxIdle))
             /\ [][\/ StepsLeft' < StepsLeft
                   \/ UNCHANGED <<coin, opts, phase, reason, tip, utxos, candidates, index,
                                  hash, cliVars>>]_allVars
<1>1. CliInit => FewCandidates
  <2> SUFFICES ASSUME CliInit PROVE FewCandidates
    OBVIOUS
  <2>1. candidates = <<>> /\ Cardinality(Coins) \in Nat
    BY CoinsAssumption, FS_CardinalityType DEF CliInit, Init
  <2> QED
    BY <2>1 DEF FewCandidates
<1>2. CliInv /\ FewCandidates /\ [CliNext]_allVars => FewCandidates'
  BY CommandUsesBuildClaim, FewCandidatesKept DEF CliInv
<1>3. CliInv /\ CliInv' /\ FewCandidates /\ FewCandidates' /\ [CliNext]_allVars
        => \/ StepsLeft' < StepsLeft
           \/ UNCHANGED <<coin, opts, phase, reason, tip, utxos, candidates, index, hash,
                          cliVars>>
  BY CommandComesCloser
<1>4. CliInv /\ FewCandidates => StepsLeft \in 0..(18 + Cardinality(Coins) + MaxIdle)
  <2> SUFFICES ASSUME CliInv, FewCandidates
               PROVE  StepsLeft \in 0..(18 + Cardinality(Coins) + MaxIdle)
    OBVIOUS
  <2>1. Cardinality(Coins) \in Nat /\ BuildLeft \in 0..(6 + Cardinality(Coins))
    BY BuildLeftIs DEF CliInv, BuildLeftTyped
  <2>2. RelayStepsLeft \in 0..5
    <3>1. \A b : Pending(b) \in 0..1
      BY DEF Pending
    <3> QED
      BY <3>1 DEF RelayStepsLeft
  <2>3. StagesLeft \in 0..7
    BY DEF StagesLeft, ProbesLeft
  <2>4. MaxIdle \in Nat /\ idle \in 0..MaxIdle
    BY MaxIdleAssumption DEF CliInv, FlagTypes
  <2> QED
    BY <2>1, <2>2, <2>3, <2>4 DEF StepsLeft, LinesLeft
<1> QED
  BY <1>1, <1>2, <1>3, <1>4, CliInvariant, PTL DEF CliSpec
=============================================================================
