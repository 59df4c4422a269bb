----------------------------- MODULE PowcoinsCli ---------------------------
(***************************************************************************)
(* The command powcoins-go (cmd/powcoins-go/main.go): it chooses a solver, *)
(* has BuildClaim make a claim of the coin the user agrees to, and relays  *)
(* it.  BuildClaim is ClaimBuilder; the relay is RelayContract, which      *)
(* RelayTx implements.  BuildClaim is exported: where "command" is FALSE   *)
(* another program calls it, with options and a context of its own.  The   *)
(* command's own context is never done.                                    *)
(*                                                                         *)
(* A solver may fail at any call.  The measured rate, the device's name    *)
(* and the printed lines are left out.                                     *)
(***************************************************************************)
EXTENDS ClaimBuilder

CONSTANT MaxIdle    \* bound on the user's lines that decide nothing

ASSUME MaxIdleAssumption == MaxIdle \in Nat

VARIABLES
    command,    \* BuildClaim's caller is the command
    solver,     \* -solver
    dryRun,     \* -dry-run
    stage,      \* where main is: "flags", "probe", "build", "relay", "exit"
    backend,    \* the backend being probed, then the chosen one
    unusable,   \* the backends whose probe failed
    idle,       \* lines that decided nothing
    answers,    \* history: the user's decisions, one for each candidate
    exit,       \* "none", then "success" or "fatal" (log.Fatal)
    listens, greeted, offered, requested, given, answer   \* the relay

relayVars == <<listens, greeted, offered, requested, given, answer>>
flags == <<command, solver, dryRun>>
choice == <<backend, unusable>>
dialog == <<idle, answers>>
cliVars == <<flags, stage, choice, dialog, exit, relayVars>>
allVars == <<vars, cliVars>>

Relay == INSTANCE RelayContract

\* The order in which "auto" tries the backends.
Backends == <<"metal", "cuda", "webgpu", "cpu">>

CliInit ==
    /\ Init
    /\ command \in BOOLEAN
    /\ solver \in {"auto", "unknown"} \cup ToSet(Backends)
    /\ dryRun \in BOOLEAN
    /\ stage = "flags"
    /\ backend = "none"
    /\ unusable = {}
    /\ idle = 0
    /\ answers = <<>>
    /\ exit = "none"
    /\ Relay!Init

Exit(status) == stage' = "exit" /\ exit' = status

(***************************************************************************)
(* The flags and the choice of a backend                                   *)
(***************************************************************************)

\* BuildClaim is called with the chosen backend; "cpu" is no GrindSolver, and
\* GrindHeader does the work.
CallsWith(b, isNative) ==
    /\ stage' = "build"
    /\ \E o \in Options : o.native = isNative /\ Call(o)

\* Mutation: CPUSolver is handed to BuildClaim like the other backends.
ChosenAlike(b) == CallsWith(b, TRUE)

Chosen(b) == CallsWith(b, b # "cpu")

\* An address is missing or the solver is unknown; "cpu" by name is not probed.
ReadFlags ==
    /\ stage = "flags"
    /\ \/ Exit("fatal") /\ UNCHANGED <<vars, choice>>
       \/ /\ solver = "cpu"
          /\ backend' = "cpu"
          /\ Chosen("cpu")
          /\ UNCHANGED <<unusable, exit>>
       \/ /\ solver \notin {"cpu", "unknown"}
          /\ backend' = IF solver = "auto" THEN Backends[1] ELSE solver
          /\ stage' = "probe"
          /\ UNCHANGED <<vars, unusable, exit>>
    /\ UNCHANGED <<flags, dialog, relayVars>>

ProbePasses ==
    /\ stage = "probe"
    /\ Chosen(backend)
    /\ UNCHANGED <<flags, choice, dialog, exit, relayVars>>

\* The probe returns an error or its 30 seconds pass; "auto" tries the next
\* backend.
ProbeFails ==
    /\ stage = "probe"
    /\ unusable' = unusable \cup {backend}
    /\ IF solver = "auto" /\ backend # Last(Backends)
       THEN /\ \E i \in 2..Len(Backends) : backend = Backends[i - 1] /\ backend' = Backends[i]
            /\ UNCHANGED <<stage, exit>>
       ELSE Exit("fatal") /\ UNCHANGED backend
    /\ UNCHANGED <<vars, flags, dialog, relayVars>>

(***************************************************************************)
(* BuildClaim and the prompt                                               *)
(***************************************************************************)

Builds ==
    /\ stage = "build"
    /\ Works
    /\ UNCHANGED cliVars

\* The user decides about the candidate that is shown.
Decides(decision) ==
    /\ stage = "build"
    /\ answers' = Append(answers, decision)
    /\ UNCHANGED <<flags, stage, choice, idle, exit, relayVars>>

\* "y", "yes" or an empty line.
SaysYes == Accept /\ Decides("yes")

SaysSkip == Skip /\ Decides("skip")

\* "c", "cancel", "q" or "quit".
SaysCancel == Decline /\ Decides("cancel")

\* Mutation: the end of the input is read as an empty line.
InputEndsIsYes == Accept /\ Decides("nothing")

\* The input ends or cannot be read, also after part of a line.
InputEnds == ConfirmFails /\ Decides("nothing")

\* Mutation: an estimate that fails ends the prompt.
EstimateFailsPrompt ==
    /\ stage = "build"
    /\ idle < MaxIdle
    /\ ConfirmFails
    /\ idle' = idle + 1
    /\ UNCHANGED <<flags, stage, choice, answers, exit, relayVars>>

\* An estimate, which may fail or run into its two minutes, or a line that is no
\* answer: the prompt is repeated.
AsksAgain ==
    /\ stage = "build"
    /\ phase = "prompt"
    /\ idle < MaxIdle
    /\ idle' = idle + 1
    /\ UNCHANGED <<vars, flags, stage, choice, answers, exit, relayVars>>

Answers == SaysYes \/ SaysSkip \/ SaysCancel \/ InputEnds

\* BuildClaim has returned an error: "canceled" is a normal end.
BuildFails ==
    /\ stage = "build"
    /\ phase = "failed"
    /\ Exit(IF reason = "canceled" THEN "success" ELSE "fatal")
    /\ UNCHANGED <<vars, flags, choice, dialog, relayVars>>

\* Mutation: a dry run prints the claim and goes on.
BuiltIsRelayed ==
    /\ stage = "build"
    /\ phase = "built"
    /\ stage' = "relay"
    /\ UNCHANGED <<vars, flags, choice, dialog, exit, relayVars>>

Built ==
    /\ stage = "build"
    /\ phase = "built"
    /\ IF dryRun THEN Exit("success") ELSE stage' = "relay" /\ UNCHANGED exit
    /\ UNCHANGED <<vars, flags, choice, dialog, relayVars>>

(***************************************************************************)
(* The relay                                                               *)
(***************************************************************************)

Relays ==
    /\ stage = "relay"
    /\ Relay!Next
    /\ UNCHANGED <<vars, flags, stage, choice, dialog, exit>>

\* Mutation: the relay's error is dropped.
RelayedAnyway ==
    /\ stage = "relay"
    /\ answer # "none"
    /\ Exit("success")
    /\ UNCHANGED <<vars, flags, choice, dialog, relayVars>>

Relayed ==
    /\ stage = "relay"
    /\ answer # "none"
    /\ Exit(IF answer = "ok" THEN "success" ELSE "fatal")
    /\ UNCHANGED <<vars, flags, choice, dialog, relayVars>>

Command ==
    \/ ReadFlags \/ ProbePasses \/ ProbeFails
    \/ Builds \/ Answers \/ AsksAgain \/ BuildFails \/ Built
    \/ Relays \/ Relayed

\* Blocks are found; another program is free in what it gives BuildClaim.
Outside == (Block \/ (~command /\ Next)) /\ UNCHANGED cliVars

CliNext == (command /\ Command) \/ Outside

\* A probe, an estimate, a request, a grind and the relay end one way or other,
\* and the user answers, after at most MaxIdle lines that decide nothing.
CliSpec ==
    /\ CliInit
    /\ [][CliNext]_allVars
    /\ WF_allVars(command /\ Command)
    /\ WF_allVars(~command /\ Claim /\ UNCHANGED cliVars)

(***************************************************************************)
(* Properties                                                              *)
(***************************************************************************)

\* The values the variables take, BuildClaim's included.
CliTypeOK ==
    /\ TypeOK
    /\ command \in BOOLEAN
    /\ solver \in {"auto", "unknown"} \cup ToSet(Backends)
    /\ dryRun \in BOOLEAN
    /\ stage \in {"flags", "probe", "build", "relay", "exit"}
    /\ backend \in {"none"} \cup ToSet(Backends)
    /\ unusable \subseteq ToSet(Backends)
    /\ idle \in 0..MaxIdle
    /\ answers \in Seq({"yes", "skip", "cancel", "nothing"})
    /\ exit \in {"none", "success", "fatal"}
    /\ (exit # "none") = (stage = "exit")
    /\ listens \in BOOLEAN /\ greeted \in BOOLEAN /\ offered \in BOOLEAN /\ requested \in BOOLEAN
    /\ given \in 0..1
    /\ answer \in {"none", "ok", "failed"}

Skipped(n) == [i \in 1..n |-> "skip"]

\* What becomes of BuildClaim is what the user answered, candidate by candidate:
\* an estimate or a line that is no answer moves nothing, whether the estimate
\* succeeds or fails, and the end of the input is not an empty line, which would
\* be a yes (main.go:225 to main.go:241, claim.go:263).
AnswersDecide ==
    command =>
        /\ phase = "prompt" => answers = Skipped(index - 1)
        /\ phase \in {"grind", "split", "built"} => answers = Append(Skipped(index - 1), "yes")
        /\ reason = "none selected" => answers = Skipped(Len(candidates))
        /\ reason = "canceled" => answers = Append(Skipped(index - 1), "cancel")
        /\ reason = "confirm" => answers = Append(Skipped(index - 1), "nothing")

\* Nothing is announced to the peer but a finished claim of the coin the user
\* said yes to, and nothing in a dry run (main.go:72 to main.go:99).
AnnouncedIsWanted ==
    offered =>
        /\ ~dryRun
        /\ phase = "built"
        /\ Len(answers) = index /\ Last(answers) = "yes"

\* The exit status tells what was done: success is a cancellation by the user,
\* a dry run that built a claim, or a claim handed over; a failure after the
\* hand-over is possible only while listening (main.go:72 to main.go:107).
ExitIsTrue ==
    /\ exit = "success" =>
          \/ reason = "canceled"
          \/ phase = "built" /\ (IF dryRun THEN ~offered ELSE given = 1)
    /\ exit = "fatal" /\ given = 1 => listens
    /\ exit = "fatal" => phase \notin {"grind", "split"}

\* "auto" comes down to the CPU only when no other backend passed its probe, no
\* other choice ends there, and a claim ground on the CPU is never refused for
\* its difficulty, as it may be with the other backends (main.go:118 to
\* main.go:173, claim.go:223).
CpuIsTheLastResort ==
    command /\ backend = "cpu" =>
        /\ solver = "cpu" \/ (solver = "auto" /\ {"metal", "cuda", "webgpu"} \subseteq unusable)
        /\ reason # "difficulty"

\* The command ends, and BuildClaim returns to whoever calls it, if the user
\* answers in the end: each candidate is asked about once (claim.go:263).
Ends ==
    /\ command => <>(exit # "none")
    /\ ~command => Terminates
=============================================================================
