# powcoins-go in TLA+

powcoins-go claims coins from a proof-of-work faucet on Bitcoin Signet: it finds
unspent faucet outputs through an Esplora server, builds a Taproot claim, grinds a
nonce for a fake block header until its double SHA-256 is small enough, and hands
the claim to a node over the P2P protocol. This directory models that program:
what each part does, step by step, what each part promises, and where the promise
is checked by TLC or proved with TLAPS.

Paths such as `relay.go:125` are relative to `powcoins/`, `shasolve/` or
`cmd/powcoins-go/` of the repository. `PROJECT.json` maps every definition to its lines.

## 1. The system

| component | source | state it keeps | operations | talks to |
| --- | --- | --- | --- | --- |
| proof-of-work rules | `grind.go`, `hal.go`, three kernels, `scripts.go` | none | is this hash a proof of difficulty d; cut the hash into a witness | everything below |
| solver contract | `hal.go` | a `Job`: header, difficulty, start, limit, batch | `Solver.Solve` | claim builder, commands |
| CPU solver | `cpu.go` | nonce, tries | `Solve` | context |
| GPU solvers | `cuda_*`, `metal_*`, `webgpu.go` | batch start, what remains, the result cell in device memory | `Solve`, the kernel | device, driver, context |
| header grinder | `grind.go` | nonce, tries | `GrindHeader` | context |
| claim arithmetic | `claim.go`, `scripts.go` | none | difficulty, lock time, fee of a coin | claim builder |
| claim builder | `claim.go` | tip, coins, candidates, selection | `BuildClaim` | Esplora scan, user, solvers |
| Esplora scan | `esplora.go` | page, last transaction, funded and spent maps | `TipHeight`, `FaucetUTXOs` | Esplora server |
| P2P relay | `relay.go` | handshake flags, connection, deadline | `RelayTxWithOptions` | a Bitcoin node |
| command powcoins-go | `cmd/powcoins-go` | flags, chosen backend, its measured rate | select, prompt, estimate, claim, relay | all of the above |
| command sha-bench | `cmd/sha-bench` | none | solve and verify per backend | solvers |
| CUDA runtime state | `cuda_impl.c`, `cuda_linux.go` | process-wide handles, function pointers, context, module | load, compile, prepare, allocate, solve | driver, Go scheduler |

The flow of a claim is tip height, scan, filter, prompt, grind, witness, relay. The
components call one another synchronously; what runs concurrently is outside the
calling goroutine: the kernel threads of a batch, the chain that grows while the
program scans, asks and grinds, the node at the other end of the connection, the
clock behind every deadline, and whoever cancels the context.

What makes each part hard, and what makes it correct:

- **Rules.** "Difficulty d" is written down four times with different bit orders.
  Correct: the same hashes pass, or the difference is known.
- **Solvers.** Thousands of threads race for one word of memory, whose "empty"
  value is itself a nonce; 32-bit arithmetic meets a 64-bit limit; the context can
  end and the driver can fail at any point. Correct: what is returned is a proof
  the job asked for, and "no solution" means there is none.
- **Claim builder.** The difficulty and the lock time come from a tip that is
  stale by the time the claim is finished. Correct: a finished claim is spendable
  in the next block.
- **Scan.** Three histories are read one after the other in pages while they
  grow. Correct: exactly the coins that are unspent are offered.
- **Relay.** Any message in any order, under an absolute deadline. Correct: the
  protocol is kept, the call ends, and "nil" means the claim was handed over.
- **Command.** An empty line is a yes and real coins hang on it; estimates fail or
  time out in the middle of the prompt; backends fail their probes. Correct: what is
  mined and announced is what the user said yes to, and the exit status is true.
- **CUDA state.** Each call finds the handles as the calls before left them, in
  particular the failed ones; a context is current on one OS thread and a goroutine
  is not bound to one. Correct: nothing is leaked, no failed call leaves a handle
  with nothing behind it, and what the calls before left is reported as an error.

## 2. The modules

| module | models | composed of |
| --- | --- | --- |
| `PowRule` | the four proof-of-work rules, on 32-byte hashes | |
| `NonceSpace` | the nonce space, jobs, uint32 addition | |
| `NonceSearch` | the abstract specification of a search | `NonceSpace` |
| `SequentialSearch` | `CPUSolver.Solve` and `GrindHeader` | refines `NonceSearch` |
| `BatchSolver` | `Solve` of CUDA, Metal and WebGPU, and the kernel | refines `NonceSearch` |
| `ClaimPolicy` | difficulty, lock time, fee, scripts, witness size | |
| `ClaimBuilder` | `BuildClaim` | `ClaimPolicy`; rests on `PowRule`, `FaucetScan` |
| `FaucetScan` | `TipHeight`, `FaucetUTXOs`, the height filter | |
| `RelayContract` | the abstract specification of a relay | |
| `RelayTx` | `RelayTxWithOptions` with an arbitrary peer | refines `RelayContract` |
| `RelaySession` | the same with a node that follows the protocol, or with a stranger | `RelayTx` |
| `PowcoinsCli` | the command, and other callers of `BuildClaim` | `ClaimBuilder`, `RelayContract` |
| `CudaRuntime` | the process-wide state of the CUDA solver | leaves the batch loop to `BatchSolver` |
| `NonceSpaceTheorems`, `SequentialSearchProofs`, `BatchSolverProofs`, `FaucetScanProofs`, `RuleProofs`, `CudaRuntimeProofs`, `RelayProofs`, `PowcoinsCliProofs` | theorems and proofs | the modules each is about |
| `MC*` | instances for TLC; `MCPowRule` and `MCClaimPolicy` are sweeps over operators | |

A definition called "Mutation" is a plausible slip in the definition that follows
it. No specification uses one: each is there so that a property can be seen to
fail when the code has that slip.

### How state and actions correspond to the code

**PowRule.** A hash is a function from byte index to byte, with the code's indices.
`ValidPowHash` is `validPowHash`; `Verify` is `TrailingZeroBits` and its
comparison; `HasTrailingZeroBits` is the word test of the CUDA and Metal kernels,
with the byte order of a digest word spelled out; `WebGPUDifficultyCheck` is the
list of tests that `buildWebGPUDifficultyCheck` writes into the shader; and
`ScriptAcceptsProof` is the tail of the faucet script, decoded opcode by opcode
from the hex in `scripts.go`: the zero bytes it appends from the binary digits of
d - 16, the threshold it picks from the remainder, the hash it rebuilds.

**The searches.** SHA-256 is abstracted to the set `job.good` of nonces whose
header meets the difficulty; TLC and the proofs range over every such set. The
nonce space is `0..MaxNonce`, and `Advance` is addition modulo its size, so
wrapping is real. A `limit` can be open, shorter or longer than the space.

*SequentialSearch* holds the two searches that run on the CPU, told apart by
`solver`. Both alternate between the context and the hash; `CPUSolver.Solve` looks
at the context first, `GrindHeader` hashes first, and always starts at 0 without a
limit. There is one action per way through the loop body: the context check
(`StopOnCancel`, `GoOn`), a nonce that meets the difficulty (`Hit`), one that does
not, with the end at the last nonce (`Miss`), and `CPUSolver.Solve`'s loop condition
(`Exhaust`); `GrindHeader`'s loop has none, and only the last nonce ends it.
`Miss` advances the cursor at once; `GrindHeader` does so after its context check,
but nothing reads the nonce in between. Cancellation can fall between any two steps.

*BatchSolver* holds the three backends in one module with a variable `backend`,
since they share the loop and differ at three places that the guards name:
CUDA and Metal run the whole loop in one C call between two context checks
(`Native`), WebGPU checks before each batch and while it waits (`StopOnCancel`,
`MapCanceled`); WebGPU's kernel has no early exit, Metal's and WebGPU's exchange is
weak (`ThreadCasSpurious`); and a device error has three different ends
(`DeviceFails`). `Launch` resets the result cell and starts the grid. A kernel
thread is `ThreadRun` (bound check and hash), then `ThreadCas` if its nonce is
good; a thread that saw a nonce in the cell leaves by `ThreadEarlyExit`. The racy
read is a choice: a thread may also not have seen it. The cell starts with any
value, as freshly allocated device memory does. `Faults` says which faults an
instance allows: `spuriousCas` and `deviceError`.

*NonceSearch* is what a caller may rely on: `Report` only a good nonce the job
reaches, `GiveUp` only if the requested range has no good nonce outside `MayMiss`,
`Canceled` only if the context is done, `Fail`. `MayMiss` is empty for the
sequential searches. For the batch solvers it is `{NotFound}`, and the refinement
mapping reads a "no solution" after a device fault as a failure
(`ReliableOutcome`): such an answer says nothing about the nonces.

**ClaimPolicy and ClaimBuilder.** All numbers are the program's: three scripts,
their delays, weights and lengths. `ClaimBuilder` follows `BuildClaim` from `idle`
through its phases `tip, scan, filter, prompt, grind, split` to `built` or `failed`.
`Call` starts it with any options, `RejectOptions` ends it before the first request if
the difficulties are out of order or the address, which is left out, is no good.
`Filter` is the whole loop over the coins and the sort, one action. The random part of
the score is below one (`claim.go:158`); between values that are powers of two it only
decides between equal scores, and the sort leaves these in any order. The prompt is `Accept`, `Skip`, `Decline`, or `ConfirmFails` when
the callback returns an error. The header hash that grinding returns is reduced to
the two tests the program makes of it; at whole bytes they are the same test, which
`MCPowRule` checks. Blocks can be found at any time, and the caller's context can end.

**FaucetScan.** The chain is the sequence of confirmed transactions that touch a
faucet script, one per block, each with the coins it spends and the scripts it
pays; `Confirm` can happen between any two requests. `ReadPage` is one request
with everything the loop body does with its answer. The server (`IsPage`) is
external: the newest transactions of an address, or those older than the last one
seen. `truncated` remembers which histories were left at the page limit.

**RelayTx.** One action per message the client reads in each of its three loops,
per write that completes or fails, per timeout and per close. A message is its
command, and a ping's nonce. The connection holds `Buffer` messages per
direction, so that a peer that stops reading blocks a write. Time is a number of
ticks to the deadline; `Tick` is independent of everything else.

**RelayContract** is what a caller may rely on: after a handshake of both sides the
claim is offered, it is handed over once to a peer that asks for it after the offer,
and the answer fits what was done. `RelayTx` implements it by the mapping in its
definition `Contract`; the history variables `sent`, `asked` and `copies` are there
for this mapping.

**RelaySession** has one of two peers. The node answers `version` with `version` and
`verack`, asks for a claim it does not have, pings, and sends messages the client
ignores; `misused` records a breach of the protocol as the node sees it. The stranger
sends anything at any time or nothing. Both are external. `has` says whether the node
had the claim before. In a `patient` session no deadline passes and nobody hangs up.

**PowcoinsCli** is `main` in its stages `flags, probe, build, relay, exit`. The
backends are tried in the order of `Backends`; a probe is `ProbePasses` or
`ProbeFails`, which covers its error and its 30 seconds (`main.go:176`). In stage
`build` the steps of `ClaimBuilder` are the command's, and each of its prompts is
answered by a user: `SaysYes`, `SaysSkip`, `SaysCancel`, the end of the input
(`InputEnds`), or a line that decides nothing (`AsksAgain`), which includes an
estimate, whether it succeeds, fails or runs into its two minutes. `answers` is the
history of what was decided. Stage `relay` takes the steps of `RelayContract`, on
the strength of the refinement. Where `command` is false, another program calls
`BuildClaim`, with any options and a context that may end; the command itself gives
it fixed kinds of options (`CallsWith`) and a context that never ends.

**CudaRuntime** has one label for each driver call, or group of them, after which
`shasolve_cuda_prepare` or `shasolve_cuda_solve` can return early. Each of these has
a way on and a way out, and `held` is what is allocated there. `load_libraries` looks at
two handles only and leaves `resolved` where the first missing symbol stopped it; `Calls` and
`CallsOnFault` list the functions a step calls when it goes on and when it fails,
and `Crash` is a call through one that was not resolved. `Moves` is the Go scheduler,
which may resume the goroutine on another thread between any two C calls; the driver
calls that need the context fail on the wrong one. A kernel that fails in `Search` may
break the context for good (`broken`): the driver then answers every call in it with
the same error, and the program keeps `cuda_ctx`. `cause` is the history of why a Solve
gave no answer: `Blame` tells a call that fails of itself from one that fails for what
the calls before left. `persists` is a caller that tries
again after its very first call failed, which neither command of the repository does.

## 3. The runs

| run | shows | bounds |
| --- | --- | --- |
| `pow_rule` | where the four rules agree | boundary byte over 20 values, fillers 0, 1, 255, at 13 positions, difficulties 0 to 80 |
| `sequential_search` | least nonce, hash count, contract, termination | 5 nonces, every start, every good set, limits 0 to 7 |
| `batch_solver` | soundness of the answer, dispatch limit, contract, termination | 5 nonces, limits 0 to 6, blocks of 2, batches up to 2 (Metal 4), three backends, both faults |
| `claim_policy` | lock time, sequence, fee, difficulty | 700 confirmations, five destination types, 1, 2 and 5 sat/vB |
| `powcoins_cli` | a built claim is spendable, for any caller; the user's answers decide, what is announced is wanted, the exit status is true, the CPU comes last; both callers end | 2 coins, 4 ages, 2 values, one block meanwhile, any choice of solver, one idle line |
| `faucet_scan` | what is offered was unspent, what is unspent is offered; termination | 2 scripts, 4 transactions, pages of 2, one or three pages |
| `relay_session` | the client implements `RelayContract` with either peer; the node never sees a breach; success means delivery; delivery while there is time; every call returns | 3 ticks, 2 of listening or none, 2 messages per direction, 2 ping nonces, patient and impatient sessions, a node with and without the claim |
| `cuda_runtime` | nothing leaks; the legacy of earlier calls is of three known kinds and is reported; null pointers | 2 threads, each of the 24 symbols missing or none, any number of calls |

Why the bounds are enough. Every limit in the code has its small counterpart, and
the instances reach both sides of each: a limit that ends inside a batch, inside a
block, at the end of the nonce space and beyond it; a batch that wraps; the
difficulty at its top, at its floor (script 1 reaches it at 640 confirmations) and
between; a page that is short, full, and the last one allowed; a connection that is
full; a deadline that passes in each phase. In `powcoins_cli` the command is run
with coins of one script and one value, since its dialog depends only on how many
candidates there are, while other callers get every mix of coins; an idle line
leaves the dialog as it was, so that one of them shows what more would.
`cuda_runtime` needs two threads, the one of the context and another. `pow_rule`
needs no hash that is random in its first 20 bytes, since no rule reads them at
difficulty 80 or less. Deadlock checking is off, since every one of these programs
ends.

### What the repository says and the code does not do

Four runs look for a violation, each of a property that quotes a document, a flag
description or an error message, and each found:

| run | what happens |
| --- | --- |
| `claim_gpu_nonce` | a GPU solver accepts a nonce by the low bits of the boundary byte, `splitPowWitness` refuses it by the high bits; at difficulties that are no multiple of 8 a mined nonce may be thrown away |
| `batch_driver_error` | `shasolve_cuda_solve` returns 0 after a driver error in its loop, and Go says "no solution" |
| `claim_fee_rate` | below difficulty 24 the witness is a byte longer than the fee assumes, and the claim pays less than 1 sat/vB at the default rate |
| `faucet_truncated` | a history cut at `-max-pages` hides the spend of a coin that another history gave away |

Seven more exceptions have no run of their own. They show in how the properties
that hold are stated:

- The batch solvers report the nonce 0xffffffff as "no solution", since the value
  stands for "none" in the result cell: `MayMiss` is `{NotFound}` for them.
- A weak exchange that fails spuriously, on Metal and WebGPU, is not retried, and
  the only solution of a search is lost: `spuriousCas` is a mishap for
  `ReliableOutcome`.
- A coin younger than its script's delay is at difficulty 80, which no script takes
  (d - 16 must be below 64). With `-max-difficulty 80` it is offered, mined and
  refused by the chain: `BuiltIsSpendable` ends below 80.
- A goroutine that comes back from Go on another thread than the one that created the
  CUDA context fails with "invalid context" (`cuda_impl.c:356`): one of the causes that
  `LegacyIsKnown` allows.
- A kernel that fails on the device breaks the CUDA context, which is never destroyed
  or created anew (`cuda_impl.c:356`, `cuda_impl.c:423`): every later Solve of the
  process fails. `LegacyIsKnown` allows this cause as well, and `LegacyIsReported` says
  that these Solves return an error; only the one in which the kernel failed says "no
  solution", which is the finding of `batch_driver_error`.
- A caller that tries again after its very first call failed on a library that lacks
  a symbol calls a null pointer (`cuda_impl.c:219`): `NeverThroughNull` allows it
  there and nowhere else.
- A claim that the node already has is never asked for, and relaying it again ends in
  a timeout error (`relay.go:128`): `OkMeansDelivered` and `Returns` say that it is
  an end, and no success.

Likewise `PaysMinimumRelayFee` starts at difficulty 24, and `OfferedWasUnspent`
excepts the cut histories exactly as far as needed.

## 4. Fairness

Weak fairness of the goroutine that runs a search, a scan, a claim or a relay: it
is never suspended for ever, and every request it makes is answered, fails or runs
into a timeout (`http.Client.Timeout`, `SetDeadline`). Weak fairness of `Kernel`:
a device runs the threads it was given. Nothing makes a context be canceled, a fault
happen, a block be found or a stranger send or read anything, so `Terminates` holds of
the program alone. `CudaRuntime` has no fairness: its labels are a straight line, and
the one loop of a call, the batch loop, terminates in `BatchSolver`.

`CliSpec` has weak fairness of the command, and, for another caller, of `BuildClaim`.
Both count the user among what runs on: a prompt is answered in the end, after at
most `MaxIdle` lines that decide nothing. A user who asks for estimates for ever keeps
the command for ever.

`SessionSpec` has weak fairness of the client, weak fairness of the clock and strong
fairness of the node's handling of what it receives: its own pings and chatter may
take the room of its answer again and again, and a node that never gets round to
its input is not one that follows the protocol. `Returns` is about sessions in which
time passes: the deadlines end the call, whatever the peer does. `Delivered` is about
patient sessions, where the clock stands still, so that nothing but the messages
themselves can bring it about: it asks whether two willing sides can wait for each
other for ever.

## 5. What is proved

TLAPS checks the following for every value of the constants, from the named
assumptions of the modules (a nonce space of at least two nonces, a batch size
within it, at least one thread per block, positive pages, and so on) and nothing
else.

**Sequential search** (`SequentialSearchProofs`). `IInv` says that the cursor is the
start plus the count of hashes and that everything behind it is not good. The
checked invariants are not inductive without it: that the nonce found is the least,
or that "no solution" is exhaustive, follows only if each miss has been remembered.
From it: `TypeCorrect`, `TriesBounded`, `LeastNonce`, `Exhaustive`, and
`ImplementsContract`, the refinement of `NonceSearch`, for both searches.

**Batch search** (`BatchSolverProofs`). `IInv` has a part for each place the program
can be. In the loop (`Position`, `NothingMissed`): the batches so far are the first
nonces of the job. In a batch (`InFlight`): a thread that holds a nonce holds a
good one, the cell holds `NotFound` or a good nonce of this batch, and as long as
it holds `NotFound` every good nonce of the batch other than the sentinel is still
with a thread. That last conjunct is what makes the race harmless, and it holds
only while no exchange fails spuriously, which is why `mishaps` is a variable. At
the return from C (`AtEpilogue`): the answer is already sound. The lemma
`RoundingUpCovers` carries the one nonlinear step, that rounding up to whole
blocks covers the batch. From it: `AnswerIsSound` under every fault, `Exhaustive`
without one, and `ImplementsContract`, the refinement under every set of faults.
`LaunchFits` needs `GridIsBounded` and that rounding up is monotonic.

**Scan** (`FaucetScanProofs`). The invariant says of every script already read, of
the pages of the present one, and of every recorded output whose transaction is in
one history only, that what was confirmed by the tip and is newer is recorded.
`Confirm` keeps it because new transactions are above the tip, `ReadPage` because
a page continues where the last one ended. `OfferedIsUnspent` and `NothingIsLost`
follow at the end of the scan, for any number of scripts, any page size and limit
and any chain.

**Rules** (`RuleProofs`). The sweep of `MCPowRule` tries boundary hashes; the proofs
are about every hash of 32 bytes and every difficulty up to 80. Each rule is brought
to one form, so many zero bytes at the end and then a boundary byte with its lowest
(`VerifyIsBitRule`, `KernelIsBitRule`) or highest bits zero, and the target mantissa
and the script's threshold to the same power of two. The powers are tabulated by the
rest of the difficulty modulo 8, so that each case is linear. `KernelsAgree`,
`HeaderTargetIsRule`, `ScriptTakesTheSplit` and `OneRuleAtWholeBytes` are the four
agreements; `RulesOfTheSweep` says that they hold at every step of the sweep.
`RulesDifferBetweenBytes` shows that the disagreement of the finding is no accident of
one number: it exists in both directions at every difficulty that is no multiple of 8.
`AnswersAreModelled` and `ModelledAnswersOccur` justify what `ClaimBuilder` makes of
this: a header hash there is the pair of answers of the two rules, and `Hashes(d)` are
the pairs that hashes of bytes have: no others, and at every difficulty but 0 all of them.

**Claim arithmetic** (`RuleProofs`). For every age of a coin, every size of
the claim and every fee rate: the lock time has passed, Go and the script agree on
it, the difficulty falls by at most one bit per block, the fee covers 1 sat/vB
from difficulty 24 up, and from there on it covers the rate asked for as well
(`RequestedRatePaidByWeight`). These are case splits over the three scripts.

**Claim and command** (`PowcoinsCliProofs`). `CliInv` has one part per question.
`BuildInv` is `BuildClaim`'s own: `Progress` says that every candidate
was old enough for its sequence at the tip that was read and leaves more than dust,
which stays true because the chain only grows, and that the hash passed the test of
the solver, or of `splitPowWitness` once the claim is built; with it `BuiltIsSpendable`
follows for any number of coins and any heights. `CommandUsesBuildClaim` shows that
every step of the command is a step of `ClaimBuilder` or leaves it alone, so that
`BuildInv` carries over to the command and to every other caller at once.
`RelaySoFar` is what `RelayContract` promises about its own variables, `StageInv` ties
the stages to `BuildClaim`'s phases, `EndInv` the exit status to both, `BackendInv`
the chosen backend to those that failed before it, and `AnswersInv` the dialog to
`index` and `reason`. From them: `AnswersDecide`, `AnnouncedIsWanted`, `ExitIsTrue`,
`CpuIsTheLastResort`. The assumptions are a finite set of coins and numeric options.

**Relay** (`RelayProofs`). `RelayInv` says for each phase what has been written and
read so far; with it every step of the client is one of `RelayContract` or a stutter,
and no step of a peer is anything but a stutter: `ContractKept`, and
`SessionKeepsContract` for the session. `DeliveryInv` follows the one copy of the
claim from the client through the connection to the node: `SuccessMeansDelivery`.
`ProtocolKept` needs to know what is under way in both directions at once, and
`ManneredInv` says it by how far the node is: before its version (`FreshInv`,
`EarlyInv`), between version and verack (`GreetedInv`), after it (`ReadyInv`,
`CourseInv`: at most one announcement, one request and one copy, in this order), and
of a ping and its pong (`PongInv`), which are one thing in one of three places.

**CUDA state** (`CudaRuntimeProofs`). `Inv` says what is held at each label (`HeldAt`),
that the handles are set together with the functions unless one is missing
(`LibrariesInv`), that the module is set without the kernel only between the two
assignments (`ModuleInv`), that what worked once is still resolved (`WorkedInv`), and
that from the first buffer on the context is current here and unbroken (`LegacyInv`).
From it, for any set of threads: `NoLeak`, `LegacyStaysKnown`, `LegacyStaysReported`,
`NullNeedsRetry`.

**Where the findings end.** Each finding refutes a promise of the repository on a
small instance. The proofs say how far the promise holds after all, for every value
of the constants:

| refuted | holds | theorem |
| --- | --- | --- |
| `YesMinesAndSpends` | for `GrindHeader` always, and for every solver if the difficulties are multiples of 8 | `RefusedOnlyBetweenBytes` |
| `DriverErrorsReported` | on Metal and WebGPU; and on no backend is a nonce returned after an error (`NoAnswerAfterError`) | `OtherBackendsReportErrors` |
| `PaysRequestedFeeRate` | from difficulty 24 up, counted in weight, which is finer than vbytes | `RequestedRatePaidByWeight` |
| `DerivesUnspentOutputs` | as long as no history has `maxPages` full pages | `ShortHistoriesAreScannedInFull`, from `OnlyLongHistoriesAreCut` |

`Refusal` is the invariant behind the first: a hash that waits for `splitPowWitness`
has passed the test of the solver that found it. `ErrorHandled` is the one behind the
second: after an error nothing is found, and only in CUDA's C code can the return code
be lost.

**Progress.** The theorems called `EveryStepComesCloser`, and `DeadlinesAreAbsolute`,
give each component with a loop a measure in the natural numbers, with its bound, and
prove that every step of the program lowers it, whatever the environment does:
whatever is canceled, fails, is found by a thread or confirms, and in any order. They are safety
properties, and the part of termination that depends on the code; what they leave to
TLC is the part that depends on the scheduler, namely that a step which can be taken
is taken.

| module | measure | beside it may move |
| --- | --- | --- |
| `SequentialSearchProofs` | looks and hashes left, at most twice the limit and two | the cancellation, once |
| `BatchSolverProofs` | nonces left, then the place in the loop, then the work of the threads in flight, in lexicographic order | the cancellation, once |
| `FaucetScanProofs` | requests left, at most `maxPages` per script, and two steps | transactions that confirm |
| `PowcoinsCliProofs` | steps of the command, of `BuildClaim` and of the relay it starts, at most 18 and one per coin and per line that decides nothing | blocks, and the context |
| `RelayProofs` | time left, at most two timeouts and the listening time; messages never add to it and each tick takes from it | messages, while the clock stands |

Model-checked only:

- Liveness (`Terminates`, `Ends`, `Delivered`, `Returns`), which this prover cannot
  treat. For all but `Delivered` the measures above are its safety core. `Delivered`
  has none: that no two sides wait for each other depends on the strong fairness of
  the node and on the room in both directions.

## 6. What is not modelled

- SHA-256, midstates and the generated shader text: arithmetic without control,
  beyond TLC. `job.good` stands for the function.
- Signing, Taproot tweaks, addresses, wire encoding: calls into btcd.
- Setting up a Metal or WebGPU device: one step that works or fails.
- Several goroutines in the CUDA solver at once. Its C state has no lock, and two
  callers would race for all of it; neither command does this, and `CudaRuntime`
  assumes one goroutine at a time.
- What the command prints, and the rates its estimates show; an estimate is the fact
  that the prompt comes back.
- `sha-bench`, which has no state beyond its loop, and the stubs for backends a build
  leaves out, which return an error.
- `EsploraClient.FeeRate`: nobody calls it. The unconfirmed branch of the scan is
  dead for `/txs/chain`, which lists confirmed transactions only; a reorganisation
  of the chain during a scan is left out.
- `OnMessage`, `Progress`, rates and times: observation only.

## 7. Plan

Done, in this order: the rules (`PowRule`), the contract and the searches
(`NonceSpace`, `NonceSearch`, `SequentialSearch`, `BatchSolver`), the claim
(`ClaimPolicy`, `ClaimBuilder`), the scan (`FaucetScan`), the relay (`RelayTx`,
`RelaySession`, `RelayContract`), the CUDA state (`CudaRuntime`), the command
(`PowcoinsCli`), and the proofs of section 5.

What could follow:

1. The scan under `BuildClaim`: `ClaimBuilder` lets the scan report any confirmed
   coins, and `FaucetScan` says which they are. A contract between the two, as
   `RelayContract` is one between relay and command, would say what becomes of a
   claim whose coin is spent meanwhile.
2. The setup of a WebGPU device with its asynchronous callbacks, as `CudaRuntime`
   does it for CUDA.
3. The relay under the command as `RelayTx` itself: `PowcoinsCli` is composed of
   `RelayContract`, which `RelayTx` is proved to implement, and a theorem about the
   composition of the two modules would say so in one place.
