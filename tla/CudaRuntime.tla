----------------------------- MODULE CudaRuntime ---------------------------
(***************************************************************************)
(* The process-wide state of the CUDA solver (shasolve/cuda_impl.c): the   *)
(* two libraries and the functions resolved in them, the context, and the  *)
(* compiled kernel, which every later call finds as the earlier ones left  *)
(* them; and what one call allocates and must give back.                   *)
(*                                                                         *)
(* CUDASolver.Solve (cuda_linux.go) makes two C calls, prepare and solve.  *)
(* The goroutine that calls may be on another OS thread for each of them,  *)
(* and a CUDA context is current only on the thread that created it.  A    *)
(* driver call may fail at any time.  A kernel that fails on the device    *)
(* breaks the context for good: the driver answers every later call in it  *)
(* with the same error, and the program keeps it.  One goroutine calls, as *)
(* in the programs of the repository.  BatchSolver models the batch loop;  *)
(* here it is the three ways it ends.                                      *)
(***************************************************************************)
EXTENDS Naturals, Sequences

CONSTANTS
    Threads,    \* OS threads
    NoThread    \* no thread

ASSUME NoThreadAssumption == NoThread \notin Threads

\* In the order in which load_libraries resolves them, first in libcuda.
Symbols ==
    <<"cuInit", "cuDeviceGet", "cuDeviceGetName", "cuDeviceComputeCapability", "cuCtxCreate",
      "cuCtxDestroy", "cuCtxSynchronize", "cuMemAlloc", "cuMemFree", "cuMemcpyHtoD",
      "cuMemcpyDtoH", "cuModuleLoadDataEx", "cuModuleUnload", "cuModuleGetFunction",
      "cuLaunchKernel", "cuGetErrorString",
      "nvrtcCreateProgram", "nvrtcCompileProgram", "nvrtcGetPTXSize", "nvrtcGetPTX",
      "nvrtcGetProgramLogSize", "nvrtcGetProgramLog", "nvrtcDestroyProgram",
      "nvrtcGetErrorString">>

VARIABLES
    installed,    \* what the machine has; "lacks" is the first symbol that is missing, or 0
    persists,     \* a caller that tries again though its very first call failed
    thread,       \* the thread the goroutine is on
    cudaLib,      \* the library handles are set
    nvrtcLib,
    resolved,     \* how many of Symbols are
    described,    \* the device's name and architecture are known
    ctx,          \* cuda_ctx is set
    current,      \* the thread on which the context is current
    broken,       \* a kernel has failed in the context
    module,       \* cuda_module and cuda_kernel are set
    kernel,
    pc,           \* where the call is; "idle" and "between" are in Go
    call,         \* "prepare" or "solve"
    held,         \* what the call has allocated
    modules,      \* history: modules that are loaded on the device
    outcome,      \* of the last Solve: "answer", "nothing", "failed"; or "crashed"
    cause,        \* history: what kept it from an answer
    worked        \* history: a Solve has answered

machine == <<installed, persists>>
libraries == <<cudaLib, nvrtcLib, resolved>>
device == <<described, ctx, current, broken>>
code == <<module, kernel, modules>>
result == <<outcome, cause, worked>>
vars == <<machine, thread, libraries, device, code, pc, call, held, result>>

Init ==
    /\ installed \in [cuda : BOOLEAN, nvrtc : BOOLEAN, lacks : 0..Len(Symbols)]
    /\ persists \in BOOLEAN
    /\ thread \in Threads
    /\ cudaLib = FALSE
    /\ nvrtcLib = FALSE
    /\ resolved = 0
    /\ described = FALSE
    /\ ctx = FALSE
    /\ current = NoThread
    /\ broken = FALSE
    /\ module = FALSE
    /\ kernel = FALSE
    /\ pc = "idle"
    /\ call = "prepare"
    /\ held = {}
    /\ modules = 0
    /\ outcome = "none"
    /\ cause = "none"
    /\ worked = FALSE

(***************************************************************************)
(* Go's side                                                               *)
(***************************************************************************)

\* Between two C calls the scheduler may resume the goroutine on any thread.
Moves ==
    /\ pc \in {"idle", "between"}
    /\ thread' \in Threads \ {thread}
    /\ UNCHANGED <<machine, libraries, device, code, pc, call, held, result>>

Enter(function) ==
    /\ pc' = "load"
    /\ call' = function
    /\ UNCHANGED <<machine, thread, libraries, device, code, held>>

\* The programs probe CUDA first and drop it if that fails; after a probe that
\* went well the command may call again, whatever became of the last call.
Solve ==
    /\ pc = "idle"
    /\ outcome = "none" \/ worked \/ persists
    /\ Enter("prepare")
    /\ outcome' = "none"
    /\ cause' = "none"
    /\ UNCHANGED worked

Prepared ==
    /\ pc = "between"
    /\ Enter("solve")
    /\ UNCHANGED result

\* Solve returns.
Return(how, why) ==
    /\ pc' = "idle"
    /\ outcome' = how
    /\ cause' = why
    /\ worked' = IF how = "answer" THEN TRUE ELSE worked

(***************************************************************************)
(* Calls through the resolved pointers                                     *)
(***************************************************************************)

Resolved(names) == \A f \in names : \E i \in 1..resolved : Symbols[i] = f

\* The functions a step calls if nothing fails.
Calls ==
    CASE pc = "init" -> {"cuInit", "cuDeviceGet"}
      [] pc = "describe" /\ ~described -> {"cuDeviceGetName", "cuDeviceComputeCapability"}
      [] pc = "context" /\ ~ctx -> {"cuCtxCreate"}
      [] pc = "kernel" /\ ~(module /\ kernel) -> {"nvrtcCreateProgram"}
      [] pc = "compile" -> {"nvrtcCompileProgram", "nvrtcGetPTXSize"}
      [] pc = "ptx" -> {"nvrtcGetPTX", "nvrtcDestroyProgram"}
      [] pc = "module" -> {"cuModuleLoadDataEx"}
      [] pc = "function" -> {"cuModuleGetFunction"}
      [] pc \in {"alloc", "alloc result"} -> {"cuMemAlloc"}
      [] pc = "copy" -> {"cuMemcpyHtoD"}
      [] pc = "search" ->
            {"cuMemcpyHtoD", "cuLaunchKernel", "cuCtxSynchronize", "cuMemcpyDtoH", "cuMemFree"}
      [] OTHER -> {}

\* The sets of functions it may call when something does.
CallsOnFault ==
    CASE pc = "kernel" -> {{"nvrtcGetErrorString"}}
      [] pc = "compile" ->
            {{"nvrtcGetProgramLogSize", "nvrtcDestroyProgram", f} :
                f \in {"nvrtcGetProgramLog", "nvrtcGetErrorString"}}
      [] pc = "ptx" -> {{}, {"nvrtcGetErrorString"}}
      [] pc = "function" -> {{"cuModuleUnload"}}
      [] pc \in {"alloc result", "copy"} -> {{"cuMemFree"}}
      [] OTHER -> {{}}

\* A call through a null pointer, on either path.
Crash ==
    /\ pc \notin {"idle", "between", "load", "crashed"}
    /\ \/ ~Resolved(Calls)
       \/ Calls # {} /\ \E names \in CallsOnFault : ~Resolved(names)
    /\ pc' = "crashed"
    /\ outcome' = "crashed"
    /\ cause' = "null"
    /\ UNCHANGED <<machine, thread, libraries, device, code, call, held, worked>>

\* A step in C, all of whose functions are there.
At(label) ==
    /\ pc = label
    /\ Resolved(Calls)
    /\ UNCHANGED <<machine, thread, call>>

Goto(label) == pc' = label /\ UNCHANGED result

\* The context is current on this thread and works.
Usable == current = thread /\ ~broken

\* Why a driver call fails: there is nothing behind a handle that is set, the
\* context is another thread's or broken, or the call fails of itself, as it may
\* in a fresh process.
Blame(needsContext) ==
    CASE needsContext /\ current = NoThread -> "stale"
      [] needsContext /\ current \notin {NoThread, thread} -> "thread"
      [] broken /\ (needsContext => current = thread) -> "broken"
      [] OTHER -> "fault"

Fault(needsContext) ==
    /\ \E names \in CallsOnFault : Resolved(names)
    /\ Return("failed", Blame(needsContext))

(***************************************************************************)
(* ensure_cuda                                                             *)
(***************************************************************************)

\* Mutation: the handle of libnvrtc is not looked at.
LoadLibrariesByCuda ==
    /\ At("load")
    /\ IF cudaLib THEN Goto("init") /\ UNCHANGED libraries
       ELSE /\ cudaLib' = installed.cuda
            /\ nvrtcLib' = (installed.cuda /\ installed.nvrtc)
            /\ resolved' = IF ~nvrtcLib' THEN resolved
                           ELSE IF installed.lacks = 0 THEN Len(Symbols) ELSE installed.lacks - 1
            /\ IF resolved' = Len(Symbols) THEN Goto("init") ELSE Return("failed", "machine")
    /\ UNCHANGED <<device, code, held>>

\* load_libraries looks at nothing but the handles.
LoadLibraries ==
    /\ At("load")
    /\ IF cudaLib /\ nvrtcLib THEN Goto("init") /\ UNCHANGED libraries
       ELSE /\ cudaLib' = installed.cuda
            /\ nvrtcLib' = (installed.cuda /\ installed.nvrtc)
            /\ resolved' = IF ~nvrtcLib' THEN resolved
                           ELSE IF installed.lacks = 0 THEN Len(Symbols) ELSE installed.lacks - 1
            /\ IF resolved' = Len(Symbols) THEN Goto("init") ELSE Return("failed", "machine")
    /\ UNCHANGED <<device, code, held>>

\* cuInit and cuDeviceGet.
InitDevice ==
    /\ At("init")
    /\ Goto("describe") \/ Fault(FALSE)
    /\ UNCHANGED <<libraries, device, code, held>>

\* A device that does not tell its name or architecture gets the defaults.
Describe ==
    /\ At("describe")
    /\ described' = TRUE
    /\ Goto("context")
    /\ UNCHANGED <<libraries, ctx, current, broken, code, held>>

\* Mutation: the handle is set also when no context could be created.
CreateContextAnyway ==
    /\ At("context")
    /\ ctx' = TRUE
    /\ \/ Goto("kernel") /\ current' = IF ctx THEN current ELSE thread
       \/ ~ctx /\ Fault(FALSE) /\ UNCHANGED current
    /\ UNCHANGED <<libraries, described, broken, code, held>>

CreateContext ==
    /\ At("context")
    /\ \/ Goto("kernel") /\ ctx' = TRUE /\ current' = IF ctx THEN current ELSE thread
       \/ ~ctx /\ Fault(FALSE) /\ UNCHANGED <<ctx, current>>
    /\ UNCHANGED <<libraries, described, broken, code, held>>

(***************************************************************************)
(* compile_kernel                                                          *)
(***************************************************************************)

\* Where the call goes on when ensure_cuda returns 0.
Ensured == IF call = "prepare" THEN "between" ELSE "alloc"

CreateProgram ==
    /\ At("kernel")
    /\ \/ module /\ kernel /\ Goto(Ensured) /\ UNCHANGED held
       \/ ~(module /\ kernel) /\ Goto("compile") /\ held' = held \cup {"program"}
       \/ ~(module /\ kernel) /\ Fault(FALSE) /\ UNCHANGED held
    /\ UNCHANGED <<libraries, device, code>>

\* Compilation, with its log when it fails, and the size of the result; each
\* failure destroys the program.
Compile ==
    /\ At("compile")
    /\ \/ Goto("ptx") /\ held' = held \cup {"ptx"}
       \/ Fault(FALSE) /\ held' = held \ {"program"}
    /\ UNCHANGED <<libraries, device, code>>

\* Mutation: the result's buffer is not freed when it cannot be filled.
GetPTXLeaks ==
    /\ At("ptx")
    /\ held' = held \ {"program"}
    /\ Goto("module") \/ Fault(FALSE)
    /\ UNCHANGED <<libraries, device, code>>

\* The program is destroyed whether the result can be read or not.
GetPTX ==
    /\ At("ptx")
    /\ \/ Goto("module") /\ held' = held \ {"program"}
       \/ Fault(FALSE) /\ held' = held \ {"program", "ptx"}
    /\ UNCHANGED <<libraries, device, code>>

LoadModule ==
    /\ At("module")
    /\ held' = held \ {"ptx"}
    /\ \/ Usable /\ Goto("function") /\ module' = TRUE /\ modules' = modules + 1
       \/ Fault(TRUE) /\ UNCHANGED <<module, modules>>
    /\ UNCHANGED <<libraries, device, kernel>>

\* Mutation: the module stays loaded when the kernel is not found in it.
GetFunctionKeepsModule ==
    /\ At("function")
    /\ \/ Goto(Ensured) /\ kernel' = TRUE
       \/ Fault(FALSE) /\ UNCHANGED kernel
    /\ UNCHANGED <<libraries, device, module, modules, held>>

\* Mutation: whether the kernel is in the module is not looked at.
GetFunctionUnchecked ==
    /\ At("function")
    /\ Goto(Ensured)
    /\ kernel' \in BOOLEAN
    /\ UNCHANGED <<libraries, device, module, modules, held>>

\* A module without the kernel is unloaded again.
GetFunction ==
    /\ At("function")
    /\ \/ Goto(Ensured) /\ kernel' = TRUE /\ UNCHANGED <<module, modules>>
       \/ Fault(FALSE) /\ module' = FALSE /\ modules' = modules - 1 /\ UNCHANGED kernel
    /\ UNCHANGED <<libraries, device, held>>

(***************************************************************************)
(* shasolve_cuda_solve                                                     *)
(***************************************************************************)

\* The midstate's buffer; the thread needs the context.
AllocateMid ==
    /\ At("alloc")
    /\ \/ Usable /\ Goto("alloc result") /\ held' = held \cup {"mid"}
       \/ Fault(TRUE) /\ UNCHANGED held
    /\ UNCHANGED <<libraries, device, code>>

\* Mutation: the first buffer is not freed when there is no second one.
AllocateResultLeaks ==
    /\ At("alloc result")
    /\ \/ Goto("copy") /\ held' = held \cup {"result"}
       \/ Fault(TRUE) /\ UNCHANGED held
    /\ UNCHANGED <<libraries, device, code>>

AllocateResult ==
    /\ At("alloc result")
    /\ \/ Goto("copy") /\ held' = held \cup {"result"}
       \/ Fault(TRUE) /\ held' = held \ {"mid"}
    /\ UNCHANGED <<libraries, device, code>>

CopyMid ==
    /\ At("copy")
    /\ \/ Goto("search") /\ UNCHANGED held
       \/ Fault(TRUE) /\ held' = held \ {"mid", "result"}
    /\ UNCHANGED <<libraries, device, code>>

\* The batch loop ends with a nonce, without one, or with a driver call that
\* fails, which the caller is told is "no solution" (the run batch_driver_error).
\* A launch needs the kernel and the context, and may break it; what is freed in a
\* broken context is freed as far as the program can.
Search ==
    /\ At("search")
    /\ \/ kernel /\ Usable /\ Return("answer", "none") /\ UNCHANGED broken
       \/ kernel /\ Usable /\ Return("nothing", "none") /\ UNCHANGED broken
       \/ /\ Return("nothing", IF kernel THEN Blame(TRUE) ELSE "stale")
          /\ broken' \in {broken, TRUE}
    /\ held' = held \ {"result", "mid"}
    /\ UNCHANGED <<libraries, described, ctx, current, code>>

Runs ==
    \/ Prepared \/ Crash
    \/ LoadLibraries \/ InitDevice \/ Describe \/ CreateContext
    \/ CreateProgram \/ Compile \/ GetPTX \/ LoadModule \/ GetFunction
    \/ AllocateMid \/ AllocateResult \/ CopyMid \/ Search

Next == Solve \/ Moves \/ Runs

Spec == Init /\ [][Next]_vars

(***************************************************************************)
(* Properties                                                              *)
(***************************************************************************)

Labels ==
    {"idle", "between", "load", "init", "describe", "context", "kernel", "compile", "ptx",
     "module", "function", "alloc", "alloc result", "copy", "search", "crashed"}

\* The values the variables take; the context is current on one thread once
\* there is one.
TypeOK ==
    /\ installed \in [cuda : BOOLEAN, nvrtc : BOOLEAN, lacks : 0..Len(Symbols)]
    /\ persists \in BOOLEAN
    /\ thread \in Threads
    /\ cudaLib \in BOOLEAN /\ nvrtcLib \in BOOLEAN
    /\ resolved \in 0..Len(Symbols)
    /\ described \in BOOLEAN
    /\ ctx \in BOOLEAN
    /\ IF ctx THEN current \in Threads ELSE current = NoThread
    /\ broken \in BOOLEAN
    /\ module \in BOOLEAN /\ kernel \in BOOLEAN
    /\ pc \in Labels
    /\ call \in {"prepare", "solve"}
    /\ held \subseteq {"program", "ptx", "mid", "result"}
    /\ modules \in Nat
    /\ outcome \in {"none", "answer", "nothing", "failed", "crashed"}
    /\ cause \in {"none", "machine", "fault", "thread", "broken", "stale", "null"}
    /\ worked \in BOOLEAN

\* Whatever fails, when C returns to Go nothing that the call allocated is left,
\* and of all the calls together there is at most one module on the device, the
\* one that is kept (cuda_impl.c:260 to cuda_impl.c:327, cuda_impl.c:382 to
\* cuda_impl.c:450).
NothingLeaks ==
    /\ pc \in {"idle", "between"} => held = {}
    /\ modules = IF module THEN 1 ELSE 0

\* What the calls before left keeps a Solve from its answer in three ways only: the
\* context is another thread's, a kernel that failed has broken it and it is kept
\* (cuda_impl.c:356), or a function was never resolved (NeverThroughNull).  No
\* failure leaves a handle with nothing behind it for a later call to trust
\* (cuda_impl.c:261, cuda_impl.c:356), and what a Solve that answered has loaded is
\* there for all the later ones.
LegacyIsKnown ==
    /\ cause # "stale"
    /\ worked => cause \notin {"machine", "null"}

\* "no solution" never stands for what the calls before left: a missing kernel, a
\* foreign thread or a broken context shows before the batch loop, where errors
\* are still returned; the loop loses only errors that arise in it
\* (cuda_impl.c:382, cuda_impl.c:449).
LegacyIsReported == outcome = "nothing" => cause \in {"none", "fault"}

\* No call goes through a function that could not be resolved, unless a caller
\* tries again after its very first call failed on a library that lacks one: then
\* the handles are set and nothing is looked up again (cuda_impl.c:219).
NeverThroughNull ==
    outcome = "crashed" => persists /\ installed.lacks # 0 /\ ~worked
=============================================================================
