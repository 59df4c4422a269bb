------------------------- MODULE CudaRuntimeProofs -------------------------
(***************************************************************************)
(* Proofs about CudaRuntime, for any number of OS threads and calls:       *)
(* nothing leaks, what the calls before left keeps a later one from its    *)
(* answer in the known ways only and is reported as an error, and a null   *)
(* pointer is called only by a caller that tries again after its very      *)
(* first call failed.                                                      *)
(***************************************************************************)
EXTENDS CudaRuntime, TLAPS

Loaded == cudaLib /\ nvrtcLib

InCuda == pc \notin {"idle", "load", "crashed"}

\* load_libraries sets both handles at once or in two calls, and resolves
\* once, when both are set.
LibrariesInv ==
    /\ nvrtcLib => cudaLib
    /\ resolved = IF ~Loaded THEN 0
                  ELSE IF installed.lacks = 0 THEN Len(Symbols) ELSE installed.lacks - 1
    /\ pc = "idle" /\ outcome = "none" => ~Loaded
    /\ InCuda => Loaded
    /\ (pc # "idle" \/ worked) /\ Loaded /\ installed.lacks # 0 => persists

\* What the call has allocated is told by where it is.
HeldAt ==
    CASE pc = "compile" -> {"program"}
      [] pc = "ptx" -> {"program", "ptx"}
      [] pc = "module" -> {"ptx"}
      [] pc = "alloc result" -> {"mid"}
      [] pc \in {"copy", "search"} -> {"mid", "result"}
      [] OTHER -> {}

\* Between calls the module and the kernel are both there or both not.
ModuleInv ==
    /\ pc # "crashed" => held = HeldAt
    /\ modules = IF module THEN 1 ELSE 0
    /\ kernel => module
    /\ pc \notin {"function", "crashed"} /\ module => kernel
    /\ pc \in {"compile", "ptx", "module"} => ~module
    /\ pc = "function" => module /\ ~kernel
    /\ pc \in {"alloc", "alloc result", "copy", "search"} => kernel
    /\ pc \in {"kernel", "compile", "ptx", "module", "function", "between"} => ctx
    /\ kernel => ctx /\ described

\* A Solve that has answered has called cuLaunchKernel, the last function that
\* is called once the kernel is compiled.
WorkedInv ==
    /\ worked => kernel /\ resolved >= 15
    /\ pc \in {"context", "kernel", "compile", "ptx", "module", "function"} => described
    /\ outcome = "crashed" => pc = "crashed"

\* The first buffer shows that the context is usable, and until the call returns
\* to Go the thread stays.
LegacyInv ==
    /\ pc \in {"alloc result", "copy", "search"} => Usable
    /\ LegacyIsKnown
    /\ LegacyIsReported

Inv ==
    /\ TypeOK
    /\ LibrariesInv
    /\ ModuleInv
    /\ WorkedInv
    /\ LegacyInv
    /\ NeverThroughNull

\* The table of symbols, entry by entry.
LEMMA SymbolTable ==
  /\ Len(Symbols) = 24
  /\ Symbols[1] = "cuInit" /\ Symbols[2] = "cuDeviceGet"
  /\ Symbols[3] = "cuDeviceGetName" /\ Symbols[4] = "cuDeviceComputeCapability"
  /\ Symbols[5] = "cuCtxCreate" /\ Symbols[6] = "cuCtxDestroy"
  /\ Symbols[7] = "cuCtxSynchronize" /\ Symbols[8] = "cuMemAlloc"
  /\ Symbols[9] = "cuMemFree" /\ Symbols[10] = "cuMemcpyHtoD"
  /\ Symbols[11] = "cuMemcpyDtoH" /\ Symbols[12] = "cuModuleLoadDataEx"
  /\ Symbols[13] = "cuModuleUnload" /\ Symbols[14] = "cuModuleGetFunction"
  /\ Symbols[15] = "cuLaunchKernel"
  /\ Symbols[17] = "nvrtcCreateProgram" /\ Symbols[18] = "nvrtcCompileProgram"
  /\ Symbols[19] = "nvrtcGetPTXSize" /\ Symbols[20] = "nvrtcGetPTX"
  /\ Symbols[21] = "nvrtcGetProgramLogSize" /\ Symbols[22] = "nvrtcGetProgramLog"
  /\ Symbols[23] = "nvrtcDestroyProgram" /\ Symbols[24] = "nvrtcGetErrorString"
BY DEF Symbols

\* No earlier entry is cuLaunchKernel.
LEMMA LaunchIsFifteenth ==
  ASSUME resolved \in 0..24, Resolved({"cuLaunchKernel"})
  PROVE  resolved >= 15
<1>1. PICK i \in 1..resolved : Symbols[i] = "cuLaunchKernel"
  BY DEF Resolved
<1>2. \/ i = 1 \/ i = 2 \/ i = 3 \/ i = 4 \/ i = 5 \/ i = 6 \/ i = 7 \/ i = 8 \/ i = 9
      \/ i = 10 \/ i = 11 \/ i = 12 \/ i = 13 \/ i = 14 \/ i >= 15
  BY <1>1
<1> QED
  BY <1>1, <1>2, SymbolTable

\* What is called once the kernel is compiled, and what else is called.
DriverCalls ==
    {"cuInit", "cuDeviceGet", "cuMemAlloc", "cuMemFree", "cuMemcpyHtoD", "cuMemcpyDtoH",
     "cuCtxSynchronize", "cuLaunchKernel"}

SetupCalls ==
    {"cuDeviceGetName", "cuDeviceComputeCapability", "cuCtxCreate", "cuModuleLoadDataEx",
     "cuModuleUnload", "cuModuleGetFunction", "nvrtcCreateProgram", "nvrtcCompileProgram",
     "nvrtcGetPTXSize", "nvrtcGetPTX", "nvrtcGetProgramLogSize", "nvrtcGetProgramLog",
     "nvrtcDestroyProgram", "nvrtcGetErrorString"}

\* Fifteen symbols are enough for the first kind.
LEMMA DriverCallsResolved ==
  ASSUME resolved \in 15..24 PROVE Resolved(DriverCalls)
<1>1. \A i \in 1..15 : i \in 1..resolved
  OBVIOUS
<1> QED
  BY <1>1, SymbolTable DEF Resolved, DriverCalls

\* The second kind needs them all.
LEMMA SetupCallsResolved ==
  ASSUME resolved = 24 PROVE Resolved(SetupCalls)
<1> SUFFICES ASSUME NEW f \in SetupCalls PROVE \E i \in 1..24 : Symbols[i] = f
  BY DEF Resolved
<1> QED
  BY SymbolTable DEF SetupCalls

\* With every symbol resolved no call goes through a null pointer.
LEMMA AllResolved ==
  ASSUME resolved = 24
  PROVE  Resolved(Calls) /\ \A names \in CallsOnFault : Resolved(names)
<1>1. Resolved(DriverCalls) /\ Resolved(SetupCalls)
  BY DriverCallsResolved, SetupCallsResolved
<1>2. Calls \subseteq DriverCalls \cup SetupCalls
  BY DEF Calls, DriverCalls, SetupCalls
<1>3. \A names \in CallsOnFault : names \subseteq DriverCalls \cup SetupCalls
  BY DEF CallsOnFault, DriverCalls, SetupCalls
<1> QED
  BY <1>1, <1>2, <1>3 DEF Resolved

\* Nor does one once a Solve has answered: what is still called by then are
\* driver functions of the first fifteen.
LEMMA EnoughResolved ==
  ASSUME resolved \in 15..24, kernel, described, ctx, module,
         pc \notin {"compile", "ptx", "module", "function"}
  PROVE  Resolved(Calls) /\ (Calls # {} => \A names \in CallsOnFault : Resolved(names))
<1>1. Resolved(DriverCalls)
  BY DriverCallsResolved
<1>2. Calls \subseteq DriverCalls
  BY DEF Calls, DriverCalls
<1>3. Calls # {} => \A names \in CallsOnFault : names \subseteq DriverCalls
  <2>1. CASE pc = "kernel"
    BY <2>1 DEF Calls
  <2>2. CASE pc # "kernel"
    BY <2>2 DEF CallsOnFault, DriverCalls
  <2> QED
    BY <2>1, <2>2
<1> QED
  BY <1>1, <1>2, <1>3 DEF Resolved

\* The invariant holds before the first call.
LEMMA InvInitially == Init => Inv
<1> SUFFICES ASSUME Init PROVE Inv
  OBVIOUS
<1>1. /\ persists \in BOOLEAN /\ cudaLib \in BOOLEAN /\ nvrtcLib \in BOOLEAN
      /\ described \in BOOLEAN /\ ctx \in BOOLEAN /\ module \in BOOLEAN /\ kernel \in BOOLEAN
      /\ worked \in BOOLEAN /\ held \subseteq {"program", "ptx", "mid", "result"}
  BY Zenon DEF Init
<1>2. pc \in Labels /\ resolved \in 0..Len(Symbols)
  BY SymbolTable DEF Init, Labels
<1>3. TypeOK
  BY <1>1, <1>2 DEF Init, TypeOK
<1>4. LibrariesInv
  BY DEF Init, LibrariesInv, Loaded, InCuda
<1>5. ModuleInv
  BY DEF Init, ModuleInv, HeldAt
<1>6. WorkedInv /\ LegacyInv /\ NeverThroughNull
  BY DEF Init, WorkedInv, LegacyInv, Usable, LegacyIsKnown, LegacyIsReported,
         NeverThroughNull
<1> QED
  BY <1>3, <1>4, <1>5, <1>6 DEF Inv

\* A step in C that comes to the buffers with a usable context only, and that
\* blames no handle when it fails.
LEMMA StepKeepsLegacy ==
  ASSUME Inv, worked' = worked,
         pc' \in {"alloc result", "copy", "search"} => Usable',
         \/ UNCHANGED <<outcome, cause>>
         \/ outcome' = "failed" /\ cause' \in {"fault", "thread", "broken"}
  PROVE  LegacyInv'
<1>1. LegacyIsKnown' /\ LegacyIsReported'
  BY DEF Inv, LegacyInv, LegacyIsKnown, LegacyIsReported
<1> QED
  BY <1>1, Zenon DEF LegacyInv

\* A Solve begins.
LEMMA SolveKeeps ==
  ASSUME Inv, Solve
  PROVE  Inv'
<1>1. pc' \in Labels
  BY DEF Inv, TypeOK, Solve, Enter, machine, libraries, device, code, result, Labels
<1>2. TypeOK'
  BY <1>1 DEF Inv, TypeOK, Solve, Enter, machine, libraries, device, code, result
<1>3. LibrariesInv'
  BY DEF Inv, TypeOK, LibrariesInv, Loaded, InCuda, Solve, Enter, machine, libraries,
         device, code, result
<1>4. ModuleInv'
  BY DEF Inv, TypeOK, ModuleInv, HeldAt, Solve, Enter, machine, libraries, device, code,
         result
<1>5. WorkedInv'
  BY DEF Inv, TypeOK, WorkedInv, ModuleInv, LibrariesInv, Loaded, Solve, Enter, machine,
         libraries, device, code, result
<1>6. LegacyInv'
  BY DEF Inv, TypeOK, ModuleInv, LegacyInv, Usable, LegacyIsKnown, LegacyIsReported, Solve,
         Enter, machine, libraries, device, code, result
<1>7. NeverThroughNull'
  BY DEF Inv, TypeOK, NeverThroughNull, WorkedInv, Solve, Enter, machine, libraries,
         device, code, result
<1> QED
  BY <1>2, <1>3, <1>4, <1>5, <1>6, <1>7 DEF Inv

\* The goroutine moves to another thread.
LEMMA MovesKeeps ==
  ASSUME Inv, Moves
  PROVE  Inv'
<1>1. pc' \in Labels
  BY DEF Inv, TypeOK, Moves, machine, libraries, device, code, result, Labels
<1>2. TypeOK'
  BY <1>1 DEF Inv, TypeOK, Moves, machine, libraries, device, code, result
<1>3. LibrariesInv'
  BY DEF Inv, TypeOK, LibrariesInv, Loaded, InCuda, Moves, machine, libraries, device,
         code, result
<1>4. ModuleInv'
  BY DEF Inv, TypeOK, ModuleInv, HeldAt, Moves, machine, libraries, device, code, result
<1>5. WorkedInv'
  BY DEF Inv, TypeOK, WorkedInv, ModuleInv, LibrariesInv, Loaded, Moves, machine,
         libraries, device, code, result
<1>6. LegacyInv'
  BY DEF Inv, TypeOK, ModuleInv, LegacyInv, Usable, LegacyIsKnown, LegacyIsReported, Moves,
         machine, libraries, device, code, result
<1>7. NeverThroughNull'
  BY DEF Inv, TypeOK, NeverThroughNull, WorkedInv, Moves, machine, libraries, device, code,
         result
<1> QED
  BY <1>2, <1>3, <1>4, <1>5, <1>6, <1>7 DEF Inv

\* The second C call of a Solve begins.
LEMMA PreparedKeeps ==
  ASSUME Inv, Prepared
  PROVE  Inv'
<1>1. pc' \in Labels
  BY DEF Inv, TypeOK, Prepared, Enter, machine, libraries, device, code, result, Labels
<1>2. TypeOK'
  BY <1>1 DEF Inv, TypeOK, Prepared, Enter, machine, libraries, device, code, result
<1>3. LibrariesInv'
  BY DEF Inv, TypeOK, LibrariesInv, Loaded, InCuda, Prepared, Enter, machine, libraries,
         device, code, result
<1>4. ModuleInv'
  BY DEF Inv, TypeOK, ModuleInv, HeldAt, Prepared, Enter, machine, libraries, device, code,
         result
<1>5. WorkedInv'
  BY DEF Inv, TypeOK, WorkedInv, ModuleInv, LibrariesInv, Loaded, Prepared, Enter, machine,
         libraries, device, code, result
<1>6. LegacyInv'
  BY DEF Inv, TypeOK, ModuleInv, LegacyInv, Usable, LegacyIsKnown, LegacyIsReported,
         Prepared, Enter, machine, libraries, device, code, result
<1>7. NeverThroughNull'
  BY DEF Inv, TypeOK, NeverThroughNull, WorkedInv, Prepared, Enter, machine, libraries,
         device, code, result
<1> QED
  BY <1>2, <1>3, <1>4, <1>5, <1>6, <1>7 DEF Inv

\* load_libraries: what it resolves is complete or not for good.
LEMMA LoadLibrariesKeeps ==
  ASSUME Inv, LoadLibraries
  PROVE  Inv'
<1>1. pc' \in Labels
  BY SymbolTable DEF Inv, TypeOK, LoadLibraries, At, Goto, Return, machine, libraries,
         device, code, result, Labels
<1>2. TypeOK'
  BY <1>1, SymbolTable DEF Inv, TypeOK, LoadLibraries, At, Goto, Return, machine,
         libraries, device, code, result
<1>3. LibrariesInv'
  <2>1. /\ pc = "load" /\ installed' = installed /\ persists' = persists
        /\ installed.lacks \in 0..24
    BY SymbolTable DEF LoadLibraries, At, machine, Inv, TypeOK
  <2>2. CASE Loaded
    <3>1. /\ cudaLib' = cudaLib /\ nvrtcLib' = nvrtcLib /\ resolved' = resolved
          /\ pc' = "init" /\ worked' = worked
      BY <2>2 DEF LoadLibraries, Goto, libraries, result, Loaded
    <3> QED
      BY <2>1, <2>2, <3>1 DEF Inv, LibrariesInv, Loaded, InCuda
  <2>3. CASE ~Loaded
    <3>1. /\ nvrtcLib' => cudaLib'
          /\ resolved = 0
          /\ resolved' = IF ~nvrtcLib' THEN 0
                         ELSE IF installed.lacks = 0 THEN 24 ELSE installed.lacks - 1
      <4>1. resolved = 0
        BY <2>3 DEF Inv, LibrariesInv, Loaded
      <4>2. /\ nvrtcLib' = (installed.cuda /\ installed.nvrtc)
            /\ cudaLib' = installed.cuda
            /\ resolved' = IF ~nvrtcLib' THEN resolved
                           ELSE IF installed.lacks = 0 THEN Len(Symbols)
                           ELSE installed.lacks - 1
        BY <2>3 DEF LoadLibraries, Loaded
      <4>3. nvrtcLib' => cudaLib'
        BY <4>2, Zenon
      <4> QED
        BY <4>1, <4>2, <4>3, SymbolTable
    <3>2. \/ pc' = "init" /\ resolved' = 24
          \/ pc' = "idle" /\ outcome' = "failed" /\ (worked' <=> worked)
      BY <2>3, SymbolTable DEF LoadLibraries, Goto, Return, Loaded
    <3>3. ~worked
      BY <3>1 DEF Inv, WorkedInv
    <3> QED
      BY <2>1, <3>1, <3>2, <3>3, SymbolTable DEF LibrariesInv, Loaded, InCuda
  <2> QED
    BY <2>2, <2>3
<1>4. ModuleInv'
  <2>1. /\ pc = "load" /\ held' = held
        /\ ctx' = ctx /\ described' = described
        /\ module' = module /\ kernel' = kernel /\ modules' = modules
    BY DEF LoadLibraries, At, device, code
  <2>2. pc' \in {"init", "idle"}
    BY DEF LoadLibraries, Goto, Return
  <2>3. held = {} /\ (module => kernel)
    BY <2>1 DEF Inv, ModuleInv, HeldAt
  <2>4. HeldAt' = {}
    BY <2>2 DEF HeldAt
  <2> QED
    BY <2>1, <2>2, <2>3, <2>4 DEF Inv, ModuleInv
<1>5. WorkedInv'
  BY SymbolTable DEF Inv, TypeOK, WorkedInv, ModuleInv, LibrariesInv, Loaded,
         LoadLibraries, At, Goto, Return, machine, libraries, device, code, result
<1>6. LegacyInv'
  <2>1. pc' \in {"init", "idle"}
    BY DEF LoadLibraries, Goto, Return
  <2>2. \/ UNCHANGED <<outcome, cause, worked>>
        \/ ~Loaded /\ outcome' = "failed" /\ cause' = "machine" /\ (worked' <=> worked)
    BY DEF LoadLibraries, Goto, Return, result, Loaded
  <2>3. Loaded \/ ~worked
    BY SymbolTable DEF Inv, LibrariesInv, WorkedInv
  <2>4. LegacyIsKnown'
    <3>1. CASE UNCHANGED <<outcome, cause, worked>>
      BY <3>1 DEF Inv, LegacyInv, LegacyIsKnown
    <3>2. CASE ~Loaded /\ cause' = "machine" /\ (worked' <=> worked)
      BY <2>3, <3>2 DEF LegacyIsKnown
    <3> QED
      BY <2>2, <3>1, <3>2
  <2>5. LegacyIsReported'
    BY <2>2 DEF Inv, LegacyInv, LegacyIsReported
  <2> QED
    BY <2>1, <2>4, <2>5 DEF LegacyInv
<1>7. NeverThroughNull'
  BY SymbolTable DEF Inv, TypeOK, NeverThroughNull, WorkedInv, LoadLibraries, At, Goto,
         Return, machine, libraries, device, code, result
<1> QED
  BY <1>2, <1>3, <1>4, <1>5, <1>6, <1>7 DEF Inv

\* cuInit and cuDeviceGet.
LEMMA InitDeviceKeeps ==
  ASSUME Inv, InitDevice
  PROVE  Inv'
<1>1. pc' \in Labels
  BY DEF Inv, TypeOK, InitDevice, At, Goto, Fault, Blame, Return, machine, libraries,
         device, code, result, Labels
<1>2. TypeOK'
  BY <1>1 DEF Inv, TypeOK, InitDevice, At, Goto, Fault, Blame, Return, machine, libraries,
         device, code, result
<1>3. LibrariesInv'
  BY DEF Inv, TypeOK, LibrariesInv, Loaded, InCuda, InitDevice, At, Goto, Fault, Blame,
         Return, machine, libraries, device, code, result
<1>4. ModuleInv'
  BY DEF Inv, TypeOK, ModuleInv, HeldAt, InitDevice, At, Goto, Fault, Blame, Return,
         machine, libraries, device, code, result
<1>5. WorkedInv'
  BY DEF Inv, TypeOK, WorkedInv, ModuleInv, LibrariesInv, Loaded, InitDevice, At, Goto,
         Fault, Blame, Return, machine, libraries, device, code, result
<1>6. LegacyInv'
  BY DEF Inv, TypeOK, ModuleInv, LegacyInv, Usable, LegacyIsKnown, LegacyIsReported,
         InitDevice, At, Goto, Fault, Blame, Return, machine, libraries, device, code,
         result
<1>7. NeverThroughNull'
  BY DEF Inv, TypeOK, NeverThroughNull, WorkedInv, InitDevice, At, Goto, Fault, Blame,
         Return, machine, libraries, device, code, result
<1> QED
  BY <1>2, <1>3, <1>4, <1>5, <1>6, <1>7 DEF Inv

\* The name and the architecture of the device.
LEMMA DescribeKeeps ==
  ASSUME Inv, Describe
  PROVE  Inv'
<1>1. pc' \in Labels
  BY DEF Inv, TypeOK, Describe, At, Goto, machine, libraries, device, code, result, Labels
<1>2. TypeOK'
  BY <1>1 DEF Inv, TypeOK, Describe, At, Goto, machine, libraries, device, code, result
<1>3. LibrariesInv'
  BY DEF Inv, TypeOK, LibrariesInv, Loaded, InCuda, Describe, At, Goto, machine, libraries,
         device, code, result
<1>4. ModuleInv'
  BY DEF Inv, TypeOK, ModuleInv, HeldAt, Describe, At, Goto, machine, libraries, device,
         code, result
<1>5. WorkedInv'
  BY DEF Inv, TypeOK, WorkedInv, ModuleInv, LibrariesInv, Loaded, Describe, At, Goto,
         machine, libraries, device, code, result
<1>6. LegacyInv'
  BY DEF Inv, TypeOK, ModuleInv, LegacyInv, Usable, LegacyIsKnown, LegacyIsReported,
         Describe, At, Goto, machine, libraries, device, code, result
<1>7. NeverThroughNull'
  BY DEF Inv, TypeOK, NeverThroughNull, WorkedInv, Describe, At, Goto, machine, libraries,
         device, code, result
<1> QED
  BY <1>2, <1>3, <1>4, <1>5, <1>6, <1>7 DEF Inv

\* The context is current on the thread that creates it.
LEMMA CreateContextKeeps ==
  ASSUME Inv, CreateContext
  PROVE  Inv'
<1>step.
      /\ pc = "context"
      /\ installed' = installed /\ persists' = persists /\ thread' = thread
      /\ call' = call /\ cudaLib' = cudaLib /\ nvrtcLib' = nvrtcLib /\ broken' = broken
      /\ resolved' = resolved /\ described' = described /\ module' = module
      /\ kernel' = kernel /\ modules' = modules /\ held' = held
      /\ \/ pc' = "kernel" /\ outcome' = outcome /\ cause' = cause
            /\ worked' = worked /\ ctx' = TRUE /\ current' = IF ctx THEN current ELSE thread
         \/ pc' = "idle" /\ outcome' = "failed" /\ worked' = worked
            /\ cause' \in {"fault", "thread", "broken"}
            /\ ctx' = ctx /\ current' = current
  BY DEF CreateContext, At, Goto, Fault, Blame, Return, machine, libraries, device, code,
         result
<1>cur. thread # NoThread /\ (ctx => current # NoThread)
  BY NoThreadAssumption DEF Inv, TypeOK
<1>1. pc' \in Labels
  BY <1>step DEF Labels, Ensured
<1>bool.
      /\ persists' \in BOOLEAN /\ cudaLib' \in BOOLEAN /\ nvrtcLib' \in BOOLEAN
      /\ described' \in BOOLEAN /\ ctx' \in BOOLEAN /\ module' \in BOOLEAN /\ kernel' \in BOOLEAN
      /\ worked' \in BOOLEAN /\ broken' \in BOOLEAN
  BY <1>step, Zenon DEF Inv, TypeOK
<1>count. modules' \in Nat
  BY <1>step DEF Inv, TypeOK
<1>2. TypeOK'
  BY <1>step, <1>1, <1>bool, <1>count, <1>cur DEF Inv, TypeOK
<1>3. LibrariesInv'
  BY <1>step DEF Inv, LibrariesInv, Loaded, InCuda, Ensured
<1>4. ModuleInv'
  BY <1>step, <1>cur DEF Inv, TypeOK, ModuleInv, HeldAt, Ensured
<1>5. WorkedInv'
  <2>1. (worked => kernel /\ resolved >= 15)'
    BY <1>step DEF Inv, WorkedInv
  <2>2. (pc \in {"context", "kernel", "compile", "ptx", "module", "function"} => described)'
    BY <1>step DEF Inv, WorkedInv, Ensured
  <2>3. (outcome = "crashed" => pc = "crashed")'
    BY <1>step DEF Inv, WorkedInv, Ensured
  <2> QED
    BY <2>1, <2>2, <2>3 DEF WorkedInv
<1>6. LegacyInv'
  <2>1. pc' \in {"alloc result", "copy", "search"} => Usable'
    BY <1>step DEF Ensured
  <2> QED
    BY <1>step, <2>1, StepKeepsLegacy
<1>7. NeverThroughNull'
  BY <1>step DEF Inv, NeverThroughNull
<1> QED
  BY <1>2, <1>3, <1>4, <1>5, <1>6, <1>7 DEF Inv

\* The program, unless there is a kernel.
LEMMA CreateProgramKeeps ==
  ASSUME Inv, CreateProgram
  PROVE  Inv'
<1>step.
      /\ pc = "kernel"
      /\ installed' = installed /\ persists' = persists /\ thread' = thread
      /\ call' = call /\ cudaLib' = cudaLib /\ nvrtcLib' = nvrtcLib /\ broken' = broken
      /\ resolved' = resolved /\ described' = described /\ ctx' = ctx
      /\ current' = current /\ module' = module /\ kernel' = kernel
      /\ modules' = modules
      /\ \/ module /\ kernel /\ pc' = Ensured /\ outcome' = outcome /\ cause' = cause
            /\ worked' = worked /\ held' = held
         \/ ~(module /\ kernel) /\ pc' = "compile" /\ outcome' = outcome /\ cause' = cause
            /\ worked' = worked /\ held' = held \cup {"program"}
         \/ pc' = "idle" /\ outcome' = "failed" /\ worked' = worked
            /\ cause' \in {"fault", "thread", "broken"}
            /\ held' = held
  BY DEF CreateProgram, At, Goto, Fault, Blame, Return, machine, libraries, device, code,
         result
<1>1. pc' \in Labels
  BY <1>step DEF Labels, Ensured
<1>bool.
      /\ persists' \in BOOLEAN /\ cudaLib' \in BOOLEAN /\ nvrtcLib' \in BOOLEAN
      /\ described' \in BOOLEAN /\ ctx' \in BOOLEAN /\ module' \in BOOLEAN /\ kernel' \in BOOLEAN
      /\ worked' \in BOOLEAN /\ broken' \in BOOLEAN
  BY <1>step, Zenon DEF Inv, TypeOK
<1>count. modules' \in Nat
  BY <1>step DEF Inv, TypeOK
<1>2. TypeOK'
  <2>1. /\ installed' \in [cuda : BOOLEAN, nvrtc : BOOLEAN, lacks : 0..Len(Symbols)]
        /\ thread' \in Threads /\ resolved' \in 0..Len(Symbols)
        /\ IF ctx' THEN current' \in Threads ELSE current' = NoThread
        /\ call' \in {"prepare", "solve"}
    BY <1>step, Zenon DEF Inv, TypeOK
  <2>2. held' \subseteq {"program", "ptx", "mid", "result"}
    BY <1>step DEF Inv, TypeOK
  <2>3. /\ outcome' \in {"none", "answer", "nothing", "failed", "crashed"}
        /\ cause' \in {"none", "machine", "fault", "thread", "broken", "stale", "null"}
    BY <1>step DEF Inv, TypeOK
  <2> QED
    BY <1>1, <1>bool, <1>count, <2>1, <2>2, <2>3, Zenon DEF TypeOK
<1>3. LibrariesInv'
  BY <1>step DEF Inv, LibrariesInv, Loaded, InCuda, Ensured
<1>4. ModuleInv'
  BY <1>step DEF Inv, TypeOK, ModuleInv, HeldAt, Ensured
<1>5. WorkedInv'
  <2>1. (worked => kernel /\ resolved >= 15)'
    BY <1>step DEF Inv, WorkedInv
  <2>2. (pc \in {"context", "kernel", "compile", "ptx", "module", "function"} => described)'
    BY <1>step DEF Inv, WorkedInv, Ensured
  <2>3. (outcome = "crashed" => pc = "crashed")'
    BY <1>step DEF Inv, WorkedInv, Ensured
  <2> QED
    BY <2>1, <2>2, <2>3 DEF WorkedInv
<1>6. LegacyInv'
  <2>1. pc' \in {"alloc result", "copy", "search"} => Usable'
    BY <1>step DEF Ensured
  <2> QED
    BY <1>step, <2>1, StepKeepsLegacy
<1>7. NeverThroughNull'
  BY <1>step DEF Inv, NeverThroughNull
<1> QED
  BY <1>2, <1>3, <1>4, <1>5, <1>6, <1>7 DEF Inv

\* The compilation.
LEMMA CompileKeeps ==
  ASSUME Inv, Compile
  PROVE  Inv'
<1>step.
      /\ pc = "compile"
      /\ installed' = installed /\ persists' = persists /\ thread' = thread
      /\ call' = call /\ cudaLib' = cudaLib /\ nvrtcLib' = nvrtcLib /\ broken' = broken
      /\ resolved' = resolved /\ described' = described /\ ctx' = ctx
      /\ current' = current /\ module' = module /\ kernel' = kernel
      /\ modules' = modules
      /\ \/ pc' = "ptx" /\ outcome' = outcome /\ cause' = cause
            /\ worked' = worked /\ held' = held \cup {"ptx"}
         \/ pc' = "idle" /\ outcome' = "failed" /\ worked' = worked
            /\ cause' \in {"fault", "thread", "broken"}
            /\ held' = held \ {"program"}
  BY DEF Compile, At, Goto, Fault, Blame, Return, machine, libraries, device, code, result
<1>1. pc' \in Labels
  BY <1>step DEF Labels, Ensured
<1>bool.
      /\ persists' \in BOOLEAN /\ cudaLib' \in BOOLEAN /\ nvrtcLib' \in BOOLEAN
      /\ described' \in BOOLEAN /\ ctx' \in BOOLEAN /\ module' \in BOOLEAN /\ kernel' \in BOOLEAN
      /\ worked' \in BOOLEAN /\ broken' \in BOOLEAN
  BY <1>step, Zenon DEF Inv, TypeOK
<1>count. modules' \in Nat
  BY <1>step DEF Inv, TypeOK
<1>2. TypeOK'
  BY <1>step, <1>1, <1>bool, <1>count DEF Inv, TypeOK
<1>3. LibrariesInv'
  BY <1>step DEF Inv, LibrariesInv, Loaded, InCuda, Ensured
<1>4. ModuleInv'
  BY <1>step DEF Inv, TypeOK, ModuleInv, HeldAt, Ensured
<1>5. WorkedInv'
  <2>1. (worked => kernel /\ resolved >= 15)'
    BY <1>step DEF Inv, WorkedInv
  <2>2. (pc \in {"context", "kernel", "compile", "ptx", "module", "function"} => described)'
    BY <1>step DEF Inv, WorkedInv, Ensured
  <2>3. (outcome = "crashed" => pc = "crashed")'
    BY <1>step DEF Inv, WorkedInv, Ensured
  <2> QED
    BY <2>1, <2>2, <2>3 DEF WorkedInv
<1>6. LegacyInv'
  <2>1. pc' \in {"alloc result", "copy", "search"} => Usable'
    BY <1>step DEF Ensured
  <2> QED
    BY <1>step, <2>1, StepKeepsLegacy
<1>7. NeverThroughNull'
  BY <1>step DEF Inv, NeverThroughNull
<1> QED
  BY <1>2, <1>3, <1>4, <1>5, <1>6, <1>7 DEF Inv

\* The result of the compilation.
LEMMA GetPTXKeeps ==
  ASSUME Inv, GetPTX
  PROVE  Inv'
<1>step.
      /\ pc = "ptx"
      /\ installed' = installed /\ persists' = persists /\ thread' = thread
      /\ call' = call /\ cudaLib' = cudaLib /\ nvrtcLib' = nvrtcLib /\ broken' = broken
      /\ resolved' = resolved /\ described' = described /\ ctx' = ctx
      /\ current' = current /\ module' = module /\ kernel' = kernel
      /\ modules' = modules
      /\ \/ pc' = "module" /\ outcome' = outcome /\ cause' = cause
            /\ worked' = worked /\ held' = held \ {"program"}
         \/ pc' = "idle" /\ outcome' = "failed" /\ worked' = worked
            /\ cause' \in {"fault", "thread", "broken"}
            /\ held' = held \ {"program", "ptx"}
  BY DEF GetPTX, At, Goto, Fault, Blame, Return, machine, libraries, device, code, result
<1>1. pc' \in Labels
  BY <1>step DEF Labels, Ensured
<1>bool.
      /\ persists' \in BOOLEAN /\ cudaLib' \in BOOLEAN /\ nvrtcLib' \in BOOLEAN
      /\ described' \in BOOLEAN /\ ctx' \in BOOLEAN /\ module' \in BOOLEAN /\ kernel' \in BOOLEAN
      /\ worked' \in BOOLEAN /\ broken' \in BOOLEAN
  BY <1>step, Zenon DEF Inv, TypeOK
<1>count. modules' \in Nat
  BY <1>step DEF Inv, TypeOK
<1>2. TypeOK'
  BY <1>step, <1>1, <1>bool, <1>count DEF Inv, TypeOK
<1>3. LibrariesInv'
  BY <1>step DEF Inv, LibrariesInv, Loaded, InCuda, Ensured
<1>4. ModuleInv'
  BY <1>step DEF Inv, TypeOK, ModuleInv, HeldAt, Ensured
<1>5. WorkedInv'
  <2>1. (worked => kernel /\ resolved >= 15)'
    BY <1>step DEF Inv, WorkedInv
  <2>2. (pc \in {"context", "kernel", "compile", "ptx", "module", "function"} => described)'
    BY <1>step DEF Inv, WorkedInv, Ensured
  <2>3. (outcome = "crashed" => pc = "crashed")'
    BY <1>step DEF Inv, WorkedInv, Ensured
  <2> QED
    BY <2>1, <2>2, <2>3 DEF WorkedInv
<1>6. LegacyInv'
  <2>1. pc' \in {"alloc result", "copy", "search"} => Usable'
    BY <1>step DEF Ensured
  <2> QED
    BY <1>step, <2>1, StepKeepsLegacy
<1>7. NeverThroughNull'
  BY <1>step DEF Inv, NeverThroughNull
<1> QED
  BY <1>2, <1>3, <1>4, <1>5, <1>6, <1>7 DEF Inv

\* The module is loaded in the current context.
LEMMA LoadModuleKeeps ==
  ASSUME Inv, LoadModule
  PROVE  Inv'
<1>cur. current # NoThread
  BY NoThreadAssumption DEF LoadModule, At, Inv, TypeOK, ModuleInv
<1>step.
      /\ pc = "module"
      /\ installed' = installed /\ persists' = persists /\ thread' = thread
      /\ call' = call /\ cudaLib' = cudaLib /\ nvrtcLib' = nvrtcLib /\ broken' = broken
      /\ resolved' = resolved /\ described' = described /\ ctx' = ctx
      /\ current' = current /\ kernel' = kernel
      /\ \/ pc' = "function" /\ outcome' = outcome /\ cause' = cause
            /\ worked' = worked /\ held' = held \ {"ptx"}
            /\ module' = TRUE /\ modules' = modules + 1
         \/ pc' = "idle" /\ outcome' = "failed" /\ worked' = worked
            /\ cause' \in {"fault", "thread", "broken"}
            /\ held' = held \ {"ptx"}
            /\ module' = module /\ modules' = modules
  BY <1>cur DEF LoadModule, At, Goto, Fault, Blame, Return, machine, libraries, device,
         code, result
<1>mod. modules = 0 /\ ~module /\ ~kernel
  BY <1>step DEF Inv, TypeOK, ModuleInv
<1>1. pc' \in Labels
  BY <1>step DEF Labels, Ensured
<1>bool.
      /\ persists' \in BOOLEAN /\ cudaLib' \in BOOLEAN /\ nvrtcLib' \in BOOLEAN
      /\ described' \in BOOLEAN /\ ctx' \in BOOLEAN /\ module' \in BOOLEAN /\ kernel' \in BOOLEAN
      /\ worked' \in BOOLEAN /\ broken' \in BOOLEAN
  BY <1>step, Zenon DEF Inv, TypeOK
<1>count. modules' \in Nat
  BY <1>step, <1>cur, <1>mod
<1>2. TypeOK'
  BY <1>step, <1>1, <1>bool, <1>count, <1>cur, <1>mod DEF Inv, TypeOK
<1>3. LibrariesInv'
  BY <1>step DEF Inv, LibrariesInv, Loaded, InCuda, Ensured
<1>4. ModuleInv'
  <2>1. (pc # "crashed" => held = HeldAt)'
    BY <1>step DEF Inv, ModuleInv, HeldAt, Ensured
  <2>2. (modules = IF module THEN 1 ELSE 0)'
    BY <1>step, <1>cur, <1>mod
  <2>3. (pc \notin {"function", "crashed"} /\ module => kernel)' /\ (kernel => module)'
    BY <1>step, <1>cur, <1>mod DEF Inv, ModuleInv, Ensured
  <2>4. (/\ pc \in {"compile", "ptx", "module"} => ~module
         /\ pc = "function" => module /\ ~kernel)'
    BY <1>step, <1>mod DEF Ensured
  <2>5. (/\ pc \in {"alloc", "alloc result", "copy", "search"} => kernel
         /\ pc \in {"kernel", "compile", "ptx", "module", "function", "between"} => ctx)'
    BY <1>step, <1>mod DEF Inv, ModuleInv, Ensured
  <2>6. (kernel => ctx /\ described)'
    BY <1>step, <1>mod DEF Inv, ModuleInv, WorkedInv
  <2> QED
    BY <2>1, <2>2, <2>3, <2>4, <2>5, <2>6 DEF ModuleInv
<1>5. WorkedInv'
  <2>1. (worked => kernel /\ resolved >= 15)'
    BY <1>step DEF Inv, WorkedInv
  <2>2. (pc \in {"context", "kernel", "compile", "ptx", "module", "function"} => described)'
    BY <1>step DEF Inv, WorkedInv, Ensured
  <2>3. (outcome = "crashed" => pc = "crashed")'
    BY <1>step DEF Inv, WorkedInv, Ensured
  <2> QED
    BY <2>1, <2>2, <2>3 DEF WorkedInv
<1>6. LegacyInv'
  <2>1. pc' \in {"alloc result", "copy", "search"} => Usable'
    BY <1>step DEF Ensured
  <2> QED
    BY <1>step, <2>1, StepKeepsLegacy
<1>7. NeverThroughNull'
  BY <1>step DEF Inv, NeverThroughNull
<1> QED
  BY <1>2, <1>3, <1>4, <1>5, <1>6, <1>7 DEF Inv

\* The kernel is found in the module, or the module is given back.
LEMMA GetFunctionKeeps ==
  ASSUME Inv, GetFunction
  PROVE  Inv'
<1>step.
      /\ pc = "function"
      /\ installed' = installed /\ persists' = persists /\ thread' = thread
      /\ call' = call /\ cudaLib' = cudaLib /\ nvrtcLib' = nvrtcLib /\ broken' = broken
      /\ resolved' = resolved /\ described' = described /\ ctx' = ctx
      /\ current' = current /\ held' = held
      /\ \/ pc' = Ensured /\ outcome' = outcome /\ cause' = cause
            /\ worked' = worked /\ kernel' = TRUE /\ module' = module /\ modules' = modules
         \/ pc' = "idle" /\ outcome' = "failed" /\ worked' = worked
            /\ cause' \in {"fault", "thread", "broken"}
            /\ kernel' = kernel /\ module' = FALSE /\ modules' = modules - 1
  BY DEF GetFunction, At, Goto, Fault, Blame, Return, machine, libraries, device, code,
         result
<1>mod. modules = 1 /\ module /\ ~kernel
  BY <1>step DEF Inv, TypeOK, ModuleInv
<1>new.
      \/ module' /\ modules' = 1 /\ kernel'
      \/ ~module' /\ modules' = 0 /\ ~kernel'
  <2>1. CASE pc' # "idle"
    BY <1>step, <1>mod, <2>1
  <2>2. CASE pc' = "idle"
    BY <1>step, <1>mod, <2>2 DEF Ensured
  <2> QED
    BY <2>1, <2>2
<1>1. pc' \in Labels
  BY <1>step DEF Labels, Ensured
<1>bool.
      /\ persists' \in BOOLEAN /\ cudaLib' \in BOOLEAN /\ nvrtcLib' \in BOOLEAN
      /\ described' \in BOOLEAN /\ ctx' \in BOOLEAN /\ module' \in BOOLEAN /\ kernel' \in BOOLEAN
      /\ worked' \in BOOLEAN /\ broken' \in BOOLEAN
  BY <1>step, Zenon DEF Inv, TypeOK
<1>count. modules' \in Nat
  BY <1>step, <1>mod, <1>new
<1>2. TypeOK'
  BY <1>step, <1>1, <1>bool, <1>count, <1>mod, <1>new DEF Inv, TypeOK
<1>3. LibrariesInv'
  BY <1>step DEF Inv, LibrariesInv, Loaded, InCuda, Ensured
<1>4. ModuleInv'
  <2>1. (pc # "crashed" => held = HeldAt)'
    BY <1>step DEF Inv, ModuleInv, HeldAt, Ensured
  <2>2. (modules = IF module THEN 1 ELSE 0)'
    BY <1>step, <1>mod, <1>new
  <2>3. (pc \notin {"function", "crashed"} /\ module => kernel)' /\ (kernel => module)'
    BY <1>step, <1>mod, <1>new DEF Inv, ModuleInv, Ensured
  <2>4. (/\ pc \in {"compile", "ptx", "module"} => ~module
         /\ pc = "function" => module /\ ~kernel)'
    BY <1>step, <1>mod DEF Ensured
  <2>5. (/\ pc \in {"alloc", "alloc result", "copy", "search"} => kernel
         /\ pc \in {"kernel", "compile", "ptx", "module", "function", "between"} => ctx)'
    BY <1>step, <1>mod DEF Inv, ModuleInv, Ensured
  <2>6. (kernel => ctx /\ described)'
    BY <1>step, <1>mod DEF Inv, ModuleInv, WorkedInv
  <2> QED
    BY <2>1, <2>2, <2>3, <2>4, <2>5, <2>6 DEF ModuleInv
<1>5. WorkedInv'
  <2>1. (worked => kernel /\ resolved >= 15)'
    BY <1>step DEF Inv, WorkedInv
  <2>2. (pc \in {"context", "kernel", "compile", "ptx", "module", "function"} => described)'
    BY <1>step DEF Inv, WorkedInv, Ensured
  <2>3. (outcome = "crashed" => pc = "crashed")'
    BY <1>step DEF Inv, WorkedInv, Ensured
  <2> QED
    BY <2>1, <2>2, <2>3 DEF WorkedInv
<1>6. LegacyInv'
  <2>1. pc' \in {"alloc result", "copy", "search"} => Usable'
    BY <1>step DEF Ensured
  <2> QED
    BY <1>step, <2>1, StepKeepsLegacy
<1>7. NeverThroughNull'
  BY <1>step DEF Inv, NeverThroughNull
<1> QED
  BY <1>2, <1>3, <1>4, <1>5, <1>6, <1>7 DEF Inv

\* The midstate's buffer.
LEMMA AllocateMidKeeps ==
  ASSUME Inv, AllocateMid
  PROVE  Inv'
<1>cur. current # NoThread
  BY NoThreadAssumption DEF AllocateMid, At, Inv, TypeOK, ModuleInv
<1>step.
      /\ pc = "alloc"
      /\ installed' = installed /\ persists' = persists /\ thread' = thread
      /\ call' = call /\ cudaLib' = cudaLib /\ nvrtcLib' = nvrtcLib /\ broken' = broken
      /\ resolved' = resolved /\ described' = described /\ ctx' = ctx
      /\ current' = current /\ module' = module /\ kernel' = kernel
      /\ modules' = modules
      /\ \/ pc' = "alloc result" /\ outcome' = outcome /\ cause' = cause
            /\ worked' = worked /\ current = thread /\ ~broken /\ held' = held \cup {"mid"}
         \/ pc' = "idle" /\ outcome' = "failed" /\ worked' = worked
            /\ cause' \in {"fault", "thread", "broken"}
            /\ held' = held
  BY <1>cur DEF AllocateMid, Usable, At, Goto, Fault, Blame, Return, machine, libraries,
         device, code, result
<1>1. pc' \in Labels
  BY <1>step DEF Labels, Ensured
<1>bool.
      /\ persists' \in BOOLEAN /\ cudaLib' \in BOOLEAN /\ nvrtcLib' \in BOOLEAN
      /\ described' \in BOOLEAN /\ ctx' \in BOOLEAN /\ module' \in BOOLEAN /\ kernel' \in BOOLEAN
      /\ worked' \in BOOLEAN /\ broken' \in BOOLEAN
  BY <1>step, Zenon DEF Inv, TypeOK
<1>count. modules' \in Nat
  BY <1>step DEF Inv, TypeOK
<1>2. TypeOK'
  BY <1>step, <1>1, <1>bool, <1>count, <1>cur DEF Inv, TypeOK
<1>3. LibrariesInv'
  BY <1>step DEF Inv, LibrariesInv, Loaded, InCuda, Ensured
<1>4. ModuleInv'
  BY <1>step, <1>cur DEF Inv, TypeOK, ModuleInv, HeldAt, Ensured
<1>5. WorkedInv'
  <2>1. (worked => kernel /\ resolved >= 15)'
    BY <1>step DEF Inv, WorkedInv
  <2>2. (pc \in {"context", "kernel", "compile", "ptx", "module", "function"} => described)'
    BY <1>step DEF Inv, WorkedInv, Ensured
  <2>3. (outcome = "crashed" => pc = "crashed")'
    BY <1>step DEF Inv, WorkedInv, Ensured
  <2> QED
    BY <2>1, <2>2, <2>3 DEF WorkedInv
<1>6. LegacyInv'
  <2>1. pc' \in {"alloc result", "copy", "search"} => Usable'
    BY <1>step DEF Usable
  <2> QED
    BY <1>step, <2>1, StepKeepsLegacy
<1>7. NeverThroughNull'
  BY <1>step DEF Inv, NeverThroughNull
<1> QED
  BY <1>2, <1>3, <1>4, <1>5, <1>6, <1>7 DEF Inv

\* The result's buffer.
LEMMA AllocateResultKeeps ==
  ASSUME Inv, AllocateResult
  PROVE  Inv'
<1>cur. current # NoThread
  BY NoThreadAssumption DEF AllocateResult, At, Inv, TypeOK, ModuleInv
<1>step.
      /\ pc = "alloc result"
      /\ installed' = installed /\ persists' = persists /\ thread' = thread
      /\ call' = call /\ cudaLib' = cudaLib /\ nvrtcLib' = nvrtcLib /\ broken' = broken
      /\ resolved' = resolved /\ described' = described /\ ctx' = ctx
      /\ current' = current /\ module' = module /\ kernel' = kernel
      /\ modules' = modules
      /\ \/ pc' = "copy" /\ outcome' = outcome /\ cause' = cause
            /\ worked' = worked /\ held' = held \cup {"result"}
         \/ pc' = "idle" /\ outcome' = "failed" /\ worked' = worked
            /\ cause' \in {"fault", "thread", "broken"}
            /\ held' = held \ {"mid"}
  BY <1>cur DEF AllocateResult, At, Goto, Fault, Blame, Return, machine, libraries, device,
         code, result
<1>1. pc' \in Labels
  BY <1>step DEF Labels, Ensured
<1>bool.
      /\ persists' \in BOOLEAN /\ cudaLib' \in BOOLEAN /\ nvrtcLib' \in BOOLEAN
      /\ described' \in BOOLEAN /\ ctx' \in BOOLEAN /\ module' \in BOOLEAN /\ kernel' \in BOOLEAN
      /\ worked' \in BOOLEAN /\ broken' \in BOOLEAN
  BY <1>step, Zenon DEF Inv, TypeOK
<1>count. modules' \in Nat
  BY <1>step DEF Inv, TypeOK
<1>2. TypeOK'
  BY <1>step, <1>1, <1>bool, <1>count DEF Inv, TypeOK
<1>3. LibrariesInv'
  BY <1>step DEF Inv, LibrariesInv, Loaded, InCuda, Ensured
<1>4. ModuleInv'
  BY <1>step DEF Inv, TypeOK, ModuleInv, HeldAt, Ensured
<1>5. WorkedInv'
  <2>1. (worked => kernel /\ resolved >= 15)'
    BY <1>step DEF Inv, WorkedInv
  <2>2. (pc \in {"context", "kernel", "compile", "ptx", "module", "function"} => described)'
    BY <1>step DEF Inv, WorkedInv, Ensured
  <2>3. (outcome = "crashed" => pc = "crashed")'
    BY <1>step DEF Inv, WorkedInv, Ensured
  <2> QED
    BY <2>1, <2>2, <2>3 DEF WorkedInv
<1>6. LegacyInv'
  <2>1. pc' \in {"alloc result", "copy", "search"} => Usable'
    BY <1>step DEF Inv, LegacyInv, Usable
  <2> QED
    BY <1>step, <2>1, StepKeepsLegacy
<1>7. NeverThroughNull'
  BY <1>step DEF Inv, NeverThroughNull
<1> QED
  BY <1>2, <1>3, <1>4, <1>5, <1>6, <1>7 DEF Inv

\* The midstate is copied.
LEMMA CopyMidKeeps ==
  ASSUME Inv, CopyMid
  PROVE  Inv'
<1>cur. current # NoThread
  BY NoThreadAssumption DEF CopyMid, At, Inv, TypeOK, ModuleInv
<1>step.
      /\ pc = "copy"
      /\ installed' = installed /\ persists' = persists /\ thread' = thread
      /\ call' = call /\ cudaLib' = cudaLib /\ nvrtcLib' = nvrtcLib /\ broken' = broken
      /\ resolved' = resolved /\ described' = described /\ ctx' = ctx
      /\ current' = current /\ module' = module /\ kernel' = kernel
      /\ modules' = modules
      /\ \/ pc' = "search" /\ outcome' = outcome /\ cause' = cause
            /\ worked' = worked /\ held' = held
         \/ pc' = "idle" /\ outcome' = "failed" /\ worked' = worked
            /\ cause' \in {"fault", "thread", "broken"}
            /\ held' = held \ {"mid", "result"}
  BY <1>cur DEF CopyMid, At, Goto, Fault, Blame, Return, machine, libraries, device, code,
         result
<1>1. pc' \in Labels
  BY <1>step DEF Labels, Ensured
<1>bool.
      /\ persists' \in BOOLEAN /\ cudaLib' \in BOOLEAN /\ nvrtcLib' \in BOOLEAN
      /\ described' \in BOOLEAN /\ ctx' \in BOOLEAN /\ module' \in BOOLEAN /\ kernel' \in BOOLEAN
      /\ worked' \in BOOLEAN /\ broken' \in BOOLEAN
  BY <1>step, Zenon DEF Inv, TypeOK
<1>count. modules' \in Nat
  BY <1>step DEF Inv, TypeOK
<1>2. TypeOK'
  BY <1>step, <1>1, <1>bool, <1>count DEF Inv, TypeOK
<1>3. LibrariesInv'
  BY <1>step DEF Inv, LibrariesInv, Loaded, InCuda, Ensured
<1>4. ModuleInv'
  BY <1>step DEF Inv, TypeOK, ModuleInv, HeldAt, Ensured
<1>5. WorkedInv'
  <2>1. (worked => kernel /\ resolved >= 15)'
    BY <1>step DEF Inv, WorkedInv
  <2>2. (pc \in {"context", "kernel", "compile", "ptx", "module", "function"} => described)'
    BY <1>step DEF Inv, WorkedInv, Ensured
  <2>3. (outcome = "crashed" => pc = "crashed")'
    BY <1>step DEF Inv, WorkedInv, Ensured
  <2> QED
    BY <2>1, <2>2, <2>3 DEF WorkedInv
<1>6. LegacyInv'
  <2>1. pc' \in {"alloc result", "copy", "search"} => Usable'
    BY <1>step DEF Inv, LegacyInv, Usable
  <2> QED
    BY <1>step, <2>1, StepKeepsLegacy
<1>7. NeverThroughNull'
  BY <1>step DEF Inv, NeverThroughNull
<1> QED
  BY <1>2, <1>3, <1>4, <1>5, <1>6, <1>7 DEF Inv

\* The batch loop: an answer shows that cuLaunchKernel is there.
LEMMA SearchKeeps ==
  ASSUME Inv, Search
  PROVE  Inv'
<1>step. resolved >= 15
  <2>1. Calls = {"cuMemcpyHtoD", "cuLaunchKernel", "cuCtxSynchronize", "cuMemcpyDtoH", "cuMemFree"}
    BY DEF Search, At, Calls
  <2>2. Resolved({"cuLaunchKernel"})
    BY <2>1 DEF Search, At, Resolved
  <2> QED
    BY <2>2, LaunchIsFifteenth, SymbolTable DEF Inv, TypeOK
<1>cause. /\ pc' = "idle" /\ outcome' \in {"answer", "nothing"}
          /\ cause' \in {"none", "fault"} /\ broken' \in BOOLEAN
  <2>1. pc = "search"
    BY DEF Search, At
  <2>2. kernel /\ Usable /\ broken = FALSE
    BY <2>1 DEF Inv, TypeOK, ModuleInv, LegacyInv, Usable
  <2>3. Blame(TRUE) = "fault"
    BY <2>2, NoThreadAssumption DEF Blame, Usable, Inv, TypeOK
  <2> QED
    BY <2>2, <2>3 DEF Search, Return
<1>1. pc' \in Labels
  BY <1>step DEF Inv, TypeOK, Search, At, Return, machine, libraries, device, code, result,
         Labels
<1>2. TypeOK'
  <2>1. /\ UNCHANGED <<installed, persists, thread, call>>
        /\ UNCHANGED <<cudaLib, nvrtcLib, resolved, described, ctx, current>>
        /\ UNCHANGED <<module, kernel, modules>>
    BY DEF Search, At, machine, libraries, code
  <2>2. held' \subseteq held
    BY DEF Search
  <2>4. worked' \in BOOLEAN
    BY Zenon DEF Search, Return, Inv, TypeOK
  <2>5. held' \subseteq {"program", "ptx", "mid", "result"}
    BY <2>2 DEF Inv, TypeOK
  <2>6. /\ outcome' \in {"none", "answer", "nothing", "failed", "crashed"}
        /\ cause' \in {"none", "machine", "fault", "thread", "broken", "stale", "null"}
        /\ broken' \in BOOLEAN
    BY <1>cause
  <2>7. TypeOK
    BY DEF Inv
  <2>8. /\ installed' \in [cuda : BOOLEAN, nvrtc : BOOLEAN, lacks : 0..Len(Symbols)]
        /\ persists' \in BOOLEAN
        /\ thread' \in Threads
        /\ cudaLib' \in BOOLEAN /\ nvrtcLib' \in BOOLEAN
        /\ resolved' \in 0..Len(Symbols)
    BY <2>1, <2>7, Zenon DEF TypeOK
  <2>9. /\ described' \in BOOLEAN
        /\ ctx' \in BOOLEAN
        /\ IF ctx' THEN current' \in Threads ELSE current' = NoThread
        /\ module' \in BOOLEAN /\ kernel' \in BOOLEAN
        /\ call' \in {"prepare", "solve"}
        /\ modules' \in Nat
    BY <2>1, <2>7, Zenon DEF TypeOK
  <2> QED
    BY <1>1, <2>4, <2>5, <2>6, <2>8, <2>9, Zenon DEF TypeOK
<1>3. LibrariesInv'
  BY <1>step, <1>cause DEF Inv, TypeOK, LibrariesInv, Loaded, InCuda, Search, At, Return,
         machine, libraries, device, code, result
<1>4. ModuleInv'
  BY <1>step DEF Inv, TypeOK, ModuleInv, HeldAt, Search, At, Return, machine, libraries,
         device, code, result
<1>5. WorkedInv'
  BY <1>step, <1>cause DEF Inv, TypeOK, WorkedInv, ModuleInv, LibrariesInv, Loaded, Search,
         At, Return, machine, libraries, device, code, result
<1>6. LegacyInv'
  BY <1>cause DEF LegacyInv, LegacyIsKnown, LegacyIsReported
<1>7. NeverThroughNull'
  BY <1>step, <1>cause DEF Inv, TypeOK, NeverThroughNull, WorkedInv, Search, At, Return,
         machine, libraries, device, code, result
<1> QED
  BY <1>2, <1>3, <1>4, <1>5, <1>6, <1>7 DEF Inv

\* A null pointer is called only where not every symbol was resolved.
LEMMA CrashKeeps ==
  ASSUME Inv, Crash
  PROVE  Inv'
<1>some. resolved \in 0..24 /\ InCuda
  BY SymbolTable DEF Inv, TypeOK, LibrariesInv, Loaded, Crash, InCuda
<1>new. ~worked
  <2> SUFFICES ASSUME worked PROVE FALSE
    OBVIOUS
  <2>1. resolved \in 15..24 /\ kernel /\ described /\ ctx /\ module
    BY <1>some DEF Inv, WorkedInv, ModuleInv
  <2>2. pc \notin {"compile", "ptx", "module", "function"}
    BY <2>1 DEF Inv, ModuleInv
  <2> QED
    BY <2>1, <2>2, EnoughResolved DEF Crash
<1>lacks. installed.lacks # 0
  <2> SUFFICES ASSUME installed.lacks = 0 PROVE FALSE
    OBVIOUS
  <2>1. resolved = 24
    BY <1>some, SymbolTable DEF Inv, LibrariesInv, InCuda
  <2> QED
    BY <2>1, AllResolved DEF Crash
<1>again. persists
  BY <1>some, <1>lacks DEF Inv, LibrariesInv, InCuda
<1>1. pc' \in Labels
  BY <1>some, <1>new, <1>lacks, <1>again DEF Inv, TypeOK, Crash, machine, libraries,
         device, code, result, Labels
<1>2. TypeOK'
  BY <1>1, <1>some, <1>new, <1>lacks, <1>again DEF Inv, TypeOK, Crash, machine, libraries,
         device, code, result
<1>3. LibrariesInv'
  BY <1>some, <1>new, <1>lacks, <1>again DEF Inv, TypeOK, LibrariesInv, Loaded, InCuda,
         Crash, machine, libraries, device, code, result
<1>4. ModuleInv'
  BY <1>some, <1>new, <1>lacks, <1>again DEF Inv, TypeOK, ModuleInv, HeldAt, Crash,
         machine, libraries, device, code, result
<1>5. WorkedInv'
  BY <1>some, <1>new, <1>lacks, <1>again DEF Inv, TypeOK, WorkedInv, ModuleInv,
         LibrariesInv, Loaded, Crash, machine, libraries, device, code, result
<1>6. LegacyInv'
  BY <1>some, <1>new, <1>lacks, <1>again DEF Inv, TypeOK, ModuleInv, LegacyInv, Usable,
         LegacyIsKnown, LegacyIsReported, Crash, machine, libraries, device, code, result
<1>7. NeverThroughNull'
  BY <1>some, <1>new, <1>lacks, <1>again DEF Inv, TypeOK, NeverThroughNull, WorkedInv,
         Crash, machine, libraries, device, code, result
<1> QED
  BY <1>2, <1>3, <1>4, <1>5, <1>6, <1>7 DEF Inv

\* The invariant of the process-wide state.
THEOREM RuntimeInvariant == Spec => []Inv
<1>1. Inv /\ [Next]_vars => Inv'
  <2> SUFFICES ASSUME Inv, [Next]_vars PROVE Inv'
    OBVIOUS
  <2>1. CASE UNCHANGED vars
    <3>1. TypeOK'
      BY <2>1 DEF Inv, TypeOK, vars, machine, libraries, device, code, result
    <3>2. LibrariesInv'
      BY <2>1 DEF Inv, LibrariesInv, Loaded, InCuda, vars, machine, libraries, device,
             code, result
    <3>3. ModuleInv'
      BY <2>1 DEF Inv, ModuleInv, HeldAt, vars, machine, libraries, device, code, result
    <3>4. WorkedInv' /\ LegacyInv' /\ NeverThroughNull'
      BY <2>1 DEF Inv, WorkedInv, LegacyInv, Usable, LegacyIsKnown, LegacyIsReported,
             NeverThroughNull, vars, machine, libraries, device, code, result
    <3> QED
      BY <3>1, <3>2, <3>3, <3>4 DEF Inv
  <2>2. CASE Solve \/ Moves \/ Prepared \/ Crash
    BY <2>2, SolveKeeps, MovesKeeps, PreparedKeeps, CrashKeeps
  <2>3. CASE LoadLibraries \/ InitDevice \/ Describe \/ CreateContext
    BY <2>3, LoadLibrariesKeeps, InitDeviceKeeps, DescribeKeeps, CreateContextKeeps
  <2>4. CASE CreateProgram \/ Compile \/ GetPTX \/ LoadModule \/ GetFunction
    BY <2>4, CreateProgramKeeps, CompileKeeps, GetPTXKeeps, LoadModuleKeeps,
           GetFunctionKeeps
  <2>5. CASE AllocateMid \/ AllocateResult \/ CopyMid \/ Search
    BY <2>5, AllocateMidKeeps, AllocateResultKeeps, CopyMidKeeps, SearchKeeps
  <2> QED
    BY <2>1, <2>2, <2>3, <2>4, <2>5 DEF Next, Runs
<1> QED
  BY InvInitially, <1>1, PTL DEF Spec

\* Type correctness; the context is current on one thread at most.
THEOREM TypeCorrect == Spec => []TypeOK
<1>1. Inv => TypeOK
  BY DEF Inv
<1> QED
  BY <1>1, RuntimeInvariant, PTL

\* Whatever fails, C gives back what it allocated, and one module at most is
\* loaded (cuda_impl.c:260 to cuda_impl.c:327, cuda_impl.c:382 to cuda_impl.c:450).
THEOREM NoLeak == Spec => []NothingLeaks
<1>1. Inv => NothingLeaks
  BY DEF Inv, ModuleInv, HeldAt, NothingLeaks
<1> QED
  BY <1>1, RuntimeInvariant, PTL

\* What the calls before left keeps a Solve from its answer in three ways only:
\* another thread's context, a context that a failed kernel broke, a function that
\* was never resolved; no handle is left with nothing behind it (cuda_impl.c:261,
\* cuda_impl.c:356).
THEOREM LegacyStaysKnown == Spec => []LegacyIsKnown
<1>1. Inv => LegacyIsKnown
  BY DEF Inv, LegacyInv
<1> QED
  BY <1>1, RuntimeInvariant, PTL

\* What the calls before left is returned as an error, never as "no solution"
\* (cuda_impl.c:382, cuda_impl.c:449).
THEOREM LegacyStaysReported == Spec => []LegacyIsReported
<1>1. Inv => LegacyIsReported
  BY DEF Inv, LegacyInv
<1> QED
  BY <1>1, RuntimeInvariant, PTL

\* Only a caller that tries again after its very first call failed can call a
\* null pointer, and only if a library lacks a symbol (cuda_impl.c:219).
THEOREM NullNeedsRetry == Spec => []NeverThroughNull
<1>1. Inv => NeverThroughNull
  BY DEF Inv
<1> QED
  BY <1>1, RuntimeInvariant, PTL
=============================================================================
