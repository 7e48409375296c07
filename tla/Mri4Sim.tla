------------------------------- MODULE Mri4Sim -------------------------------
(***************************************************************************)
(* The run loop of the simulator and the debugger glue around it: mri4sim.c*)
(* and pinkySimRun / pinkySimStep of pinkySim.c, on top of the memory that *)
(* WatchedMemory specifies.  The simulator is one thread; GDB acts at its  *)
(* own pace on the other side of a socket.  Each action makes at most one  *)
(* memory call.  The debug monitor (MRI) is not part of the repository: its*)
(* steps are those the platform functions and the tests of mri4sim show.   *)
(***************************************************************************)
EXTENDS Integers, FiniteSets, MemoryInterface

CONSTANTS
    AddressSpace,
    AllocationMayFail,
    CodeSize,           \* the code bank is 0 .. CodeSize - 1
    DataBase, DataSize, \* the data bank
    Programs,           \* set of sequences of CodeSize \div 2 half-words
    BranchTargets,      \* where a branch may go
    DataAccesses,       \* set of <<address, size>> the program may load or store
    GdbAccesses,        \* set of <<address, size>> that GDB may read or write
    Breakpoints,        \* set of <<address, kind>>
    Watchpoints,        \* set of <<address, size, type>>
    GdbCounters,        \* the program counters that GDB may set
    MaxEncountered,     \* GDB's reads and steps stop at this many encounters
    MaxRan              \* instructions counted since the program was resumed

VARIABLES
    banks, cells, entries, encountered, call, reply,  \* the memory
    at,                 \* where the thread is
    returnTo,           \* where it goes after advancing the program counter
    pc, thumb,          \* the context: program counter, EPSR.T
    runResult,          \* g_runResult
    pcOrig,             \* g_pcOrig
    singleStepping,     \* g_singleStepping
    memoryFault,        \* g_memoryFaultEncountered
    breakOnStart,
    link,               \* the connection: "none", "open", or "closing" by GDB
    pending,            \* whether GDB has sent a byte that was not read
    resumedBy, ran      \* history: the last resumption, instructions since then

memory  == <<banks, cells, entries, encountered, call, reply>>
thread  == <<at, returnTo, pc, thumb, runResult, pcOrig, singleStepping, memoryFault, breakOnStart>>
remote  == <<link, pending>>
history == <<resumedBy, ran>>
vars    == <<memory, thread, remote, history>>

Memory == INSTANCE WatchedMemory

\* Instructions that the control flow tells apart, by what executing them does.
Breaks     == {"bkpt", "semihost", "exit"}      \* BKPT 0, NEWLIB_MIN..MAX, 0xFF
Refused    == {"undefined", "unpredictable"}    \* thrown: pc stays
Returned   == {"svc", "unsupported", "unassigned"}  \* returned: pc has advanced
Transfers  == {"load", "store"}
Branches   == {"branch", "exchange"}            \* exchange may leave Thumb state
Half       == Breaks \cup Refused \cup Returned \cup Transfers \cup Branches
                \cup {"nop", "wide", "tail", "data"}

ASSUME ProgramsAssumption ==
    /\ CodeSize \in Nat /\ CodeSize % 2 = 0
    /\ \A program \in Programs : program \in [1 .. (CodeSize \div 2) -> Half]
ASSUME DataAssumption     == DataBase \in Nat /\ DataSize \in Nat
ASSUME AccessesAssumption == DataAccesses \subseteq Nat \X Nat
ASSUME CountersAssumption == BranchTargets \subseteq Nat /\ GdbCounters \subseteq Nat
ASSUME BoundsAssumption   == MaxRan \in Nat \ {0} /\ MaxEncountered \in Nat

Traps      == {"bkpt", "watchpoint", "singleStep"}
RunResults == Traps \cup Refused \cup {"svc", "unsupported", "hardFault", "interrupt"}

Locations == {"loopTop", "callback", "fetch", "fetchTail", "load", "store", "checkExit",
              "exception", "semihost", "advance", "stopping", "stopped", "answering",
              "skip", "exited"}

\* The half-word that a successful read of two bytes answered.
Answered == reply'.exception = "none"
HalfRead == reply'.value[1]
SizeOf(half) == IF half = "wide" THEN 4 ELSE 2

ReadMemory(address, size)  == call' = RangeCall("read", address, size) /\ Memory!Read
WriteMemory(address, size) ==
    call' = DataCall("write", address, [k \in 1 .. size |-> "data"]) /\ Memory!Write
ReadHalfWord == ReadMemory(pc, 2)

ProgramCells(program) ==
    [a \in 0 .. (CodeSize - 1) \cup DataBase .. (DataBase + DataSize - 1) |->
        IF a \in 0 .. (CodeSize - 1) /\ a % 2 = 0 THEN program[a \div 2 + 1] ELSE "data"]

\* The image is loaded, the context is reset and GDB has not connected.
Init ==
    /\ banks = {[base |-> 0, size |-> CodeSize, readOnly |-> TRUE],
                [base |-> DataBase, size |-> DataSize, readOnly |-> FALSE]}
    /\ \E program \in Programs : cells = ProgramCells(program)
    /\ entries = {} /\ encountered = 0
    /\ call = PlainCall("init") /\ reply = Answer(<< >>)
    /\ at = "loopTop" /\ returnTo = "loopTop"
    /\ pc = 0 /\ thumb = TRUE /\ pcOrig = 0
    /\ runResult = "bkpt"
    /\ singleStepping = 0 /\ memoryFault = 0
    /\ breakOnStart \in BOOLEAN
    /\ link = "none" /\ pending = FALSE
    /\ resumedBy = "start" /\ ran = 0

-----------------------------------------------------------------------------
(* Running.                                                                *)

\* The first pass may go straight to the debugger; every other one runs.
LoopTop ==
    /\ at = "loopTop"
    /\ \/ /\ breakOnStart
          /\ runResult' = "bkpt"
          /\ breakOnStart' = FALSE
          /\ at' = "exception"
       \/ /\ ~breakOnStart
          /\ at' = "callback"
          /\ UNCHANGED <<runResult, breakOnStart>>
    /\ UNCHANGED <<memory, returnTo, pc, thumb, pcOrig, singleStepping, memoryFault, remote, history>>

\* Mutated form of RunEnds: the exit call is not looked for.
RunEnds_NoExitCheck(result) == runResult' = result /\ at' = "exception"

\* pinkySimRun returns: only a breakpoint may be a request to exit.
RunEnds(result) ==
    /\ runResult' = result
    /\ at' = IF result = "bkpt" THEN "checkExit" ELSE "exception"

\* Mutated form of HasReceiveData: a closed connection has nothing to say.
HasReceiveData_BytesOnly == pending

\* A connection that GDB closed is readable, and is still this side's socket.
GdbConnected   == link # "none"
HasReceiveData == pending \/ link = "closing"

\* Mutated form of StepCounted: the count of a single step stays where it is.
StepCounted_Never == singleStepping

StepCounted == IF singleStepping > 1 THEN singleStepping - 1 ELSE singleStepping

\* Mutated form of ShouldInterruptRun: the first pass of a step returns at once.
ShouldInterruptRun_StepReturns ==
    /\ at = "callback"
    /\ \/ singleStepping = 1 /\ RunEnds("singleStep") /\ UNCHANGED <<memory, singleStepping>>
       \/ singleStepping > 1 /\ at' = "fetch" /\ singleStepping' = 1 /\ UNCHANGED <<memory, runResult>>
       \/ /\ singleStepping = 0
          /\ Memory!WasEncountered
          /\ IF reply'.value[1] > 0 THEN RunEnds("watchpoint") ELSE at' = "fetch" /\ UNCHANGED runResult
          /\ UNCHANGED singleStepping
    /\ UNCHANGED <<returnTo, pc, thumb, pcOrig, memoryFault, breakOnStart, remote, history>>

\* Mutated form of ShouldInterruptRun: GDB is looked at before the watchpoints.
ShouldInterruptRun_GdbFirst ==
    /\ at = "callback"
    /\ singleStepping' = StepCounted
    /\ Memory!WasEncountered
    /\ IF singleStepping = 1 THEN RunEnds("singleStep")
       ELSE IF GdbConnected /\ HasReceiveData THEN RunEnds("interrupt")
       ELSE IF reply'.value[1] > 0 THEN RunEnds("watchpoint")
       ELSE at' = "fetch" /\ UNCHANGED runResult
    /\ UNCHANGED <<returnTo, pc, thumb, pcOrig, memoryFault, breakOnStart, remote, history>>

\* Before each instruction: an ending single step first, without asking the
\* memory; then watchpoints; then GDB.
ShouldInterruptRun ==
    /\ at = "callback"
    /\ \/ /\ singleStepping = 1
          /\ RunEnds("singleStep")
          /\ UNCHANGED <<memory, singleStepping>>
       \/ /\ singleStepping # 1
          /\ singleStepping' = StepCounted
          /\ Memory!WasEncountered
          /\ \/ reply'.value[1] > 0 /\ RunEnds("watchpoint")
             \/ reply'.value[1] = 0 /\ GdbConnected /\ HasReceiveData /\ RunEnds("interrupt")
             \/ /\ reply'.value[1] = 0 /\ ~(GdbConnected /\ HasReceiveData)
                /\ at' = "fetch"
                /\ UNCHANGED runResult
    /\ UNCHANGED <<returnTo, pc, thumb, pcOrig, memoryFault, breakOnStart, remote, history>>

\* An encoding that no decoder takes is undefined, but nothing throws.
ReturnedResult(half) == IF half = "unassigned" THEN "undefined" ELSE half

\* The instruction is done and the program goes on at next.
Completes(next) ==
    /\ pc' = next
    /\ at' = "callback"
    /\ ran' = IF ran < MaxRan THEN ran + 1 ELSE ran
    /\ UNCHANGED runResult

\* The instruction ends the run: pc stays at it.
Throws(result) == RunEnds(result) /\ UNCHANGED <<pc, thumb, ran>>

\* The instruction ends the run, but its result is returned: pc is past it.
Returns(half, next) == RunEnds(ReturnedResult(half)) /\ pc' = next /\ UNCHANGED <<thumb, ran>>

GoesOn(where) == at' = where /\ UNCHANGED <<pc, thumb, ran, runResult>>

\* What an access that threw makes of the instruction.
Faults ==
    \/ reply'.exception = "hardwareBreakpoint" /\ Throws("bkpt")
    \/ reply'.exception = "busError" /\ Throws("hardFault")

KeepsDebugState ==
    UNCHANGED <<returnTo, pcOrig, singleStepping, memoryFault, breakOnStart, remote, resumedBy>>

\* What the first half-word of an instruction makes of it.
Decode(half) ==
    \/ half \in {"nop", "tail", "data"} /\ Completes(pc + 2) /\ UNCHANGED thumb
    \/ /\ half \in Branches
       /\ \E target \in BranchTargets : Completes(target)
       /\ thumb' \in IF half = "exchange" THEN BOOLEAN ELSE {thumb}
    \/ half = "wide" /\ GoesOn("fetchTail")
    \/ half \in Transfers /\ GoesOn(half)
    \/ half \in Breaks /\ Throws("bkpt")
    \/ half \in Refused /\ Throws(half)
    \/ half \in Returned /\ Returns(half, pc + 2)

\* Outside Thumb state nothing is fetched.
PinkySimStep ==
    /\ at = "fetch"
    /\ \/ ~thumb /\ Throws("hardFault") /\ UNCHANGED memory
       \/ /\ thumb
          /\ ReadHalfWord
          /\ \/ Faults
             \/ Answered /\ Decode(HalfRead)
    /\ KeepsDebugState

\* What the second half-word makes of a 32-bit instruction.
DecodeTail(half) ==
    \/ half = "branch" /\ (\E target \in BranchTargets : Completes(target)) /\ UNCHANGED thumb
    \/ half \in Refused /\ Throws(half)
    \/ half = "unassigned" /\ Returns(half, pc + 4)
    \/ half \notin Refused \cup {"branch", "unassigned"} /\ Completes(pc + 4) /\ UNCHANGED thumb

\* Mutated form of ExecuteInstruction32: no check of the second half-word.
ExecuteInstruction32_Unchecked ==
    /\ at = "fetchTail"
    /\ call' = RangeCall("mapForRead", pc + 2, 2) /\ Memory!MapForRead
    /\ \/ Faults
       \/ Answered /\ DecodeTail(HalfRead)
    /\ KeepsDebugState

\* The second half-word of a 32-bit instruction is fetched like the first.
ExecuteInstruction32 ==
    /\ at = "fetchTail"
    /\ ReadMemory(pc + 2, 2)
    /\ \/ Faults
       \/ Answered /\ DecodeTail(HalfRead)
    /\ KeepsDebugState

TransferData ==
    /\ at \in Transfers
    /\ \E access \in DataAccesses :
         IF at = "load" THEN ReadMemory(access[1], access[2]) ELSE WriteMemory(access[1], access[2])
    /\ \/ Faults
       \/ Answered /\ Completes(pc + 2) /\ UNCHANGED thumb
    /\ KeepsDebugState

\* Exiting needs the instruction to be readable: under a breakpoint it is not.
IsExitSemihost ==
    /\ at = "checkExit"
    /\ ReadHalfWord
    /\ at' = IF Answered /\ HalfRead = "exit" THEN "exited" ELSE "exception"
    /\ UNCHANGED <<returnTo, pc, thumb, runResult, pcOrig, singleStepping, memoryFault, breakOnStart,
                   remote, history>>

-----------------------------------------------------------------------------
(* The debugger is entered.                                                *)

TypeOfCurrentInstruction ==
    IF Answered /\ HalfRead \in {"semihost", "bkpt"} THEN HalfRead ELSE "other"

\* A trap at a semihost instruction is taken for the call, whatever stopped
\* the program; whether another signal is too is left open.
EnteringDebugger ==
    /\ at = "exception"
    /\ pcOrig' = pc
    /\ singleStepping' = 0
    /\ returnTo' = IF singleStepping > 0 THEN "stopping" ELSE "loopTop"
    /\ \/ /\ ReadHalfWord
          /\ at' = IF TypeOfCurrentInstruction = "semihost" THEN "semihost" ELSE "stopping"
       \/ /\ runResult \notin Traps
          /\ at' = "stopping"
          /\ UNCHANGED memory
    /\ UNCHANGED <<pc, thumb, runResult, memoryFault, breakOnStart, remote, history>>

\* The host serves the call.  While GDB serves it, it may ask for a stop.
HandleSemihostRequest ==
    /\ at = "semihost"
    /\ ReadHalfWord
    /\ returnTo' \in IF GdbConnected THEN {returnTo, "stopping"} ELSE {returnTo}
    /\ at' = "advance"
    /\ UNCHANGED <<pc, thumb, runResult, pcOrig, singleStepping, memoryFault, breakOnStart, remote, history>>

AdvanceProgramCounterToNextInstruction ==
    /\ at = "advance"
    /\ ReadHalfWord
    /\ pc' = IF Answered THEN pc + SizeOf(HalfRead) ELSE pc
    /\ at' = returnTo
    /\ UNCHANGED <<returnTo, thumb, runResult, pcOrig, singleStepping, memoryFault, breakOnStart,
                   remote, history>>

\* The stop is sent, which waits for a GDB; what it had sent is read.
SendStop ==
    /\ at = "stopping"
    /\ link # "none"
    /\ at' = "stopped"
    /\ pending' = FALSE
    /\ UNCHANGED <<memory, returnTo, pc, thumb, runResult, pcOrig, singleStepping, memoryFault,
                   breakOnStart, link, history>>

\* Waiting for a command finds that GDB has closed its side.
ReceiveClose ==
    /\ at = "stopped" /\ link = "closing"
    /\ link' = "none"
    /\ UNCHANGED <<memory, thread, pending, history>>

-----------------------------------------------------------------------------
(* GDB's commands, one at a time, while the program is stopped.            *)

Commanded == at = "stopped" /\ link = "open"

KeepsThread ==
    UNCHANGED <<returnTo, pc, thumb, runResult, pcOrig, singleStepping, breakOnStart, remote, history>>

\* The size of the instruction at a breakpoint of a kind: 3 and 4 are both
\* 32-bit instructions.
BreakpointSize == [kind \in {2, 3, 4} |-> IF kind = 2 THEN 2 ELSE 4]

Request(op, address, size, type) ==
    /\ Commanded
    /\ call' = WatchCall(op, address, size, type)
    /\ Memory!Watch \/ Memory!OutOfMemory
    /\ KeepsThread /\ UNCHANGED <<at, memoryFault>>

\* Any other kind is refused, and nothing is set or cleared.
OfKnownKind == {b \in Breakpoints : b[2] \in DOMAIN BreakpointSize}
RefuseBreakpoint == Commanded /\ Breakpoints # OfKnownKind /\ UNCHANGED vars

SetHardwareBreakpoint ==
    \/ \E b \in OfKnownKind : Request("set", b[1], BreakpointSize[b[2]], "breakpoint")
    \/ RefuseBreakpoint
ClearHardwareBreakpoint ==
    \/ \E b \in OfKnownKind : Request("clear", b[1], BreakpointSize[b[2]], "breakpoint")
    \/ RefuseBreakpoint
SetHardwareWatchpoint   == \E w \in Watchpoints : Request("set", w[1], w[2], w[3])
ClearHardwareWatchpoint == \E w \in Watchpoints : Request("clear", w[1], w[2], w[3])

\* GDB reaches memory through the same checked entry points as the program.
MemReadOrWrite ==
    /\ Commanded
    /\ encountered < MaxEncountered
    /\ \E access \in GdbAccesses :
         ReadMemory(access[1], access[2]) \/ WriteMemory(access[1], access[2])
    /\ memoryFault' = IF Answered THEN memoryFault ELSE memoryFault + 1
    /\ at' = "answering"
    /\ KeepsThread

\* Mutated form of WasMemoryFaultEncountered: the count is not reset.
WasMemoryFaultEncountered_Kept ==
    /\ at = "answering"
    /\ at' = "stopped"
    /\ UNCHANGED <<memory, memoryFault>> /\ KeepsThread

WasMemoryFaultEncountered ==
    /\ at = "answering"
    /\ memoryFault' = 0
    /\ at' = "stopped"
    /\ UNCHANGED memory /\ KeepsThread

\* GDB writes the registers, the program counter and the Thumb bit among them.
CopyContextFromBuffer ==
    /\ Commanded
    /\ pc' \in GdbCounters \cup {pc}
    /\ thumb' \in BOOLEAN
    /\ UNCHANGED <<memory, at, returnTo, runResult, pcOrig, singleStepping, memoryFault,
                   breakOnStart, remote, history>>

\* Continue or step, at an address if GDB gives one.
Resume(how) ==
    /\ Commanded
    /\ \E address \in GdbCounters \cup {pc} : pc' = address
    /\ resumedBy' = how /\ ran' = 0
    /\ at' = "skip"
    /\ UNCHANGED <<memory, returnTo, thumb, runResult, pcOrig, singleStepping, memoryFault,
                   breakOnStart, remote>>

ContinueCommand   == Resume("continue")
SingleStepCommand == Resume("step") /\ encountered < MaxEncountered

WasProgramCounterModifiedByUser == pc # pcOrig

\* Mutated form of Resumes: a step is resumed like a continue.
Resumes_NoStep ==
    /\ at' = "loopTop"
    /\ UNCHANGED <<returnTo, singleStepping>>

Resumes ==
    /\ singleStepping' = IF resumedBy = "step" THEN 2 ELSE singleStepping
    /\ at' = "loopTop"
    /\ UNCHANGED returnTo

\* The hard-coded breakpoint that the program stopped at is stepped over first,
\* and that is the whole of a single step.
SkipHardcodedBreakpoint ==
    /\ at = "skip"
    /\ \/ WasProgramCounterModifiedByUser /\ Resumes /\ UNCHANGED memory
       \/ /\ ~WasProgramCounterModifiedByUser
          /\ ReadHalfWord
          /\ \/ TypeOfCurrentInstruction # "bkpt" /\ Resumes
             \/ /\ TypeOfCurrentInstruction = "bkpt"
                /\ at' = "advance"
                /\ returnTo' = IF resumedBy = "step" THEN "stopping" ELSE "loopTop"
                /\ UNCHANGED singleStepping
    /\ UNCHANGED <<pc, thumb, runResult, pcOrig, memoryFault, breakOnStart, remote, history>>

-----------------------------------------------------------------------------
(* GDB's side of the socket, at any time.                                  *)

GdbConnects == link = "none" /\ link' = "open" /\ UNCHANGED <<memory, thread, pending, history>>
GdbSends    ==
    /\ link = "open" /\ at \notin {"stopped", "answering"}
    /\ pending' = TRUE
    /\ UNCHANGED <<memory, thread, link, history>>
GdbHangsUp == link = "open" /\ link' = "closing" /\ UNCHANGED <<memory, thread, pending, history>>

Run ==
    \/ LoopTop
    \/ ShouldInterruptRun
    \/ PinkySimStep
    \/ ExecuteInstruction32
    \/ TransferData
    \/ IsExitSemihost

Monitor ==
    \/ EnteringDebugger
    \/ HandleSemihostRequest
    \/ AdvanceProgramCounterToNextInstruction
    \/ SendStop
    \/ ReceiveClose
    \/ WasMemoryFaultEncountered
    \/ SkipHardcodedBreakpoint

Command ==
    \/ SetHardwareBreakpoint
    \/ ClearHardwareBreakpoint
    \/ SetHardwareWatchpoint
    \/ ClearHardwareWatchpoint
    \/ MemReadOrWrite
    \/ CopyContextFromBuffer
    \/ ContinueCommand
    \/ SingleStepCommand

Gdb == GdbConnects \/ GdbSends \/ GdbHangsUp

Next == Run \/ Monitor \/ Command \/ Gdb

\* The one thread always goes on by itself; GDB owes nothing.
Fairness == WF_vars(Run) /\ WF_vars(Monitor)

Safety == Init /\ [][Next]_vars
Spec   == Safety /\ Fairness

-----------------------------------------------------------------------------
(* Properties.                                                             *)

\* Every variable has its type; encounters exceed GDB's bound by at most one
\* access of the program, and a memory fault is counted at most once.
TypeOK ==
    /\ at \in Locations /\ returnTo \in {"loopTop", "stopping"}
    /\ pc \in Nat /\ thumb \in BOOLEAN /\ pcOrig \in Nat
    /\ runResult \in RunResults
    /\ singleStepping \in 0 .. 2
    /\ memoryFault \in 0 .. 1
    /\ breakOnStart \in BOOLEAN
    /\ link \in {"none", "open", "closing"} /\ pending \in BOOLEAN
    /\ encountered \in Nat
    /\ \A a \in DOMAIN cells : cells[a] \in Half
    /\ resumedBy \in {"start", "continue", "step"} /\ ran \in 0 .. MaxRan

\* The half-word at the program counter, or a word for its absence.
Current == IF pc \in DOMAIN cells THEN cells[pc] ELSE "unmapped"

\* A breakpoint covers a half-word of the instruction at pc.
UnderBreakpoint ==
    \/ Memory!BreakpointAt(pc)
    \/ Current = "wide" /\ Memory!BreakpointAt(pc + 2)

\* A breakpoint stops any half-word read, so also what a load reads.
BreakpointTripped ==
    \/ UnderBreakpoint
    \/ /\ Current = "load"
       /\ \E access \in DataAccesses : access[2] = 2 /\ Memory!BreakpointAt(access[1])

\* Whenever the debugger is entered, what stopped the program is still so:
\* a breakpoint instruction or a breakpoint on it, bytes from GDB, an access
\* that no bank takes.  An exit gets here only with a breakpoint on it.
StopsHaveACause ==
    at = "exception" =>
        /\ runResult = "bkpt" =>
              \/ resumedBy = "start" /\ ran = 0
              \/ Current \in {"bkpt", "semihost"}
              \/ BreakpointTripped
        /\ runResult = "interrupt" => GdbConnected /\ HasReceiveData
        /\ runResult = "hardFault" =>
              \/ ~thumb
              \/ ~Memory!InABank(pc, 2)
              \/ Current = "wide" /\ ~Memory!InABank(pc + 2, 2)
              \/ Current = "load" /\ \E a \in DataAccesses : ~Memory!InABank(a[1], a[2])
              \/ Current = "store" /\ \E a \in DataAccesses : ~Memory!Writable(a[1], a[2])
        /\ runResult = "singleStep" => resumedBy = "step"

\* A single step executes one instruction at most, and a stop that reports the
\* end of a step follows exactly one, whatever the loop met on the way.
StepsAreSingle ==
    resumedBy = "step" =>
        /\ ran <= 1
        /\ at = "exception" /\ runResult = "singleStep" => ran = 1

InstructionCompletes == at \in {"fetch", "fetchTail", "load", "store"} /\ at' = "callback"

\* No instruction completes while a breakpoint covers one of its half-words,
\* in whatever order breakpoints of both sizes were set and cleared.
BreakpointsHold == [][InstructionCompletes => ~UnderBreakpoint]_vars

\* An instruction that trips a watchpoint is the last one before the program
\* stops: none is fetched while an encounter waits, stepping or not.
EncountersStopTheProgram == at = "fetch" => encountered = 0

\* The count of encounters, cleared by being read, is never read without the
\* stop it calls for, however GDB's bytes and single steps compete with it.
NoEncounterIsLost ==
    [][encountered > 0 /\ encountered' = 0 => at' = "exception" /\ runResult' = "watchpoint"]_vars

Running == at \notin {"stopping", "stopped", "answering", "exited"}

\* A program that never stops by itself is stopped by what GDB sends, or by
\* GDB going away.
InterruptsStop ==
    Running /\ (link = "closing" \/ (link = "open" /\ pending)) ~> ~Running

\* A single step comes back to GDB.
StepsComeBack == Running /\ resumedBy = "step" ~> ~Running

\* The tests of undefined instructions say that the run stops at them.
UndefinedStopsAtTheInstruction ==
    at = "exception" /\ runResult = "undefined" => Current \in {"undefined", "unassigned", "wide"}

\* The tests of data watchpoints say that the program runs until the address
\* is accessed and halts on the next instruction.
WatchpointStopsFollowAnAccess == at = "exception" /\ runResult = "watchpoint" => ran > 0
=============================================================================
