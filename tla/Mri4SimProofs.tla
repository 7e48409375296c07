---------------------------- MODULE Mri4SimProofs ----------------------------
(***************************************************************************)
(* The control invariants of Mri4Sim for programs, banks and sets of       *)
(* breakpoints and watchpoints of any size.                                *)
(*                                                                         *)
(* Each invariant is proved on its own: what memory calls keep (MemoryInv),*)
(* the countdown of a single step against the instructions it has run      *)
(* (StepInv), and what a fetched instruction is known to be (FetchInv).    *)
(***************************************************************************)
EXTENDS Mri4Sim, FiniteSetTheorems, TLAPS

MemoryInv == encountered \in Nat /\ IsFiniteSet(entries)

\* While a step is counted down, its place in the loop tells how many
\* instructions it has run.
StepInv ==
    /\ at = "checkExit" => runResult = "bkpt"
    /\ resumedBy = "step" =>
         /\ ran <= 1
         /\ at = "skip" => ran = 0
         /\ at = "loopTop" => singleStepping = 2 /\ ran = 0
         /\ at = "callback" => \/ singleStepping = 2 /\ ran = 0
                               \/ singleStepping = 1 /\ ran = 1
         /\ at \in {"fetch", "fetchTail", "load", "store"} => singleStepping = 1 /\ ran = 0
         /\ at \in {"checkExit", "exception"} => singleStepping > 0
         /\ at \in {"semihost", "advance"} => returnTo = "stopping"
         /\ at = "exception" /\ runResult = "singleStep" => ran = 1

\* An instruction past its first fetch was read without tripping a breakpoint,
\* and only the first half of a 32-bit one leads to a second fetch.
FetchInv ==
    /\ at \in {"fetchTail", "load", "store"} => ~Memory!BreakpointAt(pc)
    /\ at \in {"load", "store"} => Current # "wide"

-----------------------------------------------------------------------------
(* Memory calls.                                                           *)

\* The entries that cover an access are finitely many.
LEMMA FiniteWatchers ==
    ASSUME MemoryInv, NEW types, NEW address, NEW n
    PROVE  Cardinality(Memory!Covering(types, address, n)) \in Nat
<1>1. Memory!Covering(types, address, n) \subseteq entries
  BY DEF Memory!Covering
<1>2. IsFiniteSet(Memory!Covering(types, address, n))
  BY <1>1, FS_Subset DEF MemoryInv
<1>3. QED
  BY <1>2, FS_CardinalityType

\* The instance counts sets like this module does.
LEMMA SameCardinality == \A set : Memory!Cardinality(set) = Cardinality(set)
  BY DEF Memory!Cardinality, Cardinality

\* A checked read changes the count of encounters only, and never lowers it.
LEMMA ReadEffect ==
    ASSUME MemoryInv, NEW address, NEW size, ReadMemory(address, size)
    PROVE  /\ encountered' \in Nat /\ encountered' >= encountered
           /\ UNCHANGED <<banks, cells, entries>>
<1>1. PICK n \in Nat : n = Cardinality(Memory!ReadWatchers(call'.address, call'.size))
  BY FiniteWatchers DEF Memory!ReadWatchers
<1>2. UNCHANGED <<banks, cells, entries>> /\ encountered \in Nat
      /\ \/ encountered' = encountered
         \/ encountered' \in encountered .. (encountered + n)
         \/ encountered' = encountered + n
  BY <1>1, SameCardinality DEF ReadMemory, Memory!Read, Memory!BusError, MemoryInv
<1>3. QED
  BY <1>2

\* So does a checked write, whose data it stores.
LEMMA WriteEffect ==
    ASSUME MemoryInv, NEW address, NEW size, WriteMemory(address, size)
    PROVE  /\ encountered' \in Nat /\ encountered' >= encountered
           /\ UNCHANGED <<banks, entries>>
<1>1. PICK n \in Nat : n = Cardinality(Memory!WriteWatchers(call'.address, call'.size))
  BY FiniteWatchers DEF Memory!WriteWatchers
<1>2. UNCHANGED <<banks, entries>> /\ encountered \in Nat
      /\ \/ encountered' = encountered
         \/ encountered' = encountered + n
  BY <1>1, SameCardinality DEF WriteMemory, Memory!Write, Memory!BusError, MemoryInv
<1>3. QED
  BY <1>2

\* Setting and clearing change one entry at most.
LEMMA RequestEffect ==
    ASSUME MemoryInv, NEW op, NEW address, NEW size, NEW type, Request(op, address, size, type)
    PROVE  /\ IsFiniteSet(entries') /\ encountered' = encountered
           /\ at = "stopped" /\ UNCHANGED <<thread, remote, history>>
<1>1. PICK entry : entries' \in {entries, entries \cup {entry}, entries \ {entry}}
  BY DEF Request, Memory!Watch, Memory!OutOfMemory
<1>2. IsFiniteSet(entries \cup {entry}) /\ IsFiniteSet(entries \ {entry})
  BY FS_AddElement, FS_RemoveElement DEF MemoryInv
<1>3. QED
  BY <1>1, <1>2 DEF Request, Memory!Watch, Memory!OutOfMemory, Commanded, KeepsThread, MemoryInv,
     thread, remote, history

\* What every step does to the count and to the entries: the count is lowered
\* by the callback alone.
LEMMA StepEffect ==
    ASSUME MemoryInv, [Next]_vars
    PROVE  /\ MemoryInv'
           /\ \/ encountered' >= encountered
              \/ /\ encountered' = 0 /\ ShouldInterruptRun
                 /\ Memory!WasEncountered
<1> USE DEF MemoryInv
<1>1. CASE UNCHANGED vars \/ Gdb
  BY <1>1 DEF vars, memory, Gdb, GdbConnects, GdbSends, GdbHangsUp
<1>2. CASE LoopTop \/ ContinueCommand \/ SingleStepCommand \/ CopyContextFromBuffer
           \/ SendStop \/ ReceiveClose \/ WasMemoryFaultEncountered
  BY <1>2 DEF LoopTop, ContinueCommand, SingleStepCommand, Resume, CopyContextFromBuffer, SendStop,
     ReceiveClose, WasMemoryFaultEncountered, memory
<1>3. CASE ShouldInterruptRun
  BY <1>3 DEF ShouldInterruptRun, Memory!WasEncountered, memory
<1>4. CASE PinkySimStep
  BY <1>4, ReadEffect DEF PinkySimStep, ReadHalfWord, memory
<1>5. CASE ExecuteInstruction32
  BY <1>5, ReadEffect DEF ExecuteInstruction32
<1>6. CASE TransferData
  BY <1>6, ReadEffect, WriteEffect DEF TransferData
<1>7. CASE IsExitSemihost
  BY <1>7, ReadEffect DEF IsExitSemihost, ReadHalfWord
<1>8. CASE EnteringDebugger
  BY <1>8, ReadEffect DEF EnteringDebugger, ReadHalfWord, memory
<1>9. CASE HandleSemihostRequest \/ AdvanceProgramCounterToNextInstruction
  BY <1>9, ReadEffect DEF HandleSemihostRequest, AdvanceProgramCounterToNextInstruction, ReadHalfWord
<1>10. CASE SkipHardcodedBreakpoint
  BY <1>10, ReadEffect DEF SkipHardcodedBreakpoint, ReadHalfWord, memory
<1>11. CASE MemReadOrWrite
  BY <1>11, ReadEffect, WriteEffect DEF MemReadOrWrite
<1>12. CASE \/ SetHardwareBreakpoint \/ ClearHardwareBreakpoint
            \/ SetHardwareWatchpoint \/ ClearHardwareWatchpoint
  BY <1>12, RequestEffect DEF SetHardwareBreakpoint, ClearHardwareBreakpoint,
     RefuseBreakpoint, vars, memory, SetHardwareWatchpoint,
     ClearHardwareWatchpoint
<1>13. QED
  BY <1>1, <1>2, <1>3, <1>4, <1>5, <1>6, <1>7, <1>8, <1>9, <1>10, <1>11, <1>12
     DEF Next, Run, Monitor, Command

\* The entries stay finite and the count a natural number.
LEMMA MemoryInvariant == Spec => []MemoryInv
<1>1. Init => MemoryInv
  BY FS_EmptySet DEF Init, MemoryInv
<1>2. MemoryInv /\ [Next]_vars => MemoryInv'
  BY StepEffect
<1>3. QED
  BY <1>1, <1>2, PTL DEF Spec, Safety

-----------------------------------------------------------------------------
(* Types.                                                                  *)

\* The program's image is made of half-words it knows, and stores keep to them.
CellsInv == \A a \in DOMAIN cells : cells[a] \in Half

TypeInv == TypeOK /\ (memoryFault > 0 => at = "answering")

\* An instruction is two or four bytes long.
LEMMA SizeIsNat == \A half : SizeOf(half) \in Nat
  BY DEF SizeOf

\* The loaded image consists of known half-words.
LEMMA InitialCells == Init => CellsInv
<1> SUFFICES ASSUME Init, NEW a \in DOMAIN cells PROVE cells[a] \in Half
  BY DEF CellsInv
<1>1. PICK program \in Programs : cells = ProgramCells(program)
  BY DEF Init
<1>2. CASE a \in 0 .. (CodeSize - 1) /\ a % 2 = 0
  <2>1. (a \div 2 + 1) \in 1 .. (CodeSize \div 2)
    BY <1>2, ProgramsAssumption
  <2>2. program[a \div 2 + 1] \in Half
    BY <2>1, ProgramsAssumption
  <2>3. QED
    BY <1>1, <1>2, <2>2 DEF ProgramCells
<1>3. CASE ~(a \in 0 .. (CodeSize - 1) /\ a % 2 = 0)
  BY <1>1, <1>3 DEF ProgramCells, Half
<1>4. QED
  BY <1>2, <1>3

\* A write stores data, so cells stay known half-words.
LEMMA WritesKeepCells ==
    ASSUME CellsInv, NEW address, NEW size, WriteMemory(address, size)
    PROVE  CellsInv'
<1>1. CASE UNCHANGED cells
  BY <1>1 DEF CellsInv
<1>2. CASE Memory!Store(call'.address, call'.with)
  <2> DEFINE bytes == call'.with
  <2>1. bytes = [k \in 1 .. size |-> "data"]
    BY DEF WriteMemory, DataCall
  <2>2. \A k \in DOMAIN bytes : bytes[k] \in Half
    BY <2>1 DEF Half
  <2> HIDE DEF bytes
  <2>3. cells' = [a \in DOMAIN cells |-> IF a - call'.address + 1 \in DOMAIN bytes
                                         THEN bytes[a - call'.address + 1] ELSE cells[a]]
    BY <1>2 DEF Memory!Store, bytes
  <2>4. QED
    BY <2>2, <2>3 DEF CellsInv
<1>3. QED
  BY <1>1, <1>2 DEF WriteMemory, Memory!Write, Memory!BusError

\* Every variable keeps its type.
LEMMA TypeStep ==
    ASSUME TypeInv, MemoryInv, [Next]_vars
    PROVE  TypeInv'
<1> USE DEF TypeInv, TypeOK
<1>0. pc \in Nat /\ ran \in 0 .. MaxRan /\ resumedBy \in {"start", "continue", "step"}
  OBVIOUS
<1>1. encountered' \in Nat
  BY StepEffect DEF MemoryInv
<1>2. CellsInv'
  <2>1. CASE UNCHANGED cells
    BY <2>1 DEF CellsInv
  <2>2. CASE \E address, size : WriteMemory(address, size)
    BY <2>2, WritesKeepCells DEF CellsInv
  <2>3. UNCHANGED cells \/ \E address, size : WriteMemory(address, size)
    <3>1. CASE UNCHANGED vars \/ Gdb
      BY <3>1 DEF vars, memory, Gdb, GdbConnects, GdbSends, GdbHangsUp
    <3>2. CASE Run
      BY <3>2, ReadEffect DEF Run, LoopTop, ShouldInterruptRun, Memory!WasEncountered, PinkySimStep,
         ExecuteInstruction32, TransferData, IsExitSemihost, ReadHalfWord, memory
    <3>3. CASE Monitor
      BY <3>3, ReadEffect DEF Monitor, EnteringDebugger, HandleSemihostRequest,
         AdvanceProgramCounterToNextInstruction, SendStop, ReceiveClose, WasMemoryFaultEncountered,
         SkipHardcodedBreakpoint, ReadHalfWord, memory
    <3>4. CASE Command
      BY <3>4, ReadEffect DEF Command, SetHardwareBreakpoint, ClearHardwareBreakpoint,
         RefuseBreakpoint, vars, memory,
         SetHardwareWatchpoint, ClearHardwareWatchpoint, Request, Memory!Watch, Memory!OutOfMemory,
         MemReadOrWrite, CopyContextFromBuffer, ContinueCommand, SingleStepCommand, Resume, memory
    <3>5. QED
      BY <3>1, <3>2, <3>3, <3>4 DEF Next
  <2>4. QED
    BY <2>1, <2>2, <2>3
<1>3. CASE UNCHANGED vars \/ Gdb
  BY <1>1, <1>2, <1>3 DEF vars, memory, thread, remote, history, Gdb, GdbConnects, GdbSends,
     GdbHangsUp, CellsInv
<1>4. CASE LoopTop \/ ShouldInterruptRun \/ IsExitSemihost
  <2>1. breakOnStart' \in BOOLEAN /\ pending' \in BOOLEAN /\ thumb' \in BOOLEAN
    BY <1>4 DEF LoopTop, ShouldInterruptRun, IsExitSemihost, remote
  <2>2. /\ at' \in Locations /\ at # "answering" /\ runResult' \in RunResults
        /\ singleStepping' \in 0 .. 2
    BY <1>4 DEF LoopTop, ShouldInterruptRun, IsExitSemihost, RunEnds, StepCounted, Locations,
       RunResults, Traps
  <2>3. UNCHANGED <<returnTo, pc, pcOrig, memoryFault, link, resumedBy, ran>>
    BY <1>4 DEF LoopTop, ShouldInterruptRun, IsExitSemihost, remote, history
  <2>4. QED
    BY <1>1, <1>2, <2>1, <2>2, <2>3 DEF CellsInv
<1>5. CASE PinkySimStep \/ ExecuteInstruction32 \/ TransferData
  <2> USE CountersAssumption, BoundsAssumption DEF RunEnds, Completes, Throws, Returns, GoesOn,
          KeepsDebugState, remote, Transfers, Refused, Returned, Breaks, Branches, ReturnedResult,
          RunResults, Traps, Locations
  <2>1. ran' \in 0 .. MaxRan /\ pc' \in Nat /\ thumb' \in BOOLEAN
    BY <1>5 DEF PinkySimStep, ExecuteInstruction32, TransferData, Faults, Decode, DecodeTail
  <2>2. at' \in Locations /\ runResult' \in RunResults
    BY <1>5 DEF PinkySimStep, ExecuteInstruction32, TransferData, Faults, Decode, DecodeTail
  <2>3. at # "answering"
    BY <1>5 DEF PinkySimStep, ExecuteInstruction32, TransferData
  <2>4. UNCHANGED <<returnTo, pcOrig, singleStepping, memoryFault, breakOnStart, link, pending,
                    resumedBy>>
    BY <1>5 DEF PinkySimStep, ExecuteInstruction32, TransferData
  <2>5. QED
    BY <1>1, <1>2, <2>1, <2>2, <2>3, <2>4 DEF CellsInv
<1>6. CASE Monitor
  <2> USE DEF Monitor, EnteringDebugger, HandleSemihostRequest, SkipHardcodedBreakpoint, Resumes,
          AdvanceProgramCounterToNextInstruction, SendStop, ReceiveClose, WasMemoryFaultEncountered,
          KeepsThread
  <2>1. breakOnStart' \in BOOLEAN /\ pending' \in BOOLEAN /\ thumb' \in BOOLEAN
    BY <1>6 DEF thread, remote
  <2>2. at' \in Locations /\ returnTo' \in {"loopTop", "stopping"}
    BY <1>6 DEF thread, Locations
  <2>3. pc' \in Nat /\ pcOrig' \in Nat /\ singleStepping' \in 0 .. 2
    BY <1>6, SizeIsNat DEF thread
  <2>4. memoryFault' \in 0 .. 1 /\ (memoryFault' > 0 => at' = "answering")
    BY <1>6 DEF thread
  <2>5. /\ link' \in {"none", "open", "closing"} /\ UNCHANGED <<runResult, resumedBy, ran>>
    BY <1>6 DEF thread, remote, history
  <2>6. QED
    BY <1>1, <1>2, <2>1, <2>2, <2>3, <2>4, <2>5 DEF CellsInv
<1>7. CASE Command
  <2>1. CASE MemReadOrWrite
    BY <1>1, <1>2, <2>1 DEF MemReadOrWrite, Commanded, KeepsThread, remote, history, CellsInv, Locations
  <2>2. CASE CopyContextFromBuffer \/ ContinueCommand \/ SingleStepCommand
    <3> USE DEF CopyContextFromBuffer, ContinueCommand, SingleStepCommand, Resume
    <3>1. breakOnStart' \in BOOLEAN /\ pending' \in BOOLEAN /\ thumb' \in BOOLEAN
      BY <2>2 DEF remote
    <3>2. at' \in Locations /\ at = "stopped"
      BY <2>2 DEF Commanded, Locations
    <3>3. pc' \in Nat
      BY <2>2, <1>0, CountersAssumption
    <3>4. resumedBy' \in {"start", "continue", "step"} /\ ran' \in 0 .. MaxRan
      BY <2>2, <1>0, BoundsAssumption DEF history
    <3>5. UNCHANGED <<returnTo, runResult, pcOrig, singleStepping, memoryFault, link>>
      BY <2>2 DEF remote
    <3> HIDE DEF CopyContextFromBuffer, ContinueCommand, SingleStepCommand, Resume
    <3>6. QED
      BY <1>1, <1>2, <3>1, <3>2, <3>3, <3>4, <3>5 DEF CellsInv
  <2>3. CASE \/ SetHardwareBreakpoint \/ ClearHardwareBreakpoint
             \/ SetHardwareWatchpoint \/ ClearHardwareWatchpoint
    BY <1>1, <1>2, <2>3, RequestEffect DEF SetHardwareBreakpoint, ClearHardwareBreakpoint,
       RefuseBreakpoint, vars, memory,
       SetHardwareWatchpoint, ClearHardwareWatchpoint, thread, remote, history, CellsInv
  <2>4. QED
    BY <1>7, <2>1, <2>2, <2>3 DEF Command
<1>8. QED
  BY <1>3, <1>4, <1>5, <1>6, <1>7 DEF Next, Run

\* Type correctness of the debugger glue.
THEOREM TypeCorrect == Spec => []TypeOK
<1>1. ASSUME Init PROVE TypeInv
  <2>1. breakOnStart \in BOOLEAN /\ pending \in BOOLEAN /\ thumb \in BOOLEAN
    BY <1>1 DEF Init
  <2>2. QED
    BY <1>1, <2>1, InitialCells, BoundsAssumption
       DEF Init, TypeInv, TypeOK, CellsInv, Locations, RunResults, Traps
<1>2. TypeInv /\ MemoryInv /\ [Next]_vars => TypeInv'
  BY TypeStep
<1>3. TypeInv => TypeOK
  BY DEF TypeInv
<1>4. QED
  BY <1>1, <1>2, <1>3, MemoryInvariant, PTL DEF Spec, Safety

-----------------------------------------------------------------------------
(* Encounters.                                                             *)

\* The count of encounters is never read without the stop it calls for: the
\* callback reports a watchpoint whenever it finds one.
THEOREM EncountersAreKept == Spec => NoEncounterIsLost
<1> DEFINE Reported == encountered > 0 /\ encountered' = 0
                          => at' = "exception" /\ runResult' = "watchpoint"
<1>1. ASSUME MemoryInv, [Next]_vars PROVE [Reported]_vars
  <2>1. CASE encountered' >= encountered
    BY <1>1, <2>1 DEF MemoryInv
  <2>2. CASE ShouldInterruptRun /\ Memory!WasEncountered
    <3>1. reply'.value[1] = encountered
      BY <2>2 DEF Memory!WasEncountered, Memory!Answer
    <3>2. QED
      BY <2>2, <3>1, <1>1 DEF ShouldInterruptRun, RunEnds, MemoryInv, memory
  <2>3. QED
    BY <1>1, <2>1, <2>2, StepEffect
<1>2. QED
  BY <1>1, MemoryInvariant, PTL DEF Spec, Safety, NoEncounterIsLost

\* No instruction is fetched while an encounter waits.
THEOREM FetchesAfterEncounters == Spec => []EncountersStopTheProgram
<1>1. Init => EncountersStopTheProgram
  BY DEF Init, EncountersStopTheProgram
<1>2. ASSUME EncountersStopTheProgram, MemoryInv, TypeOK, [Next]_vars
      PROVE  EncountersStopTheProgram'
  <2>1. CASE UNCHANGED vars \/ Gdb
    BY <1>2, <2>1 DEF vars, memory, thread, Gdb, GdbConnects, GdbSends, GdbHangsUp,
       EncountersStopTheProgram
  <2>2. CASE ShouldInterruptRun
    BY <2>2, <1>2 DEF ShouldInterruptRun, RunEnds, Memory!WasEncountered, Memory!Answer, MemoryInv,
       EncountersStopTheProgram
  <2>3. CASE LoopTop \/ PinkySimStep \/ ExecuteInstruction32 \/ TransferData \/ IsExitSemihost
    <3>1. at' # "fetch"
      BY <2>3 DEF LoopTop, PinkySimStep, ExecuteInstruction32, TransferData, IsExitSemihost,
         Decode, DecodeTail, Faults, Completes, Throws, Returns, GoesOn, RunEnds, Transfers
    <3>2. QED
      BY <3>1 DEF EncountersStopTheProgram
  <2>4. CASE Monitor
    <3>1. at' # "fetch"
      BY <2>4, <1>2 DEF TypeOK, Monitor, EnteringDebugger, HandleSemihostRequest,
         AdvanceProgramCounterToNextInstruction, SendStop, ReceiveClose,
         WasMemoryFaultEncountered, SkipHardcodedBreakpoint, Resumes, thread
    <3>2. QED
      BY <3>1 DEF EncountersStopTheProgram
  <2>5. CASE Command
    <3>1. at' # "fetch"
      BY <2>5, RequestEffect, <1>2 DEF Command, SetHardwareBreakpoint, ClearHardwareBreakpoint,
         RefuseBreakpoint, vars, memory,
         SetHardwareWatchpoint, ClearHardwareWatchpoint, MemReadOrWrite, CopyContextFromBuffer,
         ContinueCommand, SingleStepCommand, Resume, Commanded, thread
    <3>2. QED
      BY <3>1 DEF EncountersStopTheProgram
  <2>6. QED
    BY <1>2, <2>1, <2>2, <2>3, <2>4, <2>5 DEF Next, Run
<1>3. QED
  BY <1>1, <1>2, MemoryInvariant, TypeCorrect, PTL DEF Spec, Safety

-----------------------------------------------------------------------------
(* Single steps.                                                           *)

\* The countdown of a single step bounds what was executed since it began.
LEMMA StepCountdown ==
    ASSUME StepInv, TypeOK, MemoryInv, [Next]_vars
    PROVE  StepInv'
<1>1. at \in Locations /\ singleStepping \in 0 .. 2 /\ ran \in 0 .. MaxRan
      /\ returnTo \in {"loopTop", "stopping"} /\ MaxRan \in Nat \ {0}
  BY BoundsAssumption DEF TypeOK
<1> USE DEF StepInv
<1>2. CASE UNCHANGED vars \/ Gdb
  BY <1>2 DEF vars, thread, history, Gdb, GdbConnects, GdbSends, GdbHangsUp
<1>3. CASE LoopTop
  BY <1>3, <1>1 DEF LoopTop, history
<1>4. CASE ShouldInterruptRun
  <2>1. resumedBy' = resumedBy /\ ran' = ran
    BY <1>4 DEF ShouldInterruptRun, history
  <2>2. \/ singleStepping = 1 /\ singleStepping' = 1 /\ runResult' = "singleStep" /\ at' = "exception"
        \/ /\ singleStepping # 1 /\ singleStepping' = StepCounted
           /\ at' \in {"fetch", "exception"}
           /\ at' = "exception" => runResult' # "singleStep"
    BY <1>4 DEF ShouldInterruptRun, RunEnds
  <2>3. at = "callback"
    BY <1>4 DEF ShouldInterruptRun
  <2>4. QED
    BY <1>1, <2>1, <2>2, <2>3 DEF StepCounted
<1>5. CASE PinkySimStep \/ ExecuteInstruction32 \/ TransferData
  <2>1. singleStepping' = singleStepping /\ resumedBy' = resumedBy
        /\ at \in {"fetch", "fetchTail", "load", "store"}
    BY <1>5 DEF PinkySimStep, ExecuteInstruction32, TransferData, KeepsDebugState, Transfers
  <2>2. \/ at' = "callback" /\ ran' = IF ran < MaxRan THEN ran + 1 ELSE ran
        \/ at' \in {"fetchTail", "load", "store"} /\ ran' = ran
        \/ at' = "checkExit" /\ runResult' = "bkpt" /\ ran' = ran
        \/ at' = "exception" /\ runResult' # "singleStep" /\ ran' = ran
    BY <1>5 DEF PinkySimStep, ExecuteInstruction32, TransferData, Faults, Decode, DecodeTail,
       Completes, Throws, Returns, GoesOn, RunEnds, ReturnedResult, Transfers, Refused, Returned
  <2>3. QED
    BY <1>1, <2>1, <2>2
<1>6. CASE IsExitSemihost
  BY <1>6, <1>1 DEF IsExitSemihost, history
<1>7. CASE Monitor
  BY <1>7, <1>1 DEF Monitor, EnteringDebugger, HandleSemihostRequest, SkipHardcodedBreakpoint,
     Resumes, AdvanceProgramCounterToNextInstruction, SendStop, ReceiveClose,
     WasMemoryFaultEncountered, KeepsThread, thread, history
<1>8. CASE Command
  <2>1. CASE MemReadOrWrite \/ CopyContextFromBuffer
    BY <2>1 DEF MemReadOrWrite, CopyContextFromBuffer, KeepsThread, Commanded, history
  <2>2. CASE ContinueCommand \/ SingleStepCommand
    BY <2>2 DEF ContinueCommand, SingleStepCommand, Resume
  <2>3. CASE \/ SetHardwareBreakpoint \/ ClearHardwareBreakpoint
             \/ SetHardwareWatchpoint \/ ClearHardwareWatchpoint
    BY <2>3, RequestEffect DEF SetHardwareBreakpoint, ClearHardwareBreakpoint,
       RefuseBreakpoint, vars, memory,
       SetHardwareWatchpoint, ClearHardwareWatchpoint, thread, history
  <2>4. QED
    BY <1>8, <2>1, <2>2, <2>3 DEF Command
<1>9. QED
  BY <1>2, <1>3, <1>4, <1>5, <1>6, <1>7, <1>8 DEF Next, Run

\* A single step executes one instruction at most, and exactly one when its end
\* is what is reported.
THEOREM SingleSteps == Spec => []StepsAreSingle
<1>1. Init => StepInv
  BY DEF Init, StepInv
<1>2. StepInv /\ TypeOK /\ MemoryInv /\ [Next]_vars => StepInv'
  BY StepCountdown
<1>3. StepInv => StepsAreSingle
  BY DEF StepInv, StepsAreSingle
<1>4. QED
  BY <1>1, <1>2, <1>3, MemoryInvariant, TypeCorrect, PTL DEF Spec, Safety

-----------------------------------------------------------------------------
(* Breakpoints.                                                            *)

\* A half-word read that answers is under no breakpoint and is what is stored.
LEMMA AnsweredFetch ==
    ASSUME NEW address \in Nat, ReadMemory(address, 2), Answered
    PROVE  /\ ~Memory!BreakpointAt(address)
           /\ HalfRead = cells[address]
<1>1. /\ ~Memory!BreakpointAt(address)
      /\ reply'.value = Memory!Stored(address, 2)
  BY DEF ReadMemory, RangeCall, Answered, Memory!Read, Memory!BusError, Memory!Failure, Memory!Answer
<1>2. Memory!Stored(address, 2)[1] = cells[address]
  BY DEF Memory!Stored
<1>3. QED
  BY <1>1, <1>2 DEF HalfRead

\* Past the first fetch, the half-word fetched is free of breakpoints and is the
\* instruction that is executed.
LEMMA FetchStep ==
    ASSUME FetchInv, TypeOK, MemoryInv, [Next]_vars
    PROVE  FetchInv' /\ (InstructionCompletes => ~UnderBreakpoint)
<1>1. pc \in Nat /\ returnTo \in {"loopTop", "stopping"}
  BY DEF TypeOK
<1>2. UNCHANGED <<pc, entries>> => (Memory!BreakpointAt(pc))' = Memory!BreakpointAt(pc)
  BY DEF Memory!BreakpointAt, Memory!Covering
<1>3. UNCHANGED <<pc, cells>> => Current' = Current
  BY DEF Current
<1>4. CASE UNCHANGED vars \/ Gdb
  <2>1. UNCHANGED <<at, pc, cells, entries>>
    BY <1>4 DEF vars, memory, thread, Gdb, GdbConnects, GdbSends, GdbHangsUp
  <2>2. QED
    BY <2>1, <1>2, <1>3 DEF FetchInv, InstructionCompletes
<1>5. CASE PinkySimStep
  <2>1. CASE ReadHalfWord /\ Answered /\ Decode(HalfRead)
    <3>1. ~Memory!BreakpointAt(pc) /\ HalfRead = cells[pc] /\ UNCHANGED <<cells, entries>>
      BY <2>1, <1>1, AnsweredFetch, ReadEffect DEF ReadHalfWord
    <3>2. /\ at' = "callback" => HalfRead # "wide"
          /\ at' \in {"load", "store"} => HalfRead # "wide"
          /\ at' \in {"fetchTail", "load", "store"} => pc' = pc
      BY <2>1 DEF Decode, Completes, GoesOn, Throws, Returns, RunEnds, Branches, Transfers
    <3>3. HalfRead # "wide" => Current # "wide"
      BY <3>1 DEF Current
    <3>4. QED
      BY <3>1, <3>2, <3>3, <1>2, <1>3 DEF FetchInv, InstructionCompletes, UnderBreakpoint
  <2>2. CASE at' \in {"checkExit", "exception"}
    BY <2>2 DEF FetchInv, InstructionCompletes
  <2>3. QED
    BY <1>5, <2>1, <2>2 DEF PinkySimStep, Faults, Throws, RunEnds
<1>6. CASE ExecuteInstruction32
  <2>1. at = "fetchTail" /\ at' \in {"callback", "checkExit", "exception"}
    BY <1>6 DEF ExecuteInstruction32, Faults, DecodeTail, Completes, Throws, Returns, RunEnds
  <2>2. at' = "callback" => ReadMemory(pc + 2, 2) /\ Answered
    BY <1>6 DEF ExecuteInstruction32, Faults, Throws, RunEnds
  <2>3. at' = "callback" => ~Memory!BreakpointAt(pc + 2)
    BY <2>2, <1>1, AnsweredFetch
  <2>4. QED
    BY <2>1, <2>3 DEF FetchInv, InstructionCompletes, UnderBreakpoint
<1>7. CASE TransferData
  <2>1. at \in {"load", "store"} /\ at' \in {"callback", "checkExit", "exception"}
    BY <1>7 DEF TransferData, Transfers, Faults, Completes, Throws, RunEnds
  <2>2. QED
    BY <2>1 DEF FetchInv, InstructionCompletes, UnderBreakpoint
<1>8. CASE LoopTop \/ ShouldInterruptRun \/ IsExitSemihost \/ Monitor
  <2>1. /\ at \notin {"fetch", "fetchTail", "load", "store"}
        /\ at' \notin {"fetchTail", "load", "store"}
    BY <1>8, <1>1 DEF LoopTop, ShouldInterruptRun, RunEnds, IsExitSemihost, Monitor,
       EnteringDebugger, HandleSemihostRequest, SkipHardcodedBreakpoint, Resumes,
       AdvanceProgramCounterToNextInstruction, SendStop, ReceiveClose, WasMemoryFaultEncountered,
       thread
  <2>2. QED
    BY <2>1 DEF FetchInv, InstructionCompletes
<1>9. CASE Command
  <2>1. at = "stopped" /\ at' \in {"stopped", "answering", "skip"}
    BY <1>9, RequestEffect DEF Command, SetHardwareBreakpoint, ClearHardwareBreakpoint,
       RefuseBreakpoint, vars, memory,
       SetHardwareWatchpoint, ClearHardwareWatchpoint, MemReadOrWrite, CopyContextFromBuffer,
       ContinueCommand, SingleStepCommand, Resume, Commanded, thread
  <2>2. QED
    BY <2>1 DEF FetchInv, InstructionCompletes
<1>10. QED
  BY <1>4, <1>5, <1>6, <1>7, <1>8, <1>9 DEF Next, Run

\* No instruction completes with a breakpoint on one of its half-words.
THEOREM BreakpointsStop == Spec => BreakpointsHold
<1>1. Init => FetchInv
  BY DEF Init, FetchInv
<1>2. FetchInv /\ TypeOK /\ MemoryInv /\ [Next]_vars
        => FetchInv' /\ [InstructionCompletes => ~UnderBreakpoint]_vars
  BY FetchStep
<1>3. QED
  BY <1>1, <1>2, MemoryInvariant, TypeCorrect, PTL DEF Spec, Safety, BreakpointsHold

-----------------------------------------------------------------------------
(* Causes of stops.                                                        *)

\* A half-word that lies in a bank has cells.
BankInv == \A a \in Nat : Memory!InABank(a, 2) => a \in DOMAIN cells

\* The debugger is entered on start before anything ran, a count of steps left
\* is GDB's, and nothing is left of it once the debugger has been entered.
CountInv ==
    /\ breakOnStart => at = "loopTop" /\ resumedBy = "start" /\ ran = 0
    /\ singleStepping > 0 => resumedBy = "step"
    /\ at \in {"semihost", "advance", "stopping", "stopped", "answering", "skip"} => singleStepping = 0

\* What makes a breakpoint of an instruction, before the request to exit is
\* told apart.
BreakCause ==
    \/ Current \in {"bkpt", "semihost"}
    \/ Current = "exit" /\ Memory!InABank(pc, 2)
    \/ BreakpointTripped

\* What makes a hard fault of an instruction.
FaultCause ==
    \/ ~thumb
    \/ ~Memory!InABank(pc, 2)
    \/ Current = "wide" /\ ~Memory!InABank(pc + 2, 2)
    \/ Current = "load" /\ \E a \in DataAccesses : ~Memory!InABank(a[1], a[2])
    \/ Current = "store" /\ \E a \in DataAccesses : ~Memory!Writable(a[1], a[2])

\* Past its first fetch the instruction is still the one that was fetched, and
\* a breakpoint on its way to the debugger still has its cause.
PlaceInv ==
    /\ at = "fetchTail" => Current = "wide"
    /\ at \in Transfers => Current = at
    /\ at = "checkExit" => runResult = "bkpt" /\ BreakCause

CauseInv == CountInv /\ PlaceInv /\ StopsHaveACause

\* A checked write keeps the addresses that have cells, and changes nothing
\* when it faults, which it does outside the writable banks.
LEMMA WriteKeepsCells ==
    ASSUME NEW address, NEW size \in Nat, WriteMemory(address, size)
    PROVE  /\ UNCHANGED <<banks, entries>> /\ DOMAIN cells' = DOMAIN cells
           /\ reply'.exception \in {"none", "busError"}
           /\ ~Answered => UNCHANGED cells /\ ~Memory!Writable(address, size)
<1>1. call'.address = address /\ call'.size = size
  BY DEF WriteMemory, DataCall
<1>2. CASE ~Memory!Writable(address, size) /\ Memory!BusError
  BY <1>2 DEF WriteMemory, Memory!Write, Memory!BusError, Memory!Failure
<1>3. CASE Memory!Store(address, call'.with) /\ reply' = Memory!Answer(<< >>)
  BY <1>3 DEF WriteMemory, Memory!Write, Memory!Store, Memory!Answer, Answered
<1>4. QED
  BY <1>1, <1>2, <1>3 DEF WriteMemory, Memory!Write

\* A checked read faults outside the banks, or as a half-word under a breakpoint.
LEMMA ReadFaults ==
    ASSUME NEW address, NEW size, ReadMemory(address, size)
    PROVE  \/ /\ reply'.exception = "busError"
              /\ ~Memory!InABank(address, size)
           \/ /\ reply'.exception = "hardwareBreakpoint"
              /\ Memory!InABank(address, size) /\ size = 2 /\ Memory!BreakpointAt(address)
           \/ Answered /\ Memory!InABank(address, size)
  BY DEF ReadMemory, RangeCall, Memory!Read, Memory!BusError, Memory!Failure, Memory!Answer, Answered

\* The banks and the addresses that have cells never change, and cells change
\* by stores alone.
LEMMA BanksStep ==
    ASSUME MemoryInv, [Next]_vars
    PROVE  /\ UNCHANGED banks /\ DOMAIN cells' = DOMAIN cells
           /\ UNCHANGED cells \/ TransferData \/ MemReadOrWrite
<1>1. CASE UNCHANGED vars \/ Gdb
  BY <1>1 DEF vars, memory, Gdb, GdbConnects, GdbSends, GdbHangsUp
<1>2. CASE LoopTop \/ ShouldInterruptRun \/ PinkySimStep \/ ExecuteInstruction32 \/ IsExitSemihost
  BY <1>2, ReadEffect DEF LoopTop, ShouldInterruptRun, Memory!WasEncountered, PinkySimStep,
     ExecuteInstruction32, IsExitSemihost, ReadHalfWord, memory
<1>3. CASE Monitor
  BY <1>3, ReadEffect DEF Monitor, EnteringDebugger, HandleSemihostRequest,
     AdvanceProgramCounterToNextInstruction, SendStop, ReceiveClose, WasMemoryFaultEncountered,
     SkipHardcodedBreakpoint, ReadHalfWord, memory
<1>4. ASSUME NEW address, NEW size,
             ReadMemory(address, size) \/ WriteMemory(address, size)
      PROVE  UNCHANGED banks /\ DOMAIN cells' = DOMAIN cells
  BY <1>4, ReadEffect DEF WriteMemory, Memory!Write, Memory!BusError, Memory!Store
<1>5. CASE TransferData
  BY <1>4, <1>5 DEF TransferData
<1>6. CASE Command
  BY <1>4, <1>6 DEF Command, SetHardwareBreakpoint, ClearHardwareBreakpoint,
     RefuseBreakpoint, vars, memory,
     SetHardwareWatchpoint, ClearHardwareWatchpoint, Request, Memory!Watch, Memory!OutOfMemory,
     MemReadOrWrite, CopyContextFromBuffer, ContinueCommand, SingleStepCommand, Resume, memory
<1>7. QED
  BY <1>1, <1>2, <1>3, <1>5, <1>6 DEF Next, Run

\* Half-words in the two banks have cells, at the start and for good.
LEMMA BankInvariant == Spec => []BankInv
<1>1. ASSUME Init PROVE BankInv
  <2>1. SUFFICES ASSUME NEW a \in Nat, Memory!InABank(a, 2) PROVE a \in DOMAIN cells
    BY DEF BankInv
  <2>2. DOMAIN cells = 0 .. (CodeSize - 1) \cup DataBase .. (DataBase + DataSize - 1)
    BY <1>1 DEF Init, ProgramCells
  <2>3. PICK bank \in banks : bank.base <= a /\ a + 2 <= bank.base + bank.size
    BY <2>1 DEF Memory!InABank, Memory!Within
  <2>4. CASE bank = [base |-> 0, size |-> CodeSize, readOnly |-> TRUE]
    BY <2>2, <2>3, <2>4, ProgramsAssumption
  <2>5. CASE bank = [base |-> DataBase, size |-> DataSize, readOnly |-> FALSE]
    BY <2>2, <2>3, <2>5, DataAssumption
  <2>6. QED
    BY <1>1, <2>4, <2>5 DEF Init
<1>2. ASSUME BankInv, MemoryInv, [Next]_vars PROVE BankInv'
  BY <1>2, BanksStep DEF BankInv, Memory!InABank
<1>3. QED
  BY <1>1, <1>2, MemoryInvariant, PTL DEF Spec, Safety

\* The count of steps left is GDB's until the debugger is entered again.
LEMMA CountStep ==
    ASSUME CountInv, TypeOK, MemoryInv, [Next]_vars
    PROVE  CountInv'
<1>1. singleStepping \in 0 .. 2 /\ at \in Locations /\ returnTo \in {"loopTop", "stopping"}
      /\ breakOnStart \in BOOLEAN
  BY DEF TypeOK
<1> USE DEF CountInv
<1>2. CASE UNCHANGED vars \/ Gdb
  BY <1>2 DEF vars, thread, history, Gdb, GdbConnects, GdbSends, GdbHangsUp
<1>3. CASE LoopTop
  BY <1>3, <1>1 DEF LoopTop, history
<1>4. CASE ShouldInterruptRun \/ IsExitSemihost
  <2>1. /\ UNCHANGED <<breakOnStart, resumedBy, ran>>
        /\ at \in {"callback", "checkExit"} /\ at' \in {"fetch", "exception", "exited"}
        /\ singleStepping' \in {singleStepping, StepCounted}
    BY <1>4 DEF ShouldInterruptRun, IsExitSemihost, RunEnds, history
  <2>2. QED
    BY <2>1, <1>1 DEF StepCounted
<1>5. CASE PinkySimStep \/ ExecuteInstruction32 \/ TransferData
  <2>1. /\ UNCHANGED <<breakOnStart, singleStepping, resumedBy>>
        /\ at \in {"fetch", "fetchTail", "load", "store"}
    BY <1>5 DEF PinkySimStep, ExecuteInstruction32, TransferData, KeepsDebugState, Transfers
  <2>2. at' \in {"callback", "fetchTail", "load", "store", "checkExit", "exception"}
    BY <1>5 DEF PinkySimStep, ExecuteInstruction32, TransferData, Faults, Decode, DecodeTail,
       Completes, Throws, Returns, GoesOn, RunEnds, Transfers
  <2>3. QED
    BY <2>1, <2>2, <1>1
<1>6. CASE Monitor
  BY <1>6, <1>1 DEF Monitor, EnteringDebugger, HandleSemihostRequest, SkipHardcodedBreakpoint,
     Resumes, AdvanceProgramCounterToNextInstruction, SendStop, ReceiveClose,
     WasMemoryFaultEncountered, KeepsThread, thread, history
<1>7. CASE Command
  <2>1. CASE MemReadOrWrite \/ CopyContextFromBuffer \/ ContinueCommand \/ SingleStepCommand
    BY <2>1, <1>1 DEF MemReadOrWrite, CopyContextFromBuffer, ContinueCommand, SingleStepCommand,
       Resume, KeepsThread, Commanded, history
  <2>2. CASE \/ SetHardwareBreakpoint \/ ClearHardwareBreakpoint
             \/ SetHardwareWatchpoint \/ ClearHardwareWatchpoint
    BY <2>2, RequestEffect DEF SetHardwareBreakpoint, ClearHardwareBreakpoint,
       RefuseBreakpoint, vars, memory,
       SetHardwareWatchpoint, ClearHardwareWatchpoint, thread, history
  <2>3. QED
    BY <1>7, <2>1, <2>2 DEF Command
<1>8. QED
  BY <1>2, <1>3, <1>4, <1>5, <1>6, <1>7 DEF Next, Run

\* What made a stop of an instruction does not change with the debugger's own
\* variables.
LEMMA CausesLast ==
    ASSUME UNCHANGED <<banks, cells, entries, pc, thumb>>
    PROVE  /\ Current' = Current
           /\ BreakCause => BreakCause'
           /\ BreakpointTripped => BreakpointTripped'
           /\ FaultCause => FaultCause'
<1>1. Current' = Current
  BY DEF Current
<1>2. \A a : Memory!BreakpointAt(a)' = Memory!BreakpointAt(a)
  BY DEF Memory!BreakpointAt, Memory!Covering
<1>3. \A a, n : /\ Memory!InABank(a, n)' <=> Memory!InABank(a, n)
                /\ Memory!Writable(a, n)' <=> Memory!Writable(a, n)
  BY DEF Memory!InABank, Memory!Writable
<1>4. BreakpointTripped => BreakpointTripped'
  BY <1>1, <1>2 DEF BreakpointTripped, UnderBreakpoint
<1>5. QED
  BY <1>1, <1>3, <1>4 DEF BreakCause, FaultCause

\* What a checked half-word read of the program finds in the way of it.
LEMMA FetchCauses ==
    ASSUME BankInv, MemoryInv, NEW address \in Nat, ReadMemory(address, 2)
    PROVE  /\ UNCHANGED <<banks, cells, entries>>
           /\ \/ reply'.exception = "busError" /\ ~Memory!InABank(address, 2)
              \/ /\ reply'.exception = "hardwareBreakpoint"
                 /\ Memory!InABank(address, 2) /\ Memory!BreakpointAt(address)
              \/ /\ Answered /\ Memory!InABank(address, 2)
                 /\ address \in DOMAIN cells /\ HalfRead = cells[address]
  BY ReadEffect, ReadFaults, AnsweredFetch DEF BankInv

\* An instruction that does not complete leaves its cause behind.
LEMMA FetchKeepsCauses ==
    ASSUME PlaceInv, BankInv, TypeOK, MemoryInv, PinkySimStep
    PROVE  PlaceInv' /\ StopsHaveACause'
<1>1. pc \in Nat /\ at = "fetch" /\ UNCHANGED <<resumedBy, link, pending>>
  BY DEF TypeOK, PinkySimStep, KeepsDebugState, remote
<1>2. CASE ~thumb /\ Throws("hardFault") /\ UNCHANGED memory
  <2>1. UNCHANGED <<banks, cells, entries, pc, thumb>> /\ FaultCause
        /\ at' = "exception" /\ runResult' = "hardFault"
    BY <1>2 DEF Throws, RunEnds, memory, FaultCause
  <2>2. QED
    BY <2>1, CausesLast DEF PlaceInv, StopsHaveACause, FaultCause, Transfers
<1>3. CASE ReadHalfWord /\ Faults
  <2>1. /\ UNCHANGED <<banks, cells, entries, pc, thumb>>
        /\ \/ /\ reply'.exception = "busError" /\ ~Memory!InABank(pc, 2)
              /\ at' = "exception" /\ runResult' = "hardFault"
           \/ /\ reply'.exception = "hardwareBreakpoint" /\ Memory!BreakpointAt(pc)
              /\ at' = "checkExit" /\ runResult' = "bkpt"
    BY <1>1, <1>3, FetchCauses DEF ReadHalfWord, Faults, Throws, RunEnds, Answered
  <2>2. \/ FaultCause /\ at' = "exception" /\ runResult' = "hardFault"
        \/ BreakCause /\ at' = "checkExit" /\ runResult' = "bkpt"
    BY <2>1 DEF FaultCause, BreakCause, BreakpointTripped, UnderBreakpoint
  <2>3. QED
    BY <2>1, <2>2, CausesLast DEF PlaceInv, StopsHaveACause, FaultCause, Transfers
<1>4. CASE ReadHalfWord /\ Answered /\ Decode(HalfRead)
  <2>1. UNCHANGED <<banks, cells, entries>> /\ Current = HalfRead /\ Memory!InABank(pc, 2)
    BY <1>1, <1>4, FetchCauses DEF ReadHalfWord, Answered, Current
  <2>2. \/ at' = "callback"
        \/ at' = "fetchTail" /\ HalfRead = "wide" /\ UNCHANGED <<pc, thumb>>
        \/ at' = HalfRead /\ HalfRead \in Transfers /\ UNCHANGED <<pc, thumb>>
        \/ at' = "checkExit" /\ runResult' = "bkpt" /\ HalfRead \in Breaks /\ UNCHANGED <<pc, thumb>>
        \/ at' = "exception" /\ runResult' \in Refused \cup Returned
    BY <1>4 DEF Decode, Completes, GoesOn, Throws, Returns, RunEnds, ReturnedResult, Refused,
       Returned, Breaks, Transfers
  <2>3. HalfRead \in Breaks => BreakCause
    BY <2>1 DEF Breaks, BreakCause
  <2>4. QED
    BY <2>1, <2>2, <2>3, CausesLast DEF PlaceInv, StopsHaveACause, Transfers, Refused, Returned
<1>5. QED
  BY <1>2, <1>3, <1>4 DEF PinkySimStep

\* So does a 32-bit instruction whose second half-word is fetched.
LEMMA TailKeepsCauses ==
    ASSUME PlaceInv, BankInv, TypeOK, MemoryInv, ExecuteInstruction32
    PROVE  PlaceInv' /\ StopsHaveACause'
<1>1. pc \in Nat /\ pc + 2 \in Nat /\ Current = "wide"
  BY DEF TypeOK, ExecuteInstruction32, PlaceInv
<1>2. CASE Faults
  <2>1. /\ UNCHANGED <<banks, cells, entries, pc, thumb>>
        /\ \/ /\ ~Memory!InABank(pc + 2, 2)
              /\ at' = "exception" /\ runResult' = "hardFault"
           \/ /\ Memory!BreakpointAt(pc + 2)
              /\ at' = "checkExit" /\ runResult' = "bkpt"
    BY <1>1, <1>2, FetchCauses DEF ExecuteInstruction32, Faults, Throws, RunEnds, Answered
  <2>2. \/ FaultCause /\ at' = "exception" /\ runResult' = "hardFault"
        \/ BreakCause /\ at' = "checkExit" /\ runResult' = "bkpt"
    BY <1>1, <2>1 DEF FaultCause, BreakCause, BreakpointTripped, UnderBreakpoint
  <2>3. QED
    BY <2>1, <2>2, CausesLast DEF PlaceInv, StopsHaveACause, FaultCause, Transfers
<1>3. CASE Answered /\ DecodeTail(HalfRead)
  <2>1. \/ at' = "callback"
        \/ at' = "exception" /\ runResult' \in Refused \cup Returned
    BY <1>3 DEF DecodeTail, Completes, Throws, Returns, RunEnds, ReturnedResult, Refused, Returned
  <2>2. QED
    BY <2>1 DEF PlaceInv, StopsHaveACause, Transfers, Refused, Returned
<1>4. QED
  BY <1>2, <1>3 DEF ExecuteInstruction32

\* A load or a store that faults, or a half-word load under a breakpoint.
LEMMA TransferKeepsCauses ==
    ASSUME PlaceInv, TypeOK, MemoryInv, TransferData
    PROVE  PlaceInv' /\ StopsHaveACause'
<1>1. CASE Faults
  <2>1. PICK access \in DataAccesses :
          IF at = "load" THEN ReadMemory(access[1], access[2]) ELSE WriteMemory(access[1], access[2])
    BY DEF TransferData
  <2>2. access[1] \in Nat /\ access[2] \in Nat
    BY AccessesAssumption
  <2>3. at \in Transfers /\ Current = at
    BY DEF TransferData, PlaceInv
  <2>4. ~Answered /\ UNCHANGED <<pc, thumb>>
        /\ \/ /\ reply'.exception = "busError"
              /\ at' = "exception" /\ runResult' = "hardFault"
           \/ /\ reply'.exception = "hardwareBreakpoint"
              /\ at' = "checkExit" /\ runResult' = "bkpt"
    BY <1>1 DEF Faults, Throws, RunEnds, Answered
  <2>5. CASE at = "load"
    <3>1. UNCHANGED <<banks, cells, entries>>
      BY <2>1, <2>5, ReadEffect
    <3>2. reply'.exception = "busError" => FaultCause
      BY <2>1, <2>3, <2>5, ReadFaults DEF FaultCause, Answered
    <3>3. reply'.exception = "hardwareBreakpoint" => BreakCause
      BY <2>1, <2>3, <2>5, ReadFaults DEF BreakCause, BreakpointTripped, Answered
    <3>4. QED
      BY <3>1, <3>2, <3>3, <2>4, CausesLast DEF PlaceInv, StopsHaveACause, FaultCause, Transfers
  <2>6. CASE at = "store"
    <3>1. UNCHANGED <<banks, cells, entries>> /\ FaultCause /\ reply'.exception = "busError"
      BY <2>1, <2>2, <2>3, <2>4, <2>6, WriteKeepsCells DEF FaultCause, Answered
    <3>2. QED
      BY <3>1, <2>4, CausesLast DEF PlaceInv, StopsHaveACause, FaultCause, Transfers
  <2>7. QED
    BY <2>3, <2>5, <2>6 DEF Transfers
<1>2. CASE at' = "callback"
  BY <1>2 DEF PlaceInv, StopsHaveACause, Transfers
<1>3. QED
  BY <1>1, <1>2 DEF TransferData, Completes

\* A breakpoint that is no request to exit reaches the debugger with its cause.
LEMMA ExitKeepsCauses ==
    ASSUME PlaceInv, BankInv, TypeOK, MemoryInv, IsExitSemihost
    PROVE  PlaceInv' /\ StopsHaveACause'
<1>1. pc \in Nat /\ at = "checkExit" /\ runResult = "bkpt" /\ BreakCause
  BY DEF TypeOK, IsExitSemihost, PlaceInv
<1>2. /\ UNCHANGED <<banks, cells, entries, pc, thumb, runResult>>
      /\ at' \in {"exited", "exception"}
      /\ at' = "exception" => ~(Answered /\ HalfRead = "exit")
  BY <1>1, FetchCauses DEF IsExitSemihost, ReadHalfWord
<1>3. at' = "exception" => Current \in {"bkpt", "semihost"} \/ BreakpointTripped
  BY <1>1, <1>2, FetchCauses DEF IsExitSemihost, ReadHalfWord, BreakCause, Current, Answered,
     BreakpointTripped, UnderBreakpoint
<1>4. QED
  BY <1>1, <1>2, <1>3, CausesLast DEF PlaceInv, StopsHaveACause, Transfers

\* No step takes an instruction or a stop away from what caused it.
LEMMA CauseStep ==
    ASSUME CauseInv, BankInv, TypeOK, MemoryInv, [Next]_vars
    PROVE  CauseInv'
<1>0. CountInv' /\ CountInv /\ PlaceInv /\ StopsHaveACause
  BY CountStep DEF CauseInv
<1>1. CASE UNCHANGED vars \/ Gdb
  <2>1. UNCHANGED <<at, banks, cells, entries, pc, thumb, runResult, resumedBy, ran>>
    BY <1>1 DEF vars, memory, thread, history, Gdb, GdbConnects, GdbSends, GdbHangsUp
  <2>2. GdbConnected /\ HasReceiveData => (GdbConnected /\ HasReceiveData)'
    BY <1>1 DEF GdbConnected, HasReceiveData, vars, remote, Gdb, GdbConnects, GdbSends, GdbHangsUp
  <2>3. QED
    BY <1>0, <2>1, <2>2, CausesLast DEF CauseInv, PlaceInv, StopsHaveACause, FaultCause
<1>2. CASE LoopTop
  <2>1. /\ at' \in {"exception", "callback"} /\ UNCHANGED <<resumedBy, ran>>
        /\ at' = "exception" => runResult' = "bkpt" /\ resumedBy = "start" /\ ran = 0
    BY <1>0, <1>2 DEF LoopTop, CountInv, history
  <2>2. QED
    BY <1>0, <2>1 DEF CauseInv, PlaceInv, StopsHaveACause, Transfers
<1>3. CASE ShouldInterruptRun
  <2>1. /\ at' \in {"exception", "fetch"} /\ UNCHANGED <<resumedBy, link, pending>>
        /\ at' = "exception" => \/ runResult' = "singleStep" /\ singleStepping = 1
                                \/ runResult' = "watchpoint"
                                \/ runResult' = "interrupt" /\ GdbConnected /\ HasReceiveData
    BY <1>3 DEF ShouldInterruptRun, RunEnds, remote, history
  <2>2. QED
    BY <1>0, <2>1 DEF CauseInv, CountInv, PlaceInv, StopsHaveACause, Transfers, GdbConnected,
       HasReceiveData
<1>4. CASE PinkySimStep \/ ExecuteInstruction32 \/ TransferData \/ IsExitSemihost
  BY <1>0, <1>4, FetchKeepsCauses, TailKeepsCauses, TransferKeepsCauses, ExitKeepsCauses DEF CauseInv
<1>5. CASE Monitor \/ Command
  <2>1. at' \notin {"exception", "fetchTail", "load", "store", "checkExit"}
    BY <1>5, RequestEffect DEF TypeOK, Monitor, EnteringDebugger, HandleSemihostRequest, Resumes,
       AdvanceProgramCounterToNextInstruction, SendStop, ReceiveClose, WasMemoryFaultEncountered,
       SkipHardcodedBreakpoint, Command, SetHardwareBreakpoint, ClearHardwareBreakpoint,
       RefuseBreakpoint, vars, memory,
       SetHardwareWatchpoint, ClearHardwareWatchpoint, MemReadOrWrite, CopyContextFromBuffer,
       ContinueCommand, SingleStepCommand, Resume, Commanded, thread
  <2>2. QED
    BY <1>0, <2>1 DEF CauseInv, PlaceInv, StopsHaveACause, Transfers
<1>6. QED
  BY <1>1, <1>2, <1>3, <1>4, <1>5 DEF Next, Run

\* Whenever the debugger is entered, what stopped the program is still so.
THEOREM StopsAreCaused == Spec => []StopsHaveACause
<1>1. Init => CauseInv
  BY DEF Init, CauseInv, CountInv, PlaceInv, StopsHaveACause, Transfers
<1>2. CauseInv /\ BankInv /\ TypeOK /\ MemoryInv /\ [Next]_vars => CauseInv'
  BY CauseStep
<1>3. CauseInv => StopsHaveACause
  BY DEF CauseInv
<1>4. QED
  BY <1>1, <1>2, <1>3, MemoryInvariant, BankInvariant, TypeCorrect, PTL DEF Spec, Safety
=============================================================================
