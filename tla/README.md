# Verification of pinkySim

pinkySim is an instruction set simulator for ARMv6-M, written in C, with a remote
stub for GDB. This directory models its core in TLA+, checks the models with TLC on
small instances and proves the properties that matter most with TLAPS for all values
of the constants. File names below are relative to the repository; `lib/` abbreviates
`libpinkysim/src/`.

1. [The system](#1-the-system)
2. [Modules](#2-modules)
3. [Simulated memory](#3-simulated-memory)
4. [Run loop and debugger](#4-run-loop-and-debugger)
5. [CPU core](#5-cpu-core)
6. [The process](#6-the-process)
7. [Remote calls](#7-remote-calls)
8. [Runs](#8-runs)
9. [Findings](#9-findings)
10. [Proofs](#10-proofs)
11. [What is not modelled](#11-what-is-not-modelled)
12. [Plan](#12-plan)

## 1. The system

One process, one thread. `main` parses the command line, builds the simulated memory
from a flash image and options, and enters the run loop. The loop alternates between
the CPU core, which executes instructions until one of them or a callback stops it,
and the debug monitor MRI (a git submodule whose sources are not part of the
repository), which talks to GDB over a TCP socket and calls back into the platform
functions of `mri4sim.c`. Errors travel as exceptions built on `setjmp`.

| Component | State | Operations | Works with |
|---|---|---|---|
| Simulated memory (`lib/MemorySim.c`) | list of regions (bytes, read-only flag, read counts, sorted array of breakpoints and watchpoints); one counter of watchpoints encountered | create, load, read, write, map, set and clear breakpoints and watchpoints, ask for encounters, read counts | called through `IMemory` by the CPU core and the glue, directly by the command line, semihosting and code coverage |
| CPU core (`lib/pinkySim.c`) | `PinkySimContext`: registers, flags, PRIMASK, CONTROL | `pinkySimStep`, `pinkySimRun` with a callback before each instruction | fetches, loads and stores through `IMemory`; throws and catches exceptions |
| Debugger glue and run loop (`lib/mri4sim.c`) | `g_runResult`, `g_pcOrig`, `g_singleStepping`, `g_memoryFaultEncountered`, the context, `breakOnStart` | `mri4simRun`, `shouldInterruptRun`, `isExitSemihost`, the `Platform_*` functions | calls the CPU core; called back by it and by MRI |
| MRI (submodule) | GDB's protocol | commands, stop replies | external |
| GDB socket (`lib/SocketIComm.c`) | listening socket, GDB's socket | poll, receive and send a character, accept, close | used by the glue and MRI |
| Semihosting (`lib/NewlibSemihost.c`) | none of its own; the host's files | open, read, write, seek, ... of newlib | reads and writes simulated memory through host pointers |
| Command line and `main` (`lib/pinkySimCommandLine.c`, `main/main.c`) | the options, the image, the list of coverage requests | parse, load, run, tear down | creates memory, socket and run loop |
| Code coverage (`lib/CodeCoverage.c`, `lib/ElfLines.c`) | sorted line table, one source file at a time | parse the ELF line table, merge with read counts | reads the read counts of memory |
| GDB remote client (`libgdbremote`) | packet under way, cursor of its buffer | `packetSend`, `packetGet`, one function per command | used by the thunk to a real device |
| Thunk to a real device (`libthunk2real`) | serial port, shadow of memory | a step of the real device | replaces the CPU core under the same tests |
| Exceptions (`include/try_catch.h`) | stack of handlers, exception code | try, throw, catch | everything |

What is hard in it, and what has to hold:

* **Memory.** A scan of the sorted array stops early; several entries cover one access;
  an entry's end wraps at the top of the address space; half-words at odd offsets are
  counted; regions may overlap, and a region may be made read-only twice; building the
  regions can fail half-way. An access must trip exactly the
  entries that cover it, the array must stay sorted, free of duplicates and within its
  allocation, and a failed construction must leave nothing behind.
* **Run loop and debugger.** Five reasons to stop compete: a breakpoint instruction, a
  hardware breakpoint, a watchpoint, the end of a step and bytes from GDB. GDB acts at
  its own pace and may hang up. No reason may be lost or invented, a step is one
  instruction, and whoever asks for a stop must get it.
* **CPU core.** A block transfer faults half-way, a shift by 32 is an edge of its own,
  results are returned by some decoders and thrown by others.
* **Socket.** A connection closes and another opens in the middle of a packet; every
  operation may wait for the next GDB first. No GDB may get the rest of another's packet,
  and no character may be read out of order or lost.
* **Packets.** Characters are lost or damaged and acknowledgements come late; a packet is
  sent again although it has arrived; a time-out is swallowed by a catch; the process dies
  and starts again in the middle of a conversation. A call must return only with the answer
  to its own request, carried out once.
* **Exceptions.** A catch that leaves the code set disturbs the enclosing one; a throw skips
  what was to be released. Nothing may be left uncaught, held or reported as success.
* **Command line.** Options in any order, failure in the middle, releases that are made twice.
* **Code coverage.** Three flags decide which functions the linker has discarded; two sorted
  lists are walked together, one of them file by file; a half-word of the flash counts as
  executed when it was read at all, and regions that overlap share no counters.

`PROJECT.json` lists the hazards one by one, each at its line and with the properties
that would catch it going wrong. Four of them have no property, each for the reason noted there: what would be stated is a
promise of MRI, of the host or of the user's files, or concerns sizes no instance has.

## 2. Modules

| Module | Models | Uses |
|---|---|---|
| `MemoryInterface` | calls and replies between memory and its callers | |
| `WatchpointArray` | lookup, insertion, removal and scan of one region's array, as pure operators | |
| `MemorySim` | the whole of the simulated memory, one action per entry point | `WatchpointArray`, `MemoryInterface` |
| `WatchedMemory` | what memory promises, without lists, arrays or early exits | `MemoryInterface` |
| `Mri4Sim` | run loop, CPU control flow and debugger glue, on top of `WatchedMemory` | `WatchedMemory` |
| `PinkySimAlu` | sums, shifts, flags and conditions of words of any width, as pure operators | |
| `PinkySimCpu` | what each instruction does to registers, flags, program counter and memory | `PinkySimAlu` |
| `TryCatch` | the handler stack and the exception code, as operators | |
| `HostCalls` | calls of the host that work or fail, and what is held of it | `TryCatch` |
| `SocketIComm` | the listening socket, the connection, and the GDBs behind it | `HostCalls` |
| `ProcessMemory` | the regions as the process uses them, their blocks of read counts, and every read that is counted | `HostCalls` |
| `PinkySimCommandLine` | the options, the image and the regions they build | `ProcessMemory` |
| `NewlibSemihost` | the calls of the simulated program to the host | `SocketIComm`, `PinkySimCommandLine` |
| `ElfLines` | parsing and sorting of readelf's dump, as operators | |
| `CodeCoverage` | the coverage run behind the program's exit | `PinkySimCommandLine`, `ElfLines` |
| `PinkySimMain` | the process from `main` to its exit, which composes the seven above | `NewlibSemihost`, `CodeCoverage` |
| `PacketBuffer` | the cursor over a packet's characters, as operators | |
| `GdbPacket` | `packetSend` and `packetGet` over a faulty serial line | `PacketBuffer` |
| `RemoteDevice` | the device: its commands, memory and instructions (external) | |
| `GdbRemote` | one remote call, and the monitor that serves it | `GdbPacket`, `RemoteDevice` |
| `RemoteCall` | what a remote call promises, without packets or faults | `RemoteDevice` |
| `Thunk2Real` | a step and a memory access of the real device, as chains of remote calls | `GdbRemote`, `RemoteCall` |
| `MCMemorySim`, `MCMri4Sim`, `MCPinkySimCpu`, `MCPinkySimMain`, `MCThunk2Real` | values for the constants of the runs | |
| `MemorySimProofs`, `MemoryRefinementProofs`, `Mri4SimProofs`, `PinkySimAluProofs`, `PinkySimCpuProofs`, `PinkySimMainProofs`, `CodeCoverageProofs`, `Thunk2RealProofs` | theorems | |

`MemorySim` implements `WatchedMemory` (checked by TLC and proved, next section), and `Mri4Sim`
makes every memory call as a step of `WatchedMemory`: what the second module shows
about stops rests on what the first shows about scans. `Mri4Sim` needs of an instruction
only what it does to control; `PinkySimCpu` has the rest, and the two agree on which
results leave the program counter and which move it. `PinkySimMain` looks at the same run
loop from outside: what it sends and receives, and how it starts, fails and ends; of an
instruction it needs only whether it completes, stops the program or calls the host.
`Thunk2Real` implements `RemoteCall`: TLC checks it with a fault on the line, and it is proved
without one.

## 3. Simulated memory

**State.** `regions` is the list that `findMatchingRegion` walks; a region is a record
of its base and size, its bytes, `pReadCounts` (empty when `NULL`), its array of
watchpoints and `watchpointAlloc`. `watchpointEncountered` is the counter that reading
clears. `call` and `reply` record the last call and how it ended; the code has no such
state, and no action reads them.

**Actions.** One per function of `include/MemorySim.h` and `include/IMemory.h`. An
exception is a reply; where `malloc` may fail, so may the action, with what had been
done by then done: `MakeRegionReadOnly` has set the flag when the read counts cannot be
allocated, and `CreateRegionsFromFlashImage` frees the last region of the list,
whichever step failed. The command line calls the latter only on an empty memory,
which is its guard in `Next`.

**Width.** Addresses are `0 .. AddressSpace - 1`. The end of an entry wraps, as
`uint32_t` does; the comparison in `findMatchingRegion` is made in 64 bits and does
not. Read counts wrap at `ReadCountModulus`.

**Abstract memory.** `WatchedMemory` has a map from addresses to bytes, a set of
banks, a set of entries and the number of encounters. Its `Read` says what the scan
has to compute: a half-word read under a breakpoint is stopped; any other read counts
each watchpoint that covers all of it. When a breakpoint stops a read, how many
watchpoints were counted before it depends on the order of the array, so the abstract
step leaves the number open up to all of them. The refinement needs regions that do
not overlap, which no code checks, and that end below the last address, because an
entry whose end wraps to 0 covers only accesses whose end wraps too. `SeparateSpec` of
`MemorySim` makes both assumptions explicit (`RegionsSeparate`), while all invariants
are checked and proved without them.

## 4. Run loop and debugger

**State.** `at` is the place of the single thread between two memory calls: the loop
top, the callback, the fetch of a first or second half-word, a load or store, the exit
check, and the monitor's places from the debugger's entry (`exception`) over a stopped
program (`stopped`) to the resumption (`skip`). `pc`, `thumb`, `runResult`, `pcOrig`,
`singleStepping` and `memoryFault` are the variables of the code. `link` and `pending`
are GDB's side of the socket: no connection, an open one, or one that GDB has closed
and this side has not; and whether bytes wait to be read. `resumedBy` and `ran` are
history: how the program was resumed and how many instructions have completed since.

**Granularity.** An action makes at most one memory call and otherwise runs as far as
the code does. GDB's own actions interleave at every such point; nothing else runs
concurrently.

**Programs.** A half-word of code is one of the classes that control flow tells apart:
what is done (completes, branches, transfers data, is the first of two half-words),
thrown (`undefined`, `unpredictable`: the program counter stays), returned (`svc`,
`unsupported`, `unassigned`: the program counter has moved) or a breakpoint (hard-coded,
a semihost call, the exit call). A transfer makes one access, of any of a set of
addresses and sizes; alignment faults are among its unmapped accesses. Branches are
taken to any of a set of targets, which stands for conditional and computed ones.
Register and flag contents are left out.

**GDB's requests.** A breakpoint of kind 2 covers two bytes, one of kind 3 or 4 four (`BreakpointSize`);
any other kind is refused by `Platform_SetHardwareBreakpoint` and its counterpart, which then set and clear
nothing (`RefuseBreakpoint`).

**MRI.** Its sources are not in the repository. What is assumed of it is what
`mri4sim.c` implements for it and what the tests in `libpinkysim/tests` show, and the
map marks those definitions external:

* a trap at a semihost instruction is taken for the call whatever stopped the program
  (`Platform_TypeOfCurrentInstruction` is all that distinguishes them); for other
  signals the model leaves open whether the instruction is looked at;
* after a call the program counter is advanced and the program resumed, unless it was
  being stepped or GDB asked for a stop while it served the call;
* before resuming, a hard-coded breakpoint at an unchanged program counter is stepped
  over, and that is the whole of a single step (`breakpointTest.cpp`, `stepTest.cpp`);
* a stop reply waits for a connection (`SocketIComm.c` accepts one when it has none).

**Fairness.** `WF_vars(Run) /\ WF_vars(Monitor)`: the simulator is one thread that
always goes on when it can, and no step of it waits for anything but GDB. GDB owes
nothing: it may never connect, never answer, or stay away after hanging up.

## 5. CPU core

**Arithmetic.** `PinkySimAlu` translates `addWithCarry`, the four shifts, `decodeImmshift`,
the flag updates and `conditionPassedForBranchInstr` for words of `Width` bits. The bit
patterns of the C code become arithmetic: a union of parts that share no bit is a sum, a
mask a remainder, a cast to `int32_t` is `Signed`.

**Instructions.** `PinkySimCpu` says what every instruction does to the context and to
memory. An instruction is a record of its operation and decoded fields; `Execute` is the
dispatch, one operator per group of instructions its targets, and an outcome is the new
context and what `pinkySimStep` returns. Two kinds of end differ as in the code: an
instruction that throws leaves the program counter (with whatever it has already done to
registers and memory), one that returns a result has moved it.

**Block transfers.** The loops of PUSH, POP, STM and LDM become three definitions: `WordAt` is
where a register's word lies, 4 bytes for each lower one in the list (`bitCount`);
`Transferred` are the registers in front of the first whose word faults; and `StoreAll` and
`LoadAll` change memory or registers by those. A loop's order shows only in which transfers
come before the fault, because no word is stored twice, and loads change no address.

**Fields.** `Instruction` is the set of all decoded instructions: for each operation the
registers and values that its encodings can name. `Instructions` is any subset of it. The
immediate values are left wider than the encodings have them; a rotation has only the register form.

**State and actions.** `context` is `PinkySimContext` with the bytes of memory beside it.
`newPC` is left out: it is dead between steps. Each action executes one instruction of a
class, any of `Instructions` at any address of code, which includes every program and
every change a program makes to itself; `CopyContextFromBuffer` is GDB's writing the
registers of a stopped program, and may come between any two steps.

**Abstractions.** Memory is flat: what regions, breakpoints and watchpoints do to an
access is the subject of the other modules, where an access is what this module calls
one. R8 to R12 behave as R0 to R7 do and are left out of the instances. The exception
number in xPSR and `CONTROL`, which nothing but GDB changes, read as 0.

**Assumptions.** `WordAssumption` and `PowersAssumption` say what a sign bit and the powers of two
below it are, `BytesAssumption` that four bytes make a word and that shifts by a register use a
positive number of values of it (`& 0xFF` in `lslRegister`); `RegistersAssumption` that registers
are numbered as in `pinkySim.h` and that a block of all of them does not wrap onto itself, as 60
bytes do not in 2^32; `MemoryAssumption` that writable memory can be read, since `MemorySim` has
read-only regions and no write-only ones; `ContextsAssumption` that GDB writes even program
counters; `InstructionsAssumption` that instructions are decoded ones.

## 6. The process

**What is modelled.** One execution of the program, from the arguments in `argv` to the exit
code, as the sequence of places in which its one thread can be (`at`). Every call of the host
(`malloc`, `fopen`, `socket`, `recv`, `popen`, ...) either works or fails, at every place, and
the failures travel as the code's exceptions do. `Sessions` says what a process finds: its
arguments, the image's size and stack pointer, the instructions in the order in which they
are executed, what each GDB will send, readelf's dump and the sources' lengths.

| State | Stands for |
|---|---|
| `exceptions` | the stack of handlers (`g_pExceptionHandlers`) and the exception code |
| `held`, `descriptors` | what has been acquired of the host and not yet given back; open sockets |
| `failures` | how many calls of the host have failed, at most `MaxFailures` |
| `options`, `image` | `PinkySimCommandLine` |
| `regions`, `blocks`, `marks` | the memory that it builds: the regions in the order of their creation, the blocks of read counts on the heap, and which region each was allocated for |
| `readCounts`, `looked` | the counters that are not 0, and the half-words that GDB or the host has read |
| `listenSocket`, `gdbSocket`, `gdbs`, `received` | `SocketIComm`, the GDBs in the order in which they connect, what the monitor has read |
| `elf`, `walk`, `summary`, `outputs` | the rows of the dump, the two cursors of the walk, the files written |
| `program`, `done`, `stop`, `packet` | the run, why it stopped, the packet that is being sent |

**Exceptions.** `Try` pushes the place of the catch, `EndTry` pops it, and `Throw` unwinds to
the topmost handler, or ends the process when there is none. The code is a number, a higher
one replaces a lower one, and a catch block that does not clear it leaves it to the
enclosing test, all as in `include/try_catch.h`: a `__catch` is entered when the code is set,
whether or not something was thrown to it.

**Sockets.** Every operation first waits for a connection (`waitForGdbConnectIfNecessary`).
The GDBs connect, send, and hang up at any time, and need not do any of it. A character sent
to a GDB that has gone may fail, vanish, or end the process by SIGPIPE.

**Undefined behaviour and what the host decides.** `fclose(NULL)` goes on or crashes; `main`'s
pointer to the socket is not `volatile`, so after a `longjmp` it may have the value it had
before `SocketIComm_Init` (`"lost"`). Both are nondeterministic choices.

**Memory.** `ProcessMemory` has what the process can see of `MemorySim.c`. A region is looked up as
`findMatchingRegion` does, so that of overlapping ones the first is used. `MakesReadOnly` marks the first region that holds the
address and gives it a new block of counters; when it had one already, as with `--flash` twice at
addresses of one region, the old block stays on the heap and no pointer to it is left
(`MemorySim.c:228-233`). Every read of two bytes of a region with counters adds one
(`MemorySim.c:572-573`), whoever makes it: the fetch of a half-word, the exit test, the debugger's look at an
instruction, a load of the program (`reads` of an instruction, which are those it makes before it
completes), GDB's reads (`Looks` says which of the monitor's commands read memory and
where, since a GDB may ask for any address) and a host call's buffer or structure of two bytes.

**Abstractions.** Source lines are compared as marks, the
order of rows of equal file, line and address does not matter, and what the host answers to
a semihosting call is one success or one failure. While a call waits for GDB, the monitor is
assumed to pass over anything but the answer.

## 7. Remote calls

**What is modelled.** The thunk of `libthunk2real`, under which the simulator's tests run
against a real processor: `pinkySimStep` is a chain of three to six requests to a monitor on
the device, and the memory interface one request per access. Each request is a packet with a
checksum, sent by `packetSend` until it is acknowledged and answered through `packetGet`.

**State.** The two directions of the line are queues of characters; both ends have a packet
state (`packetSend`'s and `packetGet`'s loops, one place per character received), and a buffer
of `BufferSize` characters with the cursor of `buffer.c`. `faults` counts what the line has
done: lost a character, damaged one, or delivered one so late that `commReceiveChar` timed
out first.

**Time-outs.** `commReceiveChar` throws when nothing came; outside the checksum this ends the
routine and with it the process, inside it the catch turns it into a bad checksum and the
packet is asked for again. An error of the serial port takes the same way as a time-out. A
process that has ended may be started again (`Restart`): `SimpleMemory_Init` waits, discards
what has arrived and acknowledges whatever the device may still wait for.

**What is promised.** `RemoteCall` has no packets: a call is made, the device carries the
request out at most once, and the call returns with that answer or fails. The refinement maps
characters on the way and both packet states to nothing; the only state that it sees are the
device, the call's stage, how often the request was carried out and the two answers.

**Abstractions.** The registers are the program counter; an unsigned integer, and with it an
address, is one byte (`UIntBytes = 1`), and so a request of nine characters is a long one. The
device's instructions are plain ones, breakpoints, calls, undefined ones and faults.

## 8. Runs

The largest runs, `MemoryOverlap`, `RemoteCalls` and `ProgramLife`, take one to three minutes, the others less.

| Run | Expectation | Shows |
|---|---|---|
| `MemoryArrays` | pass | one region at the top of the address space, every kind of entry but one, up to three entries, failing reallocations: arrays stay sorted, without duplicates and within their allocation, and every possible access is scanned exactly |
| `MemoryWatch` | pass | two neighbouring regions with entries: `MemorySim` implements `WatchedMemory` |
| `MemoryData` | pass | regions, images, accesses and mappings with two byte values, failing allocations: the same refinement, and a failed call on an empty memory leaves it empty |
| `MemoryOverlap` | pass | overlapping regions of odd size, images, wrapping read counts: entries lie in their region, read counts are indexed in bounds, a protected byte stays what it is |
| `DebugControl` | pass | a free GDB against five programs: stops have a cause, steps are single, breakpoints hold, encounters stop the program and none is lost |
| `DebugProgress` | pass | programs that loop: what GDB sends, or its going away, stops them, and every step comes back |
| `CpuTransfers` | pass | every kind of instruction in words of eight bits: the program counter stays even, a block transfer that faults half-way can be executed again, a call comes back |
| `CpuArithmetic` | pass | all pairs of four-bit words: conditions decide comparisons, sums and differences chain, shifts are repeated shifts |
| `RemoteCalls` | pass | two routines over a line with one fault, restarts of the process: each call implements `RemoteCall`, steps tell what they ran, failures have a cause, every routine ends |
| `ProgramLife` | pass | 1633 sessions with one call of the host failing anywhere: nothing leaks but the counters of a region made read-only twice, the exit code is true, coverage tells what was read, no packet is split between GDBs, the process ends |
| `DebugWatchStop` | violation | first finding below |
| `DebugUndefined` | violation | second finding below |

**Properties.** Of the memory: `ArraysSorted`, `ArraysHaveNoDuplicates`,
`ArraysFitAllocation`, `EntriesInTheirRegion`, `ScansAreExact`, `CountedReadsInBounds`,
`FailureLeavesNoRegion`, `ImplementsWatchedMemory`, and `ProtectedBytesStay`: a byte that cannot be
written keeps its value until an image is loaded, whatever regions are created over it, marked or
searched. Of the debugger:

* `StopsHaveACause`: whenever the debugger is entered, what stopped the program is
  still there to be seen, be it a breakpoint, bytes or a closed connection, or an
  access that no bank takes.
* `StepsAreSingle`: a step executes at most one instruction, and one whose end is
  reported executed exactly one, over all early returns of the callback.
* `BreakpointsHold`: no instruction completes while a breakpoint covers one of its
  half-words.
* `EncountersStopTheProgram`, `NoEncounterIsLost`: the counter that is cleared by being
  read is never read without the stop it calls for, and no instruction is fetched while
  it is not zero. The order of the tests in `shouldInterruptRun` is what they rest on.
* `InterruptsStop`, `StepsComeBack`: liveness.

Of the CPU core:

* `FaultsCanBeRetried`: what has been stored or loaded before a fault leaves base, flags,
  program counter and all registers outside the list alone, and the instruction executed
  again meets the same fault. LDM with its base in its list is excepted, and rightly:
  without the exception the run fails, since the code does not restore the base.
* `CallsReturn`: BL or BLX, a PUSH of the link register with any others, a callee that
  overwrites every register, and a POP into the program counter end behind the call, in
  Thumb state, with stack pointer and saved registers as they were.
* `ComparisonsDecide`: CMP and a conditional branch, against the order of the numbers.
* `DoubleWordsAdd`: ADC and SBC behind an addition or a subtraction of any lower words.
* `ShiftsAreRepeated`: a shift against a recursive definition by one place.

Of the process:

* `NothingLeaks`: at its exit, whichever failure led there, the image, the pipe, files,
  buffers, regions and their counters have been released and the sockets closed, unless the pointer
  to them was lost; and before that no socket is open that `g_comm` has forgotten. What stays
  behind is named exactly (`Forgotten`): the counters of a region that was later made read-only again.
* `ExitCodeIsTrue`: the program's result is returned if and only if the program exited and the
  coverage that was asked for was finished. A code left behind by an earlier catch, such as
  that of `hasReceiveData` or of the exit test, makes no later catch run.
* `CoverageIsExact`: for each file in the summary, the lines with their marks and both totals,
  against a definition over the set of all rows, without sorting or walking. A row tells of an
  execution if and only if a half-word with its counter was read: the program came to an
  instruction there or loaded it, or GDB or the host looked at it.
* `KeptLinesAreLive`: which rows of a dump are kept, against a definition that looks at the
  whole function a row is in, without flags.
* `StreamsInOrder`, `NoPacketIsSplit`: what passes between the monitor and GDBs that come and go.
* `Ends`: the process comes to its end or waits for a GDB.

Of the remote calls:

* `ImplementsRemoteCall`: the refinement of section 7.
* `StepsTellWhatRan`: a step that ends has executed the instruction at which it began and
  says of which kind it was, although it finds out by up to six requests, one of which
  executes the first instruction of the SVC handler. The comparison definition shows what the
  thunk cannot tell: a step that *arrives* at a BKPT in RAM reports it as executed.
* `FailuresHaveACause`: on a quiet line only a refusal, or a request that has no room in the
  buffer, ends the process.
* `RoutinesEnd`: liveness.

**Bounds and why they suffice.** The array scan compares one access with entries one
at a time, so three entries show every order of two and an interloper; addresses 4 to 7
of eight make ends wrap. Two regions are enough for a search order, a gap and a
boundary, and sizes of 3, 5 and 6 are no multiple of a half-word or word. A program of
three half-words holds a 32-bit instruction at either place and something behind it.
`ran` stops counting at `MaxRan = 2`, which tells none, one and more apart.
`MaxEncountered = 1` bounds GDB's reads and single steps, the only actions that can add
encounters without the callback's taking them; the program's own accesses are not bounded.
The theorems below need none of these bounds.

For the CPU, a word of eight bits and addresses below 40 leave room for code, read-only
and writable data and nothing behind it, so that a block of three registers can begin in
one and end in the next; stack pointers at 0 wrap. One or two instructions
(`MaxSteps`) suffice because the properties execute the rest of their scenario from
whatever state is reached. Four-bit words have every case of carry, overflow and
sign; `ShiftRange = 8` gives amounts below, at and above the width.

`ProgramLife` starts from every session of five groups: 15 lists of options, right and wrong,
and odd images; 16 calls of the host with buffers in flash, in RAM and outside; up to three
GDBs with scripts that stop short, say too much or hang up in the middle; programs with a row for
each half-word that load some of them in two bytes or four, give them to the host or are looked
at by GDB; and every dump of up
to four lines behind a unit, out of five kinds of line, with and without `--restrict`, besides
longer ones with several files and equal base names. One failing call (`MaxFailures = 1`) meets
every place; the run also passes with two. A packet has three characters, so that a hang-up
may come before, between and behind them. Ports end at 4 and a page has 64 bytes, which puts
the stack pointer of the image at, in and behind a page's last word. There are 1.1 million states.

`RemoteCalls` makes two routines one after the other, so that what the first left on the line
or in the device meets the second, starting in ROM and in RAM at each kind of instruction; a
damaged character becomes a start of packet, a hash or a digit. One fault (`MaxFaults = 1`) is a
limit of the code and not of the model: the protocol has no sequence numbers. When the device's
acknowledgement *and* the start of its response are lost, `packetSend` takes every remaining
character for a reason to send again, the device carries the request out a second time, and
`ImplementsRemoteCall` is violated. `Restart` assumes that the line has become quiet, which is
what the code waits for (`usleep(100000)`, then `tcflush`). There are 423 thousand states.

Numbers and texts that no request of that run writes are compared in the assumptions of
`MCThunk2Real`: every signed and unsigned integer is read back from what was written.

**Fairness** of the process is `WF_vars(Process /\ Works)`: the host runs the thread, and a
place where a call could fail is not for ever one where it must; failures are left to chance and
GDBs owe nothing. That of the remote calls is `WF_vars(Process) /\ WF_vars(DeviceProcess)`: both
processors run. Neither says anything of the line, whose faults are bounded.

**Assumptions** on the remote calls: `UIntAssumption` and `PowersAssumption` say what the powers
of 256 are that an unsigned integer of the code has; `DeviceAssumption`, that the address of the SVC handler is
even, as the bit of Thumb code in the vector table requires, and that no instruction is the last of the address
space; `LayoutAssumption`, that instructions are half-words at even addresses, that they, the data, the vector and
the status register do not lie on one another, and that the handler of SVC is one instruction that returns, as that of
the tests is; `ThunkAssumption`, that the memory interface is given addresses of that width and the sizes 1, 2 and 4
that it has entry points for, with as many bytes as are written, and that a buffer holds the 8 digits of a word;
`StartsAssumption`, that tests do not step the handler itself or fall into it. The last one is what `wasSVC` takes for
granted: it knows an SVC by the program counter alone.

**Views.** `call` and `reply` are overwritten by every step that uses them and read by
none before, so the runs identify states that differ in them only. Action properties
are evaluated on steps and do not read them either. `DebugProgress` uses no view,
because TLC's liveness checking and views do not go together.

**Deadlock** is checked except in `DebugControl`, `ProgramLife` and `RemoteCalls`, where the
process comes to its end: where `mri4simRun` returns, where `main` does or the host ends it, and
when the last routine is over.

**A step that never fires.** `Throw` ends the process when no handler is left. No run reaches
that, and `NothingIsUncaught` proves that none can.

## 9. Findings

* **Watchpoint stops without an access** (`DebugWatchStop`). GDB's reads and writes go
  through the checked entry points (`lib/mri4sim.c:212-264`) and so raise the encountered
  counter themselves; and the end of a single step returns from the callback before the
  counter is asked for (`lib/mri4sim.c:148-149`, `:151`). Either way the next `continue` or
  `step` is stopped with SIGTRAP before it has executed an instruction, against what
  `watchpointTest.cpp:36` says of a watchpoint. The shortest trace: set a read
  watchpoint, read the variable, continue.
* **Undefined encodings that move the program counter** (`DebugUndefined`). An encoding
  that no branch of `misc16BitInstructions` or `executeInstruction32` takes returns
  `PINKYSIM_STEP_UNDEFINED` and does not throw; `pinkySimStep` has set the new program
  counter by then, so GDB is shown the instruction behind. `pinkySimRunTest.cpp:101-104`
  expects the run to stop at it, and the encodings it uses, which throw, do.

Two more places where the program does less than one may expect. They are no runs that fail, because
no document, comment or test promises otherwise in so many words; the properties name the exceptions.

* **Data that counts as executed.** The usage text (`lib/pinkySimCommandLine.c:52-53`) and
  `README.creole:370-371` speak of lines and instructions that were executed. What is counted is
  every read of two bytes (`lib/MemorySim.c:572-573`), so a line whose half-word the program loads as
  data, GDB reads or a host call is given counts as executed too, and one whose instruction is only
  ever loaded in four bytes does not. `CoverageIsExact` says which lines these are.
* **Counters that stay behind.** `MemorySim_MakeRegionReadOnly` overwrites `pReadCounts`
  (`lib/MemorySim.c:228-231`), so that `--flash` options at addresses of one region lose the earlier
  counters: the memory is never freed, and what was counted in it would be forgotten. On the command line
  nothing has been read by then. `NothingLeaks` says that nothing else is lost.

## 10. Proofs

`tlapm` checks every leaf. The constants are constrained by named assumptions only:
that the address space is not empty, images and shapes are made of numbers, programs
are sequences of known half-words, what a program does to data and the addresses GDB
asks for are numbers, branch targets and GDB's program counters are
numbers, GDB's reads of memory are of numbers and have letters of their own, bounds are positive, words, bytes, registers and instructions are as section 5 says, an
unsigned integer has a byte at least, and what GDBs will send are sequences of the monitor's three
characters and its commands that read memory. Those on the remote calls are in section 8. Of a session (`SessionsAssumption`, `FilesAssumption`) they say what is meant by one: the
arguments are a list, the instructions are those up to the program's exit; a unit of readelf's dump names a file, the
names are texts in one order, and each source has a number of lines. TLC evaluates them in the runs.

**`MemorySimProofs`.** First the operators, for arrays of any length: insertion keeps an array
sorted and without duplicates, removal too, and *the scan of a sorted array is exact*
(`SortedScanIsExact`). The heart is that everything behind the stopping place starts
above the access and therefore does not cover it. "Covers" is the code's unsigned
comparison: an entry whose end wrapped to 0 covers only accesses whose end wraps too.

Then the states. No property is inductive by itself: whether a scan is exact
depends on sortedness, whether a place in the array exists depends on the lookup, and
whether an entry fits on the region's never changing its base and size. `IInv` is one
`RegionInv` for every region of the list; each action is proved by what it does to one
region and how the list is rebuilt. From `Invariant` follow `TypeCorrect`, `SortedArrays`,
`SingleEntries`, `AllocationsSuffice`, `EntriesPlaced`, `ExactScans` and `CountsInBounds`;
`AllOrNothing` is the action property of failing construction.

**`MemoryRefinementProofs`.** `MemoryRefinement`: as long as regions are kept apart, which
is the hypothesis of the property, every step of `MemorySim` is a step of `WatchedMemory` or
leaves what that sees unchanged. The initial states map to each other, and every function of the
header has a lemma of its own (`ReadRefines`, `SetEntryRefines`, ...). The
invariant is `IInv` of `MemorySimProofs` with two parts behind it:

| Part | Says | For |
|---|---|---|
| `Separate` | no two regions share an address | the first region that holds an address is the only one: `findMatchingRegion` becomes a map |
| `Filed` (`EntriesAreFiled`) | an entry lies in the region whose array keeps it | the arrays taken together are the abstract set, and clearing an entry takes it out of that set once and not twice |

The result of a read comes from `SortedScanIsExact`: the scan of one region's array is what
the abstract read says of all entries, because those of the other regions cover nothing of it.

**`Mri4SimProofs`.** Five invariants, each used by the next:

| Invariant | Says | For |
|---|---|---|
| `MemoryInv` | the entries are finite and the counter is a number | what a call adds to the counter is a number |
| `TypeInv` | `TypeOK`, and a fault is counted only while a command is being answered | `TypeCorrect`: otherwise nothing bounds the fault count |
| `StepInv` | the place in the loop, the countdown and the number of instructions run agree | `SingleSteps` |
| `FetchInv` | past its fetch, an instruction is under no breakpoint; a transfer is no 32-bit instruction | `BreakpointsStop` |
| `CauseInv` | an instruction past its fetch is the one fetched, data transfers are made by loads and stores, and a breakpoint on its way to the debugger has its cause | `StopsAreCaused`: a stop has its cause from where the signal is set to where GDB sees it |

`EncountersAreKept` and `FetchesAfterEncounters` follow from `StepEffect`, which says
what each action does to the counter: only the callback lowers it, and it reports what
it took.

**`PinkySimAluProofs`.** For words of every width what `CpuArithmetic` checks with four bits.
`ConditionsCompare`: the ten conditions go by the unsigned and signed order of the words
compared. `HalvesAdd`: two additions chained by the carry add numbers of twice the width. Both
rest on `SumIsExact`: the C code tells carry and overflow from sums in a wider type, and the
lemma restates them as the one word range that may be lost. `ShiftsRepeat`: a shift by n places
is n shifts by one. One place more is a lemma for each kind (`LeftStep`, `Halving`,
`ArithmeticStep`, `RotateStep`), from what division and remainder are; `OnePlace` puts them
together with the cases cut off by hand in C, and the recursive definition is met by least
counterexample.

**`PinkySimCpuProofs`.** The properties of `PinkySimCpu` for words of every width, any
registers, memory and set of instructions. The state is `TypeOK`, which is inductive: `ExecuteIsGood`
says of every instruction that it leaves a context of its type with an even program counter and
returns a known result. Everything else holds of whatever state of that type a program has come to:

| Theorem | Property | Rests on |
|---|---|---|
| `TypesHold` | `TypeOK` | one lemma per group of instructions (`AddsIsGood`, `PopIsGood`, ...); sums over sets of bits and bytes stay below the range (`NumberIs`, `AssembledIs`) |
| `BranchesDecide` | `ComparisonsDecide` | `ConditionsCompare` |
| `WordsAdd` | `DoubleWordsAdd` | `HalvesAdd` |
| `ShiftsMatch` | `ShiftsAreRepeated` | `ShiftsRepeat` |
| `FaultsAreRetried` | `FaultsCanBeRetried` | transfers keep what is not in their list (`TransfersKeep`) and are idempotent (`StoresAgain`, `LoadsAgain`); other instructions fault before they do anything (`OthersAreClean`) |
| `CallsComeBack` | `CallsReturn` | the words of a block do not overlap (`WordsAreDisjoint`), so what was pushed is there (`StoredIsThere`); the epilogue's addresses are the prologue's |

That words of a block are disjoint needs `RegistersAssumption`; that a stored word can be loaded
back needs `MemoryAssumption` and that a number is its bytes put together (`DigitsAre`).

**`PinkySimMainProofs`.** For all sessions (any command line, image, program, dump and number of
GDBs) and any number of failing calls. `ProcessIsTracked` is the inductive invariant `Inv`, of
three parts:

| Part | Says | For |
|---|---|---|
| `ProcessInv` | at each place, which handlers are on the stack and what may be held | a throw lands where what is held is released (`NothingIsLeaked`); there is always a handler (`NothingIsUncaught`) |
| `SocketsInv` | which sockets are open and how far each GDB has come | the socket part of `NothingIsLeaked`; whom a character goes to |
| `PacketsInv` | which packets a GDB has got characters of, and that numbers of packets only grow | `PacketsAreWhole` |

The part of `NothingLeaks` about the memory has an invariant of its own, `BlocksInv`: a block of counters on the
heap is the one of its region or one that was forgotten, a region's is the last that was allocated for
it (`Alive`), and the release takes those of the regions (`Freed`). It holds for any list of
`--flash` and `--ram` options, overlapping or not.

`NothingLeaks` is not inductive because a throw changes the place and the stack at once and
nothing else: what is held must be known from the place it is thrown from, and what will be
released from the handler. Lemmas `Stacks`, `Unwinding`, `Entering` and `Leaves` say this once of
the control operators, so that the proof for an action names where it goes and what it
acquires. `NothingIsUncaught` is the first half of `ExitCodeIsTrue`.

`StreamsAreRead` says that what the program reads are the GDBs' streams, in the order in
which the GDBs are accepted and each cut off where its GDB hung up. Its invariant `StreamsInv` adds
to the property who of the line has been talked to: those in front have nothing left to
say and will never be read again, the one accepted may go on, and nobody behind has been read.
That a socket is accepted once and the line moves one way rests on the flow of
places: the listener is set up in places (`SetupPlaces`) the process never comes back to. The
property speaks of sequences put behind each other with a recursive fold; what is needed of it
(`FlattenIs`, `FlattenAppends`) is proved by least counterexample (`HasLowest`), since the
library's induction is out of reach.

`ExitCodeTells` proves `ExitCodeIsTrue` whole. Its invariant `ExitInv` is a table of places: what
is known there of the program's exit, of how far its coverage is, and whether a code is left behind.
The code matters because the end of a try goes to the catch when one is set, whoever set it: that
the coverage ends in `main`'s success and not in a catch needs every place on the way to be clear.
The walk along the rows has its own part: `Walked` says that between two source files the summary
tells of all files passed and of no other, `Walking` that inside a file only that one may be
outstanding, and that it is passed once a line of it was executable. The lemmas `WalkSkips`,
`WalkWrites` and `WalkTells` say what an iteration does for rows in any order, whether sorted or not;
sortedness is needed for `CoverageIsExact` and not for this. That a table may be empty but is never
the null pointer (`IsTable`) is why `NoLines` is not a sequence.

**`CodeCoverageProofs`.** The two properties of the coverage, for every dump, every program, sources of
any length and any failing calls. `RowsAreLive` proves `KeptLinesAreLive`: the three flags of the
parser are compared with the definition of a live row, which looks at the whole function.

| Invariant | Says | For |
|---|---|---|
| `KeptInv` | what the parser knows of the lines it has read (`Parsed`): the file and the flags are those that the definition finds by looking back, and the rows kept so far are the live ones among those read; a table has all of them and is in order | `RowsAreLive`; the order is used below |

Whether a row is live is known when the line behind it has been read (`LiveIs`, `ParseGoesOn`).
Sorting neither loses nor doubles a row because its places are a permutation
(`PutsIs`, `SortedCounts`), and equal rows keep their order, so no place is taken twice.

`CoverageTells` proves `CoverageIsExact`, which compares what is written, line by line, with a
definition over the set of all rows, without order, cursors or counters. Behind `Inv`,
`ExitInv` and `KeptInv` there are three invariants, each used by the next:

| Invariant | Says | For |
|---|---|---|
| `CallsInv` | a call of the host is served where the program is at one; while the monitor talks to GDB a request stands only at a call, and only GDB's answer to it, or its command at a hard-coded breakpoint, steps over the instruction | the program never goes behind its exit |
| `CountsInv` | what is counted belongs to a half-word that was read (`CellsRead`): as an instruction, as data, by GDB or by the host; and what was read for sure, by instructions that are done or by others, is counted, behind the exit also the exit itself; from the set-up until the memory is released | a count above 0 is the same as "read" (`ReadsTell`, `CountTells`), for regions that overlap in any way |
| `ExactInv` | where the walk is in a file, the rows passed are exactly those about the lines written, the marks and both counters are those expected (`Clean`), or no line can be executable any more (`Hopeless`); between files all that the summary tells of is as expected, or its output was opened again for a later file of the same base name | `CoverageTells` |

The walk is not exact for all sources: rows behind the last line of a source are left over, and
the file is entered again with rows whose lines are past. `Hopeless` is what is true then, and
it ends in the code's own assertion, not in a success; `Fresh` says that this is the only way
that a file is met again, which rests on the table's order (`TableIsOrdered`).

`ProcessHasTypes` proves `TypeOK` of `PinkySimMain`. Most of it is in the invariants above: the place
and the depth of the tries in `ProcessInv`, the GDBs in `StreamsInv`, the program in `CallsInv`.
`TypesInv` adds the rest: the code is one that is thrown and failing calls are counted, the options
use no more arguments than there are, the program gets no more of them, a packet that is being sent
is not complete, and the walk is at a row or behind the last.

**`Thunk2RealProofs`.** For buffers and texts of any length and unsigned integers of any
width: `WritersKeepBuffer`, `OverrunIsSticky`, `BytesAreReadBack`, and `NumbersHideOverruns`, which
shows the one operation that clears the overrun flag even when it was set before the call.

The first part of the module is about every line. `CallsHaveTypes` proves `TypeOK` of `Thunk2Real`, for buffers of any size, a line that loses and
damages characters any number of times, and any program of the device: `buffer.c` is never given a
cursor or an end that lies outside its characters, be it for writing a packet, for reading one, or for
the parsing of a request or a response that is malformed or cut off. The invariant behind it:

| Invariant | Says | For |
|---|---|---|
| `LineInv` | a packet's buffer is one that `buffer.c` leaves, what is on the line are characters, sums are bytes | every step of `packetSend` and `packetGet` |
| `DeviceInv` | the device's registers and cells are bytes, and the monitor's responses are characters | its answers (`AnswerToIs`, `ResponseTextIs`) |
| `CallInv` | a call for the registers or for a single step that has returned gave one byte: a response that is too short, or is none, has thrown (`ReadBytesKeeps`, `ParseSignalKeeps`) | `pinkySimStep` takes the byte without looking |
| `RoutineInv` | the step is behind the call whose result it takes a byte from | the same |

It needs that the monitor reads *every* text as a request of numbers and bytes, or refuses it
(`ParsedRequestIs`). A checksum and a number are recursive functions: that there is a function of the
recursion is proved once (`RecursionIs`, from a lowest number at which there is none), and that its
values are bytes follows step by step (`PassedOn`).

The second part is about a line that has made no fault so far, for buffers of any size from 8 characters, any width of
unsigned integers, any program and memory of the device, any requests and any number of routines:

| Theorem | Says |
|---|---|
| `FailuresAreCaused` | `FailuresHaveACause`, whole: it names the faults itself |
| `CallsOverQuietLine` | with `MaxFaults = 0`, `ImplementsRemoteCall` |
| `QuietCallsKeepPromise` | with any `MaxFaults`, every step up to the first fault is one of `RemoteCall` or a stutter |
| `StepsTellOverQuietLine` | up to the first fault, `StepsTellWhatRan` |

All four follow from one inductive invariant, `Sound`: the types of above, and `QuietInv` while `faults = 0`.
None of the properties is inductive, because which answer a call returns with depends on every character that is on its
way and on what either side has made of those before. `QuietInv` says so by phases of a call:

| Part | Says | For |
|---|---|---|
| `Phase` | where the packets are: `Closed` (no call), `Asks` (the request is on its way, and k of its characters have been read), `Hears` (the monitor has it), `Serves` (it has been carried out), `Tells` (a response or the output of a step is on its way), `Told` (the client has it); in each, what is on both directions of the line, whose turn it is and which acknowledgement is still outstanding | `Receive` is the next character of a known text: `Holds` gives the buffer, the sum and the state of the reader after k characters |
| `AnswerInv` | the request is one that the thunk makes, its answer is of the kind it asks for and what the device gives, and what was returned is that answer | the promise, and the cause of a failure |
| `ProcessInv` | no call is open between routines, and a process is gone because its call has failed | routines begin in `Closed` |

A phase is left by one character, so there is a lemma for each kind of character in a packet
(`WaitsReceives`, `DataReceives`, `EndReceives`) and one for each step of either side
(`ClientReceivesPhase`, `MonitorReceivesPhase`, `CallerPhase`, `MonitorPhase`, `BeginPhase`). What they rest on is that
a text is read back as what was written: a request of any of the five kinds is parsed as it was asked, which includes that
numbers of any width survive `BytesOfUInteger`, the removal of leading zeros and the digits; and that a response which is
not the expected one, a refusal or a part of the bytes, makes the client's reader throw and not return something else.
The checksum so far and the value of the digits so far are again recursive functions (`SumOfIs`, `ValueGrows`).

`StepInv` is the chain of calls in `pinkySimStep` on top of it: for each call that may be under way, which request it is
and what the device has executed (`CallsInv`, `Ran`), so that a signal is one of the instruction that the step began at, and
the half-word and the vector that are looked at are those of where it arrived.

Trying the last of these proofs showed that the reference definition `StepAnswer` was ambiguous: it was a `CASE` whose
guards overlap at an SVC in front of a BKPT, where TLA+ may choose either. It is an `IF` now, in the order of the code's tests.

**Model-checked only.** Liveness under fairness (`InterruptsStop`, `StepsComeBack`, `Ends`,
`RoutinesEnd`) is out of the prover's reach and stays with TLC. So do `ImplementsRemoteCall` and
`StepsTellWhatRan` over a line that *has* made a fault: a checksum of one byte misses two damages that make up
for each other, and a lost acknowledgement with a lost start of packet makes the device carry a request out twice (section
8), so they hold for the damages and the number of them that the run names and are no theorems for all.

## 11. What is not modelled

* `MemorySim_GetMemoryMapXML`, the target description and console messages: texts.
* The bit patterns of the encodings, and the fields that make forms of MSR, MRS, BX and
  the barriers unpredictable.
* In `Mri4Sim`, the registers that GDB copies other than the program counter and the
  Thumb bit.
* The vector table read at reset: the initial program counter is 0.
* The settings and the log of the serial port, the contents of host files, `struct stat`: the
  host's. Whether calls of it work or fail is modelled.
* The unit tests, mocks and samples: read for what they promise.
* Of the device and of MRI, what this repository does not use.

These are why five components are listed as "partly" modelled.

## 12. Plan

All components of the inventory are modelled. What the proofs have left, in this order:

1. An abstract "debugged program" (running, stopped, resumed for one or many instructions)
   that `Mri4Sim` refines.
2. The remote calls over a line with one fault that a checksum detects, as a theorem.
