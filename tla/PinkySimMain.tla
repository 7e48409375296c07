---------------------------- MODULE PinkySimMain ----------------------------
(***************************************************************************)
(* main.c, mri4sim.c and the modules they call, as one process: the        *)
(* command line, the socket, the run of a program with its calls of the    *)
(* host, GDB and the debug monitor, the code coverage, and the way back    *)
(* through the handlers when a call of the host fails.                     *)
(*                                                                         *)
(* A session is what the process finds: its arguments, the image, the      *)
(* instructions in the order they are executed in, the GDBs, what readelf  *)
(* says and the sources.  The monitor, which talks to GDB, is external.    *)
(***************************************************************************)
EXTENDS NewlibSemihost, CodeCoverage

CONSTANTS
    Sessions,
    PacketLength,       \* characters of a packet that the monitor sends
    Looks               \* GDB's commands that read memory, and what each one reads

ASSUME PacketAssumption == PacketLength \in Nat \ {0}
ASSUME LooksAssumption ==
    /\ Looks \in [DOMAIN Looks -> [address : Nat, size : Nat]]
    /\ DOMAIN Looks \cap {"+", "c", "F", Nul} = {}

\* What GDB sends: an acknowledgement, a command to go on, the answer to a call
\* of the host, or a command that reads memory.
GdbChars == {"+", "c", "F"} \cup DOMAIN Looks

\* A line of the dump; a unit names one of the files.
IsText(text) ==
    /\ text \in [kind : {"unit", "row", "blank", "heading"}, file : Range(Files) \cup {""},
                 line : Nat, address : Nat]
    /\ text.kind = "unit" => text.file # ""

\* The instructions that a breakpoint is thrown of; any other may read memory
\* besides its first half-word.
Breaks == {"exit", "call", "bkpt"}
ReadsMemory(instruction) ==
    /\ instruction.reads \in Seq([address : Nat, size : Nat])
    /\ instruction.kind \in Breaks => instruction.reads = << >>

\* A program ends with its exit, and readelf speaks of sources that are there.
ASSUME SessionsAssumption ==
    \A s \in Sessions :
        /\ s.args \in Seq(Range(s.args))
        /\ s.program \in Seq(Range(s.program)) \ {<< >>} /\ Last(s.program).kind = "exit"
        /\ \A k \in DOMAIN s.program : ReadsMemory(s.program[k])
        /\ s.image \in [size : Nat, sp : Nat] /\ s.scripts \in Seq(Seq(GdbChars))
        /\ s.dump \in Seq(Range(s.dump)) /\ \A n \in DOMAIN s.dump : IsText(s.dump[n])
        /\ s.sources \in [Range(Files) -> Nat]

VARIABLES
    program,            \* the instructions, in the order they are executed in
    done,               \* how many of them are done
    stop,               \* why the program stopped last: a trap, GDB, or its exit
    breaksOnStart,      \* mri4simRun's breakOnStart
    packet,             \* the packet being sent: its number, and what is sent of it
    pComm,              \* main's local: null, g_comm, or lost again
    exitCode            \* main's returnValue

thread == <<program, done, stop, breaksOnStart, packet, pComm, exitCode>>
vars == <<at, exceptions, held, failures, socket, options, semihost, inputs, coverage, thread>>

\* An instruction of the program: a BKPT that is the exit or another call, the
\* hard-coded one, or any other, which may read its second half-word and data.
Instruction(kind, address) == [kind |-> kind, address |-> address, call |-> NoCall, reads |-> << >>]
Calling(made, address) == [Instruction("call", address) EXCEPT !.call = made]
Reading(accesses, address) == [Instruction("plain", address) EXCEPT !.reads = accesses]
Current == program[done + 1]

\* The code's flash counts the reads of the instruction by whoever reads it.
ProgramReads(accesses) == CountReads(accesses) /\ UNCHANGED <<dump, sources, looked>>
InstructionIsRead(times) == ProgramReads([n \in 1 .. times |-> Access(Current.address, 2)])

\* The part of the state that a step of main or of the run loop leaves alone.
KeepsFiles == UNCHANGED <<held, options, coverage>>

Init ==
    /\ \E s \in Sessions :
         /\ args = s.args /\ image = s.image /\ program = s.program
         /\ gdbs = [i \in DOMAIN s.scripts |-> Gdb(s.scripts[i])]
         /\ dump = s.dump /\ sources = s.sources
    /\ at = "main" /\ exceptions = NoExceptions /\ held = {} /\ failures = 0
    /\ SocketInit
    /\ regions = << >> /\ blocks = {} /\ marks = << >> /\ readCounts = << >> /\ looked = {}
    /\ index = 0 /\ commandLine = Blank0
    /\ call = NoCall /\ request = FALSE /\ r0 = 0
    /\ parse = ParseStart /\ elf = NoLines /\ walk = AtStart /\ outputs = << >> /\ summary = NoSummary
    /\ done = 0 /\ stop = "none" /\ breaksOnStart = FALSE
    /\ packet = [number |-> 0, sent |-> 0] /\ pComm = "null" /\ exitCode = 0

-----------------------------------------------------------------------------
(* main: the socket, the monitor, and the program's arguments.             *)

BeginMain ==
    /\ At("main") /\ Try("catchMain", "commandLine")
    /\ KeepsFiles /\ UNCHANGED <<failures, socket, semihost, inputs, thread>>

SocketCommInit ==
    /\ At("listen") /\ Try("catchSocket", "createSocket")
    /\ KeepsFiles /\ UNCHANGED <<failures, socket, semihost, inputs, thread>>

CreateSocket ==
    /\ At("createSocket") /\ KeepsFiles /\ UNCHANGED <<semihost, inputs, thread>>
    /\ \/ Works /\ CreateListenSocket /\ Goes("bind")
       \/ Fails /\ Throw(socketException) /\ UNCHANGED socket

\* The port may be taken.
BindAndListen ==
    /\ At("bind") /\ KeepsFiles /\ UNCHANGED <<socket, semihost, inputs, thread>>
    /\ \/ Works /\ Goes("listening")
       \/ Fails /\ Throw(socketException)

EndSocketInit ==
    /\ At("listening") /\ EndTry("mri4simInit") /\ pComm' = "g_comm"
    /\ KeepsFiles /\ UNCHANGED <<failures, socket, semihost, inputs>>
    /\ UNCHANGED <<program, done, stop, breaksOnStart, packet, exitCode>>

CatchSocket ==
    /\ At("catchSocket") /\ CloseSockets /\ Rethrow
    /\ KeepsFiles /\ UNCHANGED <<failures, semihost, inputs, thread>>

\* The initial stack pointer and program counter are read from the image.
Mri4SimInit ==
    /\ At("mri4simInit") /\ KeepsFiles /\ UNCHANGED <<failures, socket, semihost, inputs, thread>>
    /\ IF IsMapped(0, 4) /\ IsMapped(4, 4) THEN Try("catchArguments", "copyArguments")
       ELSE Throw(busErrorException)

\* The pointers to the program's arguments end at the stack pointer, and the
\* strings end where the pointers begin.
ProgramArguments == SubSeq(args, commandLine.argIndexOfImage + 1, Len(args))
CopiesArguments ==
    LET argc  == Len(ProgramArguments)
        base  == image.sp - 4 * argc
        bytes == FoldLeft(LAMBDA sum, argument : sum + argument.size, 0, ProgramArguments)
    IN  /\ \A k \in 0 .. argc - 1 : IsWritable(base + 4 * k, 4)
        /\ \A address \in base - bytes .. base - 1 : IsWritable(address, 1)

CopyCommandLineArgumentsToStack ==
    /\ At("copyArguments") /\ KeepsFiles /\ UNCHANGED <<failures, socket, call, request, inputs, thread>>
    /\ IF CopiesArguments THEN r0' = Len(ProgramArguments) /\ Goes("copied")
       ELSE Throw(busErrorException) /\ UNCHANGED r0

EndCopy ==
    /\ At("copied") /\ EndTry("run") /\ breaksOnStart' = commandLine.breakOnStart
    /\ KeepsFiles /\ UNCHANGED <<failures, socket, semihost, inputs>>
    /\ UNCHANGED <<program, done, stop, packet, pComm, exitCode>>

CatchArguments ==
    /\ At("catchArguments") /\ Rethrow
    /\ KeepsFiles /\ UNCHANGED <<failures, socket, semihost, inputs, thread>>

-----------------------------------------------------------------------------
(* mri4simRun: the program runs until it is stopped; the monitor is        *)
(* entered at every stop but the exit.                                     *)

KeepsStop == UNCHANGED <<program, done, breaksOnStart, packet, pComm, exitCode>>

BreakOnStart ==
    /\ At("run") /\ breaksOnStart /\ stop' = "trap" /\ breaksOnStart' = FALSE /\ Goes("exception")
    /\ KeepsFiles /\ UNCHANGED <<failures, socket, semihost, inputs, program, done, packet, pComm, exitCode>>

\* shouldInterruptRun: what GDB has sent, or that it is gone, stops the program.
\* hasReceiveData takes a call that fails for no data and keeps the code.
ShouldInterruptRun ==
    /\ At("run") /\ ~breaksOnStart
    /\ KeepsFiles /\ UNCHANGED <<semihost, inputs, program, done, breaksOnStart, packet, pComm, exitCode>>
    /\ \/ IsGdbConnectedFails /\ Throw(socketException) /\ UNCHANGED <<socket, stop>>
       \/ ~IsGdbConnected /\ Works /\ Goes("step") /\ UNCHANGED <<socket, stop>>
       \/ /\ IsGdbConnected /\ Fails /\ TriedAndFailed(socketException, "step")
          /\ (Polls \/ UNCHANGED socket) /\ UNCHANGED stop
       \/ /\ IsGdbConnected /\ Works /\ Polls
          /\ IF HasReceiveData THEN TriedAndPassed("exception") /\ stop' = "interrupt"
             ELSE TriedAndPassed("step") /\ UNCHANGED stop

\* The fetch, and what the instruction reads when it is executed.
StepReads == <<Access(Current.address, 2)>> \o Current.reads

\* pinkySimStep; what a breakpoint throws is left behind as the code.
PinkySimStep ==
    /\ At("step") /\ ProgramReads(StepReads)
    /\ KeepsFiles /\ UNCHANGED <<failures, socket, semihost, program, breaksOnStart, packet, pComm, exitCode>>
    /\ IF Current.kind \in Breaks
       THEN TriedAndFailed(bkptException, "isExit") /\ stop' = "trap" /\ UNCHANGED done
       ELSE TriedAndPassed("run") /\ done' = done + 1 /\ UNCHANGED stop

\* Mutated form of IsExitSemihost: the instruction is read without a try.
IsExitSemihost_NoTry ==
    LET exits == Current.kind = "exit"
    IN  /\ At("isExit") /\ InstructionIsRead(1) /\ Goes(IF exits THEN "ran" ELSE "exception")
        /\ stop' = (IF exits THEN "exit" ELSE stop) /\ exitCode' = (IF exits THEN r0 ELSE exitCode)
        /\ KeepsFiles /\ UNCHANGED <<failures, socket, semihost, program, done, breaksOnStart, packet, pComm>>

\* The exit: main takes the program's result.  The try clears what the
\* breakpoint has left behind.
IsExitSemihost ==
    LET exits == Current.kind = "exit"
    IN  /\ At("isExit") /\ InstructionIsRead(1) /\ TriedAndPassed(IF exits THEN "ran" ELSE "exception")
        /\ stop' = (IF exits THEN "exit" ELSE stop) /\ exitCode' = (IF exits THEN r0 ELSE exitCode)
        /\ KeepsFiles /\ UNCHANGED <<failures, socket, semihost, program, done, breaksOnStart, packet, pComm>>

-----------------------------------------------------------------------------
(* The monitor: a call of the host is served; any other stop is told to    *)
(* GDB, and told again until GDB acknowledges it; then GDB commands.       *)

Stopped == UNCHANGED <<program, done, stop, breaksOnStart, pComm, exitCode>>

NextPacket == packet' = [number |-> packet.number + 1, sent |-> 0]

EnteringDebugger ==
    /\ At("exception") /\ KeepsFiles /\ Stopped /\ UNCHANGED <<failures, socket, r0, request>>
    /\ IF stop = "trap" /\ Current.kind = "call"
       THEN InstructionIsRead(2) /\ TriedAndPassed("semihost") /\ call' = Current.call /\ UNCHANGED packet
       ELSE InstructionIsRead(1) /\ TriedAndPassed("packet") /\ UNCHANGED <<call, packet>>

BeginPacket ==
    /\ At("packet") /\ NextPacket /\ Goes("send")
    /\ KeepsFiles /\ Stopped /\ UNCHANGED <<failures, socket, semihost, inputs>>

\* Sending to a GDB that is gone loses the character, raises a signal that
\* nothing handles, or fails.
SendPacketChar ==
    /\ At("send") /\ KeepsFiles /\ Stopped /\ UNCHANGED <<semihost, inputs>>
    /\ \/ /\ SendChar(packet.number) /\ packet' = [packet EXCEPT !.sent = @ + 1]
          /\ Goes(IF packet.sent + 1 = PacketLength THEN "acknowledge" ELSE "send")
       \/ /\ (AcceptFails /\ UNCHANGED socket) \/ TalkFails
          /\ Throw(socketException) /\ UNCHANGED packet
       \/ BrokenPipe /\ Goes("brokenPipe") /\ UNCHANGED packet

ReceiveFails ==
    /\ At("acknowledge") \/ At("command")
    /\ (AcceptFails /\ UNCHANGED socket) \/ TalkFails
    /\ Throw(socketException)
    /\ KeepsFiles /\ Stopped /\ UNCHANGED <<semihost, inputs, packet>>

ReceiveAcknowledge ==
    /\ At("acknowledge") /\ KeepsFiles /\ Stopped /\ UNCHANGED <<semihost, inputs, packet>>
    /\ \E char \in GdbChars \cup {Nul} :
         ReceiveChar(char) /\ Goes(IF char = "+" THEN "command" ELSE "packet")

\* GDB lets the program go on, answers the call of the host, or looks at memory.
ReceiveCommand ==
    /\ At("command") /\ KeepsFiles /\ Stopped /\ UNCHANGED <<call, dump, sources, packet>>
    /\ \E char \in GdbChars \cup {Nul} :
         /\ ReceiveChar(char)
         /\ IF char \in DOMAIN Looks THEN LooksAt(<<Looks[char]>>) ELSE UNCHANGED reads
         /\ IF request /\ char = "F" THEN r0' = 1 /\ request' = FALSE /\ Goes("advance")
            ELSE /\ UNCHANGED <<r0, request>>
                 /\ Goes(CASE char \in DOMAIN Looks     -> "packet"
                           [] char = "c" /\ ~request    -> "resume"
                           [] OTHER                     -> "command")

\* The hard-coded breakpoint that stopped the program is stepped over.
SkipHardcodedBreakpoint ==
    /\ At("resume") /\ InstructionIsRead(1)
    /\ TriedAndPassed(IF Current.kind = "bkpt" THEN "advance" ELSE "run")
    /\ KeepsFiles /\ Stopped /\ UNCHANGED <<failures, socket, semihost, packet>>

AdvanceProgramCounter ==
    /\ At("advance") /\ InstructionIsRead(1) /\ TriedAndPassed("run") /\ done' = done + 1 /\ call' = NoCall
    /\ KeepsFiles /\ UNCHANGED <<failures, socket, request, r0>>
    /\ UNCHANGED <<program, stop, breaksOnStart, packet, pComm, exitCode>>

-----------------------------------------------------------------------------
(* The end of main.  Its local variables are not volatile: what a throw    *)
(* finds of the one for the socket is up to the compiler.                  *)

EndMain ==
    /\ At("endMain") /\ EndTry("uninit")
    /\ KeepsFiles /\ UNCHANGED <<failures, socket, semihost, inputs, thread>>

CatchMain ==
    /\ At("catchMain") /\ Goes("uninit") /\ exitCode' = -1
    /\ pComm' \in (IF pComm = "g_comm" THEN {"g_comm", "lost"} ELSE {pComm})
    /\ KeepsFiles /\ UNCHANGED <<failures, socket, semihost, inputs, program, done, stop, breaksOnStart, packet>>

UninitMain ==
    /\ At("uninit") /\ Goes("exited") /\ UninitCommandLine
    /\ IF pComm = "g_comm" THEN CloseSockets ELSE UNCHANGED socket
    /\ UNCHANGED <<failures, args, image, index, commandLine, semihost, inputs, coverage, thread>>

MainStep ==
    \/ BeginMain \/ SocketCommInit \/ CreateSocket \/ BindAndListen \/ EndSocketInit \/ CatchSocket
    \/ Mri4SimInit \/ CopyCommandLineArgumentsToStack \/ EndCopy \/ CatchArguments
    \/ BreakOnStart \/ ShouldInterruptRun \/ PinkySimStep \/ IsExitSemihost
    \/ EnteringDebugger \/ BeginPacket \/ SendPacketChar \/ ReceiveFails \/ ReceiveAcknowledge
    \/ ReceiveCommand \/ SkipHardcodedBreakpoint \/ AdvanceProgramCounter
    \/ EndMain \/ CatchMain \/ UninitMain

Process ==
    \/ MainStep
    \/ CommandLineStep /\ UNCHANGED <<socket, semihost, inputs, coverage, thread>>
    \/ SemihostStep /\ UNCHANGED <<dump, sources, coverage, thread>>
    \/ CoverageStep /\ UNCHANGED <<socket, semihost, thread>>

Ended == at \in {"exited", "brokenPipe", "asserted", "crashed", "killed"}

GdbSide ==
    /\ ~Ended /\ GdbActs
    /\ UNCHANGED <<at, exceptions, held, failures, listenSocket, gdbSocket, descriptors, received,
                   options, semihost, inputs, coverage, thread>>

Next == Process \/ GdbSide

\* The host runs the process; it need not fail, and no GDB need act.
Spec == Init /\ [][Next]_vars /\ WF_vars(Process /\ Works)

-----------------------------------------------------------------------------
\* The places of main, the command line, the run and the coverage, and the ends
\* that no place of the code is behind.
Places ==
    {"main", "catchMain", "uninit", "listen", "createSocket", "bind", "listening", "catchSocket"}
    \cup {"commandLine", "parse", "parsed", "catchCommandLine", "openImage", "sizeImage",
          "allocateImage", "readImage", "loadImage", "releaseImage", "catchLoadImage"}
    \cup {"mri4simInit", "copyArguments", "copied", "catchArguments", "run", "step", "isExit",
          "exception", "semihost", "writeConsole", "readFromFile", "packet", "send", "acknowledge",
          "command", "resume", "advance"}
    \cup {"ran", "codeCoverageRun", "initPrivateData", "parseElf", "elfLinesParse", "openPipe",
          "allocateElfLines", "readElf", "catchElfLines", "parsedElf", "catchParse", "openSummary",
          "walk", "openSource", "readSource", "openDest", "lines", "uninitPrivateData", "endRun",
          "catchRun", "rethrowRun", "endCoverage", "catchCoverage", "endMain"}
    \cup {"exited", "brokenPipe", "asserted", "crashed"}

\* Every variable keeps to its values: a packet to its length, the walk to the
\* rows there are, and the process to a place it knows.
TypeOK ==
    /\ at \in Places /\ exceptions.code \in noException .. coverageException
    /\ Len(exceptions.handlers) <= 5 /\ failures \in 0 .. MaxFailures
    /\ index \in 0 .. Len(args) /\ gdbSocket \in {0} \cup DOMAIN gdbs
    /\ \A i \in DOMAIN gdbs : gdbs[i].read <= gdbs[i].sent /\ gdbs[i].sent <= Len(gdbs[i].script)
    /\ r0 \in {-1} \cup 0 .. Len(args) + 1 /\ done \in 0 .. Len(program) - 1
    /\ packet.sent \in 0 .. PacketLength
    /\ elf # NoLines => walk.row \in 1 .. Len(elf) + 1
    /\ pComm \in {"null", "g_comm", "lost"} /\ exitCode \in {-1} \cup Nat

\* However the process comes to its exit, it has freed and closed what it got of
\* the host: the image, the pipe, the files and buffers of the coverage, the
\* memory with its counters; and the sockets, unless main lost its pointer to
\* them.  Before that, every socket that is open is one g_comm still knows of.
\* Only counters that a region had when it was made read-only once more are
\* lost, by MemorySim.c:231.
KnownSockets == (IF listenSocket THEN {0} ELSE {}) \cup (IF gdbSocket # 0 THEN {gdbSocket} ELSE {})
Forgotten == {n \in DOMAIN marks : \E later \in n + 1 .. Len(marks) : marks[later] = marks[n]}
NothingLeaks ==
    /\ descriptors = KnownSockets
    /\ at = "exited" => /\ held = {} /\ regions = << >> /\ blocks = Forgotten
                        /\ pComm # "lost" => descriptors = {}

\* The walk has come to the end of the rows, and the summary tells of every file.
CoverageIsComplete ==
    /\ elf # NoLines /\ summary # NoSummary /\ walk.row > Len(elf)
    /\ {summary[k][1] : k \in DOMAIN summary} = {file \in {row.file : row \in Range(elf)} : ~ShouldSkip(file)}

\* Nothing is thrown that no handler catches.  main returns the program's result
\* when the program came to its exit and the coverage that was asked for is
\* complete, and -1 otherwise: a code that something left behind, like GDB's
\* socket or the breakpoint itself, makes no catch run, and no failure is
\* returned as a result.
ExitCodeIsTrue ==
    /\ at # "killed"
    /\ at = "exited" =>
        exitCode = IF stop = "exit" /\ (commandLine.coverageElf = "" \/ CoverageIsComplete)
                   THEN r0 ELSE -1

\* The counters of the half-words that were read: as the instructions that the
\* program came to, as what the ones it has done read, or by GDB or the host.
Fetched == {program[k].address : k \in 1 .. done + 1}
LoadedBy(instruction) == {instruction.reads[n].address : n \in HalfWords(instruction.reads)}
HalfWordsRead == Fetched \cup (UNION {LoadedBy(program[k]) : k \in 1 .. done}) \cup looked
CellsRead == {CellOf(address) : address \in {read \in HalfWordsRead : IsCounted(read)}}

\* The rows about a line, wherever they are in the table, and what they tell.
RowsAbout(file, line) == {row \in Range(elf) : row.file = file /\ row.line = line}
Expected(file, line) ==
    LET rows == RowsAbout(file, line)
    IN  IF rows = {} THEN NotExecutable ELSE Min({ReadCount(row.address) : row \in rows})
WasExecuted(file, line) ==
    RowsAbout(file, line) # {} /\ \A row \in RowsAbout(file, line) : CellOf(row.address) \in CellsRead
IsWritten(k) ==
    LET file == summary[k][1]
        written == outputs[BaseName[file]]
    IN  /\ \/ \E later \in k + 1 .. Len(summary) : BaseName[summary[later][1]] = BaseName[file]
           \/ written = [line \in 1 .. sources[file] |-> Expected(file, line)]
        /\ summary[k][2] = Cardinality({line \in 1 .. sources[file] : RowsAbout(file, line) # {}})
        /\ summary[k][3] = Cardinality({line \in 1 .. sources[file] : WasExecuted(file, line)})

\* When the coverage is a success, a file has its lines written out with the
\* lowest count of all the rows about them, and a line counts as executed when
\* the half-words at all of its rows were read, by the program that came there
\* or as data: the code cannot tell the one from the other.  A later file of the
\* same base name takes the place of an earlier one.
CoverageIsExact ==
    at = "uninit" /\ CoverageIsComplete => \A k \in DOMAIN summary : IsWritten(k)

\* The rows that are kept of the dump are those of the functions that the linker
\* kept, each as often as it is there; a table that could not be read is never
\* walked.
KeptLinesAreLive ==
    IF elf = NoLines THEN at # "walk"
    ELSE \A row \in Range(elf) \cup {RowAt(dump, n) : n \in RowsOf(dump)} :
            Cardinality({k \in DOMAIN elf : elf[k] = row}) =
            Cardinality({n \in RowsOf(dump) : RowAt(dump, n) = row /\ IsLive(dump, n)})

\* What the monitor reads is what one GDB sent, then that it hung up, then what
\* the next one sent: no character is lost, nor read from a GDB behind another.
StreamsInOrder ==
    /\ received = ReadInOrder
    /\ \A i \in DOMAIN gdbs : gdbs[i].stage = "closed" => gdbs[i].read = gdbs[i].sent

\* The characters of a packet all go to one GDB: when that one hangs up in the
\* middle, the next one does not get the rest.
NoPacketIsSplit ==
    \A i, k \in DOMAIN gdbs : i # k => Range(gdbs[i].got) \cap Range(gdbs[k].got) = {}

\* The process comes to its end, or to where it waits for a GDB.
WaitsForGdb ==
    /\ at \in {"send", "acknowledge", "command"}
    /\ ~CanTalk \/ (at # "send" /\ ~Readable(Talking))
Ends == <>[](Ended \/ WaitsForGdb)
=============================================================================
