--------------------------- MODULE NewlibSemihost ---------------------------
(***************************************************************************)
(* NewlibSemihost.c: the calls that the simulated program makes of the     *)
(* host by a breakpoint instruction.  A buffer of the program is handed to *)
(* the host where it lies in a region; a buffer that is not mapped, or not *)
(* writable where the host is to write, answers EFAULT.  The console is    *)
(* GDB's too, when one is connected.                                       *)
(***************************************************************************)
EXTENDS SocketIComm, PinkySimCommandLine

VARIABLES
    call,               \* the call that is being served: its kind, descriptor and buffers
    request,            \* whether GDB is to answer the call
    r0                  \* R[0] of the program

semihost == <<call, request, r0>>

Call(kind, descriptor, buffers) == [kind |-> kind, descriptor |-> descriptor, buffers |-> buffers]
NoCall == Call("none", 0, << >>)

IsConsoleInput  == call.descriptor = 0
IsConsoleOutput == call.descriptor \in {1, 2}

MapsForRead(n)  == IsMapped(call.buffers[n].address, call.buffers[n].size)
MapsForWrite(n) == IsWritable(call.buffers[n].address, call.buffers[n].size)

Serves(kind) == At("semihost") /\ call.kind = kind

\* What the host says of the call, whose first buffers are looked up to be read.
\* The catch keeps the exception's code.
HostAnswers(read, mapped, place) ==
    /\ LooksAt([n \in 1 .. read |-> call.buffers[n]])
    /\ UNCHANGED <<socket, options, held, call, request>>
    /\ \/ mapped /\ Works /\ r0' = 0 /\ TriedAndPassed(place)
       \/ mapped /\ Fails /\ r0' = -1 /\ TriedAndPassed(place)
       \/ ~mapped /\ Works /\ r0' = -1 /\ TriedAndFailed(busErrorException, place)

\* What the host says of a call without a buffer.
HostAnswersAtOnce(result) ==
    /\ Goes("advance") /\ r0' = result
    /\ UNCHANGED <<socket, options, reads, held, call, request>>

\* The call is GDB's to answer if there is one.
AsksGdb(otherwise) ==
    /\ UNCHANGED <<socket, options, reads, held, call, r0>>
    /\ \/ ~IsGdbConnected /\ Works /\ Goes(otherwise) /\ UNCHANGED request
       \/ IsGdbConnected /\ Works /\ Goes("packet") /\ request' = TRUE
       \/ IsGdbConnectedFails /\ Throw(socketException) /\ UNCHANGED request

\* What is written to the console goes to the host first, then to GDB.
HandleWriteRequest ==
    Serves("write") /\ HostAnswers(1, MapsForRead(1), IF IsConsoleOutput THEN "writeConsole" ELSE "advance")
WriteToConsole == At("writeConsole") /\ AsksGdb("advance")

\* What is read from the console is GDB's, or the host's.
HandleReadRequest == Serves("read") /\ IsConsoleInput /\ AsksGdb("readFromFile")
ReadFromFile ==
    /\ At("readFromFile") \/ (Serves("read") /\ ~IsConsoleInput)
    /\ HostAnswers(0, MapsForWrite(1), "advance")

HandleOpenRequest   == Serves("open") /\ HostAnswers(1, MapsForRead(1), "advance")
HandleUnlinkRequest == Serves("unlink") /\ HostAnswers(1, MapsForRead(1), "advance")
HandleRenameRequest ==
    /\ Serves("rename")
    /\ HostAnswers(IF MapsForRead(1) THEN 2 ELSE 1, MapsForRead(1) /\ MapsForRead(2), "advance")
HandleFStatRequest  == Serves("fstat") /\ HostAnswers(0, MapsForWrite(1), "advance")
HandleStatRequest   == Serves("stat") /\ HostAnswers(1, MapsForRead(1) /\ MapsForWrite(2), "advance")

HandleLSeekRequest ==
    Serves("lseek") /\ ((Works /\ HostAnswersAtOnce(0)) \/ (Fails /\ HostAnswersAtOnce(-1)))

\* The console stays open.
HandleCloseRequest ==
    /\ Serves("close")
    /\ \/ Works /\ HostAnswersAtOnce(0)
       \/ ~(IsConsoleInput \/ IsConsoleOutput) /\ Fails /\ HostAnswersAtOnce(-1)

SemihostStep ==
    \/ HandleWriteRequest \/ WriteToConsole \/ HandleReadRequest \/ ReadFromFile
    \/ HandleOpenRequest \/ HandleUnlinkRequest \/ HandleRenameRequest \/ HandleFStatRequest
    \/ HandleStatRequest \/ HandleLSeekRequest \/ HandleCloseRequest
=============================================================================
