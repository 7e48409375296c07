---------------------------- MODULE RemoteDevice ----------------------------
(***************************************************************************)
(* The real device at the other end of the line, as far as the thunk of    *)
(* libthunk2real can tell: a processor that executes one instruction when  *)
(* asked to, memory that may not be all there, and the answers of the MRI  *)
(* debug monitor that runs on it.  None of it is part of the repository;   *)
(* the commands and answers are those of gdbRemote.c and of its tests.     *)
(***************************************************************************)
EXTENDS Integers, Sequences

CONSTANTS
    Instructions,       \* the kind of instruction at each address that has one
    Cells,              \* the addresses of the data that may be written
    Vector,             \* where the address of the SVC handler is read
    Handler,            \* that address, and the handler, of one instruction
    Status              \* where the usage fault status is read

Kinds == {"plain", "svc", "bkpt", "undefined", "fault", "bus", "return"}
Bytes == 0 .. 255

ASSUME DeviceAssumption ==
    /\ Instructions \in [DOMAIN Instructions -> Kinds] /\ DOMAIN Instructions \subseteq Bytes
    /\ Cells \subseteq Bytes /\ {Vector, Handler, Status} \subseteq Bytes /\ Handler % 2 = 0
    /\ \A pc \in DOMAIN Instructions : Instructions[pc] \in {"plain", "svc"} => pc + 2 \in Bytes

\* Requests: "g" and "G" registers, "m" and "M" memory, "s" one instruction.
Operations == {"g", "G", "m", "M", "s"}
NoBytes == << >>
Request(op, address, size, bytes) == [op |-> op, address |-> address, size |-> size, bytes |-> bytes]
Simple(op) == Request(op, 0, 0, NoBytes)
NoRequest == Simple("none")

Answer(kind, bytes) == [kind |-> kind, bytes |-> bytes]
Refusal == Answer("refused", NoBytes)

PowerOn == [pc |-> Handler, back |-> Handler, undefined |-> FALSE, cells |-> [a \in Cells |-> 0]]

SIGTRAP == 5
SIGBUS  == 10
SIGSEGV == 11

InstructionAt(pc) == IF pc \in DOMAIN Instructions THEN Instructions[pc] ELSE "fault"

\* Instructions are half-words; they, with the half-word behind each, the data, the
\* vector and the status are apart.
ASSUME LayoutAssumption ==
    LET vector == Vector .. Vector + 3
        status == Status .. Status + 1
    IN  /\ Cells \cap (vector \cup status) = {} /\ vector \cap status = {}
        /\ \A pc \in DOMAIN Instructions :
               pc % 2 = 0 /\ (pc .. pc + 3) \cap (Cells \cup vector \cup status) = {}
        /\ InstructionAt(Handler) = "return"

\* A half-word of the program, of which the thunk recognises BKPT only.
CodeByte(address) ==
    IF address % 2 = 1 /\ InstructionAt(address - 1) = "bkpt" THEN 190 ELSE 0

ByteAt(device, address) ==
    IF address \in Cells THEN device.cells[address]
    ELSE IF address = Vector THEN Handler + 1
    ELSE IF address = Status THEN IF device.undefined THEN 1 ELSE 0
    ELSE CodeByte(address)

IsThere(address) ==
    \/ address \in Cells \/ address \in Vector .. Vector + 3 \/ address \in Status .. Status + 1
    \/ address \in DOMAIN Instructions \/ address - 1 \in DOMAIN Instructions

\* The bytes up to the first one that is not there.
Read(device, address, size) ==
    LET there == CHOOSE n \in 0 .. size :
                    /\ \A k \in 1 .. n : IsThere(address + k - 1)
                    /\ n < size => ~IsThere(address + n)
    IN  IF there = 0 THEN Refusal
        ELSE Answer("bytes", [k \in 1 .. there |-> ByteAt(device, address + k - 1)])

Writable(address, bytes) == \A k \in 1 .. Len(bytes) : address + k - 1 \in Cells

Written(device, address, bytes) ==
    [device EXCEPT !.cells = [a \in Cells |-> IF a \in address .. address + Len(bytes) - 1
                                              THEN bytes[a - address + 1] ELSE @[a]]]

\* SVC enters its handler, whose one instruction returns; faults stay where they are.
Step(device) ==
    LET kind == InstructionAt(device.pc)
        next == device.pc + 2
    IN  CASE kind = "plain"     -> [device EXCEPT !.pc = next]
          [] kind = "svc"       -> [device EXCEPT !.pc = Handler, !.back = next]
          [] kind = "return"    -> [device EXCEPT !.pc = device.back]
          [] kind \in {"bkpt", "bus"} -> device
          [] kind = "undefined" -> [device EXCEPT !.undefined = TRUE]
          [] OTHER              -> [device EXCEPT !.undefined = FALSE]

SignalOf(device) ==
    LET kind == InstructionAt(device.pc)
    IN  IF kind \in {"undefined", "fault"} THEN SIGSEGV ELSE IF kind = "bus" THEN SIGBUS ELSE SIGTRAP

\* The device after a request, and its answer.
After(device, request) ==
    CASE request.op = "G" -> [device EXCEPT !.pc = request.bytes[1]]
      [] request.op = "M" /\ Writable(request.address, request.bytes)
                          -> Written(device, request.address, request.bytes)
      [] request.op = "s" -> Step(device)
      [] OTHER            -> device

AnswerTo(device, request) ==
    CASE request.op = "g" -> Answer("bytes", <<device.pc>>)
      [] request.op = "m" -> Read(device, request.address, request.size)
      [] request.op = "s" -> Answer("signal", <<SignalOf(device)>>)
      [] request.op = "M" /\ ~Writable(request.address, request.bytes) -> Refusal
      [] request.op = "malformed" -> Refusal
      [] OTHER            -> Answer("ok", NoBytes)
=============================================================================
