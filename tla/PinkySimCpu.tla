----------------------------- MODULE PinkySimCpu -----------------------------
(***************************************************************************)
(* What the instructions of pinkySim.c do to the context and to memory.    *)
(* Every step executes any one of Instructions: the behaviours are those   *)
(* of all programs, self-modifying ones included.  An instruction is a     *)
(* record of its operation and its decoded fields.                         *)
(*                                                                         *)
(* Memory is flat and unwatched here: breakpoints and watchpoints are the  *)
(* subject of Mri4Sim.  Words keep the proportions of the C code: a word   *)
(* is two half-words or four bytes, at addresses one byte apart.           *)
(***************************************************************************)
EXTENDS PinkySimAlu, FiniteSets, FiniteSetsExt

CONSTANTS
    ByteRange,      \* values of a byte; WordRange is its fourth power
    ShiftRange,     \* shifts by a register use this many values of it: 0xFF + 1
    LowRegisters,   \* of 0 .. 12
    Instructions,
    Code,           \* addresses of half-words that can be fetched
    Readable,       \* addresses of bytes that can be loaded
    Writable,
    InitialContexts,
    MaxSteps

VARIABLES
    context,        \* PinkySimContext, and the bytes of memory
    result,         \* what pinkySimStep returned
    steps           \* history: instructions executed since the context was written

vars == <<context, result, steps>>

SP == 13
LR == 14
PC == 15

Registers == LowRegisters \cup {SP, LR}

Context ==
    [r : [Registers -> Word], pc : Word, flags : Flags, thumb : BOOLEAN,
     primask : BOOLEAN, memory : [Readable -> 0 .. (ByteRange - 1)]]

\* The registers of the encodings with three bits for each.
Lows == LowRegisters \cap 0 .. 7

ASSUME RegistersAssumption ==
    LowRegisters \subseteq 0 .. 12 /\ 4 * Cardinality(Registers) <= WordRange

\* What can be written can be read.
ASSUME MemoryAssumption == Writable \subseteq Readable

ASSUME ContextsAssumption ==
    \A s \in InitialContexts : s \in Context /\ s.pc % 2 = 0

GetReg(s, reg) == IF reg = PC THEN Wrap(s.pc + 4) ELSE s.r[reg]

SetReg(s, reg, value) == [s EXCEPT !.r[reg] = value]

\* An operand is a register or an immediate value.
Reg(reg)      == [register |-> reg]
Imm(n)        == [immediate |-> n]
Operand(s, o) == IF "register" \in DOMAIN o THEN GetReg(s, o.register) ELSE o.immediate

Aligned(address, size) == address - (address % size)

\* How an instruction ends.  Only one that throws leaves the program counter.
Outcome(how, s)       == [result |-> how, after |-> s]
Completed(s, target)  == Outcome("ok", [s EXCEPT !.pc = target])
Throws(how, s)        == Outcome(how, s)
Behind(s, size)       == Wrap(s.pc + size)
Done(s)               == Completed(s, Behind(s, 2))

-----------------------------------------------------------------------------
(* Data processing.                                                        *)

SumOps == {"add", "sub", "adc", "sbc", "rsb", "cmp", "cmn"}

Sum(i, s) ==
    LET x == GetReg(s, i.n)
        y == Operand(s, i.with)
    IN  CASE i.op \in {"add", "cmn"} -> AddWithCarry(x, y, FALSE)
          [] i.op \in {"sub", "cmp"} -> AddWithCarry(x, Not(y), TRUE)
          [] i.op = "adc"            -> AddWithCarry(x, y, s.flags.C)
          [] i.op = "sbc"            -> AddWithCarry(x, Not(y), s.flags.C)
          [] i.op = "rsb"            -> AddWithCarry(Not(x), 0, TRUE)

\* Comparisons set the flags only.
Adds(i, s) ==
    LET sum  == Sum(i, s)
        then == [s EXCEPT !.flags = UpdateNZCV(@, sum)]
    IN  IF i.n = PC \/ i.with = Reg(PC) THEN Throws("unpredictable", s)
        ELSE Done(IF i.op \in {"cmp", "cmn"} THEN then ELSE SetReg(then, i.d, sum.result))

\* The forms for all registers and for the stack pointer set no flags.
AddressOps == {"addHigh", "movHigh", "addSP", "subSP", "adr"}

Address(i, s) ==
    LET y == Operand(s, i.with)
    IN  CASE i.op \in {"addHigh", "addSP"} -> Wrap(GetReg(s, i.n) + y)
          [] i.op = "movHigh"              -> y
          [] i.op = "subSP"                -> AddWithCarry(GetReg(s, SP), Not(y), TRUE).result
          [] i.op = "adr"                  -> Wrap(Aligned(GetReg(s, PC), 4) + y)

AddsAddress(i, s) ==
    IF i.op = "addHigh" /\ i.d = PC /\ i.with = Reg(PC) THEN Throws("unpredictable", s)
    ELSE IF i.d = PC THEN Completed(s, Aligned(Address(i, s), 2))
    ELSE Done(SetReg(s, i.d, Address(i, s)))

ShiftOps == {"lsl", "lsr", "asr", "ror"}

Amount(i, s) ==
    IF "immediate" \in DOMAIN i.with THEN DecodeImmShift(i.op, i.with.immediate)
    ELSE GetReg(s, i.with.register) % ShiftRange

Shifts(i, s) ==
    LET shifted == Shift_C(GetReg(s, i.n), i.op, Amount(i, s), s.flags.C)
    IN  Done(SetReg([s EXCEPT !.flags = UpdateNZC(@, shifted)], i.d, shifted.result))

LogicOps == {"and", "tst", "eor", "orr", "bic", "mov", "mvn", "mul"}

Bits(x)    == {k \in 0 .. (Width - 1) : Bit(x, k)}
Number(ks) == MapThenSumSet(LAMBDA k : 2 ^ k, ks)

Logic(i, s) ==
    LET x == GetReg(s, i.n)
        y == Operand(s, i.with)
    IN  CASE i.op \in {"and", "tst"} -> Number(Bits(x) \cap Bits(y))
          [] i.op = "eor"            -> Number((Bits(x) \cup Bits(y)) \ (Bits(x) \cap Bits(y)))
          [] i.op = "orr"            -> Number(Bits(x) \cup Bits(y))
          [] i.op = "bic"            -> Number(Bits(x) \ Bits(y))
          [] i.op = "mov"            -> y
          [] i.op = "mvn"            -> Not(y)
          [] i.op = "mul"            -> Wrap(x * y)

DoesLogic(i, s) ==
    LET value == Logic(i, s)
        then  == [s EXCEPT !.flags = UpdateNZ(@, value)]
    IN  Done(IF i.op = "tst" THEN then ELSE SetReg(then, i.d, value))

-----------------------------------------------------------------------------
(* Bytes, half-words and words.                                            *)

\* How many values there are of so many bytes.
RangeOf(size) == ByteRange ^ size

ASSUME BytesAssumption ==
    /\ ByteRange \in Nat /\ ShiftRange \in Nat \ {0}
    /\ RangeOf(0) = 1 /\ RangeOf(4) = WordRange
    /\ \A k \in 0 .. 3 : RangeOf(k + 1) = ByteRange * RangeOf(k)

SignExtend(x, size) ==
    LET low == x % RangeOf(size)
    IN  IF 2 * low >= RangeOf(size) THEN WordRange - RangeOf(size) + low ELSE low

ByteOf(x, k) == (x \div RangeOf(k)) % ByteRange

\* The number with these bytes, the lowest first.
Assembled(bytes, size) == MapThenSumSet(LAMBDA k : bytes[k] * RangeOf(k), 0 .. (size - 1))

Reversed(x)      == Assembled([k \in 0 .. 3 |-> ByteOf(x, 3 - k)], 4)
ReversedPairs(x) == Assembled([k \in 0 .. 3 |-> ByteOf(x, IF k % 2 = 0 THEN k + 1 ELSE k - 1)], 4)

MoveOps == {"sxth", "sxtb", "uxth", "uxtb", "rev", "rev16", "revsh"}

Moves(i, s) ==
    LET x == Operand(s, i.with)
    IN  Done(SetReg(s, i.d,
          CASE i.op = "sxth"  -> SignExtend(x, 2)
            [] i.op = "sxtb"  -> SignExtend(x, 1)
            [] i.op = "uxth"  -> x % RangeOf(2)
            [] i.op = "uxtb"  -> x % RangeOf(1)
            [] i.op = "rev"   -> Reversed(x)
            [] i.op = "rev16" -> ReversedPairs(x)
            [] i.op = "revsh" -> SignExtend(ReversedPairs(x), 2)))

\* An access is aligned and all of its bytes are there.
Allowed(bytes, address, size) ==
    address % size = 0 /\ address .. (address + size - 1) \subseteq bytes

MemRead(s, address, size) ==
    Assembled([k \in 0 .. (size - 1) |-> s.memory[address + k]], size)

MemWrite(s, address, size, value) ==
    [s EXCEPT !.memory =
        [a \in Readable |->
            IF a \in address .. (address + size - 1) THEN ByteOf(value, a - address) ELSE @[a]]]

\* Size and sign of the single loads and stores.
SizeOf    == [ldr |-> 4, ldrh |-> 2, ldrb |-> 1, ldrsh |-> 2, ldrsb |-> 1,
              str |-> 4, strh |-> 2, strb |-> 1]
LoadOps   == {"ldr", "ldrh", "ldrb", "ldrsh", "ldrsb"}
StoreOps  == {"str", "strh", "strb"}

\* Loads of literals are relative to the aligned program counter.
TransferAddress(i, s) ==
    Wrap((IF i.n = PC THEN Aligned(GetReg(s, PC), 4) ELSE GetReg(s, i.n)) + Operand(s, i.with))

Loads(i, s) ==
    LET address == TransferAddress(i, s)
        value   == MemRead(s, address, SizeOf[i.op])
    IN  IF ~Allowed(Readable, address, SizeOf[i.op]) THEN Throws("hardFault", s)
        ELSE Done(SetReg(s, i.d,
               IF i.op \in {"ldrsh", "ldrsb"} THEN SignExtend(value, SizeOf[i.op]) ELSE value))

Stores(i, s) ==
    LET address == TransferAddress(i, s)
    IN  IF ~Allowed(Writable, address, SizeOf[i.op]) THEN Throws("hardFault", s)
        ELSE Done(MemWrite(s, address, SizeOf[i.op], GetReg(s, i.d)))

-----------------------------------------------------------------------------
(* Block transfers: one word behind the other, from the lowest register up. *)

Span(list) == 4 * Cardinality(list)

WordAt(list, base, reg) == Wrap(base + Span({r \in list : r < reg}))

\* The registers before the first one whose word cannot be accessed.
Transferred(list, base, bytes) ==
    {reg \in list : \A r \in list : r <= reg => Allowed(bytes, WordAt(list, base, r), 4)}

\* It is a fault that keeps a transfer from its end.
Ends(list, base, bytes) == IF Transferred(list, base, bytes) = list THEN "ok" ELSE "hardFault"

StoreAll(s, list, base) ==
    LET Stored(a) == {reg \in Transferred(list, base, Writable) :
                        a \in WordAt(list, base, reg) .. (WordAt(list, base, reg) + 3)}
        Byte(a, reg) == ByteOf(GetReg(s, reg), a - WordAt(list, base, reg))
    IN  Outcome(Ends(list, base, Writable),
          [s EXCEPT !.memory =
              [a \in Readable |->
                  IF Stored(a) = {} THEN @[a] ELSE Byte(a, CHOOSE reg \in Stored(a) : TRUE)]])

\* Loading the program counter is a branch; the caller commits it.
LoadAll(s, list, base) ==
    Outcome(Ends(list, base, Readable),
      [s EXCEPT !.r =
          [reg \in Registers |->
              IF reg \in Transferred(list, base, Readable)
              THEN MemRead(s, WordAt(list, base, reg), 4) ELSE @[reg]]])

\* Branches.  The low bit of a target is dropped, or selects the state.
BranchWritePC(s, target) == Completed(s, Aligned(Wrap(target), 2))

\* Mutated form of BxWritePC: the target keeps the bit that selects the state.
BxWritePC_KeepsBit(s, target) ==
    Completed([s EXCEPT !.thumb = target % 2 = 1], target)

BxWritePC(s, target) ==
    Completed([s EXCEPT !.thumb = target % 2 = 1], Aligned(target, 2))

\* Mutated form of Push: the stack pointer moves before the words are stored.
Push_Early(i, s) ==
    LET base == Wrap(s.r[SP] - Span(i.list))
        t    == StoreAll(SetReg(s, SP, base), i.list, base)
    IN  IF i.list = {} THEN Throws("unpredictable", s)
        ELSE IF t.result # "ok" THEN Throws(t.result, t.after)
        ELSE Done(t.after)

Push(i, s) ==
    LET base == Wrap(s.r[SP] - Span(i.list))
        t    == StoreAll(s, i.list, base)
    IN  IF i.list = {} THEN Throws("unpredictable", s)
        ELSE IF t.result # "ok" THEN Throws(t.result, t.after)
        ELSE Done(SetReg(t.after, SP, base))

Pop(i, s) ==
    LET t   == LoadAll(s, i.list, s.r[SP])
        end == SetReg(t.after, SP, Wrap(s.r[SP] + Span(i.list)))
    IN  IF i.list = {} THEN Throws("unpredictable", s)
        ELSE IF t.result # "ok" THEN Throws(t.result, t.after)
        ELSE IF PC \in i.list
             THEN BxWritePC(end, MemRead(s, WordAt(i.list, s.r[SP], PC), 4))
        ELSE Done(end)

Stm(i, s) ==
    LET t == StoreAll(s, i.list, GetReg(s, i.n))
    IN  IF i.list = {} \/ (i.n \in i.list /\ \E reg \in i.list : reg < i.n)
        THEN Throws("unpredictable", s)
        ELSE IF t.result # "ok" THEN Throws(t.result, t.after)
        ELSE Done(SetReg(t.after, i.n, Wrap(GetReg(s, i.n) + Span(i.list))))

\* The base is written back unless it is loaded.
Ldm(i, s) ==
    LET t == LoadAll(s, i.list, GetReg(s, i.n))
    IN  IF i.list = {} THEN Throws("unpredictable", s)
        ELSE IF t.result # "ok" THEN Throws(t.result, t.after)
        ELSE IF i.n \in i.list THEN Done(t.after)
        ELSE Done(SetReg(t.after, i.n, Wrap(GetReg(s, i.n) + Span(i.list))))

BlockOps == {"push", "pop", "stm", "ldm"}

TransfersBlock(i, s) ==
    CASE i.op = "push" -> Push(i, s)
      [] i.op = "pop"  -> Pop(i, s)
      [] i.op = "stm"  -> Stm(i, s)
      [] i.op = "ldm"  -> Ldm(i, s)

-----------------------------------------------------------------------------
(* Branches and system instructions.                                       *)

BranchOps == {"b", "bl", "bx", "blx"}

\* A condition that is not met is no branch.
Branch(i, s) ==
    IF i.cond = "AL" \/ ConditionPassed(i.cond, s.flags)
    THEN BranchWritePC(s, GetReg(s, PC) + i.offset)
    ELSE Done(s)

\* Mutated form of Linked: the return address is the plain address.
Linked_Plain(s, size) == SetReg(s, LR, Behind(s, size))

\* The return address has its low bit set: it returns to Thumb state.
Linked(s, size) == SetReg(s, LR, Aligned(Behind(s, size), 2) + 1)

Bl(i, s) == BranchWritePC(Linked(s, 4), GetReg(s, PC) + i.offset)

BranchExchange(i, s) ==
    IF i.m = PC THEN Throws("unpredictable", s) ELSE BxWritePC(s, GetReg(s, i.m))

Blx(i, s) ==
    IF i.m = PC THEN Throws("unpredictable", s)
    ELSE BxWritePC(Linked(s, 2), GetReg(s, i.m))

Branches(i, s) ==
    CASE i.op = "b"   -> Branch(i, s)
      [] i.op = "bl"  -> Bl(i, s)
      [] i.op = "bx"  -> BranchExchange(i, s)
      [] i.op = "blx" -> Blx(i, s)

\* Hints but NOP, calls and encodings that no decoder takes are returned.
Returned == [hint |-> "unsupported", svc |-> "svc", unassigned |-> "undefined",
             wide |-> "undefined"]

\* Breakpoints, and encodings that a decoder refuses.
Thrown == {"bkpt", "undefined", "unpredictable"}

SystemOps ==
    {"nop", "cps", "msr", "mrs", "barrier"} \cup DOMAIN Returned \cup Thrown

WideOps == {"bl", "msr", "mrs", "barrier", "wide"}

\* The flags as the highest four bits of xPSR; the exception number is 0.
FlagUnit   == SignBit \div 8
Apsr(f)    == FlagUnit * Number({k \in 0 .. 3 : <<f.V, f.C, f.Z, f.N>>[k + 1]})
FlagsOf(x) == [N |-> Bit(x \div FlagUnit, 3), Z |-> Bit(x \div FlagUnit, 2),
               C |-> Bit(x \div FlagUnit, 1), V |-> Bit(x \div FlagUnit, 0)]

SpecialRegisters == {"apsr", "msp", "primask", "other"}

\* Only the flags, the main stack pointer and PRIMASK are written.
Msr(i, s) ==
    LET value == GetReg(s, i.n)
    IN  CASE i.sysm = "apsr"    -> [s EXCEPT !.flags = FlagsOf(value)]
          [] i.sysm = "msp"     -> SetReg(s, SP, Aligned(value, 4))
          [] i.sysm = "primask" -> [s EXCEPT !.primask = value % 2 = 1]
          [] i.sysm = "other"   -> s

Mrs(i, s) ==
    SetReg(s, i.d, CASE i.sysm = "apsr"    -> Apsr(s.flags)
                     [] i.sysm = "msp"     -> s.r[SP]
                     [] i.sysm = "primask" -> IF s.primask THEN 1 ELSE 0
                     [] i.sysm = "other"   -> 0)

System(i, s) ==
    LET next == Behind(s, IF i.op \in WideOps THEN 4 ELSE 2)
    IN  CASE i.op \in {"nop", "barrier"} -> Completed(s, next)
          [] i.op \in DOMAIN Returned -> [Completed(s, next) EXCEPT !.result = Returned[i.op]]
          [] i.op \in Thrown -> Throws(i.op, s)
          [] i.op = "cps" -> Completed([s EXCEPT !.primask = i.disable], next)
          [] i.op = "msr" -> IF i.n \in {SP, PC} THEN Throws("unpredictable", s)
                             ELSE Completed(Msr(i, s), next)
          [] i.op = "mrs" -> IF i.d \in {SP, PC} THEN Throws("unpredictable", s)
                             ELSE Completed(Mrs(i, s), next)

-----------------------------------------------------------------------------
(* The instructions and their fields, as the decoders take them apart.  The *)
(* fields that an operation does not have are those of another register.    *)

Sources  == Registers \cup {PC}
Operands == [register : Registers] \cup [immediate : Word]

Instruction ==
    [op : (SumOps \ {"adc", "sbc", "cmp"}) \cup LogicOps \cup MoveOps,
     d : Registers, n : Registers, with : Operands]
    \cup [op : {"adc", "sbc"}, d : Registers, n : Registers, with : [register : Registers]]
    \cup [op : {"cmp"}, d : Registers, n : Sources, with : Operands \cup {Reg(PC)}]
    \cup [op : {"addHigh", "movHigh"}, d : Sources, n : Sources, with : [register : Sources]]
    \cup [op : {"addSP", "subSP", "adr"}, d : Registers, n : Sources, with : [immediate : Word]]
    \cup [op : ShiftOps, d : Registers, n : Registers, with : [register : Registers]]
    \cup [op : ShiftOps \ {"ror"}, d : Registers, n : Registers,
          with : [immediate : 0 .. (Width - 1)]]
    \cup [op : LoadOps \cup StoreOps, d : Registers, n : Sources, with : Operands]
    \cup [op : {"push"}, list : SUBSET (Lows \cup {LR})]
    \cup [op : {"pop"}, list : SUBSET (Lows \cup {PC})]
    \cup [op : {"stm", "ldm"}, n : Lows, list : SUBSET Lows]
    \cup [op : {"b"}, cond : Conditions, offset : Int]
    \cup [op : {"bl"}, offset : Int]
    \cup [op : {"bx", "blx"}, m : Sources]
    \cup [op : {"nop", "barrier"} \cup DOMAIN Returned \cup Thrown]
    \cup [op : {"cps"}, disable : BOOLEAN]
    \cup [op : {"msr"}, sysm : SpecialRegisters, n : Sources]
    \cup [op : {"mrs"}, sysm : SpecialRegisters, d : Sources]

ASSUME InstructionsAssumption == Instructions \subseteq Instruction

-----------------------------------------------------------------------------
(* pinkySimStep.                                                           *)

\* What executing an instruction does, once it has been fetched.
Execute(i, s) ==
    CASE i.op \in SumOps     -> Adds(i, s)
      [] i.op \in AddressOps -> AddsAddress(i, s)
      [] i.op \in ShiftOps   -> Shifts(i, s)
      [] i.op \in LogicOps   -> DoesLogic(i, s)
      [] i.op \in MoveOps    -> Moves(i, s)
      [] i.op \in LoadOps    -> Loads(i, s)
      [] i.op \in StoreOps   -> Stores(i, s)
      [] i.op \in BlockOps   -> TransfersBlock(i, s)
      [] i.op \in BranchOps  -> Branches(i, s)
      [] i.op \in SystemOps  -> System(i, s)

Fetches(i, s) == s.pc \in Code /\ (i.op \in WideOps => s.pc + 2 \in Code)

Step(i, s) ==
    IF s.thumb /\ Fetches(i, s) THEN Execute(i, s) ELSE Outcome("hardFault", s)

Init ==
    /\ context \in InitialContexts
    /\ result = "ok" /\ steps = 0

\* GDB may write the registers, but PRIMASK, and the memory whenever the program
\* is stopped, which it may be before any instruction.
CopyContextFromBuffer ==
    /\ \E s \in InitialContexts : context' = [s EXCEPT !.primask = context.primask]
    /\ result' = "ok" /\ steps' = 0

Executes(i) ==
    /\ steps < MaxSteps
    /\ LET outcome == Step(i, context)
       IN  context' = outcome.after /\ result' = outcome.result
    /\ steps' = steps + 1

DataOps == SumOps \cup AddressOps \cup ShiftOps \cup LogicOps \cup MoveOps

ProcessData  == \E i \in Instructions : i.op \in DataOps /\ Executes(i)
TransferOne  == \E i \in Instructions : i.op \in LoadOps \cup StoreOps /\ Executes(i)
TransferMany == \E i \in Instructions : i.op \in BlockOps /\ Executes(i)
TakeBranch   == \E i \in Instructions : i.op \in BranchOps /\ Executes(i)
DoSystem     == \E i \in Instructions : i.op \in SystemOps /\ Executes(i)

Next ==
    \/ CopyContextFromBuffer
    \/ ProcessData
    \/ TransferOne
    \/ TransferMany
    \/ TakeBranch
    \/ DoSystem

Spec == Init /\ [][Next]_vars

-----------------------------------------------------------------------------
(* Properties.                                                             *)

\* The context keeps its type, and the program counter is even as long as GDB
\* writes even ones: every way an instruction has to write it, from a register,
\* from memory or by an offset, drops the low bit.
TypeOK ==
    /\ context \in Context
    /\ context.pc % 2 = 0
    /\ result \in {"ok", "hardFault", "svc", "unsupported"} \cup Thrown

\* Whatever a block transfer has stored or loaded before it faults, it has left
\* the program counter, the flags, its base and every other register alone:
\* executed again it does and meets the same.  An LDM that loads its own base is
\* the exception.
FaultsCanBeRetried ==
    \A i \in Instructions :
        LET fault  == Step(i, context)
            base   == IF "n" \in DOMAIN i THEN i.n ELSE SP
            loaded == IF i.op \in {"ldm", "pop"} THEN i.list \ {base} ELSE {}
        IN  /\ fault.result = "hardFault"
            /\ ~(i.op = "ldm" /\ i.n \in i.list)
            => /\ \A reg \in Registers \ loaded : fault.after.r[reg] = context.r[reg]
               /\ [fault.after EXCEPT !.r = context.r, !.memory = context.memory] = context
               /\ Step(i, fault.after) = fault

\* The registers of a callee may hold anything but the stack pointer.
Clobbered(s) == [s EXCEPT !.r = [reg \in Registers |-> IF reg = SP THEN @[SP] ELSE 0]]

\* A call, a prologue that pushes the link register with any others, and an
\* epilogue that pops them into the program counter: control is back behind the
\* call, in Thumb state, with the stack and the saved registers as they were.
CallsReturn ==
    \A call \in Instructions : \A saved \in SUBSET Lows :
        LET called   == Step(call, context)
            prologue == Push([list |-> saved \cup {LR}], called.after)
            epilogue == Pop([list |-> saved \cup {PC}], Clobbered(prologue.after))
        IN  /\ call.op \in {"bl", "blx"}
            /\ called.result = "ok" /\ prologue.result = "ok"
            => /\ epilogue.result = "ok" /\ epilogue.after.thumb
               /\ epilogue.after.pc = Behind(context, IF call.op = "bl" THEN 4 ELSE 2)
               /\ \A reg \in saved \cup {SP} : epilogue.after.r[reg] = called.after.r[reg]

\* A conditional branch behind a comparison is taken by the order of the two
\* words compared, as unsigned and as signed numbers, also where their
\* difference overflows.
ComparisonsDecide ==
    \A i \in Instructions : \A cond \in Comparisons :
        LET compared == Execute(i, context).after
            branched == Branch([cond |-> cond, offset |-> 0], compared).after
        IN  i.op = "cmp" /\ Execute(i, context).result = "ok" =>
              branched.pc = IF Compared(cond, GetReg(context, i.n), Operand(context, i.with))
                            THEN Wrap(compared.pc + 4) ELSE Behind(compared, 2)

\* ADC behind the addition of any two lower words, and SBC behind their
\* subtraction, make the sum or the difference of numbers of twice the width,
\* with its carry and its overflow.
DoubleWordsAdd ==
    \A i \in Instructions : \A xl, yl \in Word :
        LET adding == i.op = "adc"
            yh     == GetReg(context, i.with.register)
            low    == AddWithCarry(xl, IF adding THEN yl ELSE Not(yl), ~adding)
            after  == Execute(i, [context EXCEPT !.flags = UpdateNZCV(@, low)]).after
            high   == [result |-> after.r[i.d], carryOut |-> after.flags.C,
                       overflow |-> after.flags.V]
        IN  i.op \in {"adc", "sbc"} =>
              IF adding THEN IsDoubleSum(GetReg(context, i.n), xl, yh, yl, FALSE, high, low)
              ELSE IsDoubleSum(GetReg(context, i.n), xl, Not(yh), Not(yl), TRUE, high, low)

\* A shift instruction makes as many shifts by one place as its operand says,
\* the carry the last bit shifted out, also for shifts by nothing, by the width
\* and by more.
ShiftsAreRepeated ==
    \A i \in Instructions :
        LET after == Execute(i, context).after
        IN  i.op \in ShiftOps =>
              [result |-> after.r[i.d], carryOut |-> after.flags.C]
                = Repeated(i.op, GetReg(context, i.n), context.flags.C, Amount(i, context))
=============================================================================
