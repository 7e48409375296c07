---------------------------- MODULE WatchedMemory ----------------------------
(***************************************************************************)
(* What the simulated memory promises to its callers, without lists,       *)
(* arrays, search orders or early exits: a partial map from addresses to   *)
(* bytes, banks that an access may not straddle, a set of breakpoints and  *)
(* watchpoints, and the number of watchpoints encountered since it was     *)
(* last asked for.  It is the memory of a program whose regions do not     *)
(* overlap; MemorySim implements it under that condition.                  *)
(***************************************************************************)
EXTENDS Integers, FiniteSets, MemoryInterface

CONSTANTS
    AddressSpace,
    AllocationMayFail

VARIABLES
    banks,              \* set of [base, size, readOnly]
    cells,              \* the bytes of all banks, by address
    entries,            \* set of [type, start, size]
    encountered,
    call,
    reply

avars == <<banks, cells, entries, encountered, call, reply>>

Place == 0 .. (AddressSpace - 1)

Within(bank, address, n) ==
    bank.base <= address /\ address + n <= bank.base + bank.size

InABank(address, n) == \E bank \in banks : Within(bank, address, n)

Writable(address, n) == \E bank \in banks : Within(bank, address, n) /\ ~bank.readOnly

\* The entries that cover the whole of an access.
Covering(types, address, n) ==
    {entry \in entries : /\ entry.type \in types
                         /\ entry.start <= address
                         /\ address + n <= entry.start + entry.size}

ReadWatchers(address, n)  == Covering({"read", "readWrite"}, address, n)
WriteWatchers(address, n) == Covering({"write", "readWrite"}, address, n)
BreakpointAt(address)     == Covering({"breakpoint"}, address, 2) # {}

\* The request of the step: which entry point, and its arguments.
Requested(op) == call'.op = op

Init ==
    /\ banks = {} /\ cells = << >> /\ entries = {} /\ encountered = 0
    /\ call = PlainCall("init") /\ reply = Answer(<< >>)

\* Everything is dropped, except that uninit leaves a pending encounter.
Discard ==
    /\ banks' = {} /\ cells' = << >> /\ entries' = {}
    /\ \/ call' = PlainCall("init") /\ encountered' = 0
       \/ call' = PlainCall("uninit") /\ encountered' = encountered
    /\ reply' = Answer(<< >>)

\* A call that allocates may fail, and then has done nothing.
OutOfMemory ==
    /\ AllocationMayFail
    /\ call'.op \in {"createRegion", "createFromImage", "set"}
    /\ reply' = Failure("outOfMemory")
    /\ UNCHANGED <<banks, cells, entries, encountered>>

\* New banks overlap nothing that is mapped; written overrides the zero bytes.
AddBanks(new, written) ==
    LET extra == {a \in Place : \E b \in new : Within(b, a, 1)}
    IN  /\ extra \cap DOMAIN cells = {}
        /\ banks' = banks \cup new
        /\ cells' = [a \in extra \cup DOMAIN cells |->
                        IF a \in DOMAIN cells THEN cells[a]
                        ELSE IF a + 1 \in DOMAIN written THEN written[a + 1] ELSE 0]
        /\ reply' = Answer(<< >>)
        /\ UNCHANGED <<entries, encountered>>

Bank(base, size, readOnly) == [base |-> base, size |-> size, readOnly |-> readOnly]

CreateRegion ==
    /\ Requested("createRegion")
    /\ AddBanks({Bank(call'.address, call'.size, FALSE)}, << >>)

\* A FLASH bank at address 0 that holds the image, and a RAM bank below the
\* initial stack pointer.
CreateFromImage ==
    LET image == call'.with
        stackPointer == call'.address
    IN  /\ Requested("createFromImage")
        /\ \/ /\ Len(image) >= 4
              /\ \E base \in 0 .. stackPointer :
                   AddBanks({Bank(0, Len(image), TRUE), Bank(base, stackPointer - base, FALSE)},
                            image)
           \/ /\ Len(image) < 4
              /\ reply' = Failure("bufferOverrun")
              /\ UNCHANGED <<banks, cells, entries, encountered>>

\* A bank may have been protected although the call reports a lack of memory.
MakeReadOnly ==
    LET base == call'.address
    IN  /\ Requested("makeReadOnly")
        /\ \/ \E bank \in banks :
                /\ Within(bank, base, 1)
                /\ banks' = (banks \ {bank}) \cup {[bank EXCEPT !.readOnly = TRUE]}
                /\ \/ reply' = Answer(<< >>)
                   \/ AllocationMayFail /\ reply' = Failure("outOfMemory")
           \/ /\ ~InABank(base, 1)
              /\ reply' = Failure("busError")
              /\ UNCHANGED banks
        /\ UNCHANGED <<cells, entries, encountered>>

\* A load stores a prefix of the image, all of it unless it reports an error,
\* and is not stopped by a read-only bank.
Load ==
    LET image == call'.with
    IN  /\ Requested("load")
        /\ \E m \in 0 .. Len(image) :
             /\ 0 .. (m - 1) \subseteq DOMAIN cells
             /\ cells' = [a \in DOMAIN cells |-> IF a < m THEN image[a + 1] ELSE cells[a]]
             /\ reply' = IF m = Len(image) THEN Answer(<< >>) ELSE Failure("busError")
        /\ UNCHANGED <<banks, entries, encountered>>

Watch ==
    LET entry  == [type |-> call'.with[1], start |-> call'.address, size |-> call'.size]
        inBank == InABank(call'.address, call'.size)
    IN  /\ \/ /\ Requested("set")
              /\ entries' = IF inBank THEN entries \cup {entry} ELSE entries
           \/ /\ Requested("clear")
              /\ entries' = IF inBank THEN entries \ {entry} ELSE entries
        /\ reply' = IF inBank THEN Answer(<< >>) ELSE Failure("busError")
        /\ UNCHANGED <<banks, cells, encountered>>

WasEncountered ==
    /\ call' = PlainCall("wasEncountered")
    /\ reply' = Answer(<<encountered>>)
    /\ encountered' = 0
    /\ UNCHANGED <<banks, cells, entries>>

Stored(address, n) == [k \in 1 .. n |-> cells[address + k - 1]]

Store(address, bytes) ==
    cells' = [a \in DOMAIN cells |->
                IF a - address + 1 \in DOMAIN bytes THEN bytes[a - address + 1] ELSE cells[a]]

BusError ==
    /\ reply' = Failure("busError")
    /\ UNCHANGED <<cells, encountered>>

\* A half-word read that a breakpoint covers is stopped, whatever the other
\* entries; any other read answers and counts each watchpoint that covers it.
Read ==
    LET address == call'.address
        n == call'.size
        watchers == Cardinality(ReadWatchers(address, n))
    IN  /\ Requested("read")
        /\ \/ ~InABank(address, n) /\ BusError
           \/ /\ InABank(address, n)
              /\ n = 2 /\ BreakpointAt(address)
              /\ reply' = Failure("hardwareBreakpoint")
              /\ encountered' \in encountered .. (encountered + watchers)
           \/ /\ InABank(address, n)
              /\ ~(n = 2 /\ BreakpointAt(address))
              /\ reply' = Answer(Stored(address, n))
              /\ encountered' = encountered + watchers
        /\ UNCHANGED <<banks, cells, entries>>

Write ==
    LET address == call'.address
        n == call'.size
    IN  /\ Requested("write")
        /\ \/ ~Writable(address, n) /\ BusError
           \/ /\ Writable(address, n)
              /\ Store(address, call'.with)
              /\ reply' = Answer(<< >>)
              /\ encountered' = encountered + Cardinality(WriteWatchers(address, n))
        /\ UNCHANGED <<banks, entries>>

\* The host's own accesses to simulated memory trip nothing.
MapForRead ==
    LET address == call'.address
        n == call'.size
    IN  /\ Requested("mapForRead")
        /\ \/ ~InABank(address, n) /\ BusError
           \/ InABank(address, n) /\ reply' = Answer(Stored(address, n))
        /\ UNCHANGED <<banks, cells, entries, encountered>>

MapForWrite ==
    LET address == call'.address
        n == call'.size
    IN  /\ Requested("mapForWrite")
        /\ \/ ~Writable(address, n) /\ BusError
           \/ Writable(address, n) /\ Store(address, call'.with) /\ reply' = Answer(<< >>)
        /\ UNCHANGED <<banks, entries, encountered>>

\* Read counts are outside this specification.
ReadCount ==
    /\ Requested("readCount")
    /\ reply'.exception \in {"none", "busError", "accessViolation"}
    /\ UNCHANGED <<banks, cells, entries, encountered>>

Next ==
    \/ Discard
    \/ OutOfMemory
    \/ CreateRegion
    \/ CreateFromImage
    \/ MakeReadOnly
    \/ Load
    \/ Watch
    \/ WasEncountered
    \/ Read
    \/ Write
    \/ MapForRead
    \/ MapForWrite
    \/ ReadCount

Spec == Init /\ [][Next]_avars
=============================================================================
