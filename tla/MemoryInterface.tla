--------------------------- MODULE MemoryInterface ---------------------------
(***************************************************************************)
(* The calls that the clients of the simulated memory make and the replies *)
(* they get: the entry points of include/MemorySim.h and include/IMemory.h.*)
(***************************************************************************)
EXTENDS Naturals, Sequences

\* A request: which entry point, on which bytes, with which value or type.
PlainCall(op)                 == [op |-> op, address |-> 0, size |-> 0, with |-> << >>]
RangeCall(op, address, size)  == [op |-> op, address |-> address, size |-> size, with |-> << >>]
DataCall(op, address, bytes)  ==
    [op |-> op, address |-> address, size |-> Len(bytes), with |-> bytes]
WatchCall(op, address, size, type) ==
    [op |-> op, address |-> address, size |-> size, with |-> <<type>>]

\* A call that returns, and one that throws.
Answer(value)      == [exception |-> "none", value |-> value]
Failure(exception) == [exception |-> exception, value |-> << >>]

Exception == {"none", "busError", "hardwareBreakpoint", "outOfMemory",
              "bufferOverrun", "accessViolation"}
=============================================================================
