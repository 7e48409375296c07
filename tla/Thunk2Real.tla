----------------------------- MODULE Thunk2Real -----------------------------
(***************************************************************************)
(* libthunk2real: pinkySimStep and the memory interface, carried out by a  *)
(* real device.  One instruction takes from three to six calls of          *)
(* gdbRemote.c; any of them may throw, which ends the process, and the     *)
(* user may run it again.  The context is reduced to the program counter.  *)
(***************************************************************************)
EXTENDS GdbRemote

CONSTANTS
    Starts,             \* the program counters that tests step from
    MemoryRequests,     \* the requests that the memory interface is used for
    RamBase, RamEnd,    \* the addresses that may hold a BKPT of a test
    MaxRoutines

ASSUME ThunkAssumption ==
    /\ Starts \subseteq Bytes /\ RamBase \in Nat /\ RamEnd \in Nat /\ MaxRoutines \in Nat
    /\ MemoryRequests \subseteq [op : {"m", "M"}, address : UIntegers, size : {1, 2, 4}, bytes : Seq(Bytes)]
    /\ \A asked \in MemoryRequests : Len(asked.bytes) = IF asked.op = "M" THEN asked.size ELSE 0
    /\ BufferSize >= 8

\* Tests do not step the handler of SVC, nor into it but by an SVC.
ASSUME StartsAssumption ==
    \A pc \in Starts : InstructionAt(pc) # "return" /\ (InstructionAt(pc) = "plain" => pc + 2 # Handler)

VARIABLES
    at,                 \* the call under way, "idle" between routines, or "dead"
    context,            \* pContext: the program counter
    signal,             \* the signal that the single step answered
    outcome,            \* of the last routine
    began, routines     \* history: where the step began, the routines so far

thunk == <<at, context, signal, outcome, began, routines>>
vars  == <<rvars, thunk>>

ReadRequest(address, size) == Request("m", address, size, NoBytes)

\* The process makes its next call when the former one has returned.
Returned(call) == at = call /\ Client.at = "idle" /\ stage = "returned"

Goes(to) == at' = to /\ UNCHANGED <<outcome, began, routines>>

Ends(how) ==
    /\ at' = "idle" /\ outcome' = how
    /\ UNCHANGED <<rvars, signal, began, routines>>

\* The test sets the context up and steps.
StartStep ==
    /\ at = "idle" /\ routines < MaxRoutines /\ routines' = routines + 1
    /\ \E pc \in Starts :
           /\ context' = pc /\ began' = pc
           /\ BeginCall(Request("G", 0, 0, <<pc>>))
    /\ at' = "setRegisters" /\ outcome' = "none" /\ UNCHANGED signal

SingleStep ==
    /\ Returned("setRegisters") /\ BeginCall(Simple("s"))
    /\ Goes("singleStep") /\ UNCHANGED <<context, signal>>

GetRegisters ==
    /\ Returned("singleStep") /\ BeginCall(Simple("g"))
    /\ signal' = result[1] /\ Goes("getRegisters") /\ UNCHANGED context

DetermineHardFaultCause ==
    /\ Returned("getRegisters") /\ signal = SIGSEGV
    /\ BeginCall(ReadRequest(Status, 2))
    /\ context' = result[1] /\ Goes("faultStatus") /\ UNCHANGED signal

WasUndefinedInstruction ==
    /\ Returned("faultStatus")
    /\ Ends(IF result[1] % 2 = 1 THEN "undefined" ELSE "hardFault") /\ UNCHANGED context

DetermineDebugTrapCause ==
    /\ Returned("getRegisters") /\ signal = SIGTRAP
    /\ BeginCall(ReadRequest(Vector, 4))
    /\ context' = result[1] /\ Goes("vector") /\ UNCHANGED signal

OtherSignal ==
    /\ Returned("getRegisters") /\ signal \notin {SIGTRAP, SIGSEGV}
    /\ context' = result[1] /\ Ends("ok")

\* The address of the handler is kept in sixteen bits, without its lowest one.
\* Mutated form of SvcHandlerAddress: the bit of Thumb code stays in it.
SvcHandlerAddress_Thumb == result[1] + 256 * result[2]

SvcHandlerAddress == result[1] - (result[1] % 2) + 256 * result[2]

\* At the handler of SVC: one more step leaves it.
WasSVC ==
    /\ Returned("vector") /\ context = SvcHandlerAddress
    /\ BeginCall(Simple("s")) /\ Goes("stepOut") /\ UNCHANGED <<context, signal>>

GetRegistersAgain ==
    /\ Returned("stepOut") /\ BeginCall(Simple("g"))
    /\ Goes("getAgain") /\ UNCHANGED <<context, signal>>

SteppedOut ==
    /\ Returned("getAgain") /\ context' = result[1] /\ Ends("svc")

\* The instruction at the program counter is looked at in RAM only.
WasBKPT ==
    /\ Returned("vector") /\ context # SvcHandlerAddress
    /\ context \in RamBase .. RamEnd - 1
    /\ BeginCall(ReadRequest(context, 2)) /\ Goes("instruction") /\ UNCHANGED <<context, signal>>

NotInRam ==
    /\ Returned("vector") /\ context # SvcHandlerAddress
    /\ context \notin RamBase .. RamEnd - 1 /\ Ends("ok") /\ UNCHANGED context

InstructionRead ==
    /\ Returned("instruction")
    /\ Ends(IF result[2] = 190 THEN "bkpt" ELSE "ok") /\ UNCHANGED context

-----------------------------------------------------------------------------
\* SimpleMemory: one call per access.
StartAccess ==
    /\ at = "idle" /\ routines < MaxRoutines /\ routines' = routines + 1
    /\ \E asked \in MemoryRequests : BeginCall(asked) \/ CallTooLong(asked)
    /\ at' = "memory" /\ outcome' = "none" /\ UNCHANGED <<context, signal, began>>

AccessReturns == Returned("memory") /\ Ends("accessed") /\ UNCHANGED context

\* No test catches the exception of a call: the process is gone.
Dies ==
    /\ Client.at = "failed" /\ at # "dead"
    /\ at' = "dead" /\ outcome' = "failed"
    /\ UNCHANGED <<rvars, context, signal, began, routines>>

\* SimpleMemory_Init: what has arrived is discarded, and a packet that waits
\* for its acknowledgement gets one.  The line has gone quiet by then.
Restart ==
    /\ at = "dead" /\ ~Busy /\ at' = "idle"
    /\ packet' = [packet EXCEPT !["client"] = [PacketGet EXCEPT !.at = "idle"]]
    /\ Transmit([wire EXCEPT !["client"] = << >>], "device", <<Plus>>)
    /\ UNCHANGED <<monitor, caller, context, signal, outcome, began, routines>>

ThunkStep ==
    \/ SingleStep \/ GetRegisters \/ DetermineHardFaultCause \/ WasUndefinedInstruction
    \/ DetermineDebugTrapCause \/ OtherSignal \/ WasSVC \/ GetRegistersAgain \/ SteppedOut
    \/ WasBKPT \/ NotInRam \/ InstructionRead \/ AccessReturns \/ Dies

Init ==
    /\ RemoteInit
    /\ at = "idle" /\ context = 0 /\ signal = 0 /\ outcome = "none" /\ began = 0 /\ routines = 0

CallerSteps  == CallerStep /\ UNCHANGED thunk
MonitorSteps == MonitorStep /\ UNCHANGED thunk
ClientReceives  == Receive("client") /\ UNCHANGED thunk
MonitorReceives == Receive("device") /\ UNCHANGED thunk

Process == ThunkStep \/ ClientReceives \/ CallerSteps
DeviceProcess == MonitorReceives \/ MonitorSteps

Next == StartStep \/ StartAccess \/ Restart \/ Process \/ DeviceProcess

\* The process runs, its time-outs expire, and the device answers in the end.
Fairness == WF_vars(Process) /\ WF_vars(DeviceProcess)

Spec == Init /\ [][Next]_vars /\ Fairness

-----------------------------------------------------------------------------
Places2 == {"setRegisters", "singleStep", "getRegisters", "faultStatus", "vector", "stepOut",
            "getAgain", "instruction", "memory", "idle", "dead"}

\* Types: the packets of both sides, the buffers within their bounds.
TypeOK ==
    /\ LineTypeOK
    /\ at \in Places2 /\ context \in Bytes /\ signal \in Bytes
    /\ stage \in {"open", "returned", "failed"} /\ times \in Nat

\* A call returns with the answer to its own request, which the device has
\* carried out once, whatever the line did to the packets.
ImplementsRemoteCall == Promise!CallSpec

\* What the instruction at an address does, and what a step is to answer: one
\* that arrives at a BKPT in RAM answers as if it had executed it.
Arrival(pc) == IF InstructionAt(pc) \in {"plain", "svc"} THEN pc + 2 ELSE pc

StepAnswer(pc) ==
    LET kind == InstructionAt(pc)
    IN  IF kind \in {"svc", "undefined"} THEN kind
        ELSE IF kind = "fault" THEN "hardFault"
        ELSE IF InstructionAt(Arrival(pc)) = "bkpt" /\ Arrival(pc) \in RamBase .. RamEnd - 1 THEN "bkpt"
        ELSE "ok"

\* A step that ends has executed exactly the instruction it began at, left the
\* context as the device left its registers, and told what kind it was.
StepsTellWhatRan ==
    at = "idle" /\ outcome \in {"ok", "svc", "bkpt", "undefined", "hardFault"} =>
        outcome = StepAnswer(began) /\ context = Arrival(began) /\ device.pc = context

\* Without a fault on the line and in good time, only a request that the device
\* refuses or answers in part, or that has no room, ends the process.
FailuresHaveACause ==
    at = "dead" => faults > 0 \/ ~Fits(request) \/ ~Promise!MayReturn(request, answer)

\* Every routine ends, with an answer or with the process.
RoutinesEnd == at \notin {"idle", "dead"} ~> at \in {"idle", "dead"}
=============================================================================
