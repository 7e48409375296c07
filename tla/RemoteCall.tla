----------------------------- MODULE RemoteCall -----------------------------
(***************************************************************************)
(* What a call of gdbRemote.c promises, without packets, checksums, the    *)
(* line and its faults: the request is carried out at most once, the call  *)
(* returns only with the answer to it, and otherwise it fails, in which    *)
(* case the request has been, will be, or will never be carried out.       *)
(***************************************************************************)
EXTENDS RemoteDevice

VARIABLES
    device,             \* the device behind the line
    request,            \* of the call under way, or of the last one
    stage,              \* "open" until the call ends, then "returned" or "failed"
    times,              \* how often the device has carried the request out
    answer,             \* what the device answered when it did
    result              \* what the last call that returned gave

cvars == <<device, request, stage, times, answer, result>>

\* A read of one byte cannot tell a refusal from the byte it begins with (E0).
Result(asked, answered) ==
    IF answered = Refusal THEN <<224>> ELSE answered.bytes

MayReturn(asked, answered) ==
    \/ answered.kind \in {"ok", "signal"}
    \/ answered.kind = "bytes" /\ (asked.op = "m" => Len(answered.bytes) = asked.size)
    \/ answered = Refusal /\ asked.op = "m" /\ asked.size = 1

Init ==
    /\ device = PowerOn /\ request = NoRequest
    /\ stage = "returned" /\ times = 1 /\ answer = Refusal /\ result = NoBytes

\* A request that failed and was never carried out is forgotten by then; one
\* that has no room in a packet fails at once.
Call ==
    /\ stage # "open" /\ stage' \in {"open", "failed"} /\ times' = 0
    /\ request'.op \in Operations /\ answer' = Refusal
    /\ UNCHANGED <<device, result>>

CarryOut ==
    /\ times = 0 /\ times' = 1
    /\ device' = After(device, request) /\ answer' = AnswerTo(device, request)
    /\ UNCHANGED <<request, stage, result>>

Return ==
    /\ stage = "open" /\ times = 1 /\ MayReturn(request, answer)
    /\ stage' = "returned" /\ result' = Result(request, answer)
    /\ UNCHANGED <<device, request, times, answer>>

Fail ==
    /\ stage = "open" /\ stage' = "failed"
    /\ UNCHANGED <<device, request, times, answer, result>>

Next == Call \/ CarryOut \/ Return \/ Fail

CallSpec == Init /\ [][Next]_cvars
=============================================================================
