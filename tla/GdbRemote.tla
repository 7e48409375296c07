------------------------------ MODULE GdbRemote ------------------------------
(***************************************************************************)
(* gdbRemote.c on top of packet.c: each call sends a request to the debug  *)
(* monitor of the device and parses the response; and the monitor (MRI,    *)
(* external), which serves requests one at a time with the same packets.   *)
(***************************************************************************)
EXTENDS GdbPacket, RemoteDevice

VARIABLES
    device,             \* behind the line
    replies,            \* the packets that the monitor has still to send
    request,            \* of the call under way, or of the last one
    stage,              \* "open" until the call ends, then "returned" or "failed"
    result,             \* what the last call that returned gave
    times, answer       \* history: how often the request was carried out, the answer

monitor == <<device, replies, times, answer>>
caller  == <<request, stage, result>>
rvars   == <<line, monitor, caller>>

Client == packet["client"]
Monitor == packet["device"]

\* The letters of the requests and responses.
RequestLetter == [g |-> 103, G |-> 71, m |-> 109, M |-> 77, s |-> 115]
OkText   == <<79, 75>>
OutputLetter == 79
SignalLetter == 84
ErrorText == <<69, 48, 49>>

\* sendGetRegistersCommand and its likes: the text of a request.
RequestText(asked) ==
    LET range == HexText(BytesOfUInteger(asked.address)) \o <<Comma>>
                    \o HexText(BytesOfUInteger(asked.size))
        letter == <<RequestLetter[asked.op]>>
    IN  CASE asked.op \in {"g", "s"} -> letter
          [] asked.op = "G" -> letter \o HexText(asked.bytes)
          [] asked.op = "m" -> letter \o range
          [] asked.op = "M" -> letter \o range \o <<Colon>> \o HexText(asked.bytes)

Fits(asked) == Len(RequestText(asked)) <= BufferSize

\* A call begins: its request is sent.
BeginCall(asked) ==
    /\ Client.at = "idle" /\ Fits(asked)
    /\ request' = asked /\ stage' = "open" /\ times' = 0 /\ answer' = Refusal
    /\ PacketSend(wire, "client", RequestText(asked))
    /\ UNCHANGED <<device, replies, result>>

\* A request that is too long for its buffer is not sent.
CallTooLong(asked) ==
    /\ Client.at = "idle" /\ ~Fits(asked)
    /\ request' = asked /\ stage' = "failed" /\ times' = 0 /\ answer' = Refusal
    /\ packet' = [packet EXCEPT !["client"].at = "failed"]
    /\ UNCHANGED <<wire, faults, device, replies, result>>

AwaitResponse ==
    /\ Client.at = "sent" /\ packet' = [packet EXCEPT !["client"] = PacketGet]
    /\ UNCHANGED <<wire, faults, monitor, caller>>

-----------------------------------------------------------------------------
\* receiveAndParseByteArrayResponse: the first size bytes, or the exception of
\* the first pair of characters that is not there or no byte.
ReadBytesAsHex(buffer, size) ==
    LET pairs  == HexDigits(buffer) \div 2
        behind(n) == [buffer EXCEPT !.pos = buffer.pos + 2 * n]
    IN  IF pairs < size THEN ReadByteAsHex(behind(pairs))
        ELSE Returns(behind(size), [k \in 1 .. size |-> ReadByteAsHex(behind(k - 1)).value])

\* verifyOkResponse
VerifyOk(buffer) ==
    LET match == MatchesString(buffer, OkText)
    IN  IF match.thrown # "none" THEN match
        ELSE IF match.value = 1 THEN Returns(match.buffer, << >>)
        ELSE Throws(match.buffer, "badResponse")

\* parseSingleStepResponse, of a packet that is no output.
ParseSignal(buffer) ==
    LET type   == ReadChar(buffer)
        signal == ReadByteAsHex(type.buffer)
    IN  IF type.thrown # "none" THEN type
        ELSE IF type.value # SignalLetter THEN Throws(type.buffer, "badResponse")
        ELSE IF signal.thrown # "none" THEN signal
        ELSE Returns(signal.buffer, <<signal.value>>)

\* Mutated form of IsOutput: the first packet behind a single step is its response.
IsOutput_None(asked, buffer) == FALSE

IsOutput(asked, buffer) ==
    asked.op = "s" /\ ReadChar(buffer).thrown = "none" /\ ReadChar(buffer).value = OutputLetter

Parsed(asked, buffer) ==
    CASE asked.op = "g" -> ReadBytesAsHex(buffer, 1)
      [] asked.op = "m" -> ReadBytesAsHex(buffer, asked.size)
      [] asked.op = "s" -> ParseSignal(buffer)
      [] OTHER          -> VerifyOk(buffer)

\* Output of the device comes before the response to a single step.
SkipOutput ==
    /\ Client.at = "received" /\ IsOutput(request, Client.buffer)
    /\ packet' = [packet EXCEPT !["client"] = PacketGet]
    /\ UNCHANGED <<wire, faults, monitor, caller>>

CallReturns ==
    LET parsed == Parsed(request, Client.buffer)
    IN  /\ Client.at = "received" /\ ~IsOutput(request, Client.buffer) /\ parsed.thrown = "none"
        /\ stage' = "returned" /\ result' = parsed.value
        /\ packet' = [packet EXCEPT !["client"].at = "idle", !["client"].buffer = parsed.buffer]
        /\ UNCHANGED <<wire, faults, monitor, request>>

\* An exception, of the parsing or of the time that passed, leaves the call.
CallThrows ==
    LET parsed == Parsed(request, Client.buffer)
    IN  /\ Client.at = "received" /\ ~IsOutput(request, Client.buffer) /\ parsed.thrown # "none"
        /\ stage' = "failed"
        /\ packet' = [packet EXCEPT !["client"].at = "failed", !["client"].buffer = parsed.buffer]
        /\ UNCHANGED <<wire, faults, monitor, request, result>>

CallTimesOut == TimedOut /\ stage' = "failed" /\ UNCHANGED <<monitor, request, result>>

-----------------------------------------------------------------------------
\* The monitor's reading of a request, with the operators of the same buffer:
\* a letter, an address, a comma, a size, a colon and bytes, or some of these.
From(buffer, pos) == [buffer EXCEPT !.pos = pos]
CharAt(buffer, pos) == IF pos < buffer.end THEN buffer.chars[pos + 1] ELSE 0

ParsedRequest(buffer) ==
    LET letter  == CharAt(buffer, 0)
        comma   == 1 + HexDigits(From(buffer, 1))
        colon   == comma + 1 + HexDigits(From(buffer, comma + 1))
        address == ReadUIntegerAsHex(From(buffer, 1))
        size    == ReadUIntegerAsHex(From(buffer, comma + 1))
        bytes   == ReadBytesAsHex(From(buffer, colon + 1), size.value)
        register == ReadBytesAsHex(From(buffer, 1), 1)
        ranged  == address.thrown = "none" /\ size.thrown = "none" /\ CharAt(buffer, comma) = Comma
    IN  CASE letter = RequestLetter.g -> Simple("g")
          [] letter = RequestLetter.s -> Simple("s")
          [] letter = RequestLetter.G /\ register.thrown = "none"
                -> Request("G", 0, 0, register.value)
          [] letter = RequestLetter.m /\ ranged
                -> Request("m", address.value, size.value, NoBytes)
          [] letter = RequestLetter.M /\ ranged /\ CharAt(buffer, colon) = Colon /\ bytes.thrown = "none"
                -> Request("M", address.value, size.value, bytes.value)
          [] OTHER -> Simple("malformed")

ResponseText(answered) ==
    CASE answered.kind = "bytes"  -> HexText(answered.bytes)
      [] answered.kind = "ok"     -> OkText
      [] answered.kind = "signal" -> <<SignalLetter>> \o HexText(answered.bytes)
      [] OTHER                    -> ErrorText

Responses(asked) ==
    LET response == ResponseText(AnswerTo(device, asked))
    IN  {<<response>>} \cup IF asked.op = "s" THEN {<< <<OutputLetter>>, response>>} ELSE {}

\* A request is carried out and answered, or refused when it cannot be read; a
\* single step may print before that.
Serve ==
    /\ Monitor.at = "received" /\ replies = << >>
    /\ \E asked \in {ParsedRequest(Monitor.buffer)} :
           /\ device' = After(device, asked) /\ answer' = AnswerTo(device, asked)
           /\ times' = times + 1 /\ replies' \in Responses(asked)
    /\ UNCHANGED <<line, caller>>

Reply ==
    /\ Monitor.at \in {"received", "sent"} /\ replies # << >>
    /\ PacketSend(wire, "device", Head(replies)) /\ replies' = Tail(replies)
    /\ UNCHANGED <<device, times, answer, caller>>

\* Behind its last packet the monitor waits for the next request.
ContinueServing ==
    /\ Monitor.at = "sent" /\ replies = << >>
    /\ packet' = [packet EXCEPT !["device"] = PacketGet]
    /\ UNCHANGED <<wire, faults, monitor, caller>>

-----------------------------------------------------------------------------
\* The characters and packets of either side, with no other state.
Receive(side) == (ReceiveChar(side) \/ JudgePacket(side)) /\ UNCHANGED <<monitor, caller>>
ChecksumTimesOut == TimedOutInChecksum /\ UNCHANGED <<monitor, caller>>

CallerStep == AwaitResponse \/ SkipOutput \/ CallReturns \/ CallThrows \/ CallTimesOut \/ ChecksumTimesOut
MonitorStep == Serve \/ Reply \/ ContinueServing

RemoteInit ==
    /\ LineInit /\ device = PowerOn /\ replies = << >>
    /\ request = NoRequest /\ stage = "returned" /\ result = NoBytes
    /\ times = 1 /\ answer = Refusal

Promise == INSTANCE RemoteCall
=============================================================================
