------------------------------ MODULE GdbPacket ------------------------------
(***************************************************************************)
(* packet.c: packets $<data>#<checksum> between two sides of a serial line,*)
(* acknowledged by + and refused by -.  A side reads one character per     *)
(* step; what it sends reaches the line at once, and the other side when   *)
(* it reads it.  The client (commSerial.c) gives up on a character that    *)
(* does not come; the device waits.  The line may lose or damage           *)
(* characters, a bounded number of times.                                  *)
(***************************************************************************)
EXTENDS PacketBuffer

CONSTANTS
    BufferSize,         \* of the buffers for packets, 512 in the code
    Damages,            \* what the line may turn a character into
    MaxFaults           \* characters lost or damaged, and answers that are late

ASSUME BufferAssumption == BufferSize \in Nat \ {0} /\ MaxFaults \in Nat
ASSUME DamagesAssumption == Damages \subseteq ByteRange

VARIABLES
    wire,               \* the characters on their way to each side
    packet,             \* each side's Packet, its Buffer, and what it waits for
    faults              \* what has gone wrong so far

line == <<wire, packet, faults>>

Sides == {"client", "device"}
Other(side) == IF side = "client" THEN "device" ELSE "client"

ControlC == 3
Hash     == 35
Dollar   == 36
Plus     == 43
Comma    == 44
Minus    == 45
Colon    == 58

\* "ack": of the packet sent; "start", "data", "high", "low": the next part of
\* a packet; "poll": whether another packet follows; the rest are outcomes.
Waiting == {"ack", "start", "data", "high", "low"}
Places  == Waiting \cup {"idle", "poll", "sent", "received", "failed"}

Blank == [k \in 1 .. BufferSize |-> 0]

InitPacket(buffer, at) ==
    [at |-> at, buffer |-> buffer, last |-> 0, sum |-> 0, expected |-> 0, high |-> 0]

Checksum(text) ==
    LET sum[n \in 0 .. Len(text)] == IF n = 0 THEN 0 ELSE (sum[n - 1] + text[n]) % 256
    IN  sum[Len(text)]

Framed(text) == <<Dollar>> \o text \o <<Hash>> \o HexText(<<Checksum(text)>>)

\* What may arrive of a text in which one character is lost or damaged.
Garbled(text) ==
    {SubSeq(text, 1, k - 1) \o SubSeq(text, k + 1, Len(text)) : k \in 1 .. Len(text)}
        \cup {[text EXCEPT ![k] = char] : k \in 1 .. Len(text), char \in Damages}

\* A text is put on the line, which carries `carried' already.
Transmit(carried, to, text) ==
    \/ wire' = [carried EXCEPT ![to] = @ \o text] /\ UNCHANGED faults
    \/ /\ faults < MaxFaults /\ faults' = faults + 1
       /\ \E arriving \in Garbled(text) \ {text} : wire' = [carried EXCEPT ![to] = @ \o arriving]

\* packetSend: the packet goes out, then its acknowledgement is waited for.
PacketSend(carried, side, text) ==
    /\ Transmit(carried, Other(side), Framed(text))
    /\ packet' = [packet EXCEPT ![side] =
           InitPacket(SetEndOfBuffer(WriteSizedString(BufferInit(Blank), text).buffer), "ack")]

\* The next character for a side, which is taken off the line.
NextChar(side) == Head(wire[side])
Taken(side)    == [wire EXCEPT ![side] = Tail(@)]
Reads(side, at) == packet[side].at = at /\ wire[side] # << >>

\* Reads a character that only changes what the side holds.
Consume(side, held) ==
    /\ wire' = Taken(side) /\ UNCHANGED faults
    /\ packet' = [packet EXCEPT ![side] = [held EXCEPT !.last = NextChar(side)]]

\* The start of another packet takes the place of the acknowledgement.
ReadAcknowledge(side) ==
    /\ Reads(side, "ack") /\ NextChar(side) \in {ControlC, Plus, Dollar}
    /\ Consume(side, [packet[side] EXCEPT !.at = IF NextChar(side) = ControlC THEN "ack" ELSE "sent"])

\* Anything else, a refusal or noise, has the packet sent again.
SendAgain(side) ==
    /\ Reads(side, "ack") /\ NextChar(side) \notin {ControlC, Plus, Dollar}
    /\ Transmit(Taken(side), Other(side), Framed(Text(packet[side].buffer)))
    /\ packet' = [packet EXCEPT ![side].last = NextChar(side)]

-----------------------------------------------------------------------------
\* packetGet: the data of a packet that is about to come replaces the former.
InData(held) == [held EXCEPT !.at = "data", !.buffer = BufferReset(held.buffer), !.sum = 0]

\* A start that was read as the last character is not waited for again.
AtStart(held) == IF held.last = Dollar THEN InData(held) ELSE [held EXCEPT !.at = "start"]

PacketGet == InitPacket(BufferInit(Blank), "start")

ReadStart(side) ==
    /\ Reads(side, "start")
    /\ Consume(side, IF NextChar(side) = Dollar THEN InData(packet[side]) ELSE packet[side])

ReadData(side) ==
    LET held == packet[side]
        char == NextChar(side)
    IN  /\ Reads(side, "data")
        /\ BytesLeft(held.buffer) > 0 /\ char \notin {Dollar, Hash}
        /\ Consume(side, [held EXCEPT !.buffer = WriteChar(held.buffer, char).buffer,
                                      !.sum = (held.sum + char) % 256])

\* A buffer that is full ends the data too: without # behind it, it is dropped.
ReadDataEnd(side) ==
    LET held == packet[side]
        char == NextChar(side)
    IN  /\ Reads(side, "data")
        /\ BytesLeft(held.buffer) = 0 \/ char \in {Dollar, Hash}
        /\ Consume(side, IF char = Hash THEN [held EXCEPT !.at = "high"]
                         ELSE AtStart([held EXCEPT !.last = char]))

ReadChecksumHigh(side) ==
    /\ Reads(side, "high")
    /\ Consume(side, [packet[side] EXCEPT !.at = "low", !.high = NextChar(side)])

\* The checksum is made to differ when it cannot be read.
Mismatched(held) == [held EXCEPT !.expected = 255 - held.sum, !.at = "poll"]

ReadChecksumLow(side) ==
    LET held == packet[side]
        low  == NextChar(side)
    IN  /\ Reads(side, "low")
        /\ Consume(side,
               IF IsHexDigit(held.high) /\ IsHexDigit(low)
               THEN [held EXCEPT !.expected = 16 * HexCharToNibble(held.high) + HexCharToNibble(low),
                                 !.at = "poll"]
               ELSE Mismatched(held))

\* Mutated form of IsChecksumValid: the checksum is not looked at.
IsChecksumValid_Any(held) == TRUE

IsChecksumValid(held) == held.expected = held.sum

\* A packet behind which more characters have arrived is passed over.
PassOver(side) ==
    /\ packet[side].at = "poll" /\ wire[side] # << >>
    /\ packet' = [packet EXCEPT ![side] = AtStart(@)] /\ UNCHANGED <<wire, faults>>

\* Characters on the line may not have arrived yet when they are asked for.
Acknowledge(side) ==
    LET held == packet[side]
    IN  /\ held.at = "poll" /\ IsChecksumValid(held)
        /\ packet' = [packet EXCEPT ![side] =
               [held EXCEPT !.at = "received", !.buffer = BufferReset(SetEndOfBuffer(held.buffer))]]
        /\ Transmit(wire, Other(side), <<Plus>>)

Refuse(side) ==
    /\ packet[side].at = "poll" /\ ~IsChecksumValid(packet[side])
    /\ packet' = [packet EXCEPT ![side] = AtStart(@)]
    /\ Transmit(wire, Other(side), <<Minus>>)

-----------------------------------------------------------------------------
\* Whether the device may still send something without being asked again.
Busy == wire["device"] # << >> \/ packet["device"].at \in {"poll", "sent", "received"}

\* commReceiveChar: nothing came for a second; an answer may be late once.
NothingCame ==
    /\ wire["client"] = << >> /\ packet["client"].at \in Waiting
    /\ IF Busy THEN faults < MaxFaults /\ faults' = faults + 1 ELSE UNCHANGED faults

\* Mutated form of TimedOut: an acknowledgement is waited for without an end.
TimedOut_NotForAcknowledge ==
    /\ NothingCame /\ packet["client"].at \in {"start", "data"}
    /\ packet' = [packet EXCEPT !["client"].at = "failed"] /\ UNCHANGED wire

TimedOut ==
    /\ NothingCame /\ packet["client"].at \in {"ack", "start", "data"}
    /\ packet' = [packet EXCEPT !["client"].at = "failed"] /\ UNCHANGED wire

\* A time-out while the checksum is read only makes it the wrong one.
TimedOutInChecksum ==
    /\ NothingCame /\ packet["client"].at \in {"high", "low"}
    /\ packet' = [packet EXCEPT !["client"] = Mismatched(@)] /\ UNCHANGED wire

LineInit ==
    /\ wire = [side \in Sides |-> IF side = "device" THEN <<Plus>> ELSE << >>]
    /\ packet = [side \in Sides |-> [PacketGet EXCEPT !.at = IF side = "client" THEN "idle" ELSE "start"]]
    /\ faults = 0

\* What a side does between a call of packetSend or packetGet and its return.
ReceiveChar(side) ==
    \/ ReadAcknowledge(side) \/ SendAgain(side) \/ ReadStart(side) \/ ReadData(side)
    \/ ReadDataEnd(side) \/ ReadChecksumHigh(side) \/ ReadChecksumLow(side)

JudgePacket(side) == PassOver(side) \/ Acknowledge(side) \/ Refuse(side)

LineTypeOK ==
    /\ wire \in [Sides -> Seq(ByteRange)]
    /\ faults \in 0 .. MaxFaults
    /\ \A side \in Sides :
           /\ packet[side].at \in Places /\ IsBuffer(packet[side].buffer)
           /\ packet[side].last \in ByteRange /\ packet[side].high \in ByteRange
           /\ packet[side].sum \in ByteRange /\ packet[side].expected \in ByteRange
=============================================================================
