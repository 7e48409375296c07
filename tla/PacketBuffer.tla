---------------------------- MODULE PacketBuffer ----------------------------
(***************************************************************************)
(* buffer.c: a cursor over an array of characters, which the packets to    *)
(* and from a debug monitor are written to and parsed from.  A character   *)
(* is its code.  Positions count from 0 (pStart); a cursor behind the end  *)
(* records an overrun.  Each operator gives the buffer it leaves, the      *)
(* value it returns and the exception it throws, if any.                   *)
(***************************************************************************)
EXTENDS Integers, Sequences

CONSTANT UIntBytes      \* the bytes of an unsigned integer: 4 in the code

ASSUME UIntAssumption == UIntBytes \in Nat \ {0}
ASSUME PowersAssumption ==
    256 ^ 0 = 1 /\ \A k \in 0 .. UIntBytes - 1 : 256 ^ (k + 1) = 256 * 256 ^ k

UIntRange == 256 ^ UIntBytes
UIntegers == 0 .. UIntRange - 1
ByteRange == 0 .. 255

Returns(buffer, value) == [buffer |-> buffer, value |-> value, thrown |-> "none"]
Throws(buffer, exception) == [buffer |-> buffer, value |-> 0, thrown |-> exception]

BufferInit(chars) == [chars |-> chars, pos |-> 0, end |-> Len(chars)]

BufferReset(buffer) == [buffer EXCEPT !.pos = 0]

\* Ends the buffer at the cursor; an overrun or a full one stays as it is.
SetEndOfBuffer(buffer) ==
    IF buffer.pos < buffer.end THEN [buffer EXCEPT !.end = buffer.pos] ELSE buffer

OverrunDetected(buffer) == buffer.pos > buffer.end

BytesLeft(buffer) == IF OverrunDetected(buffer) THEN 0 ELSE buffer.end - buffer.pos

\* The characters before the end, and those between the cursor and the end.
Text(buffer) == SubSeq(buffer.chars, 1, buffer.end)
Rest(buffer) == SubSeq(buffer.chars, buffer.pos + 1, buffer.end)

FlagOverrun(buffer) == [buffer EXCEPT !.pos = buffer.end + 1]

\* The text is placed at the cursor, which moves behind it.
Place(buffer, text) ==
    [buffer EXCEPT
        !.chars = [k \in DOMAIN buffer.chars |->
                      IF buffer.pos < k /\ k <= buffer.pos + Len(text)
                      THEN text[k - buffer.pos] ELSE buffer.chars[k]],
        !.pos   = buffer.pos + Len(text)]

WriteSizedString(buffer, text) ==
    IF BytesLeft(buffer) < Len(text)
    THEN Throws(FlagOverrun(buffer), "bufferOverrun")
    ELSE Returns(Place(buffer, text), 0)

WriteChar(buffer, char) == WriteSizedString(buffer, <<char>>)

ReadChar(buffer) ==
    IF BytesLeft(buffer) < 1
    THEN Throws(FlagOverrun(buffer), "bufferOverrun")
    ELSE Returns([buffer EXCEPT !.pos = buffer.pos + 1], buffer.chars[buffer.pos + 1])

-----------------------------------------------------------------------------
\* Mutated form of IsHexDigit: every character passes.
IsHexDigit_Any(char) == TRUE

\* Hexadecimal digits, in either case when read and in lower case when written.
IsHexDigit(char) == char \in (48 .. 57) \cup (65 .. 70) \cup (97 .. 102)

HexCharToNibble(char) ==
    IF char \in 97 .. 102 THEN char - 87 ELSE IF char \in 65 .. 70 THEN char - 55 ELSE char - 48

NibbleToHexChar(nibble) == IF nibble < 10 THEN nibble + 48 ELSE nibble + 87

\* Two digits per byte, the high one first.
HexText(bytes) ==
    [k \in 1 .. 2 * Len(bytes) |->
        NibbleToHexChar(IF k % 2 = 1 THEN bytes[(k + 1) \div 2] \div 16
                                     ELSE bytes[k \div 2] % 16)]

\* Byte after byte, so that those that still fit are written before the overrun.
WriteBytesAsHex(buffer, bytes) ==
    IF BytesLeft(buffer) >= 2 * Len(bytes)
    THEN Returns(Place(buffer, HexText(bytes)), 0)
    ELSE LET fitting == SubSeq(bytes, 1, BytesLeft(buffer) \div 2)
         IN  Throws(FlagOverrun(Place(buffer, HexText(fitting))), "bufferOverrun")

WriteByteAsHex(buffer, byte) == WriteBytesAsHex(buffer, <<byte>>)

\* The cursor does not move past a pair that is not of two digits.
ReadByteAsHex(buffer) ==
    LET high == buffer.chars[buffer.pos + 1]
        low  == buffer.chars[buffer.pos + 2]
    IN  IF BytesLeft(buffer) < 2
        THEN Throws(FlagOverrun(buffer), "bufferOverrun")
        ELSE IF ~IsHexDigit(high) \/ ~IsHexDigit(low)
        THEN Throws(buffer, "invalidHexDigit")
        ELSE Returns([buffer EXCEPT !.pos = buffer.pos + 2],
                     16 * HexCharToNibble(high) + HexCharToNibble(low))

-----------------------------------------------------------------------------
\* The digits at the cursor, up to the first character that is none or the end.
HexDigits(buffer) ==
    CHOOSE n \in 0 .. BytesLeft(buffer) :
        /\ \A k \in 1 .. n : IsHexDigit(buffer.chars[buffer.pos + k])
        /\ n < BytesLeft(buffer) => ~IsHexDigit(buffer.chars[buffer.pos + n + 1])

\* What the first n digits add up to: the high digits of a long number are lost.
ValueOfDigits(buffer, digits) ==
    LET value[n \in 0 .. digits] ==
            IF n = 0 THEN 0
            ELSE (16 * value[n - 1] + HexCharToNibble(buffer.chars[buffer.pos + n])) % UIntRange
    IN  value[digits]

\* The overrun, or the character read too far, that ended the number is undone.
ReadUIntegerAsHex(buffer) ==
    LET digits == HexDigits(buffer)
        behind == IF OverrunDetected(buffer) THEN [buffer EXCEPT !.pos = buffer.end]
                  ELSE [buffer EXCEPT !.pos = buffer.pos + digits]
    IN  IF digits = 0 THEN Throws(behind, "invalidValue")
        ELSE Returns(behind, ValueOfDigits(buffer, digits))

ByteAtIndex(value, index) == (value \div (256 ^ index)) % 256

LeadingZeroBytes(value) ==
    CHOOSE count \in 0 .. UIntBytes :
        /\ value < 256 ^ (UIntBytes - count)
        /\ count < UIntBytes => value >= 256 ^ (UIntBytes - count - 1)

\* Whole bytes without leading zeros, but one byte at least.
BytesOfUInteger(value) ==
    LET bytes == IF value = 0 THEN 1 ELSE UIntBytes - LeadingZeroBytes(value)
    IN  [k \in 1 .. bytes |-> ByteAtIndex(value, bytes - k)]

WriteUIntegerAsHex(buffer, value) == WriteBytesAsHex(buffer, BytesOfUInteger(value))

-----------------------------------------------------------------------------
\* A text that is there is stepped over; too short a buffer is no overrun yet.
IsNextCharEqualTo(buffer, char) ==
    IF BytesLeft(buffer) < 1 THEN Throws(buffer, "bufferOverrun")
    ELSE IF buffer.chars[buffer.pos + 1] = char
    THEN Returns([buffer EXCEPT !.pos = buffer.pos + 1], 1)
    ELSE Returns(buffer, 0)

\* The text has to reach to the end of the buffer or to a colon.
MatchesString(buffer, text) ==
    LET length  == Len(text)
        matches == /\ \A k \in 1 .. length : buffer.chars[buffer.pos + k] = text[k]
                   /\ \/ BytesLeft(buffer) = length
                      \/ buffer.chars[buffer.pos + length + 1] = 58
    IN  IF BytesLeft(buffer) < length THEN Throws(buffer, "bufferOverrun")
        ELSE IF matches THEN Returns([buffer EXCEPT !.pos = buffer.pos + length], 1)
        ELSE Returns(buffer, 0)

\* A minus sign and a magnitude; a magnitude that has no such integer is refused.
ReadIntegerAsHex(buffer) ==
    LET sign     == IsNextCharEqualTo(buffer, 45)
        number   == ReadUIntegerAsHex(sign.buffer)
        positive == IF sign.value = 0 THEN 1 ELSE 0
    IN  IF sign.thrown # "none" THEN sign
        ELSE IF number.thrown # "none" THEN number
        ELSE IF number.value > (UIntRange \div 2) - positive
        THEN Throws(number.buffer, "invalidValue")
        ELSE Returns(number.buffer, IF sign.value = 1 THEN -number.value ELSE number.value)

\* The smallest integer is its own absolute value: it is written as it stands.
WriteIntegerAsHex(buffer, value) ==
    LET sign == WriteChar(buffer, 45)
    IN  IF value >= 0 THEN WriteUIntegerAsHex(buffer, value)
        ELSE IF sign.thrown # "none" THEN sign
        ELSE WriteUIntegerAsHex(sign.buffer, -value)

-----------------------------------------------------------------------------
\* A buffer as bufferInit and the other operators leave it.
IsBuffer(buffer) ==
    /\ buffer = [chars |-> buffer.chars, pos |-> buffer.pos, end |-> buffer.end]
    /\ buffer.chars \in Seq(ByteRange)
    /\ buffer.end \in 0 .. Len(buffer.chars)
    /\ buffer.pos \in 0 .. buffer.end + 1
=============================================================================
