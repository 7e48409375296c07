-------------------------- MODULE Thunk2RealProofs --------------------------
(***************************************************************************)
(* The remote calls of a step, for buffers of any size, unsigned integers  *)
(* of any width and every program of the device.                           *)
(*                                                                         *)
(* The first half is about every line: whatever it loses or damages,       *)
(* cursors stay within their buffers, what is sent are characters, and     *)
(* what a call returns is what its caller takes it for.                    *)
(*                                                                         *)
(* The second half is about a line that has made no fault.  What one side  *)
(* writes is read back by the other; a call passes through phases, from    *)
(* the request on its way to the monitor to the response received by the   *)
(* client; so it fails only for a cause, keeps the promise of RemoteCall,  *)
(* and a step made of such calls tells what has been executed.             *)
(***************************************************************************)
EXTENDS Thunk2Real, SequenceTheorems, WellFoundedInduction, TLAPS

\* A set of numbers has a lowest one.
LEMMA LowestOf ==
    ASSUME NEW S, S \subseteq Nat, S # {}
    PROVE  \E m \in S : \A j \in S : m <= j
<1>1. IsWellFoundedOn(OpToRel(<, Nat), Nat)
  BY NatLessThanWellFounded
<1>2. PICK m \in S : \A j \in S : ~(<<j, m>> \in OpToRel(<, Nat))
  BY <1>1, WFMin
<1>3. ASSUME NEW j \in S
      PROVE  m <= j
  <2>1. <<j, m>> \notin {ss \in Nat \X Nat : ss[1] < ss[2]}
    BY <1>2 DEF OpToRel
  <2>2. QED
    BY <2>1
<1>4. QED
  BY <1>3

\* What the parts of a buffer are.
LEMMA BufferParts ==
    ASSUME NEW buffer, IsBuffer(buffer)
    PROVE  /\ Len(buffer.chars) \in Nat /\ DOMAIN buffer.chars = 1 .. Len(buffer.chars)
           /\ buffer.end \in Nat /\ buffer.end <= Len(buffer.chars)
           /\ buffer.pos \in Nat /\ buffer.pos <= buffer.end + 1
           /\ BytesLeft(buffer) \in Nat
           /\ ~OverrunDetected(buffer) => BytesLeft(buffer) = buffer.end - buffer.pos
           /\ BytesLeft(buffer) > 0 => BytesLeft(buffer) = buffer.end - buffer.pos
<1>1. /\ Len(buffer.chars) \in Nat /\ DOMAIN buffer.chars = 1 .. Len(buffer.chars)
      /\ buffer.end \in 0 .. Len(buffer.chars) /\ buffer.pos \in 0 .. buffer.end + 1
  BY DEF IsBuffer
<1>2. QED
  BY <1>1 DEF BytesLeft, OverrunDetected

\* Its fields may be changed one by one.
LEMMA MovedBuffer ==
    ASSUME NEW buffer, IsBuffer(buffer), NEW pos \in 0 .. buffer.end + 1
    PROVE  LET moved == [buffer EXCEPT !.pos = pos]
           IN  /\ IsBuffer(moved) /\ moved.pos = pos
               /\ moved.end = buffer.end /\ moved.chars = buffer.chars
BY DEF IsBuffer

LEMMA FlaggedBuffer ==
    ASSUME NEW buffer, IsBuffer(buffer)
    PROVE  /\ IsBuffer(FlagOverrun(buffer)) /\ OverrunDetected(FlagOverrun(buffer))
           /\ FlagOverrun(buffer).end = buffer.end /\ FlagOverrun(buffer).chars = buffer.chars
<1>1. buffer.end + 1 \in 0 .. buffer.end + 1
  BY BufferParts
<1>2. /\ IsBuffer(FlagOverrun(buffer)) /\ FlagOverrun(buffer).pos = buffer.end + 1
      /\ FlagOverrun(buffer).end = buffer.end /\ FlagOverrun(buffer).chars = buffer.chars
  BY <1>1, MovedBuffer DEF FlagOverrun
<1>3. QED
  BY <1>2, BufferParts DEF OverrunDetected

\* A text that fits is at the cursor, and nothing else of the buffer changes.
LEMMA PlacedText ==
    ASSUME NEW buffer, IsBuffer(buffer), NEW text \in Seq(ByteRange),
           Len(text) <= BytesLeft(buffer)
    PROVE  LET placed == Place(buffer, text)
           IN  /\ IsBuffer(placed) /\ placed.end = buffer.end
               /\ DOMAIN placed.chars = DOMAIN buffer.chars
               /\ text # << >> => placed.pos = buffer.pos + Len(text) /\ ~OverrunDetected(placed)
               /\ \A k \in 1 .. Len(text) : placed.chars[buffer.pos + k] = text[k]
               /\ \A k \in DOMAIN buffer.chars :
                      k <= buffer.pos \/ k > buffer.pos + Len(text) => placed.chars[k] = buffer.chars[k]
<1> DEFINE pos    == buffer.pos
           length == Len(text)
           placed == Place(buffer, text)
           chars  == [k \in DOMAIN buffer.chars |->
                          IF pos < k /\ k <= pos + length THEN text[k - pos] ELSE buffer.chars[k]]
<1>1. /\ pos \in Nat /\ length \in Nat /\ buffer.end \in Nat
      /\ Len(buffer.chars) \in Nat /\ DOMAIN buffer.chars = 1 .. Len(buffer.chars)
      /\ buffer.end <= Len(buffer.chars) /\ pos <= buffer.end + 1
  BY BufferParts
<1>2. length > 0 => pos + length <= buffer.end
  BY <1>1, BufferParts
<1>3. \A k \in DOMAIN buffer.chars : buffer.chars[k] \in ByteRange
  BY <1>1 DEF IsBuffer
<1>4. \A k \in 1 .. length : text[k] \in ByteRange
  OBVIOUS
<1>5. placed = [buffer EXCEPT !.chars = chars, !.pos = pos + length]
  BY DEF Place
<1> HIDE DEF placed, length, pos
<1>6. \A k \in DOMAIN buffer.chars : chars[k] \in ByteRange
  BY <1>1, <1>3, <1>4
<1>7. chars \in [1 .. Len(buffer.chars) -> ByteRange]
  BY <1>1, <1>6
<1>8. chars \in Seq(ByteRange) /\ Len(chars) = Len(buffer.chars)
  BY <1>1, <1>7
<1>9. DOMAIN chars = DOMAIN buffer.chars
  OBVIOUS
<1>10. \A k \in 1 .. length : chars[pos + k] = text[k]
  <2> SUFFICES ASSUME NEW k \in 1 .. length
               PROVE  chars[pos + k] = text[k]
    OBVIOUS
  <2>1. pos + k \in DOMAIN buffer.chars /\ pos < pos + k /\ pos + k <= pos + length /\ (pos + k) - pos = k
    BY <1>1, <1>2
  <2>2. QED
    BY <2>1
<1>11. \A k \in DOMAIN buffer.chars : k <= pos \/ k > pos + length => chars[k] = buffer.chars[k]
  BY <1>1
<1> HIDE DEF chars
<1>12. /\ placed.chars = chars /\ placed.pos = pos + length /\ placed.end = buffer.end
       /\ placed = [chars |-> placed.chars, pos |-> placed.pos, end |-> placed.end]
  BY <1>5 DEF IsBuffer
<1>13. pos + length \in 0 .. buffer.end + 1
  BY <1>1, <1>2
<1>14. IsBuffer(placed)
  BY <1>1, <1>8, <1>12, <1>13 DEF IsBuffer
<1>15. text # << >> => ~OverrunDetected(placed)
  <2>1. text # << >> => length > 0
    BY DEF length
  <2>2. QED
    BY <1>1, <1>2, <1>12, <2>1 DEF OverrunDetected
<1>16. QED
  BY <1>9, <1>10, <1>11, <1>12, <1>14, <1>15 DEF placed, length, pos

-----------------------------------------------------------------------------
(* Hexadecimal digits.                                                     *)

\* A nibble is the value of its digit.
LEMMA DigitOfNibble ==
    ASSUME NEW nibble \in 0 .. 15
    PROVE  /\ NibbleToHexChar(nibble) \in ByteRange
           /\ IsHexDigit(NibbleToHexChar(nibble))
           /\ HexCharToNibble(NibbleToHexChar(nibble)) = nibble
BY DEF NibbleToHexChar, IsHexDigit, HexCharToNibble, ByteRange

\* The text of the bytes is twice as long, a byte's digits one behind the other.
LEMMA DigitsOfBytes ==
    ASSUME NEW bytes \in Seq(ByteRange)
    PROVE  /\ HexText(bytes) \in Seq(ByteRange) /\ Len(HexText(bytes)) = 2 * Len(bytes)
           /\ \A k \in 1 .. Len(bytes) :
                  /\ HexText(bytes)[2 * k - 1] = NibbleToHexChar(bytes[k] \div 16)
                  /\ HexText(bytes)[2 * k] = NibbleToHexChar(bytes[k] % 16)
<1> DEFINE length == Len(bytes)
           digit(k) == NibbleToHexChar(IF k % 2 = 1 THEN bytes[(k + 1) \div 2] \div 16
                                                   ELSE bytes[k \div 2] % 16)
           text == [k \in 1 .. 2 * length |-> digit(k)]
<1>1. length \in Nat /\ \A k \in 1 .. length : bytes[k] \in ByteRange
  OBVIOUS
<1>2. text = HexText(bytes)
  BY DEF HexText
<1>3. \A k \in 1 .. 2 * length : digit(k) \in ByteRange
  <2> SUFFICES ASSUME NEW k \in 1 .. 2 * length
               PROVE  digit(k) \in ByteRange
    OBVIOUS
  <2>1. CASE k % 2 = 1
    <3>1. (k + 1) \div 2 \in 1 .. length
      <4> HIDE DEF length
      <4>1. QED
        BY <1>1, <2>1
    <3>2. bytes[(k + 1) \div 2] \div 16 \in 0 .. 15
      <4>1. bytes[(k + 1) \div 2] \in 0 .. 255
        BY <1>1, <3>1 DEF ByteRange
      <4>2. \A b \in 0 .. 255 : b \div 16 \in 0 .. 15
        OBVIOUS
      <4>3. QED
        BY <4>1, <4>2
    <3>3. QED
      BY <2>1, <3>2, DigitOfNibble
  <2>2. CASE k % 2 # 1
    <3>1. k \div 2 \in 1 .. length
      <4> HIDE DEF length
      <4>1. QED
        BY <1>1, <2>2
    <3>2. bytes[k \div 2] % 16 \in 0 .. 15
      <4>1. bytes[k \div 2] \in 0 .. 255
        BY <1>1, <3>1 DEF ByteRange
      <4>2. \A b \in 0 .. 255 : b % 16 \in 0 .. 15
        OBVIOUS
      <4>3. QED
        BY <4>1, <4>2
    <3>3. QED
      BY <2>2, <3>2, DigitOfNibble
  <2>3. QED
    BY <2>1, <2>2
<1>4. text \in Seq(ByteRange) /\ Len(text) = 2 * length
  <2>1. 2 * length \in Nat
    BY <1>1
  <2>2. text \in [1 .. 2 * length -> ByteRange]
    <3> HIDE DEF digit
    <3>1. QED
      BY <1>3
  <2> HIDE DEF text, length
  <2>3. QED
    BY <2>1, <2>2
<1>5. ASSUME NEW k \in 1 .. length
      PROVE  text[2 * k - 1] = NibbleToHexChar(bytes[k] \div 16) /\ text[2 * k] = NibbleToHexChar(bytes[k] % 16)
  <2>1. /\ 2 * k - 1 \in 1 .. 2 * length /\ (2 * k - 1) % 2 = 1 /\ ((2 * k - 1) + 1) \div 2 = k
        /\ 2 * k \in 1 .. 2 * length /\ (2 * k) % 2 # 1 /\ (2 * k) \div 2 = k
    <3> HIDE DEF length
    <3>1. QED
      BY <1>1
  <2>2. text[2 * k - 1] = digit(2 * k - 1) /\ text[2 * k] = digit(2 * k)
    BY <2>1
  <2>3. QED
    BY <2>1, <2>2
<1>6. QED
  BY <1>2, <1>4, <1>5

-----------------------------------------------------------------------------
(* Writing.                                                                *)

\* buffer.c's writers leave a buffer with the end it had, and throw if and only
\* if the text does not fit; then an overrun is recorded.
THEOREM WritersKeepBuffer ==
    ASSUME NEW buffer, IsBuffer(buffer), NEW text \in Seq(ByteRange)
    PROVE  LET written == WriteSizedString(buffer, text)
           IN  /\ IsBuffer(written.buffer) /\ written.buffer.end = buffer.end
               /\ written.thrown = "none" <=> Len(text) <= BytesLeft(buffer)
               /\ written.thrown # "none" =>
                      OverrunDetected(written.buffer) /\ written.buffer.chars = buffer.chars
<1> DEFINE written == WriteSizedString(buffer, text)
<1>1. BytesLeft(buffer) \in Nat /\ Len(text) \in Nat
  BY BufferParts
<1>2. CASE BytesLeft(buffer) < Len(text)
  <2>1. written = Throws(FlagOverrun(buffer), "bufferOverrun")
    BY <1>2 DEF WriteSizedString
  <2>2. written.buffer = FlagOverrun(buffer) /\ written.thrown = "bufferOverrun"
    BY <2>1 DEF Throws
  <2> HIDE DEF written
  <2>3. QED
    BY <1>1, <1>2, <2>2, FlaggedBuffer DEF written
<1>3. CASE ~(BytesLeft(buffer) < Len(text))
  <2>1. written = Returns(Place(buffer, text), 0)
    BY <1>3 DEF WriteSizedString
  <2>2. written.buffer = Place(buffer, text) /\ written.thrown = "none"
    BY <2>1 DEF Returns
  <2>3. Len(text) <= BytesLeft(buffer)
    BY <1>1, <1>3
  <2>4. IsBuffer(Place(buffer, text)) /\ Place(buffer, text).end = buffer.end
    BY <2>3, PlacedText
  <2> HIDE DEF written
  <2>5. QED
    BY <2>2, <2>3, <2>4 DEF written
<1>4. QED
  BY <1>2, <1>3

\* Once an overrun is recorded, the next character that is written or read
\* throws, leaves the record and changes no character: a packet that was too
\* long is never taken for a shorter one.
THEOREM OverrunIsSticky ==
    ASSUME NEW buffer, IsBuffer(buffer), OverrunDetected(buffer), NEW char \in ByteRange
    PROVE  \A taken \in {WriteChar(buffer, char), ReadChar(buffer), ReadByteAsHex(buffer)} :
               /\ taken.thrown = "bufferOverrun"
               /\ IsBuffer(taken.buffer) /\ OverrunDetected(taken.buffer)
               /\ taken.buffer.chars = buffer.chars /\ taken.buffer.end = buffer.end
<1>1. BytesLeft(buffer) = 0
  BY DEF BytesLeft
<1>2. Len(<<char>>) = 1
  OBVIOUS
<1>3. WriteChar(buffer, char) = Throws(FlagOverrun(buffer), "bufferOverrun")
  BY <1>1, <1>2 DEF WriteChar, WriteSizedString
<1>4. ReadChar(buffer) = Throws(FlagOverrun(buffer), "bufferOverrun")
  BY <1>1 DEF ReadChar
<1>5. ReadByteAsHex(buffer) = Throws(FlagOverrun(buffer), "bufferOverrun")
  BY <1>1 DEF ReadByteAsHex
<1>6. LET thrown == Throws(FlagOverrun(buffer), "bufferOverrun")
      IN  thrown.thrown = "bufferOverrun" /\ thrown.buffer = FlagOverrun(buffer)
  BY DEF Throws
<1>7. QED
  BY <1>3, <1>4, <1>5, <1>6, FlaggedBuffer

\* Bytes that were written in hexadecimal are read back one by one as they were,
\* wherever they are and however many they are.
THEOREM BytesAreReadBack ==
    ASSUME NEW buffer, IsBuffer(buffer), NEW bytes \in Seq(ByteRange),
           2 * Len(bytes) <= BytesLeft(buffer), NEW k \in 1 .. Len(bytes)
    PROVE  LET written == WriteBytesAsHex(buffer, bytes)
               back    == [written.buffer EXCEPT !.pos = buffer.pos + 2 * (k - 1)]
               read    == ReadByteAsHex(back)
           IN  /\ written.thrown = "none" /\ IsBuffer(written.buffer) /\ IsBuffer(back)
               /\ read.thrown = "none" /\ read.value = bytes[k]
               /\ read.buffer = [back EXCEPT !.pos = buffer.pos + 2 * k]
<1> DEFINE text    == HexText(bytes)
           placed  == Place(buffer, text)
           written == WriteBytesAsHex(buffer, bytes)
           pos     == buffer.pos + 2 * (k - 1)
           back    == [written.buffer EXCEPT !.pos = pos]
           high    == NibbleToHexChar(bytes[k] \div 16)
           low     == NibbleToHexChar(bytes[k] % 16)
<1>1. /\ buffer.pos \in Nat /\ buffer.end \in Nat /\ BytesLeft(buffer) = buffer.end - buffer.pos
      /\ Len(bytes) \in Nat
  BY BufferParts
<1>2. written.buffer = placed /\ written.thrown = "none"
  BY <1>1 DEF WriteBytesAsHex, Returns
<1>3. /\ text \in Seq(ByteRange) /\ Len(text) = 2 * Len(bytes)
      /\ text[2 * k - 1] = high /\ text[2 * k] = low
  BY DigitsOfBytes
<1>4. /\ IsBuffer(placed) /\ placed.end = buffer.end
      /\ \A n \in 1 .. Len(text) : placed.chars[buffer.pos + n] = text[n]
  <2> HIDE DEF text
  <2>1. QED
    BY <1>3, PlacedText
<1>5. /\ 2 * k - 1 \in 1 .. Len(text) /\ 2 * k \in 1 .. Len(text)
      /\ pos \in 0 .. buffer.end + 1 /\ buffer.end - pos >= 2 /\ pos <= buffer.end
      /\ pos + 1 = buffer.pos + (2 * k - 1) /\ pos + 2 = buffer.pos + 2 * k
  <2> HIDE DEF text
  <2>1. QED
    BY <1>1, <1>3
<1> HIDE DEF text, placed, written, high, low, pos
<1>6. placed.chars[pos + 1] = high /\ placed.chars[pos + 2] = low
  BY <1>3, <1>4, <1>5
<1>7. IsBuffer(back) /\ back.pos = pos /\ back.end = buffer.end /\ back.chars = placed.chars
  <2>1. back = [placed EXCEPT !.pos = pos]
    BY <1>2
  <2> HIDE DEF back
  <2>2. QED
    BY <1>4, <1>5, <2>1, MovedBuffer
<1> HIDE DEF back
<1>8. ~(BytesLeft(back) < 2)
  <2>1. ~OverrunDetected(back)
    BY <1>1, <1>5, <1>7 DEF OverrunDetected
  <2>2. BytesLeft(back) = buffer.end - pos
    BY <1>7, <2>1 DEF BytesLeft
  <2>3. QED
    BY <1>1, <1>5, <2>2
<1>9. /\ bytes[k] \in 0 .. 255 /\ bytes[k] \div 16 \in 0 .. 15 /\ bytes[k] % 16 \in 0 .. 15
      /\ 16 * (bytes[k] \div 16) + (bytes[k] % 16) = bytes[k]
  <2>0. bytes[k] \in ByteRange
    OBVIOUS
  <2>1. bytes[k] \in 0 .. 255
    BY <2>0 DEF ByteRange
  <2>2. \A b \in 0 .. 255 : b \div 16 \in 0 .. 15 /\ b % 16 \in 0 .. 15 /\ 16 * (b \div 16) + (b % 16) = b
    OBVIOUS
  <2>3. QED
    BY <2>1, <2>2
<1>10. /\ IsHexDigit(high) /\ IsHexDigit(low)
       /\ HexCharToNibble(high) = bytes[k] \div 16 /\ HexCharToNibble(low) = bytes[k] % 16
  BY <1>9, DigitOfNibble DEF high, low
<1>11. ReadByteAsHex(back) = Returns([back EXCEPT !.pos = back.pos + 2],
                                     16 * HexCharToNibble(high) + HexCharToNibble(low))
  BY <1>6, <1>7, <1>8, <1>10 DEF ReadByteAsHex
<1>12. ReadByteAsHex(back) = Returns([back EXCEPT !.pos = buffer.pos + 2 * k], bytes[k])
  BY <1>5, <1>7, <1>9, <1>10, <1>11
<1>13. QED
  BY <1>2, <1>4, <1>7, <1>12 DEF Returns, back, pos, written

-----------------------------------------------------------------------------
(* Reading.                                                                *)

\* The digits of a number end at the first character that is none.
LEMMA DigitsEnd ==
    ASSUME NEW buffer, IsBuffer(buffer)
    PROVE  /\ HexDigits(buffer) \in 0 .. BytesLeft(buffer)
           /\ \A k \in 1 .. HexDigits(buffer) : IsHexDigit(buffer.chars[buffer.pos + k])
           /\ HexDigits(buffer) < BytesLeft(buffer) =>
                  ~IsHexDigit(buffer.chars[buffer.pos + HexDigits(buffer) + 1])
<1> DEFINE left     == BytesLeft(buffer)
           digit(k) == IsHexDigit(buffer.chars[buffer.pos + k])
           Stops(n)  == (\A k \in 1 .. n : digit(k)) /\ (n < left => ~digit(n + 1))
           Others   == {k \in 1 .. left : ~digit(k)}
<1>1. left \in Nat /\ buffer.pos \in Nat
  BY BufferParts
<1>2. \E n \in 0 .. left : Stops(n)
  <2> HIDE DEF left, digit
  <2>1. CASE Others = {}
    BY <1>1, <2>1
  <2>2. CASE Others # {}
    <3>0. Others \subseteq Nat
      BY <1>1
    <3>1. PICK m \in Others : \A j \in Others : m <= j
      <4> HIDE DEF Others
      <4>1. QED
        BY <2>2, <3>0, LowestOf
    <3>2. m - 1 \in 0 .. left /\ (m - 1) + 1 = m /\ \A k \in 1 .. m - 1 : digit(k)
      BY <1>1, <3>1
    <3>3. QED
      BY <3>1, <3>2
  <2>3. QED
    BY <2>1, <2>2
<1>3. \A n \in 0 .. left : buffer.pos + n + 1 = buffer.pos + (n + 1)
  BY <1>1
<1>4. HexDigits(buffer) = CHOOSE n \in 0 .. left : Stops(n)
  BY <1>1, <1>3 DEF HexDigits
<1>5. HexDigits(buffer) \in 0 .. left /\ Stops(HexDigits(buffer))
  <2> HIDE DEF left, digit, Stops
  <2>1. QED
    BY <1>2, <1>4, Zenon
<1>6. QED
  BY <1>3, <1>5

\* Reading a number changes no character and leaves the cursor between where it
\* was and the end, behind the digits; it throws if and only if there is none.
\* The overrun that ends a number at the end of the buffer is undone, and so is
\* one that was there before: after the call no overrun is recorded.
THEOREM NumbersHideOverruns ==
    ASSUME NEW buffer, IsBuffer(buffer)
    PROVE  LET read == ReadUIntegerAsHex(buffer)
           IN  /\ IsBuffer(read.buffer) /\ ~OverrunDetected(read.buffer)
               /\ read.buffer.chars = buffer.chars /\ read.buffer.end = buffer.end
               /\ read.thrown = "none" <=> HexDigits(buffer) # 0
               /\ ~OverrunDetected(buffer) => read.buffer.pos = buffer.pos + HexDigits(buffer)
<1> DEFINE digits == HexDigits(buffer)
           read   == ReadUIntegerAsHex(buffer)
           pos    == IF OverrunDetected(buffer) THEN buffer.end ELSE buffer.pos + digits
           behind == [buffer EXCEPT !.pos = pos]
<1>1. /\ buffer.pos \in Nat /\ buffer.end \in Nat /\ digits \in 0 .. BytesLeft(buffer)
      /\ BytesLeft(buffer) \in Nat
      /\ ~OverrunDetected(buffer) => BytesLeft(buffer) = buffer.end - buffer.pos
  BY BufferParts, DigitsEnd
<1>2. /\ digits = 0 => read = Throws(behind, "invalidValue")
      /\ digits # 0 => read = Returns(behind, ValueOfDigits(buffer, digits))
  BY DEF ReadUIntegerAsHex
<1>3. read.buffer = behind /\ (read.thrown = "none" <=> digits # 0)
  <2> HIDE DEF digits, read, behind
  <2>1. CASE digits = 0
    BY <1>2, <2>1 DEF Throws
  <2>2. CASE digits # 0
    BY <1>2, <2>2 DEF Returns
  <2>3. QED
    BY <2>1, <2>2
<1> HIDE DEF digits, read
<1>4. pos \in 0 .. buffer.end
  BY <1>1
<1>5. ~OverrunDetected(buffer) => pos = buffer.pos + digits
  OBVIOUS
<1> HIDE DEF pos
<1>6. IsBuffer(behind) /\ behind.pos = pos /\ behind.end = buffer.end /\ behind.chars = buffer.chars
  BY <1>1, <1>4, MovedBuffer
<1> HIDE DEF behind
<1>7. ~OverrunDetected(behind)
  BY <1>1, <1>4, <1>6 DEF OverrunDetected
<1>8. QED
  BY <1>3, <1>5, <1>6, <1>7 DEF digits, read

-----------------------------------------------------------------------------
(* Recursive functions over the numbers up to a bound.                     *)

\* What holds at 0 and is passed on by every step holds up to the bound.
LEMMA PassedOn ==
    ASSUME NEW S, NEW N \in Nat, NEW f, f[0] \in S,
           \A n \in 1 .. N : f[n - 1] \in S => f[n] \in S
    PROVE  \A n \in 0 .. N : f[n] \in S
<1> DEFINE bad == {n \in 0 .. N : f[n] \notin S}
<1> SUFFICES ASSUME bad # {} PROVE FALSE
  OBVIOUS
<1>1. PICK m \in bad : \A j \in bad : m <= j
  <2>1. bad \subseteq Nat
    OBVIOUS
  <2> HIDE DEF bad
  <2> QED BY <2>1, LowestOf
<1>2. m \in 1 .. N /\ m - 1 \in 0 .. N /\ ~(m <= m - 1)
  OBVIOUS
<1>3. f[m - 1] \in S
  BY <1>1, <1>2
<1> QED BY <1>2, <1>3

\* The value of f at 0, and a step from each number to the next.
Recursion(f, N, start, step) == f[0] = start /\ \A n \in 1 .. N : f[n] = step[n][f[n - 1]]

\* They define a function.
LEMMA RecursionIs ==
    ASSUME NEW S, NEW N \in Nat, NEW start \in S, NEW step \in [1 .. N -> [S -> S]]
    PROVE  \E f \in [0 .. N -> S] : Recursion(f, N, start, step)
<1> DEFINE Good(m, f) == Recursion(f, m, start, step)
           bad == {m \in 0 .. N : ~\E f \in [0 .. m -> S] : Good(m, f)}
<1> SUFFICES ASSUME bad # {} PROVE FALSE
  <2>1. N \in 0 .. N
    OBVIOUS
  <2> QED BY <2>1, Zenon
<1>1. PICK m \in bad : \A j \in bad : m <= j
  <2>1. bad \subseteq Nat
    OBVIOUS
  <2> HIDE DEF bad
  <2> QED BY <2>1, LowestOf
<1>2. m \in 0 .. N /\ ~\E f \in [0 .. m -> S] : Good(m, f)
  OBVIOUS
<1>3. m # 0
  <2> DEFINE g == [n \in 0 .. 0 |-> start]
  <2>1. g \in [0 .. 0 -> S] /\ Good(0, g)
    BY DEF Recursion
  <2> QED BY <1>2, <2>1
<1>4. m \in 1 .. N /\ m - 1 \in 0 .. N /\ ~(m <= m - 1)
  BY <1>2, <1>3
<1>5. PICK f \in [0 .. m - 1 -> S] : Good(m - 1, f)
  BY <1>1, <1>4
<1> DEFINE g == [n \in 0 .. m |-> IF n = m THEN step[m][f[m - 1]] ELSE f[n]]
<1>6. step[m][f[m - 1]] \in S
  BY <1>4
<1>7. g \in [0 .. m -> S]
  BY <1>4, <1>6
<1>8. g[0] = start
  BY <1>4, <1>5 DEF Recursion
<1>9. ASSUME NEW n \in 1 .. m PROVE g[n] = step[n][g[n - 1]]
  <2>1. CASE n = m
    <3>1. g[m - 1] = f[m - 1] /\ g[m] = step[m][f[m - 1]]
      BY <1>4
    <3> QED BY <2>1, <3>1
  <2>2. CASE n # m
    <3>1. n \in 1 .. m - 1 /\ g[n] = f[n] /\ g[n - 1] = f[n - 1]
      BY <1>4, <2>2
    <3> QED BY <1>5, <3>1 DEF Recursion
  <2> QED BY <2>1, <2>2
<1> HIDE DEF g
<1>10. Good(m, g)
  BY <1>8, <1>9 DEF Recursion
<1> QED BY <1>2, <1>7, <1>10

-----------------------------------------------------------------------------
(* Checksums and numbers.                                                  *)

\* The powers that assumption PowersAssumption relates are positive numbers.
LEMMA PowersAre ==
    /\ UIntBytes \in Nat \ {0}
    /\ \A k \in 0 .. UIntBytes : 256 ^ k \in Nat \ {0}
    /\ UIntRange \in Nat /\ UIntRange >= 256
<1> DEFINE f == [k \in 0 .. UIntBytes |-> 256 ^ k]
<1>1. UIntBytes \in Nat \ {0}
  BY UIntAssumption
<1>2. 256 ^ 0 = 1 /\ \A k \in 0 .. UIntBytes - 1 : 256 ^ (k + 1) = 256 * 256 ^ k
  BY PowersAssumption
<1>3. f[0] = 1
  BY <1>1, <1>2
<1>4. ASSUME NEW n \in 1 .. UIntBytes PROVE f[n] = 256 * f[n - 1]
  <2>1. n - 1 \in 0 .. UIntBytes - 1 /\ (n - 1) + 1 = n /\ n - 1 \in 0 .. UIntBytes
    BY <1>1
  <2> QED BY <1>1, <1>2, <2>1
<1> HIDE DEF f
<1>5. \A n \in 0 .. UIntBytes : f[n] \in Nat \ {0}
  <2>1. \A n \in 1 .. UIntBytes : f[n - 1] \in Nat \ {0} => f[n] \in Nat \ {0}
    BY <1>4
  <2>2. f[0] \in Nat \ {0}
    BY <1>3
  <2> QED BY <1>1, <2>1, <2>2, PassedOn
<1>6. UIntRange = f[UIntBytes]
  BY <1>1 DEF f, UIntRange
<1>7. f[UIntBytes] = 256 * f[UIntBytes - 1] /\ f[UIntBytes - 1] \in Nat \ {0}
  BY <1>1, <1>4, <1>5
<1> QED BY <1>1, <1>5, <1>6, <1>7 DEF f

\* The checksum of a text so far.
SumOf(text) ==
    LET sum[n \in 0 .. Len(text)] == IF n = 0 THEN 0 ELSE (sum[n - 1] + text[n]) % 256
    IN  sum

\* It grows by a character at a time, stays a byte, and ends as the checksum.
LEMMA SumOfIs ==
    ASSUME NEW text \in Seq(ByteRange)
    PROVE  /\ SumOf(text)[0] = 0 /\ SumOf(text)[Len(text)] = Checksum(text)
           /\ \A n \in 0 .. Len(text) : SumOf(text)[n] \in ByteRange
           /\ \A n \in 1 .. Len(text) : SumOf(text)[n] = (SumOf(text)[n - 1] + text[n]) % 256
<1> DEFINE N    == Len(text)
           Is(f) == f = [n \in 0 .. N |-> IF n = 0 THEN 0 ELSE (f[n - 1] + text[n]) % 256]
           step == [n \in 1 .. N |-> [a \in ByteRange |-> (a + text[n]) % 256]]
           sum  == CHOOSE f : Is(f)
<1>1. N \in Nat /\ \A n \in 1 .. N : text[n] \in ByteRange
  OBVIOUS
<1>2. \A a, b \in ByteRange : (a + b) % 256 \in ByteRange
  BY DEF ByteRange
<1> HIDE DEF N
<1>3. step \in [1 .. N -> [ByteRange -> ByteRange]]
  BY <1>1, <1>2
<1>4. \A a \in ByteRange, n \in 1 .. N : step[n][a] = (a + text[n]) % 256
  OBVIOUS
<1>5. 0 \in ByteRange
  BY DEF ByteRange
<1> HIDE DEF step
<1>6. PICK f \in [0 .. N -> ByteRange] : Recursion(f, N, 0, step)
  <2>1. N \in Nat
    BY <1>1
  <2> QED BY <1>3, <1>5, <2>1, RecursionIs, Zenon
<1>7. Is(f)
  <2>1. ASSUME NEW n \in 0 .. N PROVE f[n] = IF n = 0 THEN 0 ELSE (f[n - 1] + text[n]) % 256
    <3>1. CASE n = 0
      BY <1>6, <3>1 DEF Recursion
    <3>2. CASE n # 0
      <4>1. n \in 1 .. N /\ f[n - 1] \in ByteRange
        BY <1>1, <3>2
      <4>2. f[n] = step[n][f[n - 1]]
        BY <1>6, <4>1 DEF Recursion
      <4>3. step[n][f[n - 1]] = (f[n - 1] + text[n]) % 256
        BY <1>4, <4>1
      <4> QED BY <3>2, <4>2, <4>3
    <3> QED BY <3>1, <3>2
  <2> QED BY <2>1
<1>8. Is(sum)
  <2> HIDE DEF Is
  <2> QED BY <1>7, Zenon
<1> HIDE DEF sum
<1>9. sum[0] = 0 /\ \A n \in 1 .. N : sum[n] = (sum[n - 1] + text[n]) % 256
  BY <1>1, <1>8
<1>10. \A n \in 0 .. N : sum[n] \in ByteRange
  <2>1. sum[0] \in ByteRange
    BY <1>5, <1>9
  <2>2. ASSUME NEW n \in 1 .. N, sum[n - 1] \in ByteRange PROVE sum[n] \in ByteRange
    <3>1. sum[n] = (sum[n - 1] + text[n]) % 256 /\ text[n] \in ByteRange
      BY <1>1, <1>9
    <3> QED BY <1>2, <2>2, <3>1
  <2> QED BY <1>1, <2>1, <2>2, PassedOn
<1>11. SumOf(text) = sum /\ Checksum(text) = sum[N]
  BY DEF SumOf, Checksum, sum, N
<1> QED BY <1>9, <1>10, <1>11 DEF N

\* A checksum is a byte.
LEMMA ChecksumIs ==
    ASSUME NEW text \in Seq(ByteRange)
    PROVE  Checksum(text) \in ByteRange
<1>1. Len(text) \in 0 .. Len(text)
  OBVIOUS
<1> QED BY <1>1, SumOfIs

\* The value of a hexadecimal digit.
LEMMA NibbleOfDigit ==
    ASSUME NEW char, IsHexDigit(char)
    PROVE  HexCharToNibble(char) \in 0 .. 15
BY DEF IsHexDigit, HexCharToNibble

\* What the first digits of a number add up to, one more at a time.
LEMMA ValueGrows ==
    ASSUME NEW buffer, NEW digits \in Nat,
           \A k \in 1 .. digits : IsHexDigit(buffer.chars[buffer.pos + k])
    PROVE  \E value \in [0 .. digits -> UIntegers] :
               /\ value[0] = 0 /\ ValueOfDigits(buffer, digits) = value[digits]
               /\ \A n \in 1 .. digits :
                     value[n] = (16 * value[n - 1] + HexCharToNibble(buffer.chars[buffer.pos + n])) % UIntRange
<1> DEFINE nibble(n) == HexCharToNibble(buffer.chars[buffer.pos + n])
           Is(f) == f = [n \in 0 .. digits |-> IF n = 0 THEN 0 ELSE (16 * f[n - 1] + nibble(n)) % UIntRange]
           step == [n \in 1 .. digits |-> [a \in UIntegers |-> (16 * a + nibble(n)) % UIntRange]]
           value == CHOOSE f : Is(f)
<1>1. \A n \in 1 .. digits : nibble(n) \in 0 .. 15
  BY NibbleOfDigit
<1> HIDE DEF nibble
<1>2. \A a \in UIntegers, b \in 0 .. 15 : (16 * a + b) % UIntRange \in UIntegers
  <2>1. UIntRange \in Nat /\ UIntRange > 0
    BY PowersAre
  <2>2. \A c \in Int : c % UIntRange \in 0 .. UIntRange - 1
    BY <2>1
  <2>3. \A a \in UIntegers, b \in 0 .. 15 : 16 * a + b \in Int
    BY <2>1 DEF UIntegers
  <2> QED BY <2>2, <2>3 DEF UIntegers
<1>3. step \in [1 .. digits -> [UIntegers -> UIntegers]]
  BY <1>1, <1>2
<1>4. \A a \in UIntegers, n \in 1 .. digits : step[n][a] = (16 * a + nibble(n)) % UIntRange
  OBVIOUS
<1>5. 0 \in UIntegers
  BY PowersAre DEF UIntegers
<1> HIDE DEF step
<1>6. PICK f \in [0 .. digits -> UIntegers] : Recursion(f, digits, 0, step)
  BY <1>3, <1>5, RecursionIs, Zenon
<1>7. Is(f)
  <2>1. ASSUME NEW n \in 0 .. digits
        PROVE  f[n] = IF n = 0 THEN 0 ELSE (16 * f[n - 1] + nibble(n)) % UIntRange
    <3>1. CASE n = 0
      BY <1>6, <3>1 DEF Recursion
    <3>2. CASE n # 0
      <4>1. n \in 1 .. digits /\ f[n - 1] \in UIntegers
        BY <1>6, <3>2
      <4>2. f[n] = step[n][f[n - 1]]
        BY <1>6, <4>1 DEF Recursion
      <4>3. step[n][f[n - 1]] = (16 * f[n - 1] + nibble(n)) % UIntRange
        BY <1>4, <4>1
      <4> QED BY <3>2, <4>2, <4>3
    <3> QED BY <3>1, <3>2
  <2> QED BY <2>1
<1>8. Is(value)
  <2> HIDE DEF Is
  <2> QED BY <1>7, Zenon
<1> HIDE DEF value
<1>9. value[0] = 0 /\ \A n \in 1 .. digits : value[n] = (16 * value[n - 1] + nibble(n)) % UIntRange
  BY <1>8
<1>10. ASSUME NEW n \in 1 .. digits, value[n - 1] \in UIntegers PROVE value[n] \in UIntegers
  BY <1>1, <1>2, <1>9, <1>10
<1>11. \A n \in 0 .. digits : value[n] \in UIntegers
  <2>1. value[0] \in UIntegers
    BY <1>5, <1>9
  <2> QED BY <1>10, <2>1, PassedOn
<1>12. ValueOfDigits(buffer, digits) = value[digits]
  BY DEF ValueOfDigits, value, nibble
<1>13. value \in [0 .. digits -> UIntegers]
  BY <1>8, <1>11
<1> QED BY <1>9, <1>12, <1>13 DEF nibble

\* Digits of which the number is made are an unsigned integer, of however many.
LEMMA ValueOfDigitsIs ==
    ASSUME NEW buffer, NEW digits \in Nat,
           \A k \in 1 .. digits : IsHexDigit(buffer.chars[buffer.pos + k])
    PROVE  ValueOfDigits(buffer, digits) \in UIntegers
<1>1. digits \in 0 .. digits
  OBVIOUS
<1> QED BY <1>1, ValueGrows

\* The bytes of a number are what is left of it when the lower ones are taken off.
LEMMA BytesOfNumber ==
    ASSUME NEW value \in UIntegers
    PROVE  LET bytes == BytesOfUInteger(value)
               length == Len(bytes)
           IN  /\ bytes \in Seq(ByteRange) /\ length \in 1 .. UIntBytes /\ value < 256 ^ length
               /\ \A k \in 1 .. length : bytes[k] = (value \div (256 ^ (length - k))) % 256
<1> DEFINE Leads(count) == /\ value < 256 ^ (UIntBytes - count)
                           /\ count < UIntBytes => value >= 256 ^ (UIntBytes - count - 1)
           below == {d \in 0 .. UIntBytes : value < 256 ^ d}
           length == IF value = 0 THEN 1 ELSE UIntBytes - LeadingZeroBytes(value)
<1>1. /\ UIntBytes \in Nat \ {0} /\ value \in Nat /\ value < 256 ^ UIntBytes
      /\ \A d \in 0 .. UIntBytes : 256 ^ d \in Nat \ {0}
  BY PowersAre DEF UIntegers, UIntRange
<1>2. \E count \in 0 .. UIntBytes : Leads(count)
  <2>1. UIntBytes \in below /\ below \subseteq Nat
    BY <1>1
  <2>2. PICK m \in below : \A j \in below : m <= j
    <3> HIDE DEF below
    <3> QED BY <2>1, LowestOf
  <2> DEFINE count == UIntBytes - m
  <2>3. m \in 0 .. UIntBytes /\ value < 256 ^ m
    OBVIOUS
  <2>4. count \in 0 .. UIntBytes /\ UIntBytes - count = m
    BY <1>1, <2>3
  <2>5. ASSUME count < UIntBytes PROVE value >= 256 ^ (m - 1)
    <3>1. m - 1 \in 0 .. UIntBytes /\ ~(m <= m - 1)
      BY <1>1, <2>3, <2>5
    <3>2. m - 1 \notin below
      BY <2>2, <3>1
    <3>3. ~(value < 256 ^ (m - 1)) /\ 256 ^ (m - 1) \in Nat
      BY <1>1, <3>1, <3>2
    <3> QED BY <1>1, <3>3
  <2>6. Leads(count)
    BY <2>3, <2>4, <2>5
  <2> QED BY <2>4, <2>6
<1>3. LeadingZeroBytes(value) \in 0 .. UIntBytes /\ value < 256 ^ (UIntBytes - LeadingZeroBytes(value))
  <2>1. LeadingZeroBytes(value) = CHOOSE count \in 0 .. UIntBytes : Leads(count)
    BY DEF LeadingZeroBytes
  <2>2. LeadingZeroBytes(value) \in 0 .. UIntBytes /\ Leads(LeadingZeroBytes(value))
    <3> HIDE DEF Leads
    <3> QED BY <1>2, <2>1, Zenon
  <2> QED BY <2>2
<1>4. length \in 1 .. UIntBytes /\ value < 256 ^ length
  <2>1. CASE value = 0
    BY <1>1, <2>1
  <2>2. CASE value # 0
    <3> DEFINE rest == UIntBytes - LeadingZeroBytes(value)
    <3>1. length = rest /\ rest \in 0 .. UIntBytes /\ value < 256 ^ rest
      BY <1>1, <1>3, <2>2
    <3> HIDE DEF rest
    <3>2. rest # 0
      <4>1. 256 ^ 0 = 1
        BY PowersAssumption
      <4>2. ASSUME rest = 0 PROVE FALSE
        <5>1. value < 256 ^ 0
          BY <3>1, <4>2
        <5>2. value < 1
          BY <4>1, <5>1
        <5> QED BY <1>1, <2>2, <5>2
      <4> QED BY <4>2
    <3> QED BY <1>1, <3>1, <3>2
  <2> QED BY <2>1, <2>2
<1>5. BytesOfUInteger(value) = [k \in 1 .. length |-> ByteAtIndex(value, length - k)]
  BY DEF BytesOfUInteger
<1> HIDE DEF length, Leads
<1>6. \A k \in 1 .. length : BytesOfUInteger(value)[k] = (value \div (256 ^ (length - k))) % 256
  BY <1>4, <1>5 DEF ByteAtIndex
<1>7. BytesOfUInteger(value) \in Seq(ByteRange) /\ Len(BytesOfUInteger(value)) = length
  <2>1. ASSUME NEW k \in 1 .. length PROVE ByteAtIndex(value, length - k) \in ByteRange
    <3> DEFINE power == 256 ^ (length - k)
    <3>1. length - k \in 0 .. UIntBytes
      BY <1>1, <1>4
    <3>2. power \in Nat \ {0}
      BY <1>1, <3>1
    <3> HIDE DEF power
    <3>3. value \div power \in Int
      BY <1>1, <3>2
    <3>4. (value \div power) % 256 \in 0 .. 255
      BY <3>3
    <3> QED BY <3>4 DEF ByteAtIndex, ByteRange, power
  <2> DEFINE bytes == [k \in 1 .. length |-> ByteAtIndex(value, length - k)]
  <2>2. bytes \in [1 .. length -> ByteRange] /\ length \in Nat
    BY <1>1, <1>4, <2>1
  <2> HIDE DEF bytes
  <2>3. bytes \in Seq(ByteRange) /\ Len(bytes) = length
    BY <2>2
  <2> QED BY <1>5, <2>3 DEF bytes
<1> QED BY <1>4, <1>6, <1>7

LEMMA BytesOfUIntegerIs ==
    ASSUME NEW value \in UIntegers
    PROVE  BytesOfUInteger(value) \in Seq(ByteRange)
BY BytesOfNumber

-----------------------------------------------------------------------------
(* Texts on the line.                                                      *)

\* The parts of a text, and texts put together.
LEMMA PartsOfText ==
    ASSUME NEW text \in Seq(ByteRange), NEW m \in 1 .. Len(text) + 1, NEW n \in 0 .. Len(text)
    PROVE  SubSeq(text, m, n) \in Seq(ByteRange)
<1>1. \A k \in m .. n : text[k] \in ByteRange
  OBVIOUS
<1> QED BY <1>1, SubSeqProperties

LEMMA FramedIs ==
    ASSUME NEW text \in Seq(ByteRange)
    PROVE  Framed(text) \in Seq(ByteRange)
<1>1. HexText(<<Checksum(text)>>) \in Seq(ByteRange)
  <2>1. <<Checksum(text)>> \in Seq(ByteRange)
    BY ChecksumIs
  <2> QED BY <2>1, DigitsOfBytes
<1>2. <<Dollar>> \in Seq(ByteRange) /\ <<Hash>> \in Seq(ByteRange)
  BY DEF Dollar, Hash, ByteRange
<1> DEFINE sum == HexText(<<Checksum(text)>>)
<1>3. sum \in Seq(ByteRange)
  BY <1>1
<1> HIDE DEF sum
<1>4. ((<<Dollar>> \o text) \o <<Hash>>) \o sum \in Seq(ByteRange)
  BY <1>2, <1>3
<1> QED BY <1>4 DEF Framed, sum

\* Damage makes a text of characters.
LEMMA GarbledIs ==
    ASSUME NEW text \in Seq(ByteRange), NEW arriving \in Garbled(text)
    PROVE  arriving \in Seq(ByteRange)
<1> DEFINE cut(k)  == SubSeq(text, 1, k - 1) \o SubSeq(text, k + 1, Len(text))
           turned(k, char) == [text EXCEPT ![k] = char]
           Lost   == {cut(k) : k \in 1 .. Len(text)}
           Turned == {turned(k, char) : k \in 1 .. Len(text), char \in Damages}
<1>1. ASSUME NEW k \in 1 .. Len(text) PROVE cut(k) \in Seq(ByteRange)
  <2>1. /\ Len(text) \in Nat /\ 1 \in 1 .. Len(text) + 1 /\ k - 1 \in 0 .. Len(text)
        /\ k + 1 \in 1 .. Len(text) + 1 /\ Len(text) \in 0 .. Len(text)
    OBVIOUS
  <2>2. SubSeq(text, 1, k - 1) \in Seq(ByteRange) /\ SubSeq(text, k + 1, Len(text)) \in Seq(ByteRange)
    BY <2>1, PartsOfText
  <2> QED BY <2>2
<1>2. ASSUME NEW k \in 1 .. Len(text), NEW char \in Damages PROVE turned(k, char) \in Seq(ByteRange)
  BY DamagesAssumption
<1>3. Garbled(text) = Lost \cup Turned
  BY DEF Garbled
<1> HIDE DEF cut, turned
<1> QED BY <1>1, <1>2, <1>3

\* What is put on the line are characters, and faults are counted to their bound.
LEMMA TransmitKeeps ==
    ASSUME NEW carried \in [Sides -> Seq(ByteRange)], NEW to \in Sides, NEW text \in Seq(ByteRange),
           faults \in 0 .. MaxFaults, Transmit(carried, to, text)
    PROVE  wire' \in [Sides -> Seq(ByteRange)] /\ faults' \in 0 .. MaxFaults
<1>1. MaxFaults \in Nat
  BY BufferAssumption
<1>2. CASE wire' = [carried EXCEPT ![to] = @ \o text] /\ UNCHANGED faults
  BY <1>2
<1>3. CASE /\ faults < MaxFaults /\ faults' = faults + 1
           /\ \E arriving \in Garbled(text) \ {text} : wire' = [carried EXCEPT ![to] = @ \o arriving]
  <2>1. PICK arriving \in Garbled(text) : wire' = [carried EXCEPT ![to] = @ \o arriving]
    BY <1>3
  <2>2. arriving \in Seq(ByteRange)
    BY GarbledIs
  <2>3. carried[to] \o arriving \in Seq(ByteRange)
    BY <2>2
  <2>4. wire' \in [Sides -> Seq(ByteRange)]
    BY <2>1, <2>3
  <2> QED BY <1>1, <1>3, <2>4
<1> QED BY <1>2, <1>3 DEF Transmit

-----------------------------------------------------------------------------
(* Types of the packets.                                                   *)

Buffers == {buffer \in [chars : Seq(ByteRange), pos : Nat, end : Nat] : IsBuffer(buffer)}

\* What a side holds: its packet, its buffer and what it waits for.
Held == [at : Places, buffer : Buffers, last : ByteRange, sum : ByteRange,
         expected : ByteRange, high : ByteRange]

LineInv ==
    /\ wire \in [Sides -> Seq(ByteRange)]
    /\ packet \in [Sides -> Held]
    /\ faults \in 0 .. MaxFaults

\* A buffer is what IsBuffer says.
LEMMA BuffersAre ==
    ASSUME NEW buffer
    PROVE  buffer \in Buffers <=> IsBuffer(buffer)
<1>1. ASSUME IsBuffer(buffer) PROVE buffer \in [chars : Seq(ByteRange), pos : Nat, end : Nat]
  <2>1. buffer = [chars |-> buffer.chars, pos |-> buffer.pos, end |-> buffer.end]
    BY <1>1 DEF IsBuffer
  <2>2. buffer.chars \in Seq(ByteRange) /\ buffer.pos \in Nat /\ buffer.end \in Nat
    BY <1>1, BufferParts DEF IsBuffer
  <2> QED BY <2>1, <2>2
<1> QED BY <1>1 DEF Buffers

\* An empty packet, and the buffers that the packets are written to.
LEMMA NewBuffer ==
    ASSUME NEW chars \in Seq(ByteRange)
    PROVE  IsBuffer(BufferInit(chars)) /\ BufferInit(chars).pos = 0
<1>1. Len(chars) \in Nat
  OBVIOUS
<1> QED BY <1>1 DEF BufferInit, IsBuffer

LEMMA BlankIs == Blank \in Seq(ByteRange)
<1>1. BufferSize \in Nat
  BY BufferAssumption
<1> QED BY <1>1 DEF Blank, ByteRange

\* The ends and cursors that a packet's buffer is given.
LEMMA EndedBuffer ==
    ASSUME NEW buffer, IsBuffer(buffer)
    PROVE  IsBuffer(SetEndOfBuffer(buffer)) /\ IsBuffer(BufferReset(buffer))
<1>1. IsBuffer(BufferReset(buffer))
  <2>1. 0 \in 0 .. buffer.end + 1
    BY BufferParts
  <2> QED BY <2>1, MovedBuffer DEF BufferReset
<1>2. CASE buffer.pos < buffer.end
  <2> DEFINE ended == [buffer EXCEPT !.end = buffer.pos]
  <2>1. ended.chars = buffer.chars /\ ended.pos = buffer.pos /\ ended.end = buffer.pos
    BY DEF IsBuffer
  <2>2. ended = [chars |-> ended.chars, pos |-> ended.pos, end |-> ended.end]
    BY DEF IsBuffer
  <2> HIDE DEF ended
  <2>3. ended.end \in 0 .. Len(ended.chars) /\ ended.pos \in 0 .. ended.end + 1
    BY <1>2, <2>1, BufferParts
  <2>4. IsBuffer(ended)
    BY <2>1, <2>2, <2>3 DEF IsBuffer
  <2> QED BY <1>1, <1>2, <2>4 DEF SetEndOfBuffer, ended
<1>3. CASE ~(buffer.pos < buffer.end)
  BY <1>1, <1>3 DEF SetEndOfBuffer
<1> QED BY <1>2, <1>3

LEMMA TextIs ==
    ASSUME NEW buffer, IsBuffer(buffer)
    PROVE  Text(buffer) \in Seq(ByteRange)
<1>1. buffer.chars \in Seq(ByteRange) /\ 1 \in 1 .. Len(buffer.chars) + 1 /\ buffer.end \in 0 .. Len(buffer.chars)
  BY BufferParts DEF IsBuffer
<1> QED BY <1>1, PartsOfText DEF Text

\* A packet that has just been set up.
LEMMA InitPacketIs ==
    ASSUME NEW buffer, IsBuffer(buffer), NEW place \in Places
    PROVE  InitPacket(buffer, place) \in Held
<1>1. buffer \in Buffers /\ 0 \in ByteRange
  BY BuffersAre DEF ByteRange
<1> QED BY <1>1 DEF InitPacket, Held

LEMMA PacketGetIs == PacketGet \in Held
<1>1. IsBuffer(BufferInit(Blank)) /\ "start" \in Places
  BY BlankIs, NewBuffer DEF Places, Waiting
<1> QED BY <1>1, InitPacketIs DEF PacketGet

\* A packet that is sent.
LEMMA SendKeeps ==
    ASSUME NEW carried \in [Sides -> Seq(ByteRange)], NEW side \in Sides, NEW text \in Seq(ByteRange),
           faults \in 0 .. MaxFaults, packet \in [Sides -> Held], PacketSend(carried, side, text)
    PROVE  LineInv'
<1>1. Framed(text) \in Seq(ByteRange) /\ Other(side) \in Sides
  BY FramedIs DEF Other, Sides
<1>2. wire' \in [Sides -> Seq(ByteRange)] /\ faults' \in 0 .. MaxFaults
  BY <1>1, TransmitKeeps DEF PacketSend
<1> DEFINE buffer == SetEndOfBuffer(WriteSizedString(BufferInit(Blank), text).buffer)
<1>3. IsBuffer(buffer)
  <2>1. IsBuffer(WriteSizedString(BufferInit(Blank), text).buffer)
    BY BlankIs, NewBuffer, WritersKeepBuffer
  <2> QED BY <2>1, EndedBuffer
<1>4. packet' = [packet EXCEPT ![side] = InitPacket(buffer, "ack")]
  BY DEF PacketSend
<1> HIDE DEF buffer
<1>5. InitPacket(buffer, "ack") \in Held
  BY <1>3, InitPacketIs DEF Places, Waiting
<1>6. packet' \in [Sides -> Held]
  BY <1>4, <1>5
<1> QED BY <1>2, <1>6 DEF LineInv

-----------------------------------------------------------------------------
(* What is read of a packet.                                               *)

LEMMA ReadCharKeeps ==
    ASSUME NEW buffer, IsBuffer(buffer)
    PROVE  /\ IsBuffer(ReadChar(buffer).buffer)
           /\ ReadChar(buffer).thrown = "none" => ReadChar(buffer).value \in ByteRange
<1>1. CASE BytesLeft(buffer) < 1
  <2>1. ReadChar(buffer) = Throws(FlagOverrun(buffer), "bufferOverrun")
    BY <1>1 DEF ReadChar
  <2> QED BY <2>1, FlaggedBuffer DEF Throws
<1>2. CASE ~(BytesLeft(buffer) < 1)
  <2>1. ReadChar(buffer) = Returns([buffer EXCEPT !.pos = buffer.pos + 1], buffer.chars[buffer.pos + 1])
    BY <1>2 DEF ReadChar
  <2>2. /\ buffer.pos + 1 \in 0 .. buffer.end + 1 /\ buffer.pos + 1 \in 1 .. Len(buffer.chars)
        /\ buffer.chars \in Seq(ByteRange)
    BY <1>2, BufferParts DEF IsBuffer
  <2>3. IsBuffer([buffer EXCEPT !.pos = buffer.pos + 1]) /\ buffer.chars[buffer.pos + 1] \in ByteRange
    BY <2>2, MovedBuffer
  <2> QED BY <2>1, <2>3 DEF Returns
<1> QED BY <1>1, <1>2

\* A pair of digits is a byte, and whatever else is there throws.
LEMMA ReadByteKeeps ==
    ASSUME NEW buffer, IsBuffer(buffer)
    PROVE  LET read == ReadByteAsHex(buffer)
           IN  /\ IsBuffer(read.buffer)
               /\ read.thrown = "none" =>
                      /\ read.value \in ByteRange /\ BytesLeft(buffer) >= 2
                      /\ IsHexDigit(buffer.chars[buffer.pos + 1])
                      /\ IsHexDigit(buffer.chars[buffer.pos + 2])
<1> DEFINE high == buffer.chars[buffer.pos + 1]
           low  == buffer.chars[buffer.pos + 2]
           read == ReadByteAsHex(buffer)
<1>1. BytesLeft(buffer) \in Nat
  BY BufferParts
<1>2. CASE BytesLeft(buffer) < 2
  <2>1. read = Throws(FlagOverrun(buffer), "bufferOverrun")
    BY <1>2 DEF ReadByteAsHex
  <2> HIDE DEF read
  <2>2. read.buffer = FlagOverrun(buffer) /\ read.thrown # "none"
    BY <2>1 DEF Throws
  <2> QED BY <2>2, FlaggedBuffer DEF read
<1>3. CASE ~(BytesLeft(buffer) < 2) /\ (~IsHexDigit(high) \/ ~IsHexDigit(low))
  <2>1. read = Throws(buffer, "invalidHexDigit")
    BY <1>3 DEF ReadByteAsHex
  <2> HIDE DEF read
  <2>2. read.buffer = buffer /\ read.thrown # "none"
    BY <2>1 DEF Throws
  <2> QED BY <2>2 DEF read
<1>4. CASE ~(BytesLeft(buffer) < 2) /\ IsHexDigit(high) /\ IsHexDigit(low)
  <2> DEFINE value == 16 * HexCharToNibble(high) + HexCharToNibble(low)
             moved == [buffer EXCEPT !.pos = buffer.pos + 2]
  <2>1. read = Returns(moved, value)
    BY <1>4 DEF ReadByteAsHex
  <2>2. value \in ByteRange
    <3>1. HexCharToNibble(high) \in 0 .. 15 /\ HexCharToNibble(low) \in 0 .. 15
      BY <1>4, NibbleOfDigit
    <3>2. \A a, b \in 0 .. 15 : 16 * a + b \in ByteRange
      BY DEF ByteRange
    <3> QED BY <3>1, <3>2
  <2>3. IsBuffer(moved)
    <3>1. buffer.pos + 2 \in 0 .. buffer.end + 1
      BY <1>4, BufferParts
    <3> QED BY <3>1, MovedBuffer
  <2> HIDE DEF value, moved, read
  <2>4. read.buffer = moved /\ read.value = value
    BY <2>1 DEF Returns
  <2> QED BY <1>1, <1>4, <2>2, <2>3, <2>4 DEF read
<1> QED BY <1>2, <1>3, <1>4

\* Bytes are read in full, or the first pair that is none throws.
LEMMA ReadBytesKeeps ==
    ASSUME NEW buffer, IsBuffer(buffer), NEW size \in Nat
    PROVE  LET read == ReadBytesAsHex(buffer, size)
           IN  /\ IsBuffer(read.buffer)
               /\ read.thrown = "none" => read.value \in Seq(ByteRange) /\ Len(read.value) = size
<1> DEFINE digits == HexDigits(buffer)
           left   == BytesLeft(buffer)
           pairs  == digits \div 2
           pos(n) == buffer.pos + 2 * n
           behind(n) == [buffer EXCEPT !.pos = pos(n)]
           read == ReadBytesAsHex(buffer, size)
<1>1. /\ left \in Nat /\ digits \in 0 .. left /\ buffer.pos \in Nat /\ buffer.end \in Nat
      /\ \A k \in 1 .. digits : IsHexDigit(buffer.chars[buffer.pos + k])
      /\ digits < left => ~IsHexDigit(buffer.chars[buffer.pos + digits + 1])
      /\ left > 0 => left = buffer.end - buffer.pos
      /\ left = 0 => buffer.pos <= buffer.end + 1
  BY BufferParts, DigitsEnd
<1> HIDE DEF digits, left
<1>2. /\ pairs \in Nat /\ 2 * pairs <= digits /\ digits < 2 * pairs + 2
  BY <1>1
<1> HIDE DEF pairs
<1>3. ASSUME NEW n \in 0 .. pairs
      PROVE  /\ IsBuffer(behind(n)) /\ behind(n).pos = pos(n)
             /\ behind(n).chars = buffer.chars /\ BytesLeft(behind(n)) = left - 2 * n
  <2>1. 2 * n <= left /\ pos(n) \in 0 .. buffer.end + 1
    BY <1>1, <1>2
  <2>2. /\ IsBuffer(behind(n)) /\ behind(n).pos = pos(n)
        /\ behind(n).end = buffer.end /\ behind(n).chars = buffer.chars
    <3> HIDE DEF pos
    <3> QED BY <2>1, MovedBuffer
  <2>3. CASE left = 0
    <3>1. n = 0 /\ pos(n) = buffer.pos
      BY <1>1, <2>1, <2>3
    <3>2. behind(n) = buffer
      <4> HIDE DEF pos
      <4> QED BY <3>1 DEF IsBuffer
    <3> QED BY <2>2, <2>3, <3>1, <3>2 DEF left
  <2>4. CASE left # 0
    <3>1. pos(n) <= buffer.end /\ buffer.end - pos(n) = left - 2 * n
      BY <1>1, <2>1, <2>4
    <3> HIDE DEF behind, pos
    <3> QED BY <1>1, <2>1, <2>2, <3>1 DEF BytesLeft, OverrunDetected
  <2> QED BY <1>1, <2>3, <2>4
<1>4. /\ pairs < size => read = ReadByteAsHex(behind(pairs))
      /\ ~(pairs < size) => read = Returns(behind(size), [k \in 1 .. size |-> ReadByteAsHex(behind(k - 1)).value])
  BY DEF ReadBytesAsHex, pairs, digits
<1> HIDE DEF read, behind
<1>5. CASE pairs < size
  <2>1. pairs \in 0 .. pairs
    BY <1>2
  <2>2. IsBuffer(behind(pairs)) /\ read = ReadByteAsHex(behind(pairs))
    BY <1>3, <1>4, <1>5, <2>1
  <2>3. IsBuffer(read.buffer)
    BY <2>2, ReadByteKeeps
  <2>4. ASSUME read.thrown = "none" PROVE FALSE
    <3>1. /\ BytesLeft(behind(pairs)) >= 2
          /\ IsHexDigit(behind(pairs).chars[behind(pairs).pos + 1])
          /\ IsHexDigit(behind(pairs).chars[behind(pairs).pos + 2])
      BY <2>2, <2>4, ReadByteKeeps
    <3>2. left - 2 * pairs >= 2
      BY <1>3, <2>1, <3>1
    <3>3. /\ IsHexDigit(buffer.chars[pos(pairs) + 1]) /\ IsHexDigit(buffer.chars[pos(pairs) + 2])
      BY <1>3, <2>1, <3>1
    <3>4. digits < left /\ (digits = 2 * pairs \/ digits = 2 * pairs + 1)
      BY <1>1, <1>2, <3>2
    <3>5. buffer.pos + digits + 1 = pos(pairs) + 1 \/ buffer.pos + digits + 1 = pos(pairs) + 2
      BY <1>1, <1>2, <3>4
    <3> HIDE DEF pos
    <3>6. IsHexDigit(buffer.chars[buffer.pos + digits + 1])
      BY <3>3, <3>5
    <3> QED BY <1>1, <3>4, <3>6
  <2> QED BY <2>3, <2>4 DEF read
<1>6. CASE ~(pairs < size)
  <2> DEFINE value == [k \in 1 .. size |-> ReadByteAsHex(behind(k - 1)).value]
  <2>1. ASSUME NEW k \in 1 .. size PROVE ReadByteAsHex(behind(k - 1)).value \in ByteRange
    <3> DEFINE at1 == buffer.pos + (2 * k - 1)
               at2 == buffer.pos + 2 * k
    <3>1. /\ k - 1 \in 0 .. pairs /\ 2 * k - 1 \in 1 .. digits /\ 2 * k \in 1 .. digits
          /\ pos(k - 1) + 1 = at1 /\ pos(k - 1) + 2 = at2 /\ left - 2 * (k - 1) >= 2
      BY <1>1, <1>2, <1>6
    <3>2. IsHexDigit(buffer.chars[at1]) /\ IsHexDigit(buffer.chars[at2])
      BY <1>1, <3>1
    <3> DEFINE back == behind(k - 1)
    <3>3. /\ IsBuffer(back) /\ back.pos = pos(k - 1) /\ back.chars = buffer.chars /\ BytesLeft(back) >= 2
      BY <1>3, <3>1
    <3> HIDE DEF back, pos, at1, at2
    <3>4. IsHexDigit(back.chars[back.pos + 1]) /\ IsHexDigit(back.chars[back.pos + 2])
      BY <3>1, <3>2, <3>3
    <3>5. BytesLeft(back) \in Nat
      BY <3>3, BufferParts
    <3>6. ReadByteAsHex(back).thrown = "none"
      BY <3>3, <3>4, <3>5 DEF ReadByteAsHex, Returns
    <3>7. ReadByteAsHex(back).value \in ByteRange
      BY <3>3, <3>6, ReadByteKeeps
    <3> QED BY <3>7 DEF back
  <2>2. value \in Seq(ByteRange) /\ Len(value) = size
    BY <2>1
  <2>3. read = Returns(behind(size), value)
    BY <1>4, <1>6
  <2>4. size \in 0 .. pairs
    BY <1>2, <1>6
  <2> HIDE DEF value
  <2>5. read.buffer = behind(size) /\ read.value = value
    BY <2>3 DEF Returns
  <2> QED BY <1>3, <2>2, <2>4, <2>5 DEF read
<1> QED BY <1>5, <1>6

LEMMA ReadNumberIs ==
    ASSUME NEW buffer, IsBuffer(buffer), ReadUIntegerAsHex(buffer).thrown = "none"
    PROVE  ReadUIntegerAsHex(buffer).value \in UIntegers
<1> DEFINE digits == HexDigits(buffer)
<1>1. digits \in Nat /\ \A k \in 1 .. digits : IsHexDigit(buffer.chars[buffer.pos + k])
  BY DigitsEnd, BufferParts
<1>2. digits # 0
  BY NumbersHideOverruns
<1>3. ReadUIntegerAsHex(buffer).value = ValueOfDigits(buffer, digits)
  BY <1>2 DEF ReadUIntegerAsHex, Returns
<1> HIDE DEF digits
<1> QED BY <1>1, <1>3, ValueOfDigitsIs

LEMMA MatchesKeep ==
    ASSUME NEW buffer, IsBuffer(buffer), NEW text, Len(text) \in Nat
    PROVE  IsBuffer(MatchesString(buffer, text).buffer)
<1> DEFINE match == MatchesString(buffer, text)
           moved == [buffer EXCEPT !.pos = buffer.pos + Len(text)]
<1>1. match.buffer = buffer \/ (match.buffer = moved /\ ~(BytesLeft(buffer) < Len(text)))
  BY DEF MatchesString, Throws, Returns
<1>2. ASSUME ~(BytesLeft(buffer) < Len(text)) PROVE IsBuffer(moved)
  <2>1. buffer.pos + Len(text) \in 0 .. buffer.end + 1
    BY <1>2, BufferParts
  <2> QED BY <2>1, MovedBuffer
<1> HIDE DEF moved
<1> QED BY <1>1, <1>2

LEMMA VerifyOkKeeps ==
    ASSUME NEW buffer, IsBuffer(buffer)
    PROVE  IsBuffer(VerifyOk(buffer).buffer)
<1>1. Len(OkText) \in Nat
  BY DEF OkText
<1>2. IsBuffer(MatchesString(buffer, OkText).buffer)
  BY <1>1, MatchesKeep
<1>3. VerifyOk(buffer).buffer = MatchesString(buffer, OkText).buffer
  BY DEF VerifyOk, Returns, Throws
<1> QED BY <1>2, <1>3

LEMMA ParseSignalKeeps ==
    ASSUME NEW buffer, IsBuffer(buffer)
    PROVE  LET parsed == ParseSignal(buffer)
           IN  /\ IsBuffer(parsed.buffer)
               /\ parsed.thrown = "none" => parsed.value \in Seq(ByteRange) /\ Len(parsed.value) = 1
<1> DEFINE type   == ReadChar(buffer)
           signal0 == ReadByteAsHex(type.buffer)
           parsed == ParseSignal(buffer)
<1>1. IsBuffer(type.buffer)
  BY ReadCharKeeps
<1>2. IsBuffer(signal0.buffer) /\ (signal0.thrown = "none" => signal0.value \in ByteRange)
  <2> HIDE DEF type
  <2> QED BY <1>1, ReadByteKeeps
<1>3. \/ parsed = type /\ type.thrown # "none"
      \/ parsed = Throws(type.buffer, "badResponse")
      \/ parsed = signal0 /\ signal0.thrown # "none"
      \/ parsed = Returns(signal0.buffer, <<signal0.value>>) /\ signal0.thrown = "none"
  BY DEF ParseSignal
<1> HIDE DEF type, signal0, parsed
<1>4. CASE parsed = Throws(type.buffer, "badResponse")
  <2>1. parsed.buffer = type.buffer /\ parsed.thrown # "none"
    BY <1>4 DEF Throws
  <2> QED BY <1>1, <2>1 DEF parsed
<1>5. CASE parsed = Returns(signal0.buffer, <<signal0.value>>) /\ signal0.thrown = "none"
  <2>1. parsed.buffer = signal0.buffer /\ parsed.value = <<signal0.value>>
    BY <1>5 DEF Returns
  <2> DEFINE value == signal0.value
  <2>2. value \in ByteRange
    BY <1>2, <1>5
  <2>3. parsed.value = <<value>>
    BY <2>1
  <2> HIDE DEF value
  <2>4. parsed.value \in Seq(ByteRange) /\ Len(parsed.value) = 1
    BY <2>2, <2>3
  <2> QED BY <1>2, <2>1, <2>4 DEF parsed
<1> QED BY <1>1, <1>2, <1>3, <1>4, <1>5 DEF parsed

\* Requests as the caller makes them, and as the monitor reads them.
Requests == {asked \in [op : Operations \cup {"none", "malformed"}, address : UIntegers,
                        size : UIntegers, bytes : Seq(Bytes)] : asked.op = "G" => asked.bytes # << >>}

LEMMA ParsedKeeps ==
    ASSUME NEW buffer, IsBuffer(buffer), NEW asked \in Requests
    PROVE  LET parsed == Parsed(asked, buffer)
           IN  /\ IsBuffer(parsed.buffer)
               /\ parsed.thrown = "none" /\ asked.op \in {"g", "s"} =>
                      parsed.value \in Seq(ByteRange) /\ Len(parsed.value) = 1
<1>1. CASE asked.op = "g"
  <2>1. Parsed(asked, buffer) = ReadBytesAsHex(buffer, 1)
    BY <1>1 DEF Parsed
  <2> QED BY <2>1, ReadBytesKeeps
<1>2. CASE asked.op = "m"
  <2>1. Parsed(asked, buffer) = ReadBytesAsHex(buffer, asked.size)
    BY <1>2 DEF Parsed
  <2>2. asked.size \in Nat
    BY PowersAre DEF Requests, UIntegers
  <2> QED BY <1>2, <2>1, <2>2, ReadBytesKeeps
<1>3. CASE asked.op = "s"
  <2>1. Parsed(asked, buffer) = ParseSignal(buffer)
    BY <1>3 DEF Parsed
  <2> QED BY <2>1, ParseSignalKeeps
<1>4. CASE asked.op \notin {"g", "m", "s"}
  <2>1. Parsed(asked, buffer) = VerifyOk(buffer)
    BY <1>4 DEF Parsed
  <2> QED BY <1>4, <2>1, VerifyOkKeeps
<1> QED BY <1>1, <1>2, <1>3, <1>4

\* Requests without operands.
LEMMA SimpleIs ==
    \A op \in {"g", "s", "none", "malformed"} : Simple(op) \in Requests /\ Simple(op).op = op
<1>1. 0 \in UIntegers /\ NoBytes \in Seq(Bytes)
  BY PowersAre DEF UIntegers, NoBytes
<1> QED BY <1>1 DEF Simple, Request, Requests, Operations

LEMMA RequestIs ==
    ASSUME NEW op \in {"G", "m", "M"}, NEW address \in UIntegers, NEW size \in UIntegers,
           NEW bytes \in Seq(Bytes), op = "G" => bytes # << >>
    PROVE  Request(op, address, size, bytes) \in Requests /\ Request(op, address, size, bytes).op = op
BY DEF Request, Requests, Operations

\* The cursor set to a position of the text or to its end.
LEMMA FromIs ==
    ASSUME NEW buffer, IsBuffer(buffer), NEW pos \in 0 .. buffer.end
    PROVE  /\ IsBuffer(From(buffer, pos)) /\ BytesLeft(From(buffer, pos)) = buffer.end - pos
<1>1. pos \in 0 .. buffer.end + 1 /\ buffer.end \in Nat
  BY BufferParts
<1>2. IsBuffer(From(buffer, pos)) /\ From(buffer, pos).pos = pos /\ From(buffer, pos).end = buffer.end
  BY <1>1, MovedBuffer DEF From
<1> QED BY <1>1, <1>2 DEF BytesLeft, OverrunDetected

LEMMA CharIsThere ==
    ASSUME NEW buffer, NEW pos, CharAt(buffer, pos) # 0
    PROVE  pos < buffer.end
BY DEF CharAt

\* Whatever characters a request is of, it is read as one.
LEMMA ParsedRequestIs ==
    ASSUME NEW buffer, IsBuffer(buffer)
    PROVE  ParsedRequest(buffer) \in Requests
<1> DEFINE letter  == CharAt(buffer, 0)
           comma   == 1 + HexDigits(From(buffer, 1))
           colon   == comma + 1 + HexDigits(From(buffer, comma + 1))
           address == ReadUIntegerAsHex(From(buffer, 1))
           size    == ReadUIntegerAsHex(From(buffer, comma + 1))
           bytes   == ReadBytesAsHex(From(buffer, colon + 1), size.value)
           register == ReadBytesAsHex(From(buffer, 1), 1)
           ranged  == address.thrown = "none" /\ size.thrown = "none" /\ CharAt(buffer, comma) = Comma
           full    == CharAt(buffer, colon) = Colon /\ bytes.thrown = "none"
<1>1. \/ ParsedRequest(buffer) \in {Simple("g"), Simple("s"), Simple("malformed")}
      \/ /\ letter # 0 /\ register.thrown = "none"
         /\ ParsedRequest(buffer) = Request("G", 0, 0, register.value)
      \/ /\ letter # 0 /\ ranged
         /\ ParsedRequest(buffer) = Request("m", address.value, size.value, NoBytes)
      \/ /\ letter # 0 /\ ranged /\ full
         /\ ParsedRequest(buffer) = Request("M", address.value, size.value, bytes.value)
  <2> HIDE DEF comma, colon, address, size, bytes, register, letter
  <2>1. /\ RequestLetter.g = 103 /\ RequestLetter.s = 115 /\ RequestLetter.G = 71
        /\ RequestLetter.m = 109 /\ RequestLetter.M = 77
    BY DEF RequestLetter
  <2>2. ParsedRequest(buffer) =
          CASE letter = RequestLetter.g -> Simple("g")
            [] letter = RequestLetter.s -> Simple("s")
            [] letter = RequestLetter.G /\ register.thrown = "none"
                  -> Request("G", 0, 0, register.value)
            [] letter = RequestLetter.m /\ ranged
                  -> Request("m", address.value, size.value, NoBytes)
            [] letter = RequestLetter.M /\ ranged /\ CharAt(buffer, colon) = Colon /\ bytes.thrown = "none"
                  -> Request("M", address.value, size.value, bytes.value)
            [] OTHER -> Simple("malformed")
    BY DEF ParsedRequest, comma, colon, address, size, bytes, register, letter
  <2> HIDE DEF ranged
  <2> QED BY <2>1, <2>2
<1>2. /\ ByteRange = Bytes /\ 0 \in UIntegers /\ NoBytes \in Seq(Bytes)
      /\ \A n \in UIntegers : n \in Nat
  BY PowersAre DEF ByteRange, Bytes, UIntegers, NoBytes
<1>3. CASE ParsedRequest(buffer) \in {Simple("g"), Simple("s"), Simple("malformed")}
  BY <1>3, SimpleIs
<1>4. ASSUME letter # 0
      PROVE  /\ 1 \in 0 .. buffer.end /\ IsBuffer(From(buffer, 1))
             /\ comma \in 1 .. buffer.end
  <2>1. 1 \in 0 .. buffer.end /\ buffer.end \in Nat
    BY <1>4, CharIsThere, BufferParts
  <2>2. IsBuffer(From(buffer, 1)) /\ BytesLeft(From(buffer, 1)) = buffer.end - 1
    BY <2>1, FromIs
  <2>3. HexDigits(From(buffer, 1)) \in 0 .. buffer.end - 1
    BY <2>2, DigitsEnd
  <2> QED BY <2>1, <2>2, <2>3
<1>5. CASE /\ letter # 0 /\ register.thrown = "none"
           /\ ParsedRequest(buffer) = Request("G", 0, 0, register.value)
  <2>1. register.value \in Seq(ByteRange) /\ Len(register.value) = 1
    BY <1>4, <1>5, ReadBytesKeeps
  <2> HIDE DEF register
  <2>2. register.value # << >>
    <3>1. Len(<< >>) = 0 /\ 1 # 0
      OBVIOUS
    <3> QED BY <2>1, <3>1, Zenon
  <2> QED BY <1>2, <1>5, <2>1, <2>2, RequestIs
<1>6. ASSUME letter # 0, ranged
      PROVE  /\ address.value \in UIntegers /\ size.value \in UIntegers
             /\ comma + 1 \in 0 .. buffer.end /\ colon \in 1 .. buffer.end
  <2>1. address.value \in UIntegers
    BY <1>4, <1>6, ReadNumberIs
  <2>2. comma + 1 \in 0 .. buffer.end
    <3>1. CharAt(buffer, comma) # 0
      BY <1>6 DEF Comma
    <3>2. comma < buffer.end
      <4> HIDE DEF comma
      <4> QED BY <3>1, CharIsThere
    <3> HIDE DEF comma
    <3> QED BY <1>4, <1>6, <3>2, BufferParts
  <2>3. IsBuffer(From(buffer, comma + 1)) /\ BytesLeft(From(buffer, comma + 1)) = buffer.end - (comma + 1)
    <3> HIDE DEF comma
    <3> QED BY <2>2, FromIs
  <2>4. HexDigits(From(buffer, comma + 1)) \in 0 .. buffer.end - (comma + 1)
    <3> HIDE DEF comma
    <3> QED BY <2>3, DigitsEnd
  <2>5. size.value \in UIntegers
    <3> HIDE DEF comma
    <3> QED BY <1>6, <2>3, ReadNumberIs
  <2>6. colon \in 1 .. buffer.end
    <3> DEFINE more == HexDigits(From(buffer, comma + 1))
    <3>1. more \in 0 .. buffer.end - (comma + 1) /\ buffer.end \in Nat /\ comma \in 1 .. buffer.end
      BY <1>4, <1>6, <2>4, BufferParts
    <3>2. colon = comma + 1 + more
      OBVIOUS
    <3> HIDE DEF comma, colon, more
    <3> QED BY <2>2, <3>1, <3>2
  <2> QED BY <2>1, <2>2, <2>5, <2>6
<1>7. CASE /\ letter # 0 /\ ranged
           /\ ParsedRequest(buffer) = Request("m", address.value, size.value, NoBytes)
  <2>1. address.value \in UIntegers /\ size.value \in UIntegers
    BY <1>6, <1>7
  <2> HIDE DEF address, size
  <2> QED BY <1>2, <1>7, <2>1, RequestIs
<1>8. CASE /\ letter # 0 /\ ranged /\ full
           /\ ParsedRequest(buffer) = Request("M", address.value, size.value, bytes.value)
  <2>1. /\ address.value \in UIntegers /\ size.value \in UIntegers /\ size.value \in Nat
        /\ colon \in 1 .. buffer.end
    BY <1>2, <1>6, <1>8
  <2>2. colon + 1 \in 0 .. buffer.end
    <3>1. CharAt(buffer, colon) # 0
      BY <1>8 DEF Colon
    <3> HIDE DEF colon
    <3>2. colon < buffer.end
      BY <3>1, CharIsThere
    <3> QED BY <2>1, <3>2, BufferParts
  <2>3. IsBuffer(From(buffer, colon + 1))
    <3> HIDE DEF colon
    <3> QED BY <2>2, FromIs
  <2>4. bytes.value \in Seq(ByteRange)
    <3>1. bytes.thrown = "none"
      BY <1>8
    <3> HIDE DEF size, colon
    <3> QED BY <2>1, <2>3, <3>1, ReadBytesKeeps
  <2> HIDE DEF address, size, bytes
  <2> QED BY <1>2, <1>8, <2>1, <2>4, RequestIs
<1> HIDE DEF letter, address, size, bytes, register, ranged, full
<1> QED BY <1>1, <1>3, <1>5, <1>7, <1>8

-----------------------------------------------------------------------------
(* The device and its answers.                                             *)

States == [pc : Bytes, back : Bytes, undefined : BOOLEAN, cells : [Cells -> Bytes]]
Answers == [kind : {"bytes", "ok", "signal", "refused"}, bytes : Seq(Bytes)]

\* The first number up to a bound that is not followed by one of a set.
LEMMA FirstOutside ==
    ASSUME NEW T, NEW size \in Nat
    PROVE  \E n \in 0 .. size : (\A k \in 1 .. n : k \in T) /\ (n < size => n + 1 \notin T)
<1> DEFINE outside == {k \in 1 .. size : k \notin T}
<1>1. CASE outside = {}
  <2>1. size \in 0 .. size /\ \A k \in 1 .. size : k \in T
    BY <1>1
  <2> QED BY <2>1
<1>2. CASE outside # {}
  <2>1. PICK m \in outside : \A j \in outside : m <= j
    <3>1. outside \subseteq Nat
      OBVIOUS
    <3> HIDE DEF outside
    <3> QED BY <1>2, <3>1, LowestOf
  <2>2. m \in 1 .. size /\ m \notin T /\ m - 1 \in 0 .. size /\ (m - 1) + 1 = m
    OBVIOUS
  <2>3. ASSUME NEW k \in 1 .. m - 1 PROVE k \in T
    <3>1. k \in 1 .. size /\ ~(m <= k)
      BY <2>2
    <3> QED BY <2>1, <3>1
  <2> QED BY <2>2, <2>3
<1> QED BY <1>1, <1>2

\* Every address is read as a byte, the address of the handler with its bit of
\* Thumb code.
LEMMA ByteAtIs ==
    ASSUME NEW state \in States, NEW address \in Int
    PROVE  ByteAt(state, address) \in Bytes
<1>1. Handler + 1 \in Bytes
  <2>1. Handler \in 0 .. 255 /\ Handler % 2 = 0
    BY DeviceAssumption DEF Bytes
  <2> QED BY <2>1 DEF Bytes
<1>2. address \in Cells => state.cells[address] \in Bytes
  BY DEF States
<1>3. 190 \in Bytes /\ 0 \in Bytes /\ 1 \in Bytes
  BY DEF Bytes
<1> QED BY <1>1, <1>2, <1>3 DEF ByteAt, CodeByte

LEMMA AnswerIs ==
    ASSUME NEW kind \in {"bytes", "ok", "signal", "refused"}, NEW bytes \in Seq(Bytes)
    PROVE  Answer(kind, bytes) \in Answers
BY DEF Answer, Answers

LEMMA RefusalIs == Refusal \in Answers
<1>1. NoBytes \in Seq(Bytes)
  BY DEF NoBytes
<1> QED BY <1>1, AnswerIs DEF Refusal

\* A read gives bytes, as far as they are there.
LEMMA ReadIs ==
    ASSUME NEW state \in States, NEW address \in Int, NEW size \in Nat
    PROVE  LET read == Read(state, address, size)
           IN  /\ read \in Answers
               /\ \/ read = Refusal
                  \/ /\ read.kind = "bytes" /\ Len(read.bytes) \in 1 .. size
                     /\ \A k \in 1 .. Len(read.bytes) : read.bytes[k] = ByteAt(state, address + k - 1)
<1> DEFINE First(n) == /\ \A k \in 1 .. n : IsThere(address + k - 1)
                       /\ n < size => ~IsThere(address + n)
           there == CHOOSE n \in 0 .. size : First(n)
           T == {k \in 1 .. size : IsThere(address + k - 1)}
           bytes == [k \in 1 .. there |-> ByteAt(state, address + k - 1)]
<1>1. \E n \in 0 .. size : First(n)
  <2>1. PICK n \in 0 .. size : (\A k \in 1 .. n : k \in T) /\ (n < size => n + 1 \notin T)
    <3> HIDE DEF T
    <3> QED BY FirstOutside, Zenon
  <2>2. \A k \in 1 .. n : IsThere(address + k - 1)
    BY <2>1
  <2>3. ASSUME n < size PROVE ~IsThere(address + n)
    <3>1. n + 1 \in 1 .. size /\ address + (n + 1) - 1 = address + n
      BY <2>3
    <3> QED BY <2>1, <2>3, <3>1
  <2> QED BY <2>2, <2>3
<1>2. there \in 0 .. size
  <2> HIDE DEF First
  <2> QED BY <1>1, Zenon
<1> HIDE DEF there
<1>3. bytes \in Seq(Bytes)
  <2>1. \A k \in 1 .. there : ByteAt(state, address + k - 1) \in Bytes
    BY <1>2, ByteAtIs
  <2> QED BY <1>2, <2>1
<1>4. Len(bytes) = there /\ \A k \in 1 .. there : bytes[k] = ByteAt(state, address + k - 1)
  BY <1>2
<1> HIDE DEF bytes
<1>5. Read(state, address, size) = IF there = 0 THEN Refusal ELSE Answer("bytes", bytes)
  BY DEF Read, bytes, there
<1>6. there # 0 => there \in 1 .. size
  BY <1>2
<1> QED BY <1>3, <1>4, <1>5, <1>6, AnswerIs, RefusalIs DEF Answer

LEMMA AnswerToIs ==
    ASSUME NEW state \in States, NEW asked \in Requests
    PROVE  AnswerTo(state, asked) \in Answers
<1>1. asked.address \in Int /\ asked.size \in Nat
  BY PowersAre DEF Requests, UIntegers
<1>2. Read(state, asked.address, asked.size) \in Answers
  BY <1>1, ReadIs
<1>3. Answer("bytes", <<state.pc>>) \in Answers
  <2>1. <<state.pc>> \in Seq(Bytes)
    BY DEF States
  <2> QED BY <2>1, AnswerIs
<1>4. Answer("signal", <<SignalOf(state)>>) \in Answers
  <2>1. SignalOf(state) \in Bytes
    BY DEF SignalOf, SIGSEGV, SIGBUS, SIGTRAP, Bytes
  <2>2. <<SignalOf(state)>> \in Seq(Bytes)
    BY <2>1
  <2> QED BY <2>2, AnswerIs
<1>5. Answer("ok", NoBytes) \in Answers
  <2>1. NoBytes \in Seq(Bytes)
    BY DEF NoBytes
  <2> QED BY <2>1, AnswerIs
<1> QED BY <1>2, <1>3, <1>4, <1>5, RefusalIs DEF AnswerTo

\* No instruction goes behind the last address.
LEMMA StepIs ==
    ASSUME NEW state \in States
    PROVE  Step(state) \in States
<1> DEFINE kind == InstructionAt(state.pc)
           next == state.pc + 2
<1>1. kind \in {"plain", "svc"} => next \in Bytes
  BY DeviceAssumption DEF InstructionAt
<1>2. Handler \in Bytes /\ state.back \in Bytes
  BY DeviceAssumption DEF States
<1>3. \/ kind = "plain" /\ Step(state) = [state EXCEPT !.pc = next]
      \/ kind = "svc" /\ Step(state) = [state EXCEPT !.pc = Handler, !.back = next]
      \/ Step(state) = [state EXCEPT !.pc = state.back]
      \/ Step(state) = state
      \/ Step(state) = [state EXCEPT !.undefined = TRUE]
      \/ Step(state) = [state EXCEPT !.undefined = FALSE]
  BY DEF Step
<1> HIDE DEF kind, next
<1> QED BY <1>1, <1>2, <1>3 DEF States

LEMMA AfterIs ==
    ASSUME NEW state \in States, NEW asked \in Requests
    PROVE  After(state, asked) \in States
<1>1. CASE asked.op = "G"
  <2>1. asked.bytes \in Seq(Bytes) /\ asked.bytes # << >>
    BY <1>1 DEF Requests
  <2>2. asked.bytes[1] \in Bytes
    BY <2>1
  <2> QED BY <1>1, <2>2 DEF After, States
<1>2. CASE asked.op = "M" /\ Writable(asked.address, asked.bytes)
  <2> DEFINE base == asked.address
             bytes == asked.bytes
             cells == [a \in Cells |-> IF a \in base .. base + Len(bytes) - 1
                                       THEN bytes[a - base + 1] ELSE state.cells[a]]
  <2>1. base \in Int /\ bytes \in Seq(Bytes) /\ Len(bytes) \in Nat
    BY PowersAre DEF Requests, UIntegers
  <2>2. \A a \in Cells : a \in Int
    BY DeviceAssumption DEF Bytes
  <2>3. After(state, asked) = [state EXCEPT !.cells = cells]
    BY <1>2 DEF After, Written
  <2> HIDE DEF base, bytes
  <2>4. ASSUME NEW a \in Cells, a \in base .. base + Len(bytes) - 1 PROVE bytes[a - base + 1] \in Bytes
    <3>1. a - base + 1 \in 1 .. Len(bytes)
      BY <2>1, <2>2, <2>4
    <3> QED BY <2>1, <3>1
  <2>5. cells \in [Cells -> Bytes]
    BY <2>4 DEF States
  <2> HIDE DEF cells
  <2> QED BY <2>3, <2>5 DEF States
<1>3. CASE asked.op = "s"
  BY <1>3, StepIs DEF After
<1>4. CASE asked.op # "G" /\ asked.op # "s" /\ ~(asked.op = "M" /\ Writable(asked.address, asked.bytes))
  BY <1>4 DEF After
<1> QED BY <1>1, <1>2, <1>3, <1>4

\* The texts of requests and responses.
LEMMA RequestTextIs ==
    ASSUME NEW asked \in Requests, asked.op \in Operations
    PROVE  RequestText(asked) \in Seq(ByteRange)
<1> DEFINE address == HexText(BytesOfUInteger(asked.address))
           size    == HexText(BytesOfUInteger(asked.size))
           bytes   == HexText(asked.bytes)
           letter  == <<RequestLetter[asked.op]>>
<1>1. address \in Seq(ByteRange) /\ size \in Seq(ByteRange)
  BY BytesOfUIntegerIs, DigitsOfBytes DEF Requests
<1>2. bytes \in Seq(ByteRange)
  <2>1. asked.bytes \in Seq(ByteRange)
    BY DEF Requests, Bytes, ByteRange
  <2> QED BY <2>1, DigitsOfBytes
<1>3. letter \in Seq(ByteRange)
  <2>1. RequestLetter[asked.op] \in ByteRange
    BY DEF Operations, RequestLetter, ByteRange
  <2> QED BY <2>1
<1>4. <<Comma>> \in Seq(ByteRange) /\ <<Colon>> \in Seq(ByteRange)
  BY DEF Comma, Colon, ByteRange
<1> HIDE DEF address, size, bytes, letter
<1> DEFINE range == (address \o <<Comma>>) \o size
<1>5. range \in Seq(ByteRange)
  BY <1>1, <1>4
<1>6. RequestText(asked) \in {letter, letter \o bytes, letter \o range, ((letter \o range) \o <<Colon>>) \o bytes}
  BY DEF RequestText, Operations, address, size, bytes, letter
<1> HIDE DEF range
<1>7. /\ letter \o bytes \in Seq(ByteRange) /\ letter \o range \in Seq(ByteRange)
      /\ ((letter \o range) \o <<Colon>>) \o bytes \in Seq(ByteRange)
  BY <1>2, <1>3, <1>4, <1>5
<1> QED BY <1>3, <1>6, <1>7

LEMMA ResponseTextIs ==
    ASSUME NEW answered \in Answers
    PROVE  ResponseText(answered) \in Seq(ByteRange)
<1> DEFINE bytes == HexText(answered.bytes)
<1>1. bytes \in Seq(ByteRange)
  <2>1. answered.bytes \in Seq(ByteRange)
    BY DEF Answers, Bytes, ByteRange
  <2> QED BY <2>1, DigitsOfBytes
<1>2. OkText \in Seq(ByteRange) /\ ErrorText \in Seq(ByteRange) /\ <<SignalLetter>> \in Seq(ByteRange)
  BY DEF OkText, ErrorText, SignalLetter, ByteRange
<1>3. ResponseText(answered) \in {bytes, OkText, <<SignalLetter>> \o bytes, ErrorText}
  BY DEF ResponseText
<1> HIDE DEF bytes
<1>4. <<SignalLetter>> \o bytes \in Seq(ByteRange)
  BY <1>1, <1>2
<1> QED BY <1>1, <1>2, <1>3, <1>4

-----------------------------------------------------------------------------
(* The steps of the line.                                                  *)

\* A character that is taken off the line.
LEMMA TakenIs ==
    ASSUME LineInv, NEW side \in Sides, wire[side] # << >>
    PROVE  NextChar(side) \in ByteRange /\ Taken(side) \in [Sides -> Seq(ByteRange)]
<1>1. wire[side] \in Seq(ByteRange)
  BY DEF LineInv
<1>2. Head(wire[side]) \in ByteRange /\ Tail(wire[side]) \in Seq(ByteRange)
  BY <1>1, HeadTailProperties
<1> QED BY <1>2 DEF LineInv, NextChar, Taken

LEMMA ConsumeKeeps ==
    ASSUME LineInv, NEW side \in Sides, wire[side] # << >>, NEW held \in Held, Consume(side, held)
    PROVE  LineInv'
<1>1. NextChar(side) \in ByteRange /\ Taken(side) \in [Sides -> Seq(ByteRange)]
  BY TakenIs
<1>2. [held EXCEPT !.last = NextChar(side)] \in Held
  BY <1>1 DEF Held
<1> QED BY <1>1, <1>2 DEF LineInv, Consume

\* What a side holds of a packet while it reads it.
LEMMA HeldIs ==
    ASSUME NEW held \in Held
    PROVE  /\ IsBuffer(held.buffer) /\ InData(held) \in Held /\ AtStart(held) \in Held
           /\ \A place \in Places : [held EXCEPT !.at = place] \in Held
           /\ \A char \in ByteRange : [held EXCEPT !.last = char] \in Held
           /\ Mismatched(held) \in Held
<1>1. IsBuffer(held.buffer)
  BY BuffersAre DEF Held
<1>2. BufferReset(held.buffer) \in Buffers
  BY <1>1, EndedBuffer, BuffersAre
<1>3. 0 \in ByteRange /\ "data" \in Places /\ "start" \in Places /\ "poll" \in Places
  BY DEF ByteRange, Places, Waiting
<1>4. InData(held) \in Held
  BY <1>2, <1>3 DEF InData, Held
<1>5. \A place \in Places : [held EXCEPT !.at = place] \in Held
  BY DEF Held
<1>6. AtStart(held) \in Held
  BY <1>3, <1>4, <1>5 DEF AtStart
<1>7. Mismatched(held) \in Held
  <2>1. held.sum \in ByteRange
    BY DEF Held
  <2>2. 255 - held.sum \in ByteRange
    BY <2>1 DEF ByteRange
  <2> QED BY <1>3, <2>2 DEF Mismatched, Held
<1>8. \A char \in ByteRange : [held EXCEPT !.last = char] \in Held
  BY DEF Held
<1> QED BY <1>1, <1>4, <1>5, <1>6, <1>7, <1>8

\* A character that the buffer has room for is written to it.
LEMMA DataKeeps ==
    ASSUME LineInv, NEW side \in Sides, ReadData(side)
    PROVE  LineInv'
<1> DEFINE held == packet[side]
           char == NextChar(side)
           sum  == (held.sum + char) % 256
           buffer == WriteChar(held.buffer, char).buffer
           read == [held EXCEPT !.buffer = buffer, !.sum = sum]
<1>1. wire[side] # << >> /\ Consume(side, read)
  BY DEF ReadData, Reads
<1>2. held \in Held /\ char \in ByteRange
  BY <1>1, TakenIs DEF LineInv
<1> HIDE DEF held, char
<1>3. buffer \in Buffers
  <2>1. <<char>> \in Seq(ByteRange)
    BY <1>2
  <2>2. IsBuffer(WriteSizedString(held.buffer, <<char>>).buffer)
    BY <1>2, <2>1, HeldIs, WritersKeepBuffer
  <2> QED BY <2>2, BuffersAre DEF WriteChar
<1> HIDE DEF buffer
<1>4. sum \in ByteRange
  <2>1. held.sum \in ByteRange
    BY <1>2 DEF Held
  <2>2. \A a, b \in ByteRange : (a + b) % 256 \in ByteRange
    BY DEF ByteRange
  <2> QED BY <1>2, <2>1, <2>2
<1> HIDE DEF sum
<1>5. read \in Held
  BY <1>2, <1>3, <1>4 DEF Held
<1> HIDE DEF read
<1> QED BY <1>1, <1>5, ConsumeKeeps

LEMMA DataEndKeeps ==
    ASSUME LineInv, NEW side \in Sides, ReadDataEnd(side)
    PROVE  LineInv'
<1> DEFINE held == packet[side]
           char == NextChar(side)
           read == IF char = Hash THEN [held EXCEPT !.at = "high"]
                   ELSE AtStart([held EXCEPT !.last = char])
<1>1. wire[side] # << >> /\ Consume(side, read)
  BY DEF ReadDataEnd, Reads
<1>2. held \in Held /\ char \in ByteRange /\ "high" \in Places
  BY <1>1, TakenIs DEF LineInv, Places, Waiting
<1> HIDE DEF held, char
<1>3. read \in Held
  BY <1>2, HeldIs
<1> HIDE DEF read
<1> QED BY <1>1, <1>3, ConsumeKeeps

LEMMA ChecksumKeeps ==
    ASSUME LineInv, NEW side \in Sides, ReadChecksumHigh(side) \/ ReadChecksumLow(side)
    PROVE  LineInv'
<1> DEFINE held == packet[side]
           char == NextChar(side)
           high == [held EXCEPT !.at = "low", !.high = char]
           both == 16 * HexCharToNibble(held.high) + HexCharToNibble(char)
           low  == IF IsHexDigit(held.high) /\ IsHexDigit(char)
                   THEN [held EXCEPT !.expected = both, !.at = "poll"] ELSE Mismatched(held)
<1>1. wire[side] # << >> /\ (Consume(side, high) \/ Consume(side, low))
  BY DEF ReadChecksumHigh, ReadChecksumLow, Reads
<1>2. held \in Held /\ char \in ByteRange /\ "low" \in Places /\ "poll" \in Places
  BY <1>1, TakenIs DEF LineInv, Places, Waiting
<1> HIDE DEF held, char
<1>3. high \in Held
  BY <1>2 DEF Held
<1>4. low \in Held
  <2>1. CASE IsHexDigit(held.high) /\ IsHexDigit(char)
    <3>1. HexCharToNibble(held.high) \in 0 .. 15 /\ HexCharToNibble(char) \in 0 .. 15
      BY <2>1, NibbleOfDigit
    <3>2. both \in ByteRange
      BY <3>1 DEF ByteRange
    <3> HIDE DEF both
    <3> QED BY <1>2, <2>1, <3>2 DEF Held
  <2>2. CASE ~(IsHexDigit(held.high) /\ IsHexDigit(char))
    BY <1>2, <2>2, HeldIs
  <2> QED BY <2>1, <2>2
<1> HIDE DEF high, low
<1> QED BY <1>1, <1>3, <1>4, ConsumeKeeps

LEMMA StartKeeps ==
    ASSUME LineInv, NEW side \in Sides, ReadAcknowledge(side) \/ ReadStart(side)
    PROVE  LineInv'
<1> DEFINE held == packet[side]
           char == NextChar(side)
           acknowledged == [held EXCEPT !.at = IF char = ControlC THEN "ack" ELSE "sent"]
           started == IF char = Dollar THEN InData(held) ELSE held
<1>1. wire[side] # << >> /\ (Consume(side, acknowledged) \/ Consume(side, started))
  BY DEF ReadAcknowledge, ReadStart, Reads
<1>2. held \in Held /\ "ack" \in Places /\ "sent" \in Places
  BY DEF LineInv, Places, Waiting
<1> HIDE DEF held, char
<1>3. acknowledged \in Held /\ started \in Held
  BY <1>2, HeldIs
<1> HIDE DEF acknowledged, started
<1> QED BY <1>1, <1>3, ConsumeKeeps

LEMMA SendAgainKeeps ==
    ASSUME LineInv, NEW side \in Sides, SendAgain(side)
    PROVE  LineInv'
<1>1. NextChar(side) \in ByteRange /\ Taken(side) \in [Sides -> Seq(ByteRange)]
  BY TakenIs DEF SendAgain, Reads
<1>2. packet[side] \in Held
  BY DEF LineInv
<1>3. Framed(Text(packet[side].buffer)) \in Seq(ByteRange) /\ Other(side) \in Sides
  BY <1>2, HeldIs, TextIs, FramedIs DEF Other, Sides
<1>4. wire' \in [Sides -> Seq(ByteRange)] /\ faults' \in 0 .. MaxFaults
  BY <1>1, <1>3, TransmitKeeps DEF SendAgain, LineInv
<1>5. [packet[side] EXCEPT !.last = NextChar(side)] \in Held
  BY <1>1, <1>2, HeldIs
<1>6. packet' = [packet EXCEPT ![side] = [packet[side] EXCEPT !.last = NextChar(side)]]
  BY DEF SendAgain, LineInv
<1>7. packet' \in [Sides -> Held]
  BY <1>5, <1>6 DEF LineInv
<1> QED BY <1>4, <1>7 DEF LineInv

\* A packet that is complete is passed over, acknowledged or refused.
LEMMA JudgeKeeps ==
    ASSUME LineInv, NEW side \in Sides, JudgePacket(side)
    PROVE  LineInv'
<1> DEFINE held == packet[side]
           received == [held EXCEPT !.at = "received", !.buffer = BufferReset(SetEndOfBuffer(held.buffer))]
<1>1. held \in Held /\ Other(side) \in Sides /\ "received" \in Places
  BY DEF LineInv, Other, Sides, Places
<1>2. <<Plus>> \in Seq(ByteRange) /\ <<Minus>> \in Seq(ByteRange)
  BY DEF Plus, Minus, ByteRange
<1>3. CASE PassOver(side)
  <2>1. packet' = [packet EXCEPT ![side] = AtStart(held)] /\ UNCHANGED <<wire, faults>>
    BY <1>3 DEF PassOver, LineInv
  <2> HIDE DEF held
  <2>2. AtStart(held) \in Held
    BY <1>1, HeldIs
  <2> QED BY <2>1, <2>2 DEF LineInv
<1>4. CASE Refuse(side)
  <2>1. packet' = [packet EXCEPT ![side] = AtStart(held)] /\ Transmit(wire, Other(side), <<Minus>>)
    BY <1>4 DEF Refuse, LineInv
  <2> HIDE DEF held
  <2>2. AtStart(held) \in Held
    BY <1>1, HeldIs
  <2>3. wire' \in [Sides -> Seq(ByteRange)] /\ faults' \in 0 .. MaxFaults
    BY <1>1, <1>2, <2>1, TransmitKeeps DEF LineInv
  <2> QED BY <2>1, <2>2, <2>3 DEF LineInv
<1>5. CASE Acknowledge(side)
  <2>1. packet' = [packet EXCEPT ![side] = received] /\ Transmit(wire, Other(side), <<Plus>>)
    BY <1>5 DEF Acknowledge
  <2> HIDE DEF held
  <2>2. BufferReset(SetEndOfBuffer(held.buffer)) \in Buffers
    BY <1>1, HeldIs, EndedBuffer, BuffersAre
  <2>3. received \in Held
    BY <1>1, <2>2 DEF Held
  <2> HIDE DEF received
  <2>4. wire' \in [Sides -> Seq(ByteRange)] /\ faults' \in 0 .. MaxFaults
    BY <1>1, <1>2, <2>1, TransmitKeeps DEF LineInv
  <2> QED BY <2>1, <2>3, <2>4 DEF LineInv
<1> QED BY <1>3, <1>4, <1>5 DEF JudgePacket

LEMMA ReceiveKeeps ==
    ASSUME LineInv, NEW side \in Sides, ReceiveChar(side) \/ JudgePacket(side)
    PROVE  LineInv'
BY StartKeeps, SendAgainKeeps, DataKeeps, DataEndKeeps, ChecksumKeeps, JudgeKeeps DEF ReceiveChar

\* The client gives up.
LEMMA TimeOutKeeps ==
    ASSUME LineInv, TimedOut \/ TimedOutInChecksum
    PROVE  LineInv'
<1> DEFINE held == packet["client"]
<1>1. held \in Held /\ "client" \in Sides /\ "failed" \in Places /\ MaxFaults \in Nat
  BY BufferAssumption DEF LineInv, Sides, Places
<1>2. /\ UNCHANGED wire
      /\ \/ packet' = [packet EXCEPT !["client"] = [held EXCEPT !.at = "failed"]]
         \/ packet' = [packet EXCEPT !["client"] = Mismatched(held)]
  BY DEF TimedOut, TimedOutInChecksum, LineInv
<1>3. faults' \in 0 .. MaxFaults
  BY <1>1 DEF TimedOut, TimedOutInChecksum, NothingCame, LineInv
<1> HIDE DEF held
<1>4. [held EXCEPT !.at = "failed"] \in Held /\ Mismatched(held) \in Held
  BY <1>1, HeldIs
<1> QED BY <1>1, <1>2, <1>3, <1>4 DEF LineInv

-----------------------------------------------------------------------------
(* The steps of a call and of the monitor.                                 *)

DeviceInv == device \in States /\ replies \in Seq(Seq(ByteRange)) /\ times \in Nat

\* A call that has returned from a request for registers or for a single step
\* has given one byte.
CallInv ==
    /\ request \in Requests /\ stage \in {"open", "returned", "failed"}
    /\ stage = "returned" /\ request.op \in {"g", "s"} => result \in Seq(ByteRange) /\ Len(result) = 1

\* Each place of a step behind which a byte is taken from the result has made
\* the call that gives one.
RoutineInv ==
    /\ at \in Places2 /\ context \in Bytes /\ signal \in Bytes
    /\ at = "singleStep" => request.op = "s"
    /\ at \in {"getRegisters", "getAgain"} => request.op = "g"

Inv == LineInv /\ DeviceInv /\ CallInv /\ RoutineInv

\* A call begins, whatever the last one left.
LEMMA BeginCallKeeps ==
    ASSUME Inv, NEW asked \in Requests, asked.op \in Operations, BeginCall(asked) \/ CallTooLong(asked)
    PROVE  LineInv' /\ DeviceInv' /\ CallInv' /\ request' = asked
<1>1. "client" \in Sides /\ "failed" \in Places
  BY DEF Sides, Places
<1>2. CASE BeginCall(asked)
  <2>1. RequestText(asked) \in Seq(ByteRange)
    BY RequestTextIs
  <2>2. LineInv'
    BY <1>1, <1>2, <2>1, SendKeeps DEF BeginCall, Inv, LineInv
  <2> QED BY <1>2, <2>2 DEF BeginCall, Inv, DeviceInv, CallInv
<1>3. CASE CallTooLong(asked)
  <2>1. packet["client"] \in Held
    BY <1>1 DEF Inv, LineInv
  <2>2. [packet["client"] EXCEPT !.at = "failed"] \in Held
    BY <1>1, <2>1, HeldIs
  <2>3. /\ packet' = [packet EXCEPT !["client"] = [packet["client"] EXCEPT !.at = "failed"]]
        /\ UNCHANGED <<wire, faults>>
    BY <1>3 DEF CallTooLong, Inv, LineInv
  <2>4. LineInv'
    BY <2>2, <2>3 DEF Inv, LineInv
  <2> QED BY <1>3, <2>4 DEF CallTooLong, Inv, DeviceInv, CallInv
<1> QED BY <1>2, <1>3

LEMMA CallerKeeps ==
    ASSUME Inv, CallerStep
    PROVE  LineInv' /\ DeviceInv' /\ CallInv' /\ request' = request
<1> USE DEF monitor, caller
<1>1. /\ "client" \in Sides /\ "failed" \in Places /\ "idle" \in Places
      /\ packet["client"] \in Held /\ packet \in [Sides -> Held]
  BY DEF Sides, Places, Inv, LineInv
<1>2. CASE AwaitResponse \/ SkipOutput
  <2>1. /\ packet' = [packet EXCEPT !["client"] = PacketGet]
        /\ UNCHANGED <<wire, faults, monitor, caller>>
    BY <1>2 DEF AwaitResponse, SkipOutput
  <2>2. LineInv'
    BY <1>1, <2>1, PacketGetIs DEF Inv, LineInv
  <2> QED BY <2>1, <2>2 DEF Inv, DeviceInv, CallInv
<1> DEFINE parsed == Parsed(request, Client.buffer)
           left(place) == [packet["client"] EXCEPT !.at = place, !.buffer = parsed.buffer]
<1>3. /\ IsBuffer(parsed.buffer)
      /\ parsed.thrown = "none" /\ request.op \in {"g", "s"} =>
             parsed.value \in Seq(ByteRange) /\ Len(parsed.value) = 1
  <2>1. IsBuffer(Client.buffer)
    BY <1>1, HeldIs DEF Client
  <2>2. request \in Requests
    BY DEF Inv, CallInv
  <2> QED BY <2>1, <2>2, ParsedKeeps
<1>4. CASE CallReturns
  <2>1. /\ packet' = [packet EXCEPT !["client"] = left("idle")] /\ parsed.thrown = "none"
        /\ stage' = "returned" /\ result' = parsed.value
        /\ UNCHANGED <<wire, faults, monitor, request>>
    BY <1>1, <1>4 DEF CallReturns
  <2> HIDE DEF parsed
  <2>2. left("idle") \in Held
    BY <1>1, <1>3, BuffersAre DEF Held
  <2> HIDE DEF left
  <2>3. LineInv'
    BY <2>1, <2>2 DEF Inv, LineInv
  <2> QED BY <1>3, <2>1, <2>3 DEF Inv, DeviceInv, CallInv
<1>5. CASE CallThrows
  <2>1. /\ packet' = [packet EXCEPT !["client"] = left("failed")] /\ stage' = "failed"
        /\ UNCHANGED <<wire, faults, monitor, request, result>>
    BY <1>1, <1>5 DEF CallThrows
  <2> HIDE DEF parsed
  <2>2. left("failed") \in Held
    BY <1>1, <1>3, BuffersAre DEF Held
  <2> HIDE DEF left
  <2>3. LineInv'
    BY <2>1, <2>2 DEF Inv, LineInv
  <2> QED BY <2>1, <2>3 DEF Inv, DeviceInv, CallInv
<1>6. CASE CallTimesOut
  <2>1. LineInv' /\ stage' = "failed" /\ UNCHANGED <<monitor, request, result>>
    BY <1>6, TimeOutKeeps DEF CallTimesOut, Inv
  <2> QED BY <2>1 DEF Inv, DeviceInv, CallInv
<1>7. CASE ChecksumTimesOut
  <2>1. LineInv' /\ UNCHANGED <<monitor, caller>>
    BY <1>7, TimeOutKeeps DEF ChecksumTimesOut, Inv
  <2> QED BY <2>1 DEF Inv, DeviceInv, CallInv
<1> QED BY <1>2, <1>4, <1>5, <1>6, <1>7 DEF CallerStep

LEMMA MonitorKeeps ==
    ASSUME Inv, MonitorStep
    PROVE  LineInv' /\ DeviceInv' /\ CallInv' /\ request' = request
<1> USE DEF line, monitor, caller
<1>1. "device" \in Sides /\ packet["device"] \in Held /\ packet \in [Sides -> Held]
  BY DEF Sides, Inv, LineInv
<1>2. CASE Serve
  <2>1. PICK asked \in {ParsedRequest(Monitor.buffer)} :
           /\ device' = After(device, asked) /\ times' = times + 1
           /\ replies' \in Responses(asked)
    BY <1>2 DEF Serve
  <2>2. asked \in Requests
    <3>1. IsBuffer(Monitor.buffer)
      BY <1>1, HeldIs DEF Monitor
    <3> QED BY <3>1, ParsedRequestIs
  <2>3. device \in States /\ times \in Nat
    BY DEF Inv, DeviceInv
  <2> DEFINE response == ResponseText(AnswerTo(device, asked))
  <2>4. response \in Seq(ByteRange) /\ <<OutputLetter>> \in Seq(ByteRange)
    BY <2>2, <2>3, AnswerToIs, ResponseTextIs DEF OutputLetter, ByteRange
  <2>5. replies' = <<response>> \/ replies' = << <<OutputLetter>>, response>>
    BY <2>1 DEF Responses
  <2> HIDE DEF response
  <2>6. replies' \in Seq(Seq(ByteRange))
    <3> DEFINE Texts == Seq(ByteRange)
               output == <<OutputLetter>>
    <3>1. response \in Texts /\ output \in Texts /\ (replies' = <<response>> \/ replies' = <<output, response>>)
      BY <2>4, <2>5
    <3> HIDE DEF Texts, output
    <3>2. <<response>> \in Seq(Texts) /\ <<output, response>> \in Seq(Texts)
      BY <3>1
    <3>3. replies' \in Seq(Texts)
      BY <3>1, <3>2, Zenon
    <3> QED BY <3>3 DEF Texts
  <2>7. device' \in States /\ times' \in Nat
    BY <2>1, <2>2, <2>3, AfterIs
  <2>8. UNCHANGED <<wire, packet, faults, request, stage, result>>
    BY <1>2 DEF Serve
  <2> QED BY <2>6, <2>7, <2>8 DEF Inv, LineInv, DeviceInv, CallInv
<1>3. CASE Reply
  <2>1. Head(replies) \in Seq(ByteRange) /\ Tail(replies) \in Seq(Seq(ByteRange))
    BY <1>3, HeadTailProperties DEF Reply, Inv, DeviceInv
  <2>2. LineInv'
    BY <1>1, <1>3, <2>1, SendKeeps DEF Reply, Inv, LineInv
  <2> QED BY <1>3, <2>1, <2>2 DEF Reply, Inv, DeviceInv, CallInv
<1>4. CASE ContinueServing
  <2>1. LineInv'
    BY <1>1, <1>4, PacketGetIs DEF ContinueServing, Inv, LineInv
  <2> QED BY <1>4, <2>1 DEF ContinueServing, Inv, DeviceInv, CallInv
<1> QED BY <1>2, <1>3, <1>4 DEF MonitorStep

-----------------------------------------------------------------------------
(* The steps of a routine.                                                 *)

\* The addresses and sizes that a step reads at are unsigned integers.
LEMMA BytesAreUIntegers ==
    Bytes \subseteq UIntegers /\ {0, 2, 4} \subseteq UIntegers
BY PowersAre DEF Bytes, UIntegers

LEMMA ReadRequestIs ==
    ASSUME NEW address \in Bytes, NEW size \in {2, 4}
    PROVE  ReadRequest(address, size) \in Requests /\ ReadRequest(address, size).op = "m"
<1>1. NoBytes \in Seq(Bytes)
  BY DEF NoBytes
<1> QED BY <1>1, BytesAreUIntegers, RequestIs DEF ReadRequest

\* The byte of a result.
LEMMA ResultIs ==
    ASSUME Inv, NEW place \in {"singleStep", "getRegisters", "getAgain"}, Returned(place)
    PROVE  result[1] \in Bytes
<1>1. request.op \in {"g", "s"} /\ stage = "returned"
  BY DEF Returned, Inv, RoutineInv
<1>2. result \in Seq(ByteRange) /\ Len(result) = 1
  BY <1>1 DEF Inv, CallInv
<1>3. result[1] \in ByteRange
  BY <1>2
<1> QED BY <1>3 DEF ByteRange, Bytes

\* A routine that goes on to its next call, or ends.
LEMMA StepsKeep ==
    ASSUME Inv, ThunkStep
    PROVE  Inv'
<1> USE DEF thunk, rvars, line, monitor, caller
<1>1. context \in Bytes /\ signal \in Bytes /\ Vector \in Bytes /\ Status \in Bytes
  BY DeviceAssumption DEF Inv, RoutineInv
<1>2. \A op \in {"g", "s"} : Simple(op) \in Requests /\ Simple(op).op = op /\ op \in Operations
  BY SimpleIs DEF Operations
<1>3. "m" \in Operations
  BY DEF Operations
<1>4. CASE SingleStep
  <2>1. LineInv' /\ DeviceInv' /\ CallInv' /\ request'.op = "s"
    BY <1>2, <1>4, BeginCallKeeps DEF SingleStep
  <2> QED BY <1>1, <1>4, <2>1 DEF SingleStep, Goes, Inv, RoutineInv, Places2
<1>5. CASE GetRegisters
  <2>1. LineInv' /\ DeviceInv' /\ CallInv' /\ request'.op = "g"
    BY <1>2, <1>5, BeginCallKeeps DEF GetRegisters
  <2>2. signal' \in Bytes
    BY <1>5, ResultIs DEF GetRegisters
  <2> QED BY <1>1, <1>5, <2>1, <2>2 DEF GetRegisters, Goes, Inv, RoutineInv, Places2
<1>6. CASE DetermineHardFaultCause
  <2>1. ReadRequest(Status, 2) \in Requests /\ ReadRequest(Status, 2).op \in Operations
    BY <1>1, <1>3, ReadRequestIs
  <2>2. LineInv' /\ DeviceInv' /\ CallInv'
    BY <1>6, <2>1, BeginCallKeeps DEF DetermineHardFaultCause
  <2>3. context' \in Bytes
    BY <1>6, ResultIs DEF DetermineHardFaultCause
  <2> QED BY <1>1, <1>6, <2>2, <2>3 DEF DetermineHardFaultCause, Goes, Inv, RoutineInv, Places2
<1>7. CASE DetermineDebugTrapCause
  <2>1. ReadRequest(Vector, 4) \in Requests /\ ReadRequest(Vector, 4).op \in Operations
    BY <1>1, <1>3, ReadRequestIs
  <2>2. LineInv' /\ DeviceInv' /\ CallInv'
    BY <1>7, <2>1, BeginCallKeeps DEF DetermineDebugTrapCause
  <2>3. context' \in Bytes
    BY <1>7, ResultIs DEF DetermineDebugTrapCause
  <2> QED BY <1>1, <1>7, <2>2, <2>3 DEF DetermineDebugTrapCause, Goes, Inv, RoutineInv, Places2
<1>8. CASE WasSVC
  <2>1. LineInv' /\ DeviceInv' /\ CallInv'
    BY <1>2, <1>8, BeginCallKeeps DEF WasSVC
  <2> QED BY <1>1, <1>8, <2>1 DEF WasSVC, Goes, Inv, RoutineInv, Places2
<1>9. CASE GetRegistersAgain
  <2>1. LineInv' /\ DeviceInv' /\ CallInv' /\ request'.op = "g"
    BY <1>2, <1>9, BeginCallKeeps DEF GetRegistersAgain
  <2> QED BY <1>1, <1>9, <2>1 DEF GetRegistersAgain, Goes, Inv, RoutineInv, Places2
<1>10. CASE WasBKPT
  <2>1. ReadRequest(context, 2) \in Requests /\ ReadRequest(context, 2).op \in Operations
    BY <1>1, <1>3, ReadRequestIs
  <2>2. LineInv' /\ DeviceInv' /\ CallInv'
    BY <1>10, <2>1, BeginCallKeeps DEF WasBKPT
  <2> QED BY <1>1, <1>10, <2>2 DEF WasBKPT, Goes, Inv, RoutineInv, Places2
<1>11. ASSUME NEW how, Ends(how), context' \in Bytes PROVE Inv'
  BY <1>1, <1>11 DEF Ends, Inv, LineInv, DeviceInv, CallInv, RoutineInv, Places2
<1>12. CASE WasUndefinedInstruction \/ NotInRam \/ InstructionRead \/ AccessReturns
  BY <1>1, <1>11, <1>12 DEF WasUndefinedInstruction, NotInRam, InstructionRead, AccessReturns
<1>13. CASE OtherSignal \/ SteppedOut
  <2>1. context' \in Bytes
    BY <1>13, ResultIs DEF OtherSignal, SteppedOut
  <2> QED BY <1>11, <1>13, <2>1 DEF OtherSignal, SteppedOut
<1>14. CASE Dies
  BY <1>14 DEF Dies, Inv, LineInv, DeviceInv, CallInv, RoutineInv, Places2
<1> QED BY <1>4, <1>5, <1>6, <1>7, <1>8, <1>9, <1>10, <1>12, <1>13, <1>14 DEF ThunkStep

\* A routine begins.
LEMMA StartKeepsInv ==
    ASSUME Inv, StartStep \/ StartAccess
    PROVE  Inv'
<1>1. CASE StartStep
  <2>1. PICK pc \in Starts : context' = pc /\ BeginCall(Request("G", 0, 0, <<pc>>))
    BY <1>1 DEF StartStep
  <2>2. pc \in Bytes
    BY ThunkAssumption
  <2>3. <<pc>> \in Seq(Bytes) /\ <<pc>> # << >>
    BY <2>2
  <2>4. Request("G", 0, 0, <<pc>>) \in Requests /\ Request("G", 0, 0, <<pc>>).op \in Operations
    BY <2>3, BytesAreUIntegers, RequestIs DEF Operations
  <2>5. LineInv' /\ DeviceInv' /\ CallInv'
    BY <2>1, <2>4, BeginCallKeeps
  <2> QED BY <1>1, <2>1, <2>2, <2>5 DEF StartStep, Inv, RoutineInv, Places2
<1>2. CASE StartAccess
  <2>1. PICK asked \in MemoryRequests : BeginCall(asked) \/ CallTooLong(asked)
    BY <1>2 DEF StartAccess
  <2>2. asked \in Requests /\ asked.op \in Operations
    <3>1. asked \in [op : {"m", "M"}, address : UIntegers, size : {1, 2, 4}, bytes : Seq(Bytes)]
      BY <2>1, ThunkAssumption
    <3>2. asked.size \in UIntegers
      <4>1. asked.size \in {1, 2, 4}
        BY <3>1
      <4>2. {1, 2, 4} \subseteq Bytes
        BY DEF Bytes
      <4> QED BY <4>1, <4>2, BytesAreUIntegers
    <3> QED BY <3>1, <3>2 DEF Requests, Operations
  <2>3. LineInv' /\ DeviceInv' /\ CallInv'
    BY <2>1, <2>2, BeginCallKeeps
  <2> QED BY <1>2, <2>3 DEF StartAccess, Inv, RoutineInv, Places2
<1> QED BY <1>1, <1>2

LEMMA RestartKeeps ==
    ASSUME Inv, Restart
    PROVE  Inv'
<1> USE DEF monitor, caller
<1> DEFINE quiet == [wire EXCEPT !["client"] = << >>]
           started == [PacketGet EXCEPT !.at = "idle"]
<1>1. "client" \in Sides /\ "device" \in Sides /\ "idle" \in Places /\ <<Plus>> \in Seq(ByteRange)
  BY DEF Sides, Places, Plus, ByteRange
<1>2. quiet \in [Sides -> Seq(ByteRange)] /\ started \in Held
  BY <1>1, PacketGetIs, HeldIs DEF Inv, LineInv
<1>3. /\ packet' = [packet EXCEPT !["client"] = started] /\ Transmit(quiet, "device", <<Plus>>)
      /\ UNCHANGED <<monitor, caller, context, signal>> /\ at' = "idle"
  BY DEF Restart
<1> HIDE DEF quiet, started
<1>4. wire' \in [Sides -> Seq(ByteRange)] /\ faults' \in 0 .. MaxFaults
  BY <1>1, <1>2, <1>3, TransmitKeeps DEF Inv, LineInv
<1>5. LineInv'
  BY <1>2, <1>3, <1>4 DEF Inv, LineInv
<1> QED BY <1>3, <1>5 DEF Inv, DeviceInv, CallInv, RoutineInv, Places2

-----------------------------------------------------------------------------
LEMMA InitIsTyped == Init => Inv
<1> SUFFICES ASSUME Init PROVE Inv
  OBVIOUS
<1>1. LineInv
  <2>1. MaxFaults \in Nat /\ <<Plus>> \in Seq(ByteRange) /\ << >> \in Seq(ByteRange)
    BY BufferAssumption DEF Plus, ByteRange
  <2>2. \A place \in Places : [PacketGet EXCEPT !.at = place] \in Held
    BY PacketGetIs, HeldIs
  <2>3. "idle" \in Places /\ "start" \in Places
    BY DEF Places, Waiting
  <2>4. /\ wire = [side \in Sides |-> IF side = "device" THEN <<Plus>> ELSE << >>]
        /\ packet = [side \in Sides |-> [PacketGet EXCEPT !.at = IF side = "client" THEN "idle" ELSE "start"]]
        /\ faults = 0
    BY DEF Init, RemoteInit, LineInit
  <2>5. wire \in [Sides -> Seq(ByteRange)]
    BY <2>1, <2>4
  <2>6. packet \in [Sides -> Held]
    BY <2>2, <2>3, <2>4
  <2> QED BY <2>1, <2>4, <2>5, <2>6 DEF LineInv
<1>2. DeviceInv
  <2>1. Handler \in Bytes /\ 0 \in Bytes
    BY DeviceAssumption DEF Bytes
  <2>2. PowerOn \in States
    BY <2>1 DEF PowerOn, States
  <2> QED BY <2>2 DEF Init, RemoteInit, DeviceInv
<1>3. CallInv
  BY SimpleIs DEF Init, RemoteInit, CallInv, NoRequest
<1>4. RoutineInv
  BY DEF Init, RoutineInv, Places2, Bytes
<1> QED BY <1>1, <1>2, <1>3, <1>4 DEF Inv

LEMMA StepIsTyped == Inv /\ [Next]_vars => Inv'
<1> SUFFICES ASSUME Inv, [Next]_vars PROVE Inv'
  OBVIOUS
<1> USE DEF thunk, monitor, caller
<1>1. ASSUME LineInv', DeviceInv', CallInv', request' = request, UNCHANGED thunk PROVE Inv'
  BY <1>1 DEF Inv, RoutineInv
<1>2. CASE ClientReceives \/ MonitorReceives
  <2>1. PICK side \in Sides : Receive(side) /\ UNCHANGED thunk
    BY <1>2 DEF ClientReceives, MonitorReceives, Sides
  <2>2. LineInv'
    BY <2>1, ReceiveKeeps DEF Receive, Inv
  <2>3. UNCHANGED <<device, replies, times, answer, request, stage, result>>
    BY <2>1 DEF Receive
  <2> QED BY <1>1, <2>1, <2>2, <2>3 DEF Inv, DeviceInv, CallInv
<1>3. CASE CallerSteps
  BY <1>1, <1>3, CallerKeeps DEF CallerSteps
<1>4. CASE MonitorSteps
  BY <1>1, <1>4, MonitorKeeps DEF MonitorSteps
<1>5. CASE UNCHANGED vars
  BY <1>5 DEF vars, rvars, line, Inv, LineInv, DeviceInv, CallInv, RoutineInv
<1> QED
  BY <1>2, <1>3, <1>4, <1>5, StepsKeep, StartKeepsInv, RestartKeeps DEF Next, Process, DeviceProcess

\* Types of the remote calls: whatever characters the line loses or damages and
\* whatever instructions and memory the device has, the cursors and ends of the
\* packets' buffers stay within their characters (packet.c writes and reads no
\* character outside), only characters are sent, and the program counter and
\* the signal that a step takes from the result of a call are bytes.
THEOREM CallsHaveTypes == Spec => []TypeOK
<1>1. Inv => TypeOK
  <2> SUFFICES ASSUME Inv PROVE TypeOK
    OBVIOUS
  <2>1. ASSUME NEW side \in Sides
        PROVE  /\ packet[side].at \in Places /\ IsBuffer(packet[side].buffer)
               /\ packet[side].last \in ByteRange /\ packet[side].high \in ByteRange
               /\ packet[side].sum \in ByteRange /\ packet[side].expected \in ByteRange
    <3>1. packet[side] \in Held
      BY DEF Inv, LineInv
    <3> QED BY <3>1, HeldIs DEF Held
  <2> QED BY <2>1 DEF Inv, LineInv, DeviceInv, CallInv, RoutineInv, TypeOK, LineTypeOK
<1> QED BY <1>1, InitIsTyped, StepIsTyped, PTL DEF Spec

-----------------------------------------------------------------------------
(* A call over a line without faults, phase by phase.                      *)

\* Texts without the characters that begin and end the data of a packet.
Chars == ByteRange \ {Dollar, Hash}
\* The text of the response to the call under way.
Response == ResponseText(answer)

\* What is left of a packet of which k characters have been read.
Unread(text, k) == SubSeq(Framed(text), k + 1, Len(Framed(text)))

\* The characters of a text as far as they have been read.
Begins(buffer, text, n) == \A k \in 1 .. n : buffer.chars[k] = text[k]

\* A packet that has been received, of that text.
Carries(buffer, text) == buffer.pos = 0 /\ buffer.end = Len(text) /\ Begins(buffer, text, Len(text))

\* A side that has read k characters of the packet of that text.
Holds(held, text, k) ==
    LET length == Len(text)
    IN  /\ held.buffer.end = BufferSize
        /\ \/ /\ k \in 1 .. length + 1 /\ held.at = "data" /\ held.buffer.pos = k - 1
              /\ Begins(held.buffer, text, k - 1) /\ held.sum = SumOf(text)[k - 1]
           \/ /\ k \in length + 2 .. length + 4 /\ held.buffer.pos = length
              /\ Begins(held.buffer, text, length) /\ held.sum = Checksum(text)
              /\ k = length + 2 => held.at = "high"
              /\ k = length + 3 => held.at = "low" /\ held.high = Framed(text)[length + 3]
              /\ k = length + 4 => held.at = "poll" /\ held.expected = Checksum(text)

\* A packet of that text is on its way to a side, which has begun to read it.
Comes(side, text) ==
    \E k \in 1 .. Len(text) + 4 : wire[side] = Unread(text, k) /\ Holds(packet[side], text, k)

\* A side that will begin to read a packet behind what is on the line for it.
Waits(held, before) ==
    \/ held.at = "start" /\ held.buffer.end = BufferSize /\ before \in {<< >>, <<Plus>>}
    \/ held.at = "ack" /\ before = <<Plus>>
    \/ held.at = "sent" /\ before = << >>

\* The client may also have received the output of a single step.
HasOutput == request.op = "s" /\ Client.at = "received" /\ Carries(Client.buffer, <<OutputLetter>>)
ClientWaits(before) == Waits(Client, before) \/ (before = << >> /\ HasOutput)

\* No packet is on its way to the device.
Rests == replies = << >> /\ Waits(Monitor, wire["device"])

\* No call is under way.
Closed ==
    /\ stage = "failed" \/ (stage = "returned" /\ Client.at = "idle")
    /\ Client.at \in {"idle", "failed"} /\ wire["client"] = << >> /\ Rests

\* The request is on its way to the monitor.
Asks ==
    /\ stage = "open" /\ times = 0 /\ replies = << >> /\ Client.at = "ack" /\ wire["client"] = << >>
    /\ \/ \E before \in {<< >>, <<Plus>>} :
              wire["device"] = before \o Framed(RequestText(request)) /\ Waits(Monitor, before)
       \/ Comes("device", RequestText(request))

\* The monitor has received it.
Hears ==
    /\ stage = "open" /\ times = 0 /\ replies = << >> /\ ClientWaits(wire["client"])
    /\ wire["device"] = << >> /\ Monitor.at = "received" /\ Carries(Monitor.buffer, RequestText(request))

\* It has carried the request out, and has packets to send.
Serves ==
    /\ stage = "open" /\ times = 1 /\ ClientWaits(wire["client"])
    /\ \/ replies = <<Response>>
       \/ request.op = "s" /\ replies = << <<OutputLetter>>, Response>>
    /\ \/ wire["device"] = << >> /\ Monitor.at \in {"received", "sent"}
       \/ wire["device"] = <<Plus>> /\ Monitor.at = "ack"

\* The packet that is on its way to the client, and those behind it.
Sent(text) ==
    \/ text = Response /\ replies = << >>
    \/ request.op = "s" /\ text = <<OutputLetter>> /\ replies = <<Response>>

\* One of them is on its way to the client.
Tells ==
    /\ stage = "open" /\ times = 1 /\ wire["device"] = << >> /\ Monitor.at = "ack"
    /\ \E text \in {Response, <<OutputLetter>>} :
           /\ Sent(text)
           /\ \/ \E before \in {<< >>, <<Plus>>} :
                     wire["client"] = before \o Framed(text) /\ ClientWaits(before)
              \/ Comes("client", text)

\* The client has received the response.
Told ==
    /\ stage = "open" /\ times = 1 /\ Rests
    /\ wire["client"] = << >> /\ Client.at = "received" /\ Carries(Client.buffer, Response)

\* Where a call is.
Phase == Closed \/ Asks \/ Hears \/ Serves \/ Tells \/ Told

\* Requests as the thunk makes them.
Asked ==
    {asked \in [op : Operations, address : UIntegers, size : UIntegers, bytes : Seq(Bytes)] :
        /\ asked.op \in {"g", "s"} => asked = Simple(asked.op)
        /\ asked.op = "G" => asked.address = 0 /\ asked.size = 0 /\ Len(asked.bytes) = 1
        /\ asked.op = "m" => asked.size \in {1, 2, 4} /\ asked.bytes = NoBytes
        /\ asked.op = "M" => asked.size \in {1, 2, 4} /\ Len(asked.bytes) = asked.size}

\* The answers that a request may have.
Suits(asked, answered) ==
    CASE asked.op = "g" -> answered.kind = "bytes" /\ Len(answered.bytes) = 1
      [] asked.op = "m" -> \/ answered = Refusal
                           \/ answered.kind = "bytes" /\ Len(answered.bytes) \in 1 .. asked.size
      [] asked.op = "s" -> answered.kind = "signal" /\ Len(answered.bytes) = 1
      [] asked.op = "G" -> answered = Answer("ok", NoBytes)
      [] asked.op = "M" -> answered \in {Answer("ok", NoBytes), Refusal}

\* What the caller knows of the request, and the device of the answer.
AnswerInv ==
    /\ request = NoRequest \/ request \in Asked
    /\ request # NoRequest /\ times = 1 =>
           /\ answer \in Answers /\ Suits(request, answer)
           /\ request.op \in {"g", "m"} => answer = AnswerTo(device, request)
           /\ request.op = "G" => device.pc = request.bytes[1]
    /\ stage = "open" => request # NoRequest /\ Fits(request)
    /\ stage = "returned" /\ request # NoRequest =>
           times = 1 /\ Promise!MayReturn(request, answer) /\ result = Promise!Result(request, answer)
    /\ stage = "failed" => ~Fits(request) \/ ~Promise!MayReturn(request, answer)

\* No call is under way when the process is between routines, or gone.
ProcessInv ==
    /\ at \in {"idle", "dead"} => stage # "open"
    /\ at = "dead" => Client.at = "failed"

\* What holds as long as the line makes no fault.
QuietInv == Phase /\ AnswerInv /\ ProcessInv

-----------------------------------------------------------------------------
(* A step, call by call.                                                   *)

\* Where an instruction leaves the program counter, and the signal it raises.
Landing(pc) == IF InstructionAt(pc) = "svc" THEN Handler ELSE Arrival(pc)
SignalAt(pc) == SignalOf([PowerOn EXCEPT !.pc = pc])

\* The device has executed the instruction that the step began at, and no other.
Ran ==
    /\ device.pc = Landing(began)
    /\ InstructionAt(began) = "svc" => device.back = began + 2
    /\ InstructionAt(began) \in {"undefined", "fault"} => device.undefined = (InstructionAt(began) = "undefined")

\* What each call of a step rests on.
CallsInv ==
    /\ at = "setRegisters" => request = Request("G", 0, 0, <<began>>)
    /\ at = "singleStep" =>
           /\ request = Simple("s") /\ (times = 0 => device.pc = began)
           /\ times = 1 => Ran /\ answer.bytes = <<SignalAt(began)>>
    /\ at = "getRegisters" => request = Simple("g") /\ Ran /\ signal = SignalAt(began)
    /\ at \in {"faultStatus", "vector", "instruction"} => Ran /\ context = Landing(began)
    /\ at = "faultStatus" => request = ReadRequest(Status, 2) /\ SignalAt(began) = SIGSEGV
    /\ at = "vector" => request = ReadRequest(Vector, 4) /\ SignalAt(began) = SIGTRAP
    /\ at = "instruction" =>
           /\ request = ReadRequest(context, 2) /\ SignalAt(began) = SIGTRAP
           /\ InstructionAt(began) # "svc" /\ context \in RamBase .. RamEnd - 1
    /\ at = "stepOut" =>
           /\ request = Simple("s") /\ InstructionAt(began) = "svc"
           /\ (times = 0 => device.pc = Handler /\ device.back = began + 2)
           /\ (times = 1 => device.pc = began + 2)
    /\ at = "getAgain" => request = Simple("g") /\ InstructionAt(began) = "svc" /\ device.pc = began + 2

\* What holds of a step while its calls are made, and when it has ended.
StepInv ==
    /\ at \notin {"idle", "dead", "memory"} => began \in Starts
    /\ at = "dead" => outcome = "failed"
    /\ CallsInv /\ StepsTellWhatRan

-----------------------------------------------------------------------------
(* The characters of a packet, one after the other.                        *)

\* Two texts put together.
LEMMA JoinedText ==
    ASSUME NEW S, NEW a \in Seq(S), NEW b \in Seq(S)
    PROVE  /\ a \o b \in Seq(S) /\ Len(a \o b) = Len(a) + Len(b)
           /\ \A k \in 1 .. Len(a) : (a \o b)[k] = a[k]
           /\ \A k \in 1 .. Len(b) : (a \o b)[Len(a) + k] = b[k]
<1>1. Len(a) \in Nat /\ Len(b) \in Nat
  OBVIOUS
<1>2. a \o b \in Seq(S) /\ Len(a \o b) = Len(a) + Len(b)
  BY ConcatProperties
<1>3. \A k \in 1 .. Len(a) + Len(b) : (a \o b)[k] = IF k <= Len(a) THEN a[k] ELSE b[k - Len(a)]
  BY ConcatProperties
<1>4. ASSUME NEW k \in 1 .. Len(a) PROVE (a \o b)[k] = a[k]
  <2>1. k \in 1 .. Len(a) + Len(b) /\ k <= Len(a)
    BY <1>1
  <2> QED BY <1>3, <2>1
<1>5. ASSUME NEW k \in 1 .. Len(b) PROVE (a \o b)[Len(a) + k] = b[k]
  <2>1. Len(a) + k \in 1 .. Len(a) + Len(b) /\ ~(Len(a) + k <= Len(a)) /\ (Len(a) + k) - Len(a) = k
    BY <1>1
  <2> QED BY <1>3, <2>1
<1> QED BY <1>2, <1>4, <1>5

\* What arrives behind an acknowledgement.
LEMMA PlusFirst ==
    ASSUME NEW rest \in Seq(ByteRange)
    PROVE  /\ << >> \o rest = rest
           /\ <<Plus>> \o rest # << >> /\ Head(<<Plus>> \o rest) = Plus /\ Tail(<<Plus>> \o rest) = rest
<1>1. Plus \in ByteRange
  BY DEF Plus, ByteRange
<1>2. << >> \o rest = rest
  BY ConcatEmptySeq
<1>3. <<Plus>> \o rest # << >> /\ Head(<<Plus>> \o rest) = Plus /\ Tail(<<Plus>> \o rest) = rest
  BY <1>1 DEF Plus
<1> QED BY <1>2, <1>3

\* The parts of a packet on the line.
LEMMA FramedParts ==
    ASSUME NEW text \in Seq(ByteRange)
    PROVE  LET framed == Framed(text)
               length == Len(text)
           IN  /\ framed \in Seq(ByteRange) /\ Len(framed) = length + 4
               /\ framed[1] = Dollar /\ framed[length + 2] = Hash
               /\ \A k \in 1 .. length : framed[k + 1] = text[k]
               /\ framed[length + 3] = NibbleToHexChar(Checksum(text) \div 16)
               /\ framed[length + 4] = NibbleToHexChar(Checksum(text) % 16)
<1> DEFINE sum    == HexText(<<Checksum(text)>>)
           length == Len(text)
           a == <<Dollar>> \o text
           b == a \o <<Hash>>
           c == b \o sum
<1>1. /\ sum \in Seq(ByteRange) /\ Len(sum) = 2
      /\ sum[1] = NibbleToHexChar(Checksum(text) \div 16) /\ sum[2] = NibbleToHexChar(Checksum(text) % 16)
  <2> DEFINE bytes == <<Checksum(text)>>
  <2>1. bytes \in Seq(ByteRange) /\ Len(bytes) = 1 /\ bytes[1] = Checksum(text)
    BY ChecksumIs
  <2> HIDE DEF bytes
  <2>2. /\ HexText(bytes) \in Seq(ByteRange) /\ Len(HexText(bytes)) = 2 * 1
        /\ \A k \in 1 .. 1 :
              /\ HexText(bytes)[2 * k - 1] = NibbleToHexChar(bytes[k] \div 16)
              /\ HexText(bytes)[2 * k] = NibbleToHexChar(bytes[k] % 16)
    BY <2>1, DigitsOfBytes
  <2>3. 1 \in 1 .. 1 /\ 2 * 1 - 1 = 1 /\ 2 * 1 = 2
    OBVIOUS
  <2>4. HexText(bytes)[1] = NibbleToHexChar(bytes[1] \div 16) /\ HexText(bytes)[2] = NibbleToHexChar(bytes[1] % 16)
    BY <2>2, <2>3
  <2> QED BY <2>1, <2>2, <2>3, <2>4 DEF bytes
<1>2. <<Dollar>> \in Seq(ByteRange) /\ <<Hash>> \in Seq(ByteRange) /\ length \in Nat
  BY DEF Dollar, Hash, ByteRange
<1> HIDE DEF sum, length
<1>3. /\ a \in Seq(ByteRange) /\ Len(a) = 1 + length /\ a[1] = Dollar
      /\ \A k \in 1 .. length : a[k + 1] = text[k]
  <2>0. Len(<<Dollar>>) = 1 /\ <<Dollar>>[1] = Dollar
    OBVIOUS
  <2>1. /\ a \in Seq(ByteRange) /\ Len(a) = 1 + length
        /\ (\A k \in 1 .. 1 : a[k] = <<Dollar>>[k]) /\ \A n \in 1 .. length : a[1 + n] = text[n]
    BY <1>2, <2>0, JoinedText DEF length
  <2>2. a[1] = Dollar
    <3>1. 1 \in 1 .. 1
      OBVIOUS
    <3> QED BY <2>0, <2>1, <3>1
  <2>3. ASSUME NEW k \in 1 .. length PROVE a[k + 1] = text[k]
    <3>1. k + 1 = 1 + k
      BY <1>2
    <3> QED BY <2>1, <3>1
  <2> QED BY <2>1, <2>2, <2>3
<1> HIDE DEF a
<1>4. /\ b \in Seq(ByteRange) /\ Len(b) = length + 2 /\ b[length + 2] = Hash
      /\ \A k \in 1 .. length + 1 : b[k] = a[k]
  <2>0. Len(<<Hash>>) = 1 /\ <<Hash>>[1] = Hash
    OBVIOUS
  <2>1. /\ b \in Seq(ByteRange) /\ Len(b) = Len(a) + 1
        /\ (\A k \in 1 .. Len(a) : b[k] = a[k]) /\ \A n \in 1 .. 1 : b[Len(a) + n] = <<Hash>>[n]
    BY <1>2, <1>3, <2>0, JoinedText
  <2>2. Len(a) + 1 = length + 2 /\ 1 .. Len(a) = 1 .. length + 1 /\ 1 \in 1 .. 1
    BY <1>2, <1>3
  <2> QED BY <2>0, <2>1, <2>2
<1> HIDE DEF b
<1>5. /\ c \in Seq(ByteRange) /\ Len(c) = length + 4
      /\ \A k \in 1 .. length + 2 : c[k] = b[k]
      /\ c[length + 3] = sum[1] /\ c[length + 4] = sum[2]
  <2>1. /\ c \in Seq(ByteRange) /\ Len(c) = Len(b) + 2
        /\ (\A k \in 1 .. Len(b) : c[k] = b[k]) /\ \A n \in 1 .. 2 : c[Len(b) + n] = sum[n]
    <3>1. /\ c \in Seq(ByteRange) /\ Len(c) = Len(b) + Len(sum)
          /\ (\A k \in 1 .. Len(b) : c[k] = b[k]) /\ \A n \in 1 .. Len(sum) : c[Len(b) + n] = sum[n]
      <4>1. b \in Seq(ByteRange) /\ sum \in Seq(ByteRange)
        BY <1>1, <1>4
      <4> QED BY <4>1, JoinedText
    <3>2. Len(sum) = 2
      BY <1>1
    <3> HIDE DEF c
    <3> QED BY <3>1, <3>2
  <2>2. Len(b) + 2 = length + 4 /\ Len(b) + 1 = length + 3 /\ 1 .. Len(b) = 1 .. length + 2 /\ 1 \in 1 .. 2 /\ 2 \in 1 .. 2
    BY <1>2, <1>4
  <2> QED BY <2>1, <2>2
<1> HIDE DEF c
<1>6. Framed(text) = c
  BY DEF Framed, a, b, c, sum
<1>7. c[1] = Dollar /\ c[length + 2] = Hash
  <2>1. 1 \in 1 .. length + 2 /\ 1 \in 1 .. length + 1 /\ length + 2 \in 1 .. length + 2
    BY <1>2
  <2> QED BY <1>3, <1>4, <1>5, <2>1
<1>8. ASSUME NEW k \in 1 .. length PROVE c[k + 1] = text[k]
  <2>1. k + 1 \in 1 .. length + 2 /\ k + 1 \in 1 .. length + 1
    BY <1>2
  <2> QED BY <1>3, <1>4, <1>5, <2>1
<1> QED BY <1>1, <1>5, <1>6, <1>7, <1>8 DEF length

\* What is left of a packet gets shorter by a character when one is read.
LEMMA UnreadIs ==
    ASSUME NEW text \in Seq(ByteRange), NEW k \in 0 .. Len(text) + 4
    PROVE  /\ Unread(text, k) \in Seq(ByteRange)
           /\ k = 0 => Unread(text, k) = Framed(text)
           /\ k = Len(text) + 4 => Unread(text, k) = << >>
           /\ k < Len(text) + 4 =>
                  /\ Unread(text, k) # << >> /\ Head(Unread(text, k)) = Framed(text)[k + 1]
                  /\ Tail(Unread(text, k)) = Unread(text, k + 1)
<1> DEFINE framed == Framed(text)
           length == Len(framed)
<1>1. framed \in Seq(ByteRange) /\ length = Len(text) + 4 /\ length \in Nat
  BY FramedParts
<1>2. Unread(text, k) = SubSeq(framed, k + 1, length) /\ Unread(text, k + 1) = SubSeq(framed, (k + 1) + 1, length)
  BY DEF Unread
<1> HIDE DEF framed, length
<1>3. \A m \in 1 .. length + 2 :
         /\ SubSeq(framed, m, length) \in Seq(ByteRange)
         /\ Len(SubSeq(framed, m, length)) = IF m <= length THEN length - m + 1 ELSE 0
         /\ \A n \in 1 .. length - m + 1 : SubSeq(framed, m, length)[n] = framed[m + n - 1]
  <2> SUFFICES ASSUME NEW m \in 1 .. length + 2
               PROVE  /\ SubSeq(framed, m, length) \in Seq(ByteRange)
                      /\ Len(SubSeq(framed, m, length)) = IF m <= length THEN length - m + 1 ELSE 0
                      /\ \A n \in 1 .. length - m + 1 : SubSeq(framed, m, length)[n] = framed[m + n - 1]
    OBVIOUS
  <2>1. \A n \in m .. length : framed[n] \in ByteRange
    BY <1>1 DEF length
  <2> QED BY <1>1, <2>1, SubSeqProperties DEF length
<1>4. CASE k = length
  <2>1. k + 1 \in 1 .. length + 2 /\ ~(k + 1 <= length)
    BY <1>1, <1>4
  <2>2. Unread(text, k) \in Seq(ByteRange) /\ Len(Unread(text, k)) = 0
    BY <1>2, <1>3, <2>1
  <2>3. Unread(text, k) = << >>
    BY <2>2, EmptySeq
  <2> QED BY <1>1, <1>4, <2>2, <2>3
<1>5. CASE k # length
  <2> DEFINE this == SubSeq(framed, k + 1, length)
             next == SubSeq(framed, (k + 1) + 1, length)
  <2>1. k < length /\ k + 1 \in 1 .. length + 2 /\ (k + 1) + 1 \in 1 .. length + 2
    BY <1>1, <1>5
  <2>2. /\ this \in Seq(ByteRange) /\ Len(this) = length - k
        /\ \A n \in 1 .. length - k : this[n] = framed[k + n]
    <3>1. k + 1 <= length /\ length - (k + 1) + 1 = length - k /\ \A n \in 1 .. length - k : (k + 1) + n - 1 = k + n
      BY <1>1, <2>1
    <3> HIDE DEF this
    <3> QED BY <1>3, <2>1, <3>1 DEF this
  <2>3. /\ next \in Seq(ByteRange) /\ Len(next) = length - k - 1
        /\ \A n \in 1 .. length - k - 1 : next[n] = framed[k + 1 + n]
    <3>1. /\ IF (k + 1) + 1 <= length THEN length - ((k + 1) + 1) + 1 = length - k - 1 ELSE 0 = length - k - 1
          /\ length - ((k + 1) + 1) + 1 = length - k - 1
          /\ \A n \in 1 .. length - k - 1 : ((k + 1) + 1) + n - 1 = k + 1 + n
      BY <1>1, <2>1
    <3> HIDE DEF next
    <3> QED BY <1>3, <2>1, <3>1 DEF next
  <2> HIDE DEF this, next
  <2>4. this # << >>
    <3>1. Len(this) # 0 /\ Len(<< >>) = 0
      BY <1>1, <2>1, <2>2
    <3> QED BY <3>1, Zenon
  <2>5. Head(this) = framed[k + 1]
    <3>1. Head(this) = this[1] /\ 1 \in 1 .. length - k
      BY <1>1, <2>1
    <3> QED BY <2>2, <3>1
  <2>6. Tail(this) = next
    <3>1. /\ Tail(this) \in Seq(ByteRange) /\ Len(Tail(this)) = length - k - 1
          /\ \A n \in 1 .. length - k - 1 : Tail(this)[n] = this[n + 1]
      BY <2>2, <2>4, HeadTailProperties
    <3>2. ASSUME NEW n \in 1 .. length - k - 1 PROVE Tail(this)[n] = next[n]
      <4>1. n + 1 \in 1 .. length - k /\ k + (n + 1) = k + 1 + n
        BY <1>1, <2>1
      <4> QED BY <2>2, <2>3, <3>1, <4>1
    <3> QED BY <2>3, <3>1, <3>2, SeqEqual
  <2>7. k = 0 => this = framed
    <3> SUFFICES ASSUME k = 0 PROVE this = framed
      OBVIOUS
    <3>1. Len(this) = Len(framed) /\ \A n \in 1 .. Len(framed) : this[n] = framed[n]
      BY <1>1, <2>2 DEF length
    <3> QED BY <1>1, <2>2, <3>1, SeqEqual
  <2> QED BY <1>1, <1>2, <1>5, <2>1, <2>2, <2>4, <2>5, <2>6, <2>7 DEF this, next, framed
<1> QED BY <1>4, <1>5

-----------------------------------------------------------------------------
(* What a side receives.                                                   *)

\* Without a fault, what is put on the line arrives.
LEMMA QuietTransmit ==
    ASSUME NEW carried, NEW to, NEW text, faults \in 0 .. MaxFaults, faults' = 0, Transmit(carried, to, text)
    PROVE  faults = 0 /\ wire' = [carried EXCEPT ![to] = @ \o text]
BY BufferAssumption DEF Transmit

\* Without the character that was read last, a packet is the same.
LEMMA LastKept ==
    ASSUME NEW held \in Held, NEW char \in ByteRange
    PROVE  LET read == [held EXCEPT !.last = char]
           IN  /\ read \in Held /\ read.at = held.at /\ read.buffer = held.buffer /\ read.sum = held.sum
               /\ read.expected = held.expected /\ read.high = held.high
BY DEF Held

\* A side that waits for a packet reads the acknowledgement in front of it, and
\* then its first character.
LEMMA WaitsReceives ==
    ASSUME LineInv, NEW side \in Sides, NEW before \in {<< >>, <<Plus>>}, NEW rest \in Seq(ByteRange),
           rest # << >> => Head(rest) = Dollar,
           wire[side] = before \o rest, Waits(packet[side], before),
           ReceiveChar(side) \/ JudgePacket(side)
    PROVE  \E held \in Held :
               /\ wire' = [wire EXCEPT ![side] = Tail(wire[side])] /\ faults' = faults
               /\ packet' = [packet EXCEPT ![side] = held]
               /\ \/ /\ before = <<Plus>> /\ Tail(wire[side]) = rest /\ Waits(held, << >>)
                     /\ packet[side].at = "ack" => held.at = "sent"
                  \/ /\ before = << >> /\ rest # << >> /\ held.at = "data"
                     /\ held.buffer.end = BufferSize /\ held.buffer.pos = 0 /\ held.sum = 0
<1> DEFINE p    == packet[side]
           char == NextChar(side)
           tail == Tail(wire[side])
           read(h) == [h EXCEPT !.last = char]
<1>1. p \in Held
  BY DEF LineInv
<1>2. /\ before = <<Plus>> => wire[side] # << >> /\ char = Plus /\ tail = rest
      /\ before = << >> => wire[side] = rest /\ (rest # << >> => char = Dollar)
  BY PlusFirst DEF NextChar
<1>3. wire[side] # << >> /\ (ReadAcknowledge(side) \/ SendAgain(side) \/ ReadStart(side))
  BY DEF Waits, ReceiveChar, JudgePacket, Reads, ReadAcknowledge, SendAgain, ReadStart, ReadData, ReadDataEnd,
         ReadChecksumHigh, ReadChecksumLow, PassOver, Acknowledge, Refuse
<1>4. char \in ByteRange
  BY <1>3, TakenIs
<1>5. Plus # Dollar /\ Plus # ControlC /\ Dollar # ControlC
  BY DEF Plus, Dollar, ControlC
<1>6. ASSUME NEW h \in Held, Consume(side, h)
      PROVE  /\ wire' = [wire EXCEPT ![side] = tail] /\ faults' = faults
             /\ packet' = [packet EXCEPT ![side] = read(h)]
             /\ read(h) \in Held /\ read(h).at = h.at /\ read(h).buffer = h.buffer /\ read(h).sum = h.sum
  <2>1. /\ read(h) \in Held /\ read(h).at = h.at /\ read(h).buffer = h.buffer /\ read(h).sum = h.sum
    BY <1>4, <1>6, LastKept
  <2>2. /\ wire' = [wire EXCEPT ![side] = tail] /\ faults' = faults
        /\ packet' = [packet EXCEPT ![side] = read(h)]
    BY <1>6 DEF Consume, Taken, LineInv
  <2> QED BY <2>1, <2>2
<1>7. CASE before = <<Plus>>
  <2>1. p.at \in {"start", "ack"} /\ (p.at = "start" => p.buffer.end = BufferSize)
    <3>1. <<Plus>> # << >>
      OBVIOUS
    <3> QED BY <1>7, <3>1 DEF Waits
  <2>2. CASE p.at = "ack"
    <3> DEFINE h == [p EXCEPT !.at = "sent"]
    <3>1. Consume(side, h)
      BY <1>2, <1>3, <1>5, <1>7, <2>2 DEF ReadAcknowledge, SendAgain, ReadStart, Reads
    <3>2. h \in Held /\ h.at = "sent"
      BY <1>1 DEF Held, Places
    <3> HIDE DEF h
    <3>3. Waits(read(h), << >>) /\ read(h).at = "sent"
      BY <1>6, <3>1, <3>2 DEF Waits
    <3> HIDE DEF read, tail
    <3> QED BY <1>2, <1>6, <1>7, <3>1, <3>2, <3>3 DEF tail
  <2>3. CASE p.at = "start"
    <3>1. Consume(side, p)
      BY <1>2, <1>3, <1>5, <1>7, <2>3 DEF ReadAcknowledge, SendAgain, ReadStart, Reads
    <3> HIDE DEF p
    <3>2. Waits(read(p), << >>) /\ p.at # "ack"
      BY <1>1, <1>6, <2>1, <2>3, <3>1 DEF Waits
    <3> HIDE DEF read, tail
    <3> QED BY <1>1, <1>2, <1>6, <1>7, <3>1, <3>2 DEF tail, p
  <2> QED BY <2>1, <2>2, <2>3
<1>8. CASE before = << >>
  <2>1. p.at = "start" /\ p.buffer.end = BufferSize
    <3>1. <<Plus>> # << >>
      OBVIOUS
    <3> QED BY <1>3, <1>8, <3>1 DEF Waits, Reads, ReadAcknowledge, SendAgain, ReadStart
  <2> DEFINE h == InData(p)
  <2>2. Consume(side, h)
    BY <1>2, <1>3, <1>8, <2>1 DEF ReadAcknowledge, SendAgain, ReadStart, Reads
  <2>3. /\ h \in Held /\ h.at = "data" /\ h.buffer.end = BufferSize /\ h.buffer.pos = 0 /\ h.sum = 0
    <3>1. h \in Held
      BY <1>1, HeldIs
    <3>2. BufferReset(p.buffer).end = BufferSize /\ BufferReset(p.buffer).pos = 0
      <4>1. p.buffer \in [chars : Seq(ByteRange), pos : Nat, end : Nat]
        BY <1>1 DEF Held, Buffers
      <4> QED BY <2>1, <4>1 DEF BufferReset
    <3>3. h.at = "data" /\ h.buffer = BufferReset(p.buffer) /\ h.sum = 0
      BY <1>1 DEF InData, Held
    <3> QED BY <3>1, <3>2, <3>3
  <2>4. rest # << >>
    BY <1>2, <1>3, <1>8
  <2> HIDE DEF h
  <2>5. /\ read(h) \in Held /\ read(h).at = "data"
        /\ read(h).buffer.end = BufferSize /\ read(h).buffer.pos = 0 /\ read(h).sum = 0
    BY <1>6, <2>2, <2>3
  <2> HIDE DEF read, tail
  <2> QED BY <1>6, <1>8, <2>2, <2>3, <2>4, <2>5 DEF tail
<1> QED BY <1>7, <1>8

\* A side that reads a packet: which of its steps comes next.
LEMMA HoldsStep ==
    ASSUME LineInv, NEW side \in Sides, NEW text \in Seq(ByteRange), NEW k \in 1 .. Len(text) + 4,
           Holds(packet[side], text, k), ReceiveChar(side) \/ JudgePacket(side)
    PROVE  /\ k <= Len(text) + 1 => ReadData(side) \/ ReadDataEnd(side)
           /\ k = Len(text) + 2 => ReadChecksumHigh(side)
           /\ k = Len(text) + 3 => ReadChecksumLow(side)
           /\ k = Len(text) + 4 => JudgePacket(side)
<1>1. Len(text) \in Nat
  OBVIOUS
<1>2. /\ k <= Len(text) + 1 => packet[side].at = "data"
      /\ k = Len(text) + 2 => packet[side].at = "high"
      /\ k = Len(text) + 3 => packet[side].at = "low"
      /\ k = Len(text) + 4 => packet[side].at = "poll"
  BY <1>1 DEF Holds
<1> QED
  BY <1>2 DEF ReceiveChar, JudgePacket, Reads, ReadAcknowledge, SendAgain, ReadStart, ReadData, ReadDataEnd,
              ReadChecksumHigh, ReadChecksumLow, PassOver, Acknowledge, Refuse

\* A character of the text is written to the buffer and added to the sum.
LEMMA DataReceives ==
    ASSUME LineInv, NEW side \in Sides, NEW text \in Seq(Chars), Len(text) <= BufferSize,
           NEW k \in 1 .. Len(text), Holds(packet[side], text, k), wire[side] # << >>,
           NextChar(side) = text[k], ReadData(side) \/ ReadDataEnd(side)
    PROVE  \E held \in Held :
               /\ wire' = Taken(side) /\ packet' = [packet EXCEPT ![side] = held] /\ Holds(held, text, k + 1)
<1> DEFINE p    == packet[side]
           char == text[k]
           sum  == (p.sum + char) % 256
           buffer == WriteChar(p.buffer, char).buffer
           held == [p EXCEPT !.buffer = buffer, !.sum = sum]
           read == [held EXCEPT !.last = char]
           length == Len(text)
<1>1. /\ length \in Nat /\ char \in Chars /\ char \in ByteRange /\ text \in Seq(ByteRange)
      /\ p \in Held /\ p.sum \in ByteRange /\ IsBuffer(p.buffer)
  <2>1. Chars \subseteq ByteRange
    BY DEF Chars
  <2>2. p \in Held
    BY DEF LineInv
  <2>3. IsBuffer(p.buffer) /\ p.sum \in ByteRange
    BY <2>2, HeldIs DEF Held
  <2>4. text \in Seq(ByteRange) /\ length \in Nat /\ char \in Chars
    BY <2>1
  <2> QED BY <2>1, <2>2, <2>3, <2>4
<1>2. /\ p.buffer.end = BufferSize /\ p.buffer.pos = k - 1
      /\ Begins(p.buffer, text, k - 1) /\ p.sum = SumOf(text)[k - 1]
  BY <1>1 DEF Holds
<1>3. BytesLeft(p.buffer) > 0 /\ char \notin {Dollar, Hash} /\ p.buffer.pos \in Nat
  <2>1. BytesLeft(p.buffer) = BufferSize - (k - 1)
    BY <1>1, <1>2, BufferAssumption DEF BytesLeft, OverrunDetected
  <2> QED BY <1>1, <1>2, <2>1, BufferAssumption DEF Chars
<1>4. Consume(side, held)
  BY <1>3 DEF ReadData, ReadDataEnd
<1>5. /\ IsBuffer(buffer) /\ buffer.end = BufferSize /\ buffer.pos = k
      /\ \A n \in 1 .. k : buffer.chars[n] = text[n]
  <2> DEFINE one == <<char>>
  <2>1. one \in Seq(ByteRange) /\ Len(one) = 1 /\ one[1] = char /\ one # << >>
    BY <1>1
  <2> HIDE DEF one
  <2>2. Len(one) <= BytesLeft(p.buffer) /\ ~(BytesLeft(p.buffer) < Len(one))
    BY <1>1, <1>3, <2>1, BufferParts
  <2>3. buffer = Place(p.buffer, one)
    BY <2>2 DEF WriteChar, WriteSizedString, Returns, one
  <2> DEFINE placed == Place(p.buffer, one)
  <2>4. /\ IsBuffer(placed) /\ placed.end = p.buffer.end /\ placed.pos = p.buffer.pos + Len(one)
        /\ (\A n \in 1 .. Len(one) : placed.chars[p.buffer.pos + n] = one[n])
        /\ \A n \in DOMAIN p.buffer.chars :
               n <= p.buffer.pos \/ n > p.buffer.pos + Len(one) => placed.chars[n] = p.buffer.chars[n]
    BY <1>1, <2>1, <2>2, PlacedText
  <2> HIDE DEF placed
  <2>5. placed.pos = k /\ placed.end = BufferSize
    BY <1>1, <1>2, <2>1, <2>4
  <2>6. placed.chars[k] = char
    <3>1. 1 \in 1 .. Len(one) /\ p.buffer.pos + 1 = k
      BY <1>1, <1>2, <2>1
    <3> QED BY <2>1, <2>4, <3>1
  <2>7. ASSUME NEW n \in 1 .. k - 1 PROVE placed.chars[n] = text[n]
    <3>1. n \in DOMAIN p.buffer.chars /\ n <= p.buffer.pos
      BY <1>1, <1>2, BufferParts
    <3>2. p.buffer.chars[n] = text[n]
      BY <1>2 DEF Begins
    <3> QED BY <2>4, <3>1, <3>2
  <2>8. ASSUME NEW n \in 1 .. k PROVE placed.chars[n] = text[n]
    <3>1. n = k \/ n \in 1 .. k - 1
      BY <1>1
    <3> QED BY <2>6, <2>7, <3>1
  <2> QED BY <2>3, <2>4, <2>5, <2>8 DEF placed
<1> HIDE DEF buffer
<1>6. sum \in ByteRange /\ sum = SumOf(text)[k]
  <2>1. \A a, b \in ByteRange : (a + b) % 256 \in ByteRange
    BY DEF ByteRange
  <2>2. SumOf(text)[k] = (SumOf(text)[k - 1] + text[k]) % 256
    BY <1>1, SumOfIs
  <2> QED BY <1>1, <1>2, <2>1, <2>2
<1> HIDE DEF sum, char
<1>7. held \in Held /\ held.at = "data" /\ held.buffer = buffer /\ held.sum = sum
  <2>1. p.at = "data"
    BY <1>1 DEF Holds
  <2> HIDE DEF p
  <2> QED BY <1>1, <1>5, <1>6, <2>1, BuffersAre DEF Held
<1> HIDE DEF held
<1>8. read \in Held /\ read.at = "data" /\ read.buffer = buffer /\ read.sum = sum
  BY <1>1, <1>7, LastKept
<1>9. wire' = Taken(side) /\ packet' = [packet EXCEPT ![side] = read]
  BY <1>4 DEF Consume, char
<1> HIDE DEF read
<1>10. Holds(read, text, k + 1)
  <2>1. k + 1 \in 1 .. length + 1 /\ (k + 1) - 1 = k
    BY <1>1
  <2>2. Begins(buffer, text, k)
    BY <1>5 DEF Begins
  <2> QED BY <1>5, <1>6, <1>8, <2>1, <2>2 DEF Holds
<1> QED BY <1>8, <1>9, <1>10

\* The characters behind the text: its end and the checksum.
LEMMA EndReceives ==
    ASSUME LineInv, NEW side \in Sides, NEW text \in Seq(Chars), Len(text) <= BufferSize,
           NEW k \in Len(text) + 1 .. Len(text) + 3, Holds(packet[side], text, k), wire[side] # << >>,
           NextChar(side) = Framed(text)[k + 1], ReceiveChar(side) \/ JudgePacket(side)
    PROVE  \E held \in Held :
               /\ wire' = Taken(side) /\ packet' = [packet EXCEPT ![side] = held] /\ Holds(held, text, k + 1)
<1> DEFINE p    == packet[side]
           char == NextChar(side)
           read(h) == [h EXCEPT !.last = char]
           length == Len(text)
           framed == Framed(text)
<1>1. /\ length \in Nat /\ text \in Seq(ByteRange)
      /\ p \in Held /\ char \in ByteRange
  <2>1. Chars \subseteq ByteRange
    BY DEF Chars
  <2> QED BY <2>1, TakenIs DEF LineInv
<1>2. /\ framed[length + 2] = Hash
      /\ framed[length + 3] = NibbleToHexChar(Checksum(text) \div 16)
      /\ framed[length + 4] = NibbleToHexChar(Checksum(text) % 16)
  BY <1>1, FramedParts
<1>3. Hash # Dollar
  BY DEF Hash, Dollar
<1>4. ASSUME NEW h \in Held, Consume(side, h)
      PROVE  /\ wire' = Taken(side) /\ packet' = [packet EXCEPT ![side] = read(h)]
             /\ read(h) \in Held /\ read(h).at = h.at /\ read(h).buffer = h.buffer /\ read(h).sum = h.sum
             /\ read(h).expected = h.expected /\ read(h).high = h.high
  BY <1>1, <1>4, LastKept DEF Consume
<1> HIDE DEF read
<1>5. CASE k = length + 1
  <2>1. /\ p.buffer.end = BufferSize /\ p.buffer.pos = length /\ p.at = "data"
        /\ Begins(p.buffer, text, length) /\ p.sum = SumOf(text)[length]
    BY <1>1, <1>5 DEF Holds
  <2>2. p.sum = Checksum(text)
    BY <1>1, <2>1, SumOfIs
  <2>3. char = Hash
    <3>1. k + 1 = length + 2
      BY <1>1, <1>5
    <3> QED BY <1>2, <3>1
  <2>4. ReadData(side) \/ ReadDataEnd(side)
    BY <1>1, <1>5, HoldsStep
  <2> DEFINE h == [p EXCEPT !.at = "high"]
  <2>5. Consume(side, h)
    BY <2>3, <2>4 DEF ReadData, ReadDataEnd
  <2>6. h \in Held /\ h.at = "high" /\ h.buffer = p.buffer /\ h.sum = p.sum
    BY <1>1 DEF Held, Places, Waiting
  <2> HIDE DEF h, p
  <2>7. Holds(read(h), text, k + 1)
    <3>1. k + 1 = length + 2 /\ k + 1 \in length + 2 .. length + 4 /\ k + 1 # length + 3 /\ k + 1 # length + 4
      BY <1>1, <1>5
    <3> QED BY <1>4, <2>1, <2>2, <2>5, <2>6, <3>1 DEF Holds
  <2> QED BY <1>4, <2>5, <2>6, <2>7
<1>6. CASE k = length + 2
  <2>1. /\ p.buffer.end = BufferSize /\ p.buffer.pos = length
        /\ Begins(p.buffer, text, length) /\ p.sum = Checksum(text)
    BY <1>1, <1>6 DEF Holds
  <2>2. char = framed[length + 3]
    <3>1. k + 1 = length + 3
      BY <1>1, <1>6
    <3> QED BY <1>2, <3>1
  <2>3. ReadChecksumHigh(side)
    BY <1>1, <1>6, HoldsStep
  <2> DEFINE h == [p EXCEPT !.at = "low", !.high = char]
  <2>4. Consume(side, h)
    BY <2>3 DEF ReadChecksumHigh
  <2>5. h \in Held /\ h.at = "low" /\ h.buffer = p.buffer /\ h.sum = p.sum /\ h.high = char
    BY <1>1 DEF Held, Places, Waiting
  <2> HIDE DEF h, p
  <2>6. Holds(read(h), text, k + 1)
    <3>1. k + 1 = length + 3 /\ k + 1 \in length + 2 .. length + 4 /\ k + 1 # length + 2 /\ k + 1 # length + 4
      BY <1>1, <1>6
    <3> QED BY <1>4, <2>1, <2>2, <2>4, <2>5, <3>1 DEF Holds
  <2> QED BY <1>4, <2>4, <2>5, <2>6
<1>7. CASE k = length + 3
  <2>1. /\ p.buffer.end = BufferSize /\ p.buffer.pos = length
        /\ Begins(p.buffer, text, length) /\ p.sum = Checksum(text) /\ p.high = framed[length + 3]
    BY <1>1, <1>7 DEF Holds
  <2>2. char = framed[length + 4]
    <3>1. k + 1 = length + 4
      BY <1>1, <1>7
    <3> QED BY <1>2, <3>1
  <2>3. ReadChecksumLow(side)
    BY <1>1, <1>7, HoldsStep
  <2> DEFINE sum  == Checksum(text)
             both == 16 * HexCharToNibble(p.high) + HexCharToNibble(char)
             h    == [p EXCEPT !.expected = both, !.at = "poll"]
  <2>4. sum \in ByteRange /\ sum \div 16 \in 0 .. 15 /\ sum % 16 \in 0 .. 15 /\ 16 * (sum \div 16) + (sum % 16) = sum
    <3>1. sum \in ByteRange
      BY <1>1, ChecksumIs
    <3>2. \A b \in 0 .. 255 : b \div 16 \in 0 .. 15 /\ b % 16 \in 0 .. 15 /\ 16 * (b \div 16) + (b % 16) = b
      OBVIOUS
    <3> HIDE DEF sum
    <3> QED BY <3>1, <3>2 DEF ByteRange
  <2>5. /\ IsHexDigit(p.high) /\ IsHexDigit(char)
        /\ HexCharToNibble(p.high) = sum \div 16 /\ HexCharToNibble(char) = sum % 16
    BY <1>2, <2>1, <2>2, <2>4, DigitOfNibble
  <2>6. both = sum
    <3> HIDE DEF sum
    <3> QED BY <2>4, <2>5
  <2>7. Consume(side, h)
    BY <2>3, <2>5 DEF ReadChecksumLow
  <2>8. h \in Held /\ h.at = "poll" /\ h.buffer = p.buffer /\ h.sum = p.sum /\ h.expected = sum
    <3> HIDE DEF both, sum
    <3> QED BY <1>1, <2>4, <2>6 DEF Held, Places, Waiting
  <2> HIDE DEF h, p
  <2>9. Holds(read(h), text, k + 1)
    <3>1. k + 1 = length + 4 /\ k + 1 \in length + 2 .. length + 4 /\ k + 1 # length + 2 /\ k + 1 # length + 3
      BY <1>1, <1>7
    <3> QED BY <1>4, <2>1, <2>7, <2>8, <3>1 DEF Holds
  <2> QED BY <1>4, <2>7, <2>8, <2>9
<1> QED BY <1>1, <1>5, <1>6, <1>7

\* A packet that has been read is acknowledged: its checksum is right and nothing
\* is behind it.
LEMMA PacketReceives ==
    ASSUME LineInv, NEW side \in Sides, NEW text \in Seq(ByteRange), Len(text) <= BufferSize,
           Holds(packet[side], text, Len(text) + 4), wire[side] = << >>, faults' = 0, JudgePacket(side)
    PROVE  \E held \in Held :
               /\ packet' = [packet EXCEPT ![side] = held] /\ held.at = "received" /\ Carries(held.buffer, text)
               /\ wire' = [wire EXCEPT ![Other(side)] = @ \o <<Plus>>]
<1> DEFINE p == packet[side]
           length == Len(text)
           ended == SetEndOfBuffer(p.buffer)
           held == [p EXCEPT !.at = "received", !.buffer = BufferReset(ended)]
<1>1. length \in Nat /\ p \in Held /\ IsBuffer(p.buffer)
  <2>1. p \in Held
    BY DEF LineInv
  <2> QED BY <2>1, HeldIs
<1>2. /\ p.buffer.end = BufferSize /\ p.buffer.pos = length /\ Begins(p.buffer, text, length)
      /\ p.sum = Checksum(text) /\ p.expected = Checksum(text)
  BY <1>1 DEF Holds
<1>3. Acknowledge(side)
  BY <1>2 DEF JudgePacket, PassOver, Refuse, IsChecksumValid
<1>4. packet' = [packet EXCEPT ![side] = held] /\ Transmit(wire, Other(side), <<Plus>>)
  BY <1>3 DEF Acknowledge
<1>5. ended.end = length /\ ended.chars = p.buffer.chars /\ ended.pos = length
  <2>1. BufferSize \in Nat
    BY BufferAssumption
  <2>2. p.buffer \in [chars : Seq(ByteRange), pos : Nat, end : Nat]
    BY <1>1 DEF Held, Buffers
  <2> QED BY <1>1, <1>2, <2>1, <2>2 DEF SetEndOfBuffer
<1>6. IsBuffer(ended) /\ IsBuffer(BufferReset(ended))
  BY <1>1, EndedBuffer
<1> HIDE DEF ended
<1>7. Carries(BufferReset(ended), text)
  <2>1. ended \in [chars : Seq(ByteRange), pos : Nat, end : Nat]
    BY <1>6, BuffersAre DEF Buffers
  <2>2. BufferReset(ended).pos = 0 /\ BufferReset(ended).end = length /\ BufferReset(ended).chars = p.buffer.chars
    BY <1>5, <2>1 DEF BufferReset
  <2> QED BY <1>2, <2>2 DEF Carries, Begins
<1>8. held \in Held /\ held.at = "received" /\ held.buffer = BufferReset(ended)
  BY <1>1, <1>6, BuffersAre DEF Held, Places
<1> HIDE DEF held, p
<1>9. wire' = [wire EXCEPT ![Other(side)] = @ \o <<Plus>>]
  BY <1>4, QuietTransmit DEF LineInv
<1> QED BY <1>4, <1>7, <1>8, <1>9

\* A side that reads a packet goes on with it, or has received it.
LEMMA ComesReceives ==
    ASSUME LineInv, NEW side \in Sides, NEW text \in Seq(Chars), Len(text) <= BufferSize, Comes(side, text),
           ReceiveChar(side) \/ JudgePacket(side), faults' = 0
    PROVE  \E held \in Held :
               /\ packet' = [packet EXCEPT ![side] = held]
               /\ \/ \E k \in 1 .. Len(text) + 4 :
                         wire' = [wire EXCEPT ![side] = Unread(text, k)] /\ Holds(held, text, k)
                  \/ /\ wire[side] = << >> /\ wire' = [wire EXCEPT ![Other(side)] = @ \o <<Plus>>]
                     /\ held.at = "received" /\ Carries(held.buffer, text)
<1> DEFINE length == Len(text)
<1>1. length \in Nat /\ text \in Seq(ByteRange)
  <2>1. Chars \subseteq ByteRange
    BY DEF Chars
  <2> QED BY <2>1
<1>2. PICK k \in 1 .. length + 4 : wire[side] = Unread(text, k) /\ Holds(packet[side], text, k)
  BY DEF Comes
<1>3. k \in 0 .. length + 4
  BY <1>1
<1>4. CASE k = length + 4
  <2>1. wire[side] = << >>
    BY <1>1, <1>2, <1>3, <1>4, UnreadIs
  <2>2. JudgePacket(side)
    BY <1>1, <1>2, <1>4, HoldsStep
  <2> QED BY <1>1, <1>2, <1>4, <2>1, <2>2, PacketReceives
<1>5. CASE k # length + 4
  <2>1. k < length + 4 /\ k + 1 \in 1 .. length + 4
    BY <1>1, <1>5
  <2>2. /\ wire[side] # << >> /\ NextChar(side) = Framed(text)[k + 1]
        /\ Taken(side) = [wire EXCEPT ![side] = Unread(text, k + 1)]
    <3>1. /\ Unread(text, k) # << >> /\ Head(Unread(text, k)) = Framed(text)[k + 1]
          /\ Tail(Unread(text, k)) = Unread(text, k + 1)
      BY <1>1, <1>3, <2>1, UnreadIs
    <3> QED BY <1>2, <3>1 DEF NextChar, Taken
  <2>3. \E held \in Held :
            /\ wire' = Taken(side) /\ packet' = [packet EXCEPT ![side] = held] /\ Holds(held, text, k + 1)
    <3>1. CASE k \in 1 .. length
      <4>1. NextChar(side) = text[k]
        BY <1>1, <2>2, <3>1, FramedParts
      <4>2. ReadData(side) \/ ReadDataEnd(side)
        <5>1. k <= length + 1
          BY <1>1, <3>1
        <5> QED BY <1>1, <1>2, <5>1, HoldsStep
      <4> QED BY <1>2, <2>2, <3>1, <4>1, <4>2, DataReceives
    <3>2. CASE k \notin 1 .. length
      <4>1. k \in length + 1 .. length + 3
        BY <1>1, <2>1, <3>2
      <4> QED BY <1>2, <2>2, <4>1, EndReceives
    <3> QED BY <3>1, <3>2
  <2> QED BY <2>1, <2>2, <2>3
<1> QED BY <1>4, <1>5

-----------------------------------------------------------------------------
(* Texts of packets, and what is read back of them.                        *)

\* Digits are no characters that begin or end the data of a packet.
LEMMA DigitsAreChars ==
    ASSUME NEW bytes \in Seq(ByteRange)
    PROVE  /\ HexText(bytes) \in Seq(Chars)
           /\ \A k \in 1 .. 2 * Len(bytes) : IsHexDigit(HexText(bytes)[k])
<1> DEFINE text == HexText(bytes)
           length == Len(bytes)
<1>1. length \in Nat /\ \A k \in 1 .. length : bytes[k] \in ByteRange
  OBVIOUS
<1>2. /\ text \in Seq(ByteRange) /\ Len(text) = 2 * length
      /\ \A k \in 1 .. length :
            /\ text[2 * k - 1] = NibbleToHexChar(bytes[k] \div 16)
            /\ text[2 * k] = NibbleToHexChar(bytes[k] % 16)
  BY DigitsOfBytes
<1> HIDE DEF text, length
<1>3. \A b \in ByteRange : b \div 16 \in 0 .. 15 /\ b % 16 \in 0 .. 15
  BY DEF ByteRange
<1>4. \A n \in 0 .. 15 : IsHexDigit(NibbleToHexChar(n))
  BY DigitOfNibble
<1>5. \A char : IsHexDigit(char) => char \in Chars
  BY DEF IsHexDigit, Chars, ByteRange, Dollar, Hash
<1>6. ASSUME NEW k \in 1 .. 2 * length PROVE IsHexDigit(text[k])
  <2>1. PICK n \in 1 .. length : k = 2 * n - 1 \/ k = 2 * n
    <3> DEFINE n == (k + 1) \div 2
    <3>1. n \in 1 .. length /\ (k = 2 * n - 1 \/ k = 2 * n)
      BY <1>1
    <3> HIDE DEF n
    <3> QED BY <3>1
  <2>2. bytes[n] \div 16 \in 0 .. 15 /\ bytes[n] % 16 \in 0 .. 15
    BY <1>1, <1>3
  <2> QED BY <1>2, <1>4, <2>1, <2>2
<1>7. text \in Seq(Chars)
  <2>1. \A k \in 1 .. Len(text) : text[k] \in Chars
    BY <1>2, <1>5, <1>6
  <2> QED BY <1>2, <2>1
<1> QED BY <1>6, <1>7 DEF text, length

\* The digits are as many as there are before the first character that is none.
LEMMA DigitsAre ==
    ASSUME NEW buffer, IsBuffer(buffer), NEW n \in 0 .. BytesLeft(buffer),
           \A k \in 1 .. n : IsHexDigit(buffer.chars[buffer.pos + k]),
           n < BytesLeft(buffer) => ~IsHexDigit(buffer.chars[buffer.pos + n + 1])
    PROVE  HexDigits(buffer) = n
<1> DEFINE digits == HexDigits(buffer)
           left   == BytesLeft(buffer)
<1>1. /\ digits \in 0 .. left /\ left \in Nat /\ buffer.pos \in Nat
      /\ \A k \in 1 .. digits : IsHexDigit(buffer.chars[buffer.pos + k])
      /\ digits < left => ~IsHexDigit(buffer.chars[buffer.pos + digits + 1])
  BY DigitsEnd, BufferParts
<1> HIDE DEF digits, left
<1>2. ASSUME digits < n PROVE FALSE
  <2>1. digits + 1 \in 1 .. n /\ digits < left /\ buffer.pos + (digits + 1) = buffer.pos + digits + 1
    BY <1>1, <1>2 DEF left
  <2> QED BY <1>1, <2>1
<1>3. ASSUME n < digits PROVE FALSE
  <2>1. n + 1 \in 1 .. digits /\ n < left /\ buffer.pos + (n + 1) = buffer.pos + n + 1
    BY <1>1, <1>3
  <2> QED BY <1>1, <2>1 DEF left
<1> QED BY <1>1, <1>2, <1>3 DEF digits

\* Taking off two bytes at once, or one after the other.
LEMMA QuotientOfQuotient ==
    ASSUME NEW a \in Nat, NEW p \in Nat \ {0}
    PROVE  a \div (256 * p) = (a \div p) \div 256
<1> DEFINE q == a \div p
           r == a % p
           c == q \div 256
           d == q % 256
<1>1. q \in Nat /\ r \in 0 .. p - 1 /\ a = p * q + r
  OBVIOUS
<1>2. c \in Nat /\ d \in 0 .. 255 /\ q = 256 * c + d
  <2> HIDE DEF q
  <2> QED BY <1>1
<1> HIDE DEF q, r, c, d
<1>3. a = (256 * p) * c + (p * d + r)
  BY <1>1, <1>2
<1>4. p * d + r \in 0 .. (256 * p) - 1
  <2>1. p * d \in 0 .. p * 255
    BY <1>2
  <2> QED BY <1>1, <2>1
<1>5. \A b \in Nat \ {0}, e \in Nat : \A f \in 0 .. b - 1 : (b * e + f) \div b = e
  OBVIOUS
<1>6. 256 * p \in Nat \ {0}
  OBVIOUS
<1> DEFINE b == 256 * p
           f == p * d + r
<1>7. (b * c + f) \div b = c
  <2> HIDE DEF b, f
  <2> QED BY <1>2, <1>4, <1>5, <1>6 DEF b, f
<1> QED BY <1>3, <1>7 DEF c, q

\* Two digits take a number from the bytes in front of a byte to those up to it.
LEMMA TwoDigits ==
    ASSUME NEW limit \in Nat \ {0}, NEW q \in 0 .. limit - 1
    PROVE  LET b    == q % 256
               high == (16 * (q \div 256) + (b \div 16)) % limit
           IN  (16 * high + (b % 16)) % limit = q
<1> DEFINE c == q \div 256
           b == q % 256
           h == b \div 16
           l == b % 16
<1>1. c \in Nat /\ b \in 0 .. 255 /\ q = 256 * c + b
  OBVIOUS
<1>2. h \in 0 .. 15 /\ l \in 0 .. 15 /\ b = 16 * h + l
  <2> HIDE DEF b
  <2> QED BY <1>1
<1> HIDE DEF c, b, h, l
<1>3. 16 * c + h \in 0 .. limit - 1 /\ 16 * (16 * c + h) + l = q
  BY <1>1, <1>2
<1>4. \A a \in 0 .. limit - 1 : a % limit = a
  OBVIOUS
<1>5. (16 * c + h) % limit = 16 * c + h /\ (16 * (16 * c + h) + l) % limit = q
  BY <1>3, <1>4
<1> QED BY <1>5 DEF c, b, h, l

\* The digits that a number is written with give the number.
LEMMA ValueIsRead ==
    ASSUME NEW buffer, NEW value \in UIntegers,
           \A k \in 1 .. 2 * Len(BytesOfUInteger(value)) :
               buffer.chars[buffer.pos + k] = HexText(BytesOfUInteger(value))[k]
    PROVE  ValueOfDigits(buffer, 2 * Len(BytesOfUInteger(value))) = value
<1> DEFINE bytes == BytesOfUInteger(value)
           n == Len(bytes)
           text == HexText(bytes)
           q(j) == value \div (256 ^ (n - j))
           char(k) == buffer.chars[buffer.pos + k]
<1>1. /\ bytes \in Seq(ByteRange) /\ n \in 1 .. UIntBytes /\ n \in Nat /\ value < 256 ^ n
      /\ (\A k \in 1 .. n : bytes[k] = q(k) % 256) /\ UIntBytes \in Nat /\ value \in Nat
  <2>1. /\ bytes \in Seq(ByteRange) /\ n \in 1 .. UIntBytes /\ value < 256 ^ n
        /\ \A k \in 1 .. n : bytes[k] = q(k) % 256
    BY BytesOfNumber
  <2>2. value \in Nat /\ UIntBytes \in Nat
    BY PowersAre DEF UIntegers
  <2> HIDE DEF bytes, n, q
  <2> QED BY <2>1, <2>2
<1>2. \A j \in 1 .. n : text[2 * j - 1] = NibbleToHexChar(bytes[j] \div 16) /\ text[2 * j] = NibbleToHexChar(bytes[j] % 16)
  BY <1>1, DigitsOfBytes
<1>3. \A k \in 1 .. 2 * n : char(k) = text[k] /\ IsHexDigit(char(k))
  BY <1>1, DigitsAreChars
<1> HIDE DEF bytes, n, text
<1>4. PICK v \in [0 .. 2 * n -> UIntegers] :
          /\ v[0] = 0 /\ ValueOfDigits(buffer, 2 * n) = v[2 * n]
          /\ \A k \in 1 .. 2 * n : v[k] = (16 * v[k - 1] + HexCharToNibble(char(k))) % UIntRange
  <2>1. 2 * n \in Nat
    BY <1>1
  <2> QED BY <1>3, <2>1, ValueGrows
<1> HIDE DEF char
<1>5. \A j \in 0 .. n : 256 ^ (n - j) \in Nat \ {0} /\ q(j) \in 0 .. UIntRange - 1
  <2> TAKE j \in 0 .. n
  <2>1. n - j \in 0 .. UIntBytes
    BY <1>1
  <2>2. 256 ^ (n - j) \in Nat \ {0}
    BY <2>1, PowersAre
  <2>3. \A p \in Nat \ {0} : value \div p \in 0 .. value
    <3> TAKE p \in Nat \ {0}
    <3> DEFINE d == value \div p
               r == value % p
    <3>1. d \in Nat /\ r \in Nat /\ value = p * d + r
      BY <1>1
    <3>2. p * d >= d
      <4> HIDE DEF d, r
      <4> QED BY <3>1
    <3> QED BY <1>1, <3>1, <3>2
  <2>4. value \in 0 .. UIntRange - 1 /\ UIntRange \in Nat
    BY PowersAre DEF UIntegers
  <2> HIDE DEF q
  <2> QED BY <2>2, <2>3, <2>4 DEF q
<1>6. q(0) = 0
  <2>1. \A p \in Nat \ {0} : value < p => value \div p = 0
    BY <1>1
  <2>2. n - 0 = n /\ 256 ^ n \in Nat \ {0}
    BY <1>1, PowersAre
  <2> QED BY <1>1, <2>1, <2>2
<1>7. q(n) = value
  <2>1. n - n = 0 /\ 256 ^ 0 = 1
    BY <1>1, PowersAssumption
  <2> QED BY <1>1, <2>1
<1>8. ASSUME NEW j \in 1 .. n PROVE q(j - 1) = q(j) \div 256
  <2>1. n - j \in 0 .. UIntBytes - 1 /\ n - (j - 1) = (n - j) + 1 /\ j \in 0 .. n
    BY <1>1
  <2>2. 256 ^ ((n - j) + 1) = 256 * 256 ^ (n - j)
    BY <2>1, PowersAssumption
  <2>3. 256 ^ (n - j) \in Nat \ {0}
    BY <1>5, <2>1
  <2> DEFINE p == 256 ^ (n - j)
  <2>6. p \in Nat \ {0}
    BY <2>3
  <2> HIDE DEF p
  <2>4. value \div (256 * p) = (value \div p) \div 256
    BY <1>1, <2>6, QuotientOfQuotient
  <2>5. 256 ^ (n - (j - 1)) = 256 * p
    BY <2>1, <2>2 DEF p
  <2> QED BY <2>4, <2>5 DEF p
<1> HIDE DEF q
<1>9. ASSUME NEW j \in 1 .. n, v[2 * (j - 1)] = q(j - 1) PROVE v[2 * j] = q(j)
  <2>1. /\ 2 * j - 1 \in 1 .. 2 * n /\ 2 * j \in 1 .. 2 * n
        /\ (2 * j - 1) - 1 = 2 * (j - 1) /\ j \in 0 .. n
    BY <1>1
  <2> DEFINE b == bytes[j]
  <2>2. b = q(j) % 256 /\ q(j) \in 0 .. UIntRange - 1 /\ b \in 0 .. 255
    <3>1. q(j) \in 0 .. UIntRange - 1 /\ UIntRange \in Nat
      BY <1>5, <2>1, PowersAre
    <3>2. \A a \in Nat : a % 256 \in 0 .. 255
      OBVIOUS
    <3>3. q(j) \in Nat
      BY <3>1
    <3>4. b = q(j) % 256
      BY <1>1
    <3> HIDE DEF b
    <3> QED BY <3>1, <3>2, <3>3, <3>4
  <2>3. b \div 16 \in 0 .. 15 /\ b % 16 \in 0 .. 15
    <3>1. \A a \in 0 .. 255 : a \div 16 \in 0 .. 15 /\ a % 16 \in 0 .. 15
      OBVIOUS
    <3> HIDE DEF b
    <3> QED BY <2>2, <3>1
  <2>4. HexCharToNibble(char(2 * j - 1)) = b \div 16 /\ HexCharToNibble(char(2 * j)) = b % 16
    <3>1. char(2 * j - 1) = NibbleToHexChar(b \div 16) /\ char(2 * j) = NibbleToHexChar(b % 16)
      BY <1>2, <1>3, <2>1 DEF char
    <3> QED BY <2>3, <3>1, DigitOfNibble
  <2>5. v[2 * j - 1] = (16 * v[2 * (j - 1)] + HexCharToNibble(char(2 * j - 1))) % UIntRange
    BY <1>4, <2>1 DEF char
  <2>6. v[2 * j] = (16 * v[2 * j - 1] + HexCharToNibble(char(2 * j))) % UIntRange
    BY <1>4, <2>1 DEF char
  <2>7. v[2 * (j - 1)] = q(j) \div 256
    BY <1>8, <1>9
  <2>8. (16 * ((16 * (q(j) \div 256) + ((q(j) % 256) \div 16)) % UIntRange) + ((q(j) % 256) % 16)) % UIntRange = q(j)
    <3>1. UIntRange \in Nat \ {0}
      BY PowersAre
    <3> DEFINE limit == UIntRange
               a == q(j)
    <3>2. limit \in Nat \ {0} /\ a \in 0 .. limit - 1
      BY <2>2, <3>1
    <3> HIDE DEF limit, a
    <3>3. (16 * ((16 * (a \div 256) + ((a % 256) \div 16)) % limit) + ((a % 256) % 16)) % limit = a
      BY <3>2, TwoDigits, Zenon
    <3> QED BY <3>3 DEF limit, a
  <2> QED BY <2>2, <2>4, <2>5, <2>6, <2>7, <2>8
<1> DEFINE f == [j \in 0 .. n |-> v[2 * j] - q(j)]
<1>10. \A j \in 0 .. n : v[2 * j] \in Int /\ q(j) \in Int
  <2> TAKE j \in 0 .. n
  <2>1. 2 * j \in 0 .. 2 * n
    BY <1>1
  <2> QED BY <1>4, <1>5, <2>1, PowersAre DEF UIntegers
<1>11. \A j \in 0 .. n : f[j] \in {0}
  <2>1. f[0] \in {0}
    <3>1. 0 \in 0 .. n /\ 2 * 0 = 0
      BY <1>1
    <3> QED BY <1>4, <1>6, <3>1
  <2>2. \A j \in 1 .. n : f[j - 1] \in {0} => f[j] \in {0}
    <3> TAKE j \in 1 .. n
    <3>1. j - 1 \in 0 .. n /\ j \in 0 .. n
      BY <1>1
    <3>2. f[j - 1] = v[2 * (j - 1)] - q(j - 1) /\ f[j] = v[2 * j] - q(j)
      BY <3>1
    <3>3. ASSUME f[j - 1] = 0 PROVE f[j] = 0
      <4> HIDE DEF f
      <4>1. v[2 * (j - 1)] = q(j - 1)
        BY <1>10, <3>1, <3>2, <3>3
      <4>2. v[2 * j] = q(j)
        BY <1>9, <4>1
      <4> QED BY <1>10, <3>1, <3>2, <4>2
    <3> HIDE DEF f
    <3> QED BY <3>3
  <2> DEFINE S == {0}
  <2>3. f[0] \in S /\ \A j \in 1 .. n : f[j - 1] \in S => f[j] \in S
    BY <2>1, <2>2
  <2> HIDE DEF f, S
  <2>4. \A j \in 0 .. n : f[j] \in S
    BY <1>1, <2>3, PassedOn
  <2> QED BY <2>4 DEF S
<1>12. v[2 * n] = q(n)
  <2>1. n \in 0 .. n
    BY <1>1
  <2>2. v[2 * n] - q(n) = 0
    BY <1>11, <2>1
  <2> QED BY <1>10, <2>1, <2>2
<1> QED BY <1>4, <1>7, <1>12 DEF n, bytes

\* A number is read back up to the end of the text, or to what is no digit.
LEMMA NumberIsRead ==
    ASSUME NEW buffer, IsBuffer(buffer), NEW value \in UIntegers,
           2 * Len(BytesOfUInteger(value)) <= BytesLeft(buffer),
           \A k \in 1 .. 2 * Len(BytesOfUInteger(value)) :
               buffer.chars[buffer.pos + k] = HexText(BytesOfUInteger(value))[k],
           2 * Len(BytesOfUInteger(value)) < BytesLeft(buffer) =>
               ~IsHexDigit(buffer.chars[buffer.pos + 2 * Len(BytesOfUInteger(value)) + 1])
    PROVE  /\ HexDigits(buffer) = 2 * Len(BytesOfUInteger(value))
           /\ ReadUIntegerAsHex(buffer).thrown = "none" /\ ReadUIntegerAsHex(buffer).value = value
<1> DEFINE bytes == BytesOfUInteger(value)
           n == 2 * Len(bytes)
<1>1. bytes \in Seq(ByteRange) /\ Len(bytes) >= 1 /\ Len(bytes) \in Nat
  <2>1. bytes \in Seq(ByteRange) /\ Len(bytes) \in 1 .. UIntBytes /\ UIntBytes \in Nat
    BY BytesOfNumber, PowersAre
  <2> HIDE DEF bytes
  <2> QED BY <2>1
<1>2. \A k \in 1 .. n : IsHexDigit(buffer.chars[buffer.pos + k])
  BY <1>1, DigitsAreChars
<1>3. n \in 0 .. BytesLeft(buffer) /\ n # 0
  <2>1. n <= BytesLeft(buffer) /\ BytesLeft(buffer) \in Nat
    BY BufferParts
  <2> HIDE DEF bytes
  <2> QED BY <1>1, <2>1
<1>4. n < BytesLeft(buffer) => ~IsHexDigit(buffer.chars[buffer.pos + n + 1])
  OBVIOUS
<1>5. ValueOfDigits(buffer, n) = value
  BY ValueIsRead
<1> HIDE DEF n
<1>6. HexDigits(buffer) = n
  BY <1>2, <1>3, <1>4, DigitsAre
<1>7. ReadUIntegerAsHex(buffer).thrown = "none" /\ ReadUIntegerAsHex(buffer).value = value
  BY <1>3, <1>5, <1>6 DEF ReadUIntegerAsHex, Returns
<1> QED BY <1>6, <1>7 DEF n

\* One pair of digits.
LEMMA ByteIsRead ==
    ASSUME NEW buffer, IsBuffer(buffer), NEW n \in Nat, 2 * n + 2 <= BytesLeft(buffer),
           IsHexDigit(buffer.chars[buffer.pos + 2 * n + 1]), IsHexDigit(buffer.chars[buffer.pos + 2 * n + 2])
    PROVE  LET read == ReadByteAsHex([buffer EXCEPT !.pos = buffer.pos + 2 * n])
           IN  /\ read.thrown = "none"
               /\ read.value = 16 * HexCharToNibble(buffer.chars[buffer.pos + 2 * n + 1])
                                   + HexCharToNibble(buffer.chars[buffer.pos + 2 * n + 2])
<1> DEFINE pos == buffer.pos + 2 * n
           behind == [buffer EXCEPT !.pos = pos]
<1>1. /\ BytesLeft(buffer) = buffer.end - buffer.pos /\ buffer.end \in Nat /\ buffer.pos \in Nat
      /\ BytesLeft(buffer) \in Nat
  BY BufferParts
<1>2. pos \in 0 .. buffer.end + 1 /\ pos + 2 <= buffer.end
  BY <1>1
<1> HIDE DEF pos
<1>3. behind.pos = pos /\ behind.end = buffer.end /\ behind.chars = buffer.chars
  BY <1>2, MovedBuffer
<1> HIDE DEF behind
<1>4. BytesLeft(behind) >= 2
  BY <1>1, <1>2, <1>3 DEF BytesLeft, OverrunDetected
<1>5. IsHexDigit(behind.chars[behind.pos + 1]) /\ IsHexDigit(behind.chars[behind.pos + 2])
  BY <1>3 DEF pos
<1>6. /\ ReadByteAsHex(behind).thrown = "none"
      /\ ReadByteAsHex(behind).value = 16 * HexCharToNibble(behind.chars[behind.pos + 1])
                                           + HexCharToNibble(behind.chars[behind.pos + 2])
  <2>1. ~(BytesLeft(behind) < 2)
    <3>1. BytesLeft(behind) \in Int
      BY <1>1, <1>2, <1>3 DEF BytesLeft, OverrunDetected
    <3> QED BY <1>4, <3>1
  <2> QED BY <1>5, <2>1 DEF ReadByteAsHex, Returns
<1> QED BY <1>3, <1>6 DEF behind, pos

\* A pair that is not there.
LEMMA NoByteIsRead ==
    ASSUME NEW buffer, IsBuffer(buffer), NEW n \in Nat,
           2 * n <= BytesLeft(buffer), BytesLeft(buffer) < 2 * n + 2
    PROVE  ReadByteAsHex([buffer EXCEPT !.pos = buffer.pos + 2 * n]).thrown # "none"
<1> DEFINE behind == [buffer EXCEPT !.pos = buffer.pos + 2 * n]
<1>1. /\ BytesLeft(buffer) \in Nat /\ buffer.end \in Nat /\ buffer.pos \in Nat /\ buffer.pos <= buffer.end + 1
      /\ BytesLeft(buffer) = IF buffer.pos > buffer.end THEN 0 ELSE buffer.end - buffer.pos
  BY BufferParts DEF BytesLeft, OverrunDetected
<1>2. buffer.pos + 2 * n \in 0 .. buffer.end + 1
  BY <1>1
<1>3. behind.pos = buffer.pos + 2 * n /\ behind.end = buffer.end
  BY <1>2, MovedBuffer
<1> HIDE DEF behind
<1>4. BytesLeft(behind) < 2
  BY <1>1, <1>2, <1>3 DEF BytesLeft, OverrunDetected
<1>5. ReadByteAsHex(behind).thrown # "none"
  BY <1>4 DEF ReadByteAsHex, Throws
<1> QED BY <1>5 DEF behind

\* The bytes of a text that ends with them are read back; no more can be read.
LEMMA BytesAreRead ==
    ASSUME NEW buffer, IsBuffer(buffer), NEW bytes \in Seq(ByteRange), NEW size \in Nat,
           BytesLeft(buffer) = 2 * Len(bytes),
           \A k \in 1 .. 2 * Len(bytes) : buffer.chars[buffer.pos + k] = HexText(bytes)[k]
    PROVE  /\ size = Len(bytes) => /\ ReadBytesAsHex(buffer, size).thrown = "none"
                                   /\ ReadBytesAsHex(buffer, size).value = bytes
           /\ size > Len(bytes) => ReadBytesAsHex(buffer, size).thrown # "none"
<1> DEFINE length == Len(bytes)
           behind(n) == [buffer EXCEPT !.pos = buffer.pos + 2 * n]
           pairs == HexDigits(buffer) \div 2
           byte(k) == ReadByteAsHex(behind(k - 1)).value
<1>1. length \in Nat /\ \A k \in 1 .. length : bytes[k] \in ByteRange
  OBVIOUS
<1>2. \A k \in 1 .. 2 * length : IsHexDigit(buffer.chars[buffer.pos + k])
  BY DigitsAreChars
<1>3. HexDigits(buffer) = 2 * length
  <2>1. 2 * length \in 0 .. BytesLeft(buffer) /\ ~(2 * length < BytesLeft(buffer))
    BY <1>1
  <2> HIDE DEF length
  <2> QED BY <1>2, <2>1, DigitsAre
<1>4. pairs = length
  BY <1>1, <1>3
<1>5. ASSUME NEW k \in 1 .. length PROVE byte(k) = bytes[k]
  <2> DEFINE n == k - 1
             b == bytes[k]
  <2>1. /\ n \in Nat /\ 2 * n + 2 <= BytesLeft(buffer) /\ 2 * n + 1 = 2 * k - 1 /\ 2 * n + 2 = 2 * k
        /\ 2 * n + 1 \in 1 .. 2 * length /\ 2 * n + 2 \in 1 .. 2 * length
        /\ buffer.pos \in Nat
    BY <1>1, BufferParts
  <2>2. HexText(bytes)[2 * k - 1] = NibbleToHexChar(b \div 16) /\ HexText(bytes)[2 * k] = NibbleToHexChar(b % 16)
    BY DigitsOfBytes
  <2>3. buffer.pos + 2 * n + 1 = buffer.pos + (2 * k - 1) /\ buffer.pos + 2 * n + 2 = buffer.pos + 2 * k
    BY <2>1
  <2>4. /\ buffer.chars[buffer.pos + 2 * n + 1] = NibbleToHexChar(b \div 16)
        /\ buffer.chars[buffer.pos + 2 * n + 2] = NibbleToHexChar(b % 16)
        /\ IsHexDigit(buffer.chars[buffer.pos + 2 * n + 1]) /\ IsHexDigit(buffer.chars[buffer.pos + 2 * n + 2])
    BY <1>2, <2>1, <2>2, <2>3
  <2>5. b \div 16 \in 0 .. 15 /\ b % 16 \in 0 .. 15 /\ 16 * (b \div 16) + (b % 16) = b
    <3>1. \A a \in 0 .. 255 : a \div 16 \in 0 .. 15 /\ a % 16 \in 0 .. 15 /\ 16 * (a \div 16) + (a % 16) = a
      OBVIOUS
    <3>2. b \in 0 .. 255
      BY <1>1 DEF ByteRange
    <3> HIDE DEF b
    <3> QED BY <3>1, <3>2
  <2> HIDE DEF n
  <2>6. ReadByteAsHex(behind(n)).value = 16 * HexCharToNibble(buffer.chars[buffer.pos + 2 * n + 1])
                                             + HexCharToNibble(buffer.chars[buffer.pos + 2 * n + 2])
    BY <2>1, <2>4, ByteIsRead
  <2> HIDE DEF b, behind
  <2>7. ReadByteAsHex(behind(n)).value = b
    BY <2>4, <2>5, <2>6, DigitOfNibble
  <2> QED BY <2>7 DEF n, b
<1>6. CASE size = length
  <2>1. ~(pairs < size)
    BY <1>1, <1>4, <1>6
  <2>2. ReadBytesAsHex(buffer, size) = Returns(behind(size), [k \in 1 .. size |-> byte(k)])
    BY <2>1 DEF ReadBytesAsHex
  <2>3. [k \in 1 .. size |-> byte(k)] = bytes
    <3>1. bytes = [k \in 1 .. length |-> bytes[k]]
      OBVIOUS
    <3> HIDE DEF byte
    <3> QED BY <1>5, <1>6, <3>1
  <2> HIDE DEF byte, behind
  <2>4. ReadBytesAsHex(buffer, size).thrown = "none" /\ ReadBytesAsHex(buffer, size).value = bytes
    BY <2>2, <2>3 DEF Returns
  <2> QED BY <1>1, <1>6, <2>4
<1>7. CASE size > length
  <2>1. pairs < size
    BY <1>1, <1>4, <1>7
  <2>2. ReadBytesAsHex(buffer, size) = ReadByteAsHex(behind(pairs))
    BY <2>1 DEF ReadBytesAsHex
  <2>3. 2 * length <= BytesLeft(buffer) /\ BytesLeft(buffer) < 2 * length + 2
    BY <1>1
  <2>4. ReadByteAsHex(behind(length)).thrown # "none"
    <3> HIDE DEF length
    <3> QED BY <1>1, <2>3, NoByteIsRead
  <2>5. ReadBytesAsHex(buffer, size).thrown # "none"
    BY <1>4, <2>2, <2>4
  <2> QED BY <1>1, <1>7, <2>5
<1> QED BY <1>6, <1>7

\* JoinedText, for texts of packets.
LEMMA Joins ==
    ASSUME NEW a \in Seq(Chars), NEW b \in Seq(Chars)
    PROVE  /\ a \o b \in Seq(Chars) /\ Len(a \o b) = Len(a) + Len(b)
           /\ \A k \in 1 .. Len(a) : (a \o b)[k] = a[k]
           /\ \A k \in 1 .. Len(b) : (a \o b)[Len(a) + k] = b[k]
BY JoinedText

\* A number, written in hexadecimal.
Digits(value) == HexText(BytesOfUInteger(value))

\* The digits that a number is written with.
LEMMA DigitsOf ==
    ASSUME NEW value \in UIntegers
    PROVE  /\ Digits(value) \in Seq(Chars) /\ Len(Digits(value)) = 2 * Len(BytesOfUInteger(value))
           /\ Len(Digits(value)) \in Nat /\ Len(Digits(value)) >= 2
           /\ \A k \in 1 .. Len(Digits(value)) : IsHexDigit(Digits(value)[k])
<1> DEFINE bytes == BytesOfUInteger(value)
<1>1. bytes \in Seq(ByteRange) /\ Len(bytes) >= 1 /\ Len(bytes) \in Nat
  <2>1. bytes \in Seq(ByteRange) /\ Len(bytes) \in 1 .. UIntBytes /\ UIntBytes \in Nat
    BY BytesOfNumber, PowersAre
  <2> HIDE DEF bytes
  <2> QED BY <2>1
<1>2. Digits(value) = HexText(bytes)
  BY DEF Digits
<1> HIDE DEF bytes
<1>3. Len(HexText(bytes)) = 2 * Len(bytes) /\ HexText(bytes) \in Seq(Chars)
      /\ \A k \in 1 .. 2 * Len(bytes) : IsHexDigit(HexText(bytes)[k])
  BY <1>1, DigitsOfBytes, DigitsAreChars
<1>4. Digits(value) \in Seq(Chars) /\ Len(Digits(value)) = 2 * Len(bytes)
      /\ \A k \in 1 .. Len(Digits(value)) : IsHexDigit(Digits(value)[k])
  BY <1>2, <1>3
<1>5. Len(Digits(value)) \in Nat /\ Len(Digits(value)) >= 2
  BY <1>1, <1>4
<1> QED BY <1>4, <1>5 DEF bytes

\* The letters of which a request or a response is made, between its digits.
LEMMA LettersAre ==
    /\ \A op \in Operations : <<RequestLetter[op]>> \in Seq(Chars)
    /\ <<Comma>> \in Seq(Chars) /\ <<Colon>> \in Seq(Chars) /\ <<OutputLetter>> \in Seq(Chars)
    /\ <<SignalLetter>> \in Seq(Chars) /\ OkText \in Seq(Chars) /\ ErrorText \in Seq(Chars)
<1>1. \A char \in {44, 58, 69, 48, 49, 71, 75, 77, 79, 84, 103, 109, 115} : char \in Chars
  BY DEF Chars, ByteRange, Dollar, Hash
<1>2. \A op \in Operations : RequestLetter[op] \in Chars
  BY <1>1 DEF Operations, RequestLetter
<1> HIDE DEF Chars
<1>3. <<Comma>> \in Seq(Chars) /\ <<Colon>> \in Seq(Chars) /\ <<OutputLetter>> \in Seq(Chars) /\ <<SignalLetter>> \in Seq(Chars)
  BY <1>1 DEF Comma, Colon, OutputLetter, SignalLetter
<1>4. OkText \in Seq(Chars) /\ ErrorText \in Seq(Chars)
  BY <1>1 DEF OkText, ErrorText
<1> QED BY <1>2, <1>3, <1>4

\* Address, comma, size.
LEMMA RangeParts ==
    ASSUME NEW address \in UIntegers, NEW size \in UIntegers
    PROVE  LET range == Digits(address) \o <<Comma>> \o Digits(size)
               a == Len(Digits(address))
               b == Len(Digits(size))
           IN  /\ range \in Seq(Chars) /\ Len(range) = a + 1 + b
               /\ (\A k \in 1 .. a : range[k] = Digits(address)[k])
               /\ range[a + 1] = Comma
               /\ (\A k \in 1 .. b : range[a + 1 + k] = Digits(size)[k])
<1> DEFINE x == Digits(address)
           y == Digits(size)
           c == <<Comma>>
           z == x \o c
           range == z \o y
<1>1. x \in Seq(Chars) /\ y \in Seq(Chars) /\ c \in Seq(Chars) /\ Len(c) = 1 /\ c[1] = Comma
  BY DigitsOf, LettersAre
<1>2. Len(x) \in Nat /\ Len(y) \in Nat
  BY DigitsOf
<1> HIDE DEF x, y, c
<1>3. /\ z \in Seq(Chars) /\ Len(z) = Len(x) + 1 /\ (\A k \in 1 .. Len(x) : z[k] = x[k])
      /\ \A k \in 1 .. 1 : z[Len(x) + k] = c[k]
  <2>1. x \in Seq(Chars) /\ c \in Seq(Chars)
    BY <1>1
  <2>2. /\ z \in Seq(Chars) /\ Len(z) = Len(x) + Len(c) /\ (\A k \in 1 .. Len(x) : z[k] = x[k])
        /\ \A k \in 1 .. Len(c) : z[Len(x) + k] = c[k]
    BY <2>1, Joins
  <2> HIDE DEF z
  <2> QED BY <1>1, <2>2
<1>4. z[Len(x) + 1] = Comma
  <2>1. 1 \in 1 .. 1
    OBVIOUS
  <2> QED BY <1>1, <1>3, <2>1
<1> HIDE DEF z
<1>5. /\ range \in Seq(Chars) /\ Len(range) = Len(z) + Len(y)
      /\ (\A k \in 1 .. Len(z) : range[k] = z[k])
      /\ (\A k \in 1 .. Len(y) : range[Len(z) + k] = y[k])
  <2>1. z \in Seq(Chars) /\ y \in Seq(Chars)
    BY <1>1, <1>3
  <2> QED BY <2>1, Joins
<1> HIDE DEF range
<1>6. \A k \in 1 .. Len(x) : k \in 1 .. Len(z)
  BY <1>2, <1>3
<1>7. Len(x) + 1 \in 1 .. Len(z)
  BY <1>2, <1>3
<1>8. (\A k \in 1 .. Len(x) : range[k] = x[k]) /\ range[Len(x) + 1] = Comma
  BY <1>3, <1>4, <1>5, <1>6, <1>7
<1>9. Len(range) = Len(x) + 1 + Len(y) /\ \A k \in 1 .. Len(y) : range[Len(x) + 1 + k] = y[k]
  BY <1>3, <1>5
<1>10. range = (x \o c) \o y
  BY DEF range, z
<1> HIDE DEF x
<1> QED BY <1>5, <1>8, <1>9 DEF range, z, x, y, c

\* The text of a request, part by part.
LEMMA RequestParts ==
    ASSUME NEW asked \in Asked
    PROVE  LET text == RequestText(asked)
               a == Len(Digits(asked.address))
               b == Len(Digits(asked.size))
               d == 2 * Len(asked.bytes)
           IN  /\ text \in Seq(Chars) /\ text[1] = RequestLetter[asked.op]
               /\ asked.op \in {"g", "s"} => Len(text) = 1
               /\ asked.op = "G" => Len(text) = 1 + d /\ \A k \in 1 .. d : text[1 + k] = HexText(asked.bytes)[k]
               /\ asked.op \in {"m", "M"} =>
                      /\ (\A k \in 1 .. a : text[1 + k] = Digits(asked.address)[k])
                      /\ text[a + 2] = Comma
                      /\ (\A k \in 1 .. b : text[a + 2 + k] = Digits(asked.size)[k])
               /\ asked.op = "m" => Len(text) = a + b + 2
               /\ asked.op = "M" => /\ Len(text) = a + b + 3 + d /\ text[a + b + 3] = Colon
                                    /\ \A k \in 1 .. d : text[a + b + 3 + k] = HexText(asked.bytes)[k]
<1> DEFINE text == RequestText(asked)
           x == Digits(asked.address)
           y == Digits(asked.size)
           z == HexText(asked.bytes)
           a == Len(x)
           b == Len(y)
           d == 2 * Len(asked.bytes)
           letter == <<RequestLetter[asked.op]>>
           range == x \o <<Comma>> \o y
<1>1. /\ asked.op \in Operations /\ asked.address \in UIntegers /\ asked.size \in UIntegers
      /\ asked.bytes \in Seq(ByteRange)
  BY DEF Asked, Bytes, ByteRange
<1>2. a \in Nat /\ b \in Nat /\ d \in Nat /\ Len(asked.bytes) \in Nat
  BY <1>1, DigitsOf
<1>3. z \in Seq(Chars) /\ Len(z) = d
  BY <1>1, DigitsAreChars, DigitsOfBytes
<1>4. letter \in Seq(Chars) /\ Len(letter) = 1 /\ letter[1] = RequestLetter[asked.op]
  BY <1>1, LettersAre
<1>5. /\ range \in Seq(Chars) /\ Len(range) = a + 1 + b
      /\ (\A k \in 1 .. a : range[k] = x[k])
      /\ range[a + 1] = Comma
      /\ (\A k \in 1 .. b : range[a + 1 + k] = y[k])
  BY <1>1, RangeParts
<1>6. text = CASE asked.op \in {"g", "s"} -> letter
               [] asked.op = "G" -> letter \o z
               [] asked.op = "m" -> letter \o range
               [] asked.op = "M" -> letter \o range \o <<Colon>> \o z
  BY DEF RequestText, Digits
<1> HIDE DEF text, letter, range, x, y, z, d
<1>7. CASE asked.op \in {"g", "s"}
  <2>1. text = letter
    BY <1>6, <1>7
  <2> QED BY <1>4, <1>7, <2>1 DEF text
<1>8. CASE asked.op = "G"
  <2>1. text = letter \o z
    BY <1>6, <1>8
  <2>0. letter \in Seq(Chars) /\ z \in Seq(Chars)
    BY <1>3, <1>4
  <2> DEFINE joined == letter \o z
  <2>4. /\ joined \in Seq(Chars) /\ Len(joined) = Len(letter) + Len(z)
        /\ (\A k \in 1 .. Len(letter) : joined[k] = letter[k])
        /\ \A k \in 1 .. Len(z) : joined[Len(letter) + k] = z[k]
    BY <2>0, Joins
  <2>5. text = joined
    BY <2>1
  <2> HIDE DEF joined
  <2>2. text \in Seq(Chars) /\ Len(text) = 1 + d /\ (\A k \in 1 .. d : text[1 + k] = z[k])
    BY <1>3, <1>4, <2>4, <2>5
  <2>3. text[1] = letter[1]
    <3>1. 1 \in 1 .. 1
      OBVIOUS
    <3> QED BY <1>4, <2>4, <2>5, <3>1
  <2> QED BY <1>4, <1>8, <2>2, <2>3 DEF text, z, d
<1> DEFINE head == letter \o range
<1>9. /\ head \in Seq(Chars) /\ Len(head) = a + b + 2 /\ head[1] = RequestLetter[asked.op]
      /\ (\A k \in 1 .. a : head[1 + k] = x[k])
      /\ head[a + 2] = Comma
      /\ (\A k \in 1 .. b : head[a + 2 + k] = y[k])
  <2>1. /\ head \in Seq(Chars) /\ Len(head) = 1 + Len(range)
        /\ (\A k \in 1 .. 1 : head[k] = letter[k])
        /\ (\A k \in 1 .. Len(range) : head[1 + k] = range[k])
    <3>1. letter \in Seq(Chars) /\ range \in Seq(Chars)
      BY <1>4, <1>5
    <3>2. /\ head \in Seq(Chars) /\ Len(head) = Len(letter) + Len(range)
          /\ (\A k \in 1 .. Len(letter) : head[k] = letter[k])
          /\ (\A k \in 1 .. Len(range) : head[Len(letter) + k] = range[k])
      BY <3>1, Joins
    <3> HIDE DEF head, a, b
    <3> QED BY <1>4, <3>2
  <2> HIDE DEF head, a, b
  <2>2. head[1] = letter[1]
    BY <2>1
  <2>3. \A k \in 1 .. a : k \in 1 .. Len(range)
    BY <1>2, <1>5
  <2>4. a + 1 \in 1 .. Len(range) /\ 1 + (a + 1) = a + 2 /\ Len(head) = a + b + 2
    BY <1>2, <1>5, <2>1
  <2>5. \A k \in 1 .. b : a + 1 + k \in 1 .. Len(range) /\ 1 + (a + 1 + k) = a + 2 + k
    BY <1>2, <1>5
  <2>6. \A k \in 1 .. a : head[1 + k] = x[k]
    BY <1>5, <2>1, <2>3
  <2>7. head[a + 2] = Comma
    BY <1>5, <2>1, <2>4
  <2>8. \A k \in 1 .. b : head[a + 2 + k] = y[k]
    BY <1>5, <2>1, <2>5
  <2> QED BY <1>4, <2>1, <2>2, <2>4, <2>6, <2>7, <2>8
<1> HIDE DEF head
<1>10. CASE asked.op = "m"
  <2>1. text = head
    BY <1>6, <1>10 DEF head
  <2> QED BY <1>9, <1>10, <2>1 DEF text, x, y
<1>11. CASE asked.op = "M"
  <2> DEFINE c == <<Colon>>
             most == head \o c
             n == a + b + 2
  <2>1. text = most \o z
    BY <1>6, <1>11 DEF head
  <2>2. c \in Seq(Chars) /\ Len(c) = 1 /\ c[1] = Colon /\ 1 \in 1 .. Len(c)
    BY LettersAre
  <2> HIDE DEF c
  <2>3. /\ most \in Seq(Chars) /\ Len(most) = n + 1 /\ (\A k \in 1 .. n : most[k] = head[k])
        /\ \A k \in 1 .. 1 : most[n + k] = c[k]
    <3>1. head \in Seq(Chars) /\ c \in Seq(Chars)
      BY <1>9, <2>2
    <3>2. /\ most \in Seq(Chars) /\ Len(most) = Len(head) + Len(c)
          /\ (\A k \in 1 .. Len(head) : most[k] = head[k])
          /\ (\A k \in 1 .. Len(c) : most[Len(head) + k] = c[k])
      BY <3>1, Joins
    <3> HIDE DEF most, a, b
    <3> QED BY <1>9, <2>2, <3>2
  <2>4. most[n + 1] = Colon
    <3>1. 1 \in 1 .. 1
      OBVIOUS
    <3> QED BY <2>2, <2>3, <3>1
  <2> HIDE DEF most
  <2>5. /\ text \in Seq(Chars) /\ Len(text) = (n + 1) + d
        /\ (\A k \in 1 .. n + 1 : text[k] = most[k])
        /\ (\A k \in 1 .. d : text[(n + 1) + k] = z[k])
    <3>1. most \in Seq(Chars) /\ z \in Seq(Chars)
      BY <1>3, <2>3
    <3> DEFINE joined == most \o z
    <3>2. /\ joined \in Seq(Chars) /\ Len(joined) = Len(most) + Len(z)
          /\ (\A k \in 1 .. Len(most) : joined[k] = most[k])
          /\ (\A k \in 1 .. Len(z) : joined[Len(most) + k] = z[k])
      BY <3>1, Joins
    <3>3. text = joined
      BY <2>1
    <3> HIDE DEF joined, n
    <3> QED BY <1>3, <2>3, <3>2, <3>3
  <2> HIDE DEF a, b
  <2>6. n + 1 = a + b + 3 /\ n + 1 \in 1 .. n + 1 /\ (\A k \in 1 .. n : k \in 1 .. n + 1) /\ n \in Nat
    BY <1>2
  <2> HIDE DEF n
  <2>7. \A k \in 1 .. n : text[k] = head[k]
    BY <2>3, <2>5, <2>6
  <2>8. text[a + b + 3] = Colon /\ Len(text) = a + b + 3 + d
    BY <2>4, <2>5, <2>6
  <2>9. \A k \in 1 .. d : text[a + b + 3 + k] = z[k]
    BY <2>5, <2>6
  <2>10. 1 \in 1 .. n /\ a + 2 \in 1 .. n /\ (\A k \in 1 .. a : 1 + k \in 1 .. n) /\ (\A k \in 1 .. b : a + 2 + k \in 1 .. n)
    BY <1>2 DEF n
  <2>11. /\ text[1] = RequestLetter[asked.op] /\ text[a + 2] = Comma
         /\ (\A k \in 1 .. a : text[1 + k] = x[k]) /\ (\A k \in 1 .. b : text[a + 2 + k] = y[k])
    BY <1>9, <2>7, <2>10
  <2> QED BY <1>11, <2>5, <2>8, <2>9, <2>11 DEF text, x, y, z, a, b, d
<1> QED BY <1>1, <1>7, <1>8, <1>10, <1>11 DEF Operations

\* A received packet is a buffer at whose cursor the text begins and ends.
LEMMA CarriedIs ==
    ASSUME NEW buffer, IsBuffer(buffer), NEW text \in Seq(ByteRange), Carries(buffer, text)
    PROVE  /\ buffer.pos = 0 /\ buffer.end = Len(text) /\ BytesLeft(buffer) = Len(text)
           /\ \A k \in 1 .. Len(text) : buffer.chars[k] = text[k] /\ buffer.chars[buffer.pos + k] = text[k]
<1>1. Len(text) \in Nat
  OBVIOUS
<1>2. buffer.pos = 0 /\ buffer.end = Len(text) /\ \A k \in 1 .. Len(text) : buffer.chars[k] = text[k]
  BY DEF Carries, Begins
<1>3. BytesLeft(buffer) = Len(text)
  BY <1>1, <1>2 DEF BytesLeft, OverrunDetected
<1>4. \A k \in 1 .. Len(text) : buffer.pos + k = k
  BY <1>1, <1>2
<1> QED BY <1>2, <1>3, <1>4

\* The part of it behind a position.
LEMMA PartIs ==
    ASSUME NEW buffer, IsBuffer(buffer), NEW text \in Seq(ByteRange), Carries(buffer, text),
           NEW pos \in 0 .. Len(text)
    PROVE  LET part == From(buffer, pos)
           IN  /\ IsBuffer(part) /\ BytesLeft(part) = Len(text) - pos /\ part.pos = pos
               /\ \A k \in 1 .. Len(text) - pos : part.chars[part.pos + k] = text[pos + k]
               /\ pos < Len(text) => CharAt(buffer, pos) = text[pos + 1]
<1> DEFINE part == From(buffer, pos)
<1>1. Len(text) \in Nat
  OBVIOUS
<1>2. /\ buffer.end = Len(text) /\ \A k \in 1 .. Len(text) : buffer.chars[k] = text[k]
  BY CarriedIs
<1>3. pos \in 0 .. buffer.end + 1 /\ pos \in 0 .. buffer.end
  BY <1>1, <1>2
<1>4. IsBuffer(part) /\ BytesLeft(part) = Len(text) - pos
  BY <1>2, <1>3, FromIs
<1>5. part.pos = pos /\ part.chars = buffer.chars
  BY <1>3, MovedBuffer DEF From
<1> HIDE DEF part
<1>6. ASSUME NEW k \in 1 .. Len(text) - pos PROVE part.chars[part.pos + k] = text[pos + k]
  <2>1. pos + k \in 1 .. Len(text)
    BY <1>1
  <2> QED BY <1>2, <1>5, <2>1
<1>7. pos < Len(text) => CharAt(buffer, pos) = text[pos + 1]
  <2>1. pos < Len(text) => pos + 1 \in 1 .. Len(text)
    BY <1>1
  <2> QED BY <1>2, <2>1 DEF CharAt
<1> QED BY <1>4, <1>5, <1>6, <1>7 DEF part

\* A number between two positions of a packet.
LEMMA NumberInPacket ==
    ASSUME NEW buffer, IsBuffer(buffer), NEW text \in Seq(ByteRange), Carries(buffer, text),
           NEW value \in UIntegers, NEW pos \in 0 .. Len(text),
           Len(Digits(value)) <= Len(text) - pos,
           \A k \in 1 .. Len(Digits(value)) : text[pos + k] = Digits(value)[k],
           Len(Digits(value)) < Len(text) - pos => ~IsHexDigit(text[pos + Len(Digits(value)) + 1])
    PROVE  LET part == From(buffer, pos)
           IN  /\ HexDigits(part) = Len(Digits(value)) /\ ReadUIntegerAsHex(part).thrown = "none"
               /\ ReadUIntegerAsHex(part).value = value
<1> DEFINE part == From(buffer, pos)
           n == Len(Digits(value))
<1>1. n = 2 * Len(BytesOfUInteger(value)) /\ n \in Nat /\ Len(text) \in Nat /\ pos \in Nat
  BY DigitsOf
<1>2. /\ IsBuffer(part) /\ BytesLeft(part) = Len(text) - pos /\ part.pos = pos
      /\ \A k \in 1 .. Len(text) - pos : part.chars[part.pos + k] = text[pos + k]
  BY PartIs
<1> HIDE DEF part, n
<1>3. \A k \in 1 .. n : text[pos + k] = Digits(value)[k]
  BY DEF n
<1>4. n <= Len(text) - pos /\ (n < Len(text) - pos => ~IsHexDigit(text[pos + n + 1]))
  BY DEF n
<1>5. \A k \in 1 .. n : k \in 1 .. Len(text) - pos
  BY <1>1, <1>4
<1>6. \A k \in 1 .. n : part.chars[part.pos + k] = Digits(value)[k]
  BY <1>2, <1>3, <1>5
<1>7. n <= BytesLeft(part)
  BY <1>2, <1>4
<1>8. n < BytesLeft(part) => ~IsHexDigit(part.chars[part.pos + n + 1])
  <2>1. ASSUME n < BytesLeft(part) PROVE ~IsHexDigit(part.chars[part.pos + n + 1])
    <3>1. n + 1 \in 1 .. Len(text) - pos /\ pos + n + 1 = pos + (n + 1) /\ part.pos + n + 1 = part.pos + (n + 1)
      BY <1>1, <1>2, <2>1
    <3>2. part.chars[part.pos + (n + 1)] = text[pos + (n + 1)]
      BY <1>2, <3>1
    <3>3. ~IsHexDigit(text[pos + n + 1])
      BY <1>2, <1>4, <2>1
    <3> QED BY <3>1, <3>2, <3>3
  <2> QED BY <2>1
<1>9. /\ HexDigits(part) = 2 * Len(BytesOfUInteger(value))
      /\ ReadUIntegerAsHex(part).thrown = "none" /\ ReadUIntegerAsHex(part).value = value
  BY <1>1, <1>2, <1>6, <1>7, <1>8, NumberIsRead DEF Digits
<1> QED BY <1>1, <1>9 DEF part, n

\* Bytes behind a position of a packet, up to its end.
LEMMA BytesInPacket ==
    ASSUME NEW buffer, IsBuffer(buffer), NEW text \in Seq(ByteRange), Carries(buffer, text),
           NEW bytes \in Seq(ByteRange), NEW pos \in 0 .. Len(text), Len(text) - pos = 2 * Len(bytes),
           \A k \in 1 .. 2 * Len(bytes) : text[pos + k] = HexText(bytes)[k]
    PROVE  LET read == ReadBytesAsHex(From(buffer, pos), Len(bytes))
           IN  read.thrown = "none" /\ read.value = bytes
<1> DEFINE part == From(buffer, pos)
<1>1. /\ IsBuffer(part) /\ BytesLeft(part) = Len(text) - pos
      /\ \A k \in 1 .. Len(text) - pos : part.chars[part.pos + k] = text[pos + k]
  BY PartIs
<1> HIDE DEF part
<1>2. BytesLeft(part) = 2 * Len(bytes) /\ Len(bytes) \in Nat
  BY <1>1
<1>3. \A k \in 1 .. 2 * Len(bytes) : part.chars[part.pos + k] = HexText(bytes)[k]
  BY <1>1
<1> QED BY <1>1, <1>2, <1>3, BytesAreRead DEF part

\* The device reads a request as it was meant.
LEMMA RequestIsRead ==
    ASSUME NEW buffer, IsBuffer(buffer), NEW asked \in Asked, Carries(buffer, RequestText(asked))
    PROVE  ParsedRequest(buffer) = asked
<1> DEFINE text == RequestText(asked)
           a == Len(Digits(asked.address))
           b == Len(Digits(asked.size))
           d == 2 * Len(asked.bytes)
           letter  == CharAt(buffer, 0)
           comma   == 1 + HexDigits(From(buffer, 1))
           colon   == comma + 1 + HexDigits(From(buffer, comma + 1))
           address == ReadUIntegerAsHex(From(buffer, 1))
           size    == ReadUIntegerAsHex(From(buffer, comma + 1))
           bytes   == ReadBytesAsHex(From(buffer, colon + 1), size.value)
           register == ReadBytesAsHex(From(buffer, 1), 1)
           ranged  == address.thrown = "none" /\ size.thrown = "none" /\ CharAt(buffer, comma) = Comma
<1>1. /\ asked.op \in Operations /\ asked.address \in UIntegers /\ asked.size \in UIntegers
      /\ asked.bytes \in Seq(ByteRange)
  BY DEF Asked, Bytes, ByteRange
<1>2. a \in Nat /\ b \in Nat /\ d \in Nat /\ Len(asked.bytes) \in Nat /\ d = 2 * Len(asked.bytes)
  BY <1>1, DigitsOf
<1>3. /\ text[1] = RequestLetter[asked.op]
      /\ asked.op \in {"g", "s"} => Len(text) = 1
      /\ asked.op = "G" => Len(text) = 1 + d /\ \A k \in 1 .. d : text[1 + k] = HexText(asked.bytes)[k]
      /\ asked.op \in {"m", "M"} =>
             /\ (\A k \in 1 .. a : text[1 + k] = Digits(asked.address)[k])
             /\ text[a + 2] = Comma
             /\ (\A k \in 1 .. b : text[a + 2 + k] = Digits(asked.size)[k])
      /\ asked.op = "m" => Len(text) = a + b + 2
      /\ asked.op = "M" => /\ Len(text) = a + b + 3 + d /\ text[a + b + 3] = Colon
                           /\ \A k \in 1 .. d : text[a + b + 3 + k] = HexText(asked.bytes)[k]
  BY RequestParts
<1>4. text \in Seq(ByteRange) /\ Len(text) \in Nat
  <2>1. text \in Seq(Chars)
    BY RequestParts
  <2>2. Chars \subseteq ByteRange
    BY DEF Chars
  <2> HIDE DEF text
  <2> QED BY <2>1, <2>2
<1>5. Carries(buffer, text)
  OBVIOUS
<1>6. ParsedRequest(buffer) =
         CASE letter = RequestLetter.g -> Simple("g")
           [] letter = RequestLetter.s -> Simple("s")
           [] letter = RequestLetter.G /\ register.thrown = "none"
                 -> Request("G", 0, 0, register.value)
           [] letter = RequestLetter.m /\ ranged
                 -> Request("m", address.value, size.value, NoBytes)
           [] letter = RequestLetter.M /\ ranged /\ CharAt(buffer, colon) = Colon /\ bytes.thrown = "none"
                 -> Request("M", address.value, size.value, bytes.value)
           [] OTHER -> Simple("malformed")
  BY DEF ParsedRequest
<1>7. /\ Comma # 0 /\ ~IsHexDigit(Comma) /\ ~IsHexDigit(Colon)
      /\ RequestLetter.g = 103 /\ RequestLetter.G = 71 /\ RequestLetter.m = 109 /\ RequestLetter.M = 77
      /\ RequestLetter.s = 115
      /\ RequestLetter["g"] = 103 /\ RequestLetter["G"] = 71 /\ RequestLetter["m"] = 109
      /\ RequestLetter["M"] = 77 /\ RequestLetter["s"] = 115
  BY DEF Comma, Colon, IsHexDigit, RequestLetter
<1>8. asked = Request(asked.op, asked.address, asked.size, asked.bytes)
  BY DEF Asked, Request
<1> HIDE DEF text, a, b, d
<1>9. letter = RequestLetter[asked.op]
  <2>1. Len(text) > 0
    <3>1. Len(text) \in {1, 1 + d, a + b + 2, a + b + 3 + d}
      <4>1. asked.op \in {"g", "s", "G", "m", "M"}
        BY <1>1 DEF Operations
      <4>2. /\ asked.op \in {"g", "s"} => Len(text) = 1
            /\ asked.op = "G" => Len(text) = 1 + d
            /\ asked.op = "m" => Len(text) = a + b + 2
            /\ asked.op = "M" => Len(text) = a + b + 3 + d
        BY <1>3
      <4> QED BY <4>1, <4>2
    <3>2. a \in Nat /\ b \in Nat /\ d \in Nat
      BY <1>2
    <3>3. 1 > 0 /\ 1 + d > 0 /\ a + b + 2 > 0 /\ a + b + 3 + d > 0
      BY <3>2
    <3> QED BY <3>1, <3>3
  <2>2. 0 \in 0 .. Len(text) /\ 0 + 1 = 1 /\ 0 < Len(text)
    BY <1>4, <2>1
  <2>3. CharAt(buffer, 0) = text[0 + 1]
    BY <1>4, <1>5, <2>2, PartIs
  <2> QED BY <1>3, <2>2, <2>3
<1> HIDE DEF letter, comma, colon, address, size, bytes, register, ranged
<1>10. CASE asked.op \in {"g", "s"}
  <2>1. asked = Simple(asked.op)
    BY <1>10 DEF Asked
  <2> QED BY <1>6, <1>7, <1>9, <1>10, <2>1
<1>11. CASE asked.op = "G"
  <2>1. asked.address = 0 /\ asked.size = 0 /\ Len(asked.bytes) = 1
    BY <1>11 DEF Asked
  <2>2. 1 \in 0 .. Len(text) /\ Len(text) - 1 = 2 * Len(asked.bytes)
    BY <1>2, <1>3, <1>11
  <2>3. \A k \in 1 .. 2 * Len(asked.bytes) : text[1 + k] = HexText(asked.bytes)[k]
    BY <1>2, <1>3, <1>11
  <2>4. ReadBytesAsHex(From(buffer, 1), Len(asked.bytes)).thrown = "none"
        /\ ReadBytesAsHex(From(buffer, 1), Len(asked.bytes)).value = asked.bytes
    BY <1>1, <1>4, <1>5, <2>2, <2>3, BytesInPacket
  <2>5. register.thrown = "none" /\ register.value = asked.bytes
    BY <2>1, <2>4 DEF register
  <2>6. ParsedRequest(buffer) = Request("G", 0, 0, register.value)
    BY <1>6, <1>7, <1>9, <1>11, <2>5
  <2> QED BY <1>8, <1>11, <2>1, <2>5, <2>6
<1>12. ASSUME asked.op \in {"m", "M"}
       PROVE  ranged /\ address.value = asked.address /\ size.value = asked.size /\ colon = a + b + 2
  <2>1. Len(text) >= a + b + 2 /\ (Len(text) = a + b + 2 \/ text[a + b + 3] = Colon)
    <3>1. CASE asked.op = "m"
      <4>1. Len(text) = a + b + 2
        BY <1>3, <3>1
      <4> QED BY <1>2, <4>1
    <3>2. CASE asked.op = "M"
      <4>1. Len(text) = a + b + 3 + d /\ text[a + b + 3] = Colon
        BY <1>3, <3>2
      <4>2. a \in Nat /\ b \in Nat /\ d \in Nat
        BY <1>2
      <4>3. a + b + 3 + d >= a + b + 2
        BY <4>2
      <4> QED BY <4>1, <4>3
    <3> QED BY <1>12, <3>1, <3>2
  <2>2. /\ 1 \in 0 .. Len(text) /\ a <= Len(text) - 1 /\ 1 + a + 1 = a + 2
        /\ a + 2 \in 0 .. Len(text) /\ b <= Len(text) - (a + 2)
        /\ a + 1 \in 0 .. Len(text) /\ a + 1 < Len(text) /\ (a + 1) + 1 = a + 2
        /\ (b < Len(text) - (a + 2) => Len(text) # a + b + 2) /\ (a + 2) + b + 1 = a + b + 3
    BY <1>2, <1>4, <2>1
  <2>3. /\ (\A k \in 1 .. a : text[1 + k] = Digits(asked.address)[k])
        /\ text[a + 2] = Comma
        /\ (\A k \in 1 .. b : text[a + 2 + k] = Digits(asked.size)[k])
    BY <1>3, <1>12
  <2>4. a < Len(text) - 1 => ~IsHexDigit(text[1 + a + 1])
    BY <1>7, <2>2, <2>3
  <2>5. b < Len(text) - (a + 2) => ~IsHexDigit(text[(a + 2) + b + 1])
    BY <1>7, <2>1, <2>2
  <2>6. /\ HexDigits(From(buffer, 1)) = a /\ ReadUIntegerAsHex(From(buffer, 1)).thrown = "none"
        /\ ReadUIntegerAsHex(From(buffer, 1)).value = asked.address
    BY <1>1, <1>4, <1>5, <2>2, <2>3, <2>4, NumberInPacket DEF a
  <2>7. /\ HexDigits(From(buffer, a + 2)) = b /\ ReadUIntegerAsHex(From(buffer, a + 2)).thrown = "none"
        /\ ReadUIntegerAsHex(From(buffer, a + 2)).value = asked.size
    <3> DEFINE pos == a + 2
    <3>1. pos \in 0 .. Len(text) /\ b <= Len(text) - pos /\ (b < Len(text) - pos => ~IsHexDigit(text[pos + b + 1]))
          /\ \A k \in 1 .. b : text[pos + k] = Digits(asked.size)[k]
      BY <2>2, <2>3, <2>5
    <3> HIDE DEF pos
    <3>2. /\ HexDigits(From(buffer, pos)) = b /\ ReadUIntegerAsHex(From(buffer, pos)).thrown = "none"
          /\ ReadUIntegerAsHex(From(buffer, pos)).value = asked.size
      BY <1>1, <1>4, <1>5, <3>1, NumberInPacket DEF b
    <3> QED BY <3>2 DEF pos
  <2>8. comma = a + 1 /\ comma + 1 = a + 2
    BY <1>2, <2>6 DEF comma
  <2>9. address.thrown = "none" /\ address.value = asked.address
    BY <2>6 DEF address
  <2>10. size.thrown = "none" /\ size.value = asked.size
    BY <2>7, <2>8 DEF size
  <2>11. colon = a + b + 2
    <3>1. colon = (a + 2) + b
      BY <2>7, <2>8 DEF colon
    <3> QED BY <1>2, <3>1
  <2>12. CharAt(buffer, comma) = Comma
    <3>1. CharAt(buffer, a + 1) = text[(a + 1) + 1]
      BY <1>4, <1>5, <2>2, PartIs
    <3> QED BY <2>2, <2>3, <2>8, <3>1
  <2> QED BY <2>9, <2>10, <2>11, <2>12 DEF ranged
<1>13. CASE asked.op = "m"
  <2>1. asked.bytes = NoBytes
    BY <1>13 DEF Asked
  <2>2. ParsedRequest(buffer) = Request("m", address.value, size.value, NoBytes)
    BY <1>6, <1>7, <1>9, <1>12, <1>13
  <2> QED BY <1>8, <1>12, <1>13, <2>1, <2>2
<1>14. CASE asked.op = "M"
  <2>1. asked.size = Len(asked.bytes)
    BY <1>14 DEF Asked
  <2> DEFINE pos == a + b + 3
  <2>2. /\ pos \in 0 .. Len(text) /\ Len(text) - pos = 2 * Len(asked.bytes)
        /\ a + b + 2 \in 0 .. Len(text) /\ a + b + 2 < Len(text) /\ (a + b + 2) + 1 = pos
    <3>1. Len(text) = a + b + 3 + d
      BY <1>3, <1>14
    <3> HIDE DEF pos
    <3>2. pos = a + b + 3
      BY DEF pos
    <3>3. a \in Nat /\ b \in Nat /\ d \in Nat
      BY <1>2
    <3> DEFINE n == Len(text)
    <3>4. n = a + b + 3 + d
      BY <3>1
    <3> HIDE DEF n
    <3>5. pos \in 0 .. n /\ n - pos = d /\ a + b + 2 \in 0 .. n /\ a + b + 2 < n /\ (a + b + 2) + 1 = pos
      BY <3>2, <3>3, <3>4
    <3> QED BY <1>2, <3>5 DEF n
  <2>3. /\ text[pos] = Colon /\ \A k \in 1 .. 2 * Len(asked.bytes) : text[pos + k] = HexText(asked.bytes)[k]
    BY <1>2, <1>3, <1>14
  <2>4. CharAt(buffer, a + b + 2) = text[(a + b + 2) + 1]
    BY <1>4, <1>5, <2>2, PartIs
  <2> HIDE DEF pos
  <2>5. CharAt(buffer, colon) = Colon /\ colon + 1 = pos
    BY <1>12, <1>14, <2>2, <2>3, <2>4
  <2>6. ReadBytesAsHex(From(buffer, pos), Len(asked.bytes)).thrown = "none"
        /\ ReadBytesAsHex(From(buffer, pos), Len(asked.bytes)).value = asked.bytes
    BY <1>1, <1>4, <1>5, <2>2, <2>3, BytesInPacket
  <2>7. bytes.thrown = "none" /\ bytes.value = asked.bytes
    BY <1>12, <1>14, <2>1, <2>5, <2>6 DEF bytes
  <2>8. ParsedRequest(buffer) = Request("M", address.value, size.value, bytes.value)
    BY <1>6, <1>7, <1>9, <1>12, <1>14, <2>5, <2>7
  <2> QED BY <1>8, <1>12, <1>14, <2>7, <2>8
<1> QED BY <1>1, <1>10, <1>11, <1>13, <1>14 DEF Operations

\* Which requests have which answers.
LEMMA SuitedKinds ==
    ASSUME NEW asked \in Asked, NEW answered \in Answers, Suits(asked, answered)
    PROVE  /\ answered.kind = "bytes" =>
                  \/ asked.op = "g" /\ Len(answered.bytes) = 1
                  \/ asked.op = "m" /\ asked.size \in {1, 2, 4} /\ Len(answered.bytes) \in 1 .. asked.size
           /\ answered.kind = "ok" => asked.op \in {"G", "M"} /\ answered = Answer("ok", NoBytes)
           /\ answered.kind = "signal" => asked.op = "s" /\ Len(answered.bytes) = 1
           /\ answered.kind = "refused" => asked.op \in {"m", "M"} /\ answered = Refusal
<1>1. asked.op \in {"g", "G", "m", "M", "s"} /\ (asked.op = "m" => asked.size \in {1, 2, 4})
  BY DEF Asked, Operations
<1>2. Refusal.kind = "refused" /\ Answer("ok", NoBytes).kind = "ok"
  BY DEF Refusal, Answer
<1>3. /\ asked.op = "g" => answered.kind = "bytes" /\ Len(answered.bytes) = 1
      /\ asked.op = "m" => \/ answered = Refusal
                           \/ answered.kind = "bytes" /\ Len(answered.bytes) \in 1 .. asked.size
      /\ asked.op = "s" => answered.kind = "signal" /\ Len(answered.bytes) = 1
      /\ asked.op = "G" => answered = Answer("ok", NoBytes)
      /\ asked.op = "M" => answered \in {Answer("ok", NoBytes), Refusal}
  BY DEF Suits
<1> QED BY <1>1, <1>2, <1>3

\* The text of an answer, which has room in any buffer the thunk is used with.
LEMMA ResponseParts ==
    ASSUME NEW asked \in Asked, NEW answered \in Answers, Suits(asked, answered)
    PROVE  LET text == ResponseText(answered)
           IN  /\ text \in Seq(Chars) /\ text \in Seq(ByteRange) /\ Len(text) <= BufferSize
               /\ answered.kind = "bytes" => text = HexText(answered.bytes) /\ Len(text) = 2 * Len(answered.bytes)
               /\ answered.kind = "ok" => text = OkText
               /\ answered.kind = "signal" =>
                      /\ Len(text) = 3 /\ text[1] = SignalLetter
                      /\ \A k \in 1 .. 2 : text[1 + k] = HexText(answered.bytes)[k]
               /\ answered.kind = "refused" => text = ErrorText
<1> DEFINE text == ResponseText(answered)
           z == HexText(answered.bytes)
           letter == <<SignalLetter>>
<1>1. answered.kind \in {"bytes", "ok", "signal", "refused"} /\ answered.bytes \in Seq(ByteRange)
  BY DEF Answers, Bytes, ByteRange
<1>2. z \in Seq(Chars) /\ Len(z) = 2 * Len(answered.bytes) /\ Len(answered.bytes) \in Nat
  BY <1>1, DigitsAreChars, DigitsOfBytes
<1>3. /\ answered.kind = "bytes" => Len(answered.bytes) <= 4
      /\ answered.kind = "signal" => Len(answered.bytes) = 1
  <2>1. \A n, m : m \in {1, 2, 4} /\ n \in 1 .. m => n <= 4
    OBVIOUS
  <2>2. /\ answered.kind = "bytes" =>
               \/ Len(answered.bytes) = 1
               \/ asked.size \in {1, 2, 4} /\ Len(answered.bytes) \in 1 .. asked.size
        /\ answered.kind = "signal" => Len(answered.bytes) = 1
    BY SuitedKinds
  <2> DEFINE n == Len(answered.bytes)
             m == asked.size
  <2>3. n = 1 \/ (m \in {1, 2, 4} /\ n \in 1 .. m) => n <= 4
    <3> HIDE DEF n, m
    <3> QED BY <2>1
  <2> QED BY <2>2, <2>3
<1>4. BufferSize >= 8 /\ BufferSize \in Nat
  BY ThunkAssumption, BufferAssumption
<1>5. Chars \subseteq ByteRange
  BY DEF Chars
<1>6. /\ answered.kind = "bytes" => text = z
      /\ answered.kind = "ok" => text = OkText
      /\ answered.kind = "signal" => text = letter \o z
      /\ answered.kind = "refused" => text = ErrorText
  BY DEF ResponseText
<1> HIDE DEF text, z
<1>7. ASSUME text \in Seq(Chars) PROVE text \in Seq(ByteRange)
  BY <1>5, <1>7
<1>8. CASE answered.kind = "bytes"
  <2>1. text = z
    BY <1>6, <1>8
  <2>2. Len(text) = 2 * Len(answered.bytes) /\ Len(text) <= BufferSize
    BY <1>2, <1>3, <1>4, <1>8, <2>1
  <2> QED BY <1>2, <1>7, <1>8, <2>1, <2>2 DEF text, z
<1>9. CASE answered.kind = "ok" \/ answered.kind = "refused"
  <2>1. OkText \in Seq(Chars) /\ ErrorText \in Seq(Chars) /\ Len(OkText) = 2 /\ Len(ErrorText) = 3
    BY LettersAre DEF OkText, ErrorText
  <2>2. text \in Seq(Chars) /\ Len(text) <= BufferSize
    <3>1. text \in {OkText, ErrorText}
      BY <1>6, <1>9
    <3>2. 2 <= BufferSize /\ 3 <= BufferSize
      BY <1>4
    <3> DEFINE x == OkText
               y == ErrorText
    <3>3. x \in Seq(Chars) /\ y \in Seq(Chars) /\ Len(x) <= BufferSize /\ Len(y) <= BufferSize
      BY <2>1, <3>2
    <3> HIDE DEF x, y
    <3> QED BY <3>1, <3>3 DEF x, y
  <2> QED BY <1>6, <1>7, <1>9, <2>2 DEF text
<1>10. CASE answered.kind = "signal"
  <2>1. letter \in Seq(Chars) /\ z \in Seq(Chars)
    BY <1>2, LettersAre
  <2> DEFINE joined == letter \o z
  <2>2. /\ joined \in Seq(Chars) /\ Len(joined) = Len(letter) + Len(z)
        /\ (\A k \in 1 .. Len(letter) : joined[k] = letter[k])
        /\ (\A k \in 1 .. Len(z) : joined[Len(letter) + k] = z[k])
    BY <2>1, Joins
  <2>3. text = joined
    BY <1>6, <1>10
  <2>4. Len(letter) = 1 /\ letter[1] = SignalLetter /\ 1 \in 1 .. Len(letter)
    OBVIOUS
  <2>5. Len(z) = 2
    <3>1. Len(answered.bytes) = 1
      BY <1>3, <1>10
    <3>2. Len(z) = 2 * Len(answered.bytes)
      BY <1>2
    <3> QED BY <3>1, <3>2
  <2> HIDE DEF joined, letter
  <2>6. text \in Seq(Chars) /\ Len(text) = 3 /\ text[1] = SignalLetter /\ \A k \in 1 .. 2 : text[1 + k] = z[k]
    BY <2>2, <2>3, <2>4, <2>5
  <2>7. Len(text) <= BufferSize
    BY <1>4, <2>6
  <2> QED BY <1>7, <1>10, <2>6, <2>7 DEF text, z
<1> QED BY <1>1, <1>8, <1>9, <1>10

\* What a call makes of the answers that its request may have.
LEMMA ReadOfBytes ==
    ASSUME NEW asked \in Asked, NEW answered \in Answers, Suits(asked, answered), answered.kind = "bytes",
           NEW buffer, IsBuffer(buffer), Carries(buffer, ResponseText(answered))
    PROVE  LET parsed == Parsed(asked, buffer)
           IN  /\ parsed.thrown = "none" <=> Promise!MayReturn(asked, answered)
               /\ Promise!MayReturn(asked, answered) => parsed.value = Promise!Result(asked, answered)
<1> DEFINE bytes == answered.bytes
           text == ResponseText(answered)
           size == IF asked.op = "g" THEN 1 ELSE asked.size
<1>1. bytes \in Seq(ByteRange) /\ answered # Refusal
  BY DEF Answers, Bytes, ByteRange, Refusal, Answer
<1>2. text = HexText(bytes) /\ text \in Seq(ByteRange) /\ Len(text) = 2 * Len(bytes)
  BY ResponseParts
<1>3. asked.op \in {"g", "m"} /\ size \in Nat /\ Len(bytes) <= size
  <2>1. \/ asked.op = "g" /\ Len(bytes) = 1
        \/ asked.op = "m" /\ asked.size \in {1, 2, 4} /\ Len(bytes) \in 1 .. asked.size
    BY SuitedKinds
  <2> HIDE DEF bytes
  <2>2. CASE asked.op = "g" /\ Len(bytes) = 1
    BY <2>2
  <2>3. CASE asked.op = "m" /\ asked.size \in {1, 2, 4} /\ Len(bytes) \in 1 .. asked.size
    <3>1. size = asked.size
      BY <2>3
    <3>2. \A m, n : m \in {1, 2, 4} /\ n \in 1 .. m => m \in Nat /\ n <= m
      OBVIOUS
    <3> HIDE DEF size
    <3> QED BY <2>3, <3>1, <3>2
  <2> QED BY <2>1, <2>2, <2>3
<1>4. Parsed(asked, buffer) = ReadBytesAsHex(buffer, size)
  BY <1>3 DEF Parsed
<1>5. Promise!Result(asked, answered) = bytes
  BY <1>1 DEF Promise!Result, Promise!Refusal, Promise!Answer, Promise!NoBytes, Refusal, Answer, NoBytes
<1>6. Promise!MayReturn(asked, answered) <=> size = Len(bytes)
  <2>1. asked.op = "g" => Len(bytes) = 1
    BY SuitedKinds
  <2>2. Promise!MayReturn(asked, answered) <=> (asked.op = "m" => Len(bytes) = asked.size)
    BY <1>1 DEF Promise!MayReturn, Promise!Refusal, Promise!Answer, Promise!NoBytes, Refusal, Answer, NoBytes
  <2> QED BY <1>3, <2>1, <2>2
<1>7. BytesLeft(buffer) = 2 * Len(bytes) /\ \A k \in 1 .. 2 * Len(bytes) : buffer.chars[buffer.pos + k] = HexText(bytes)[k]
  <2>1. BytesLeft(buffer) = Len(text) /\ \A k \in 1 .. Len(text) : buffer.chars[buffer.pos + k] = text[k]
    BY <1>2, CarriedIs
  <2> QED BY <1>2, <2>1
<1> HIDE DEF bytes, text, size
<1>8. /\ size = Len(bytes) => /\ ReadBytesAsHex(buffer, size).thrown = "none"
                              /\ ReadBytesAsHex(buffer, size).value = bytes
      /\ size > Len(bytes) => ReadBytesAsHex(buffer, size).thrown # "none"
  BY <1>1, <1>3, <1>7, BytesAreRead
<1>9. size = Len(bytes) \/ size > Len(bytes)
  <2>1. Len(bytes) \in Nat
    BY <1>1
  <2> QED BY <1>3, <2>1
<1>10. size > Len(bytes) => size # Len(bytes)
  <2>1. Len(bytes) \in Nat
    BY <1>1
  <2> QED BY <1>3, <2>1
<1> QED BY <1>4, <1>5, <1>6, <1>8, <1>9, <1>10

\* A refusal is three characters, the first two of which make a byte.
LEMMA ReadOfRefusal ==
    ASSUME NEW asked \in Asked, asked.op \in {"m", "M"},
           NEW buffer, IsBuffer(buffer), Carries(buffer, ErrorText)
    PROVE  LET parsed == Parsed(asked, buffer)
           IN  /\ parsed.thrown = "none" <=> Promise!MayReturn(asked, Refusal)
               /\ Promise!MayReturn(asked, Refusal) => parsed.value = Promise!Result(asked, Refusal)
<1> DEFINE behind(n) == [buffer EXCEPT !.pos = buffer.pos + 2 * n]
<1>1. ErrorText = <<69, 48, 49>> /\ ErrorText \in Seq(ByteRange) /\ Len(ErrorText) = 3
  BY DEF ErrorText, ByteRange
<1>2. /\ buffer.pos = 0 /\ BytesLeft(buffer) = 3
      /\ buffer.chars[1] = 69 /\ buffer.chars[2] = 48 /\ buffer.chars[3] = 49
  <2>1. /\ buffer.pos = 0 /\ BytesLeft(buffer) = 3 /\ \A k \in 1 .. 3 : buffer.chars[k] = ErrorText[k]
    BY <1>1, CarriedIs
  <2>2. 1 \in 1 .. 3 /\ 2 \in 1 .. 3 /\ 3 \in 1 .. 3
    OBVIOUS
  <2> QED BY <1>1, <2>1, <2>2
<1>3. HexDigits(buffer) = 3
  <2>1. \A k \in 1 .. 3 : IsHexDigit(buffer.chars[buffer.pos + k])
    <3> TAKE k \in 1 .. 3
    <3>1. k \in {1, 2, 3} /\ buffer.pos + k = k
      BY <1>2
    <3>2. IsHexDigit(69) /\ IsHexDigit(48) /\ IsHexDigit(49)
      BY DEF IsHexDigit
    <3> QED BY <1>2, <3>1, <3>2
  <2>2. 3 \in 0 .. BytesLeft(buffer) /\ ~(3 < BytesLeft(buffer))
    BY <1>2
  <2> QED BY <2>1, <2>2, DigitsAre
<1>4. HexDigits(buffer) \div 2 = 1
  BY <1>3
<1>5. Promise!Refusal = Refusal /\ Refusal.kind = "refused"
  BY DEF Promise!Refusal, Promise!Answer, Promise!NoBytes, Refusal, Answer, NoBytes
<1>6. /\ Promise!MayReturn(asked, Refusal) <=> asked.op = "m" /\ asked.size = 1
      /\ Promise!Result(asked, Refusal) = <<224>>
  BY <1>5 DEF Promise!MayReturn, Promise!Result
<1>7. CASE asked.op = "M"
  <2>1. Parsed(asked, buffer) = VerifyOk(buffer)
    BY <1>7 DEF Parsed
  <2>2. MatchesString(buffer, OkText) = Returns(buffer, 0)
    <3>1. OkText = <<79, 75>> /\ Len(OkText) = 2 /\ OkText[1] = 79
      BY DEF OkText
    <3>2. ~(BytesLeft(buffer) < 2) /\ buffer.pos + 1 = 1 /\ 1 \in 1 .. 2 /\ buffer.chars[buffer.pos + 1] # 79
      BY <1>2
    <3> QED BY <3>1, <3>2 DEF MatchesString
  <2>3. VerifyOk(buffer).thrown # "none"
    BY <2>2 DEF VerifyOk, Returns, Throws
  <2> QED BY <1>6, <1>7, <2>1, <2>3
<1>8. CASE asked.op = "m"
  <2>1. Parsed(asked, buffer) = ReadBytesAsHex(buffer, asked.size) /\ asked.size \in {1, 2, 4}
    BY <1>8 DEF Parsed, Asked
  <2>2. CASE asked.size = 1
    <3>1. ReadBytesAsHex(buffer, 1) = Returns(behind(1), [k \in 1 .. 1 |-> ReadByteAsHex(behind(k - 1)).value])
      BY <1>4 DEF ReadBytesAsHex
    <3>2. ReadByteAsHex(behind(0)).value = 224
      <4>1. /\ 2 * 0 + 2 <= BytesLeft(buffer) /\ 0 \in Nat
            /\ buffer.pos + 2 * 0 + 1 = 1 /\ buffer.pos + 2 * 0 + 2 = 2
        BY <1>2
      <4>2. IsHexDigit(69) /\ IsHexDigit(48) /\ 16 * HexCharToNibble(69) + HexCharToNibble(48) = 224
        BY DEF IsHexDigit, HexCharToNibble
      <4>0. buffer.pos + 2 * 0 = buffer.pos
        BY <1>2
      <4>3. ReadByteAsHex(behind(0)).value = 16 * HexCharToNibble(buffer.chars[buffer.pos + 2 * 0 + 1])
                                                 + HexCharToNibble(buffer.chars[buffer.pos + 2 * 0 + 2])
        <5> DEFINE n == 0
        <5>1. /\ n \in Nat /\ 2 * n + 2 <= BytesLeft(buffer)
              /\ IsHexDigit(buffer.chars[buffer.pos + 2 * n + 1]) /\ IsHexDigit(buffer.chars[buffer.pos + 2 * n + 2])
          BY <1>2, <4>1, <4>2
        <5> HIDE DEF n
        <5>2. ReadByteAsHex(behind(n)).value = 16 * HexCharToNibble(buffer.chars[buffer.pos + 2 * n + 1])
                                                   + HexCharToNibble(buffer.chars[buffer.pos + 2 * n + 2])
          BY <5>1, ByteIsRead
        <5> HIDE DEF behind
        <5> QED BY <5>2 DEF n
      <4> HIDE DEF behind
      <4> QED BY <1>2, <4>1, <4>2, <4>3
    <3> DEFINE value == [k \in 1 .. 1 |-> ReadByteAsHex(behind(k - 1)).value]
    <3>3. value = <<224>>
      <4> DEFINE byte(k) == ReadByteAsHex(behind(k)).value
      <4>1. value = [k \in 1 .. 1 |-> byte(k - 1)]
        OBVIOUS
      <4>2. byte(0) = 224
        BY <3>2
      <4> HIDE DEF byte, value
      <4>3. \A k \in 1 .. 1 : k - 1 = 0
        OBVIOUS
      <4>4. value = [k \in 1 .. 1 |-> 224]
        BY <4>1, <4>2, <4>3
      <4> QED BY <4>4
    <3> HIDE DEF value, behind
    <3>4. ReadBytesAsHex(buffer, 1).thrown = "none" /\ ReadBytesAsHex(buffer, 1).value = <<224>>
      <4>1. ReadBytesAsHex(buffer, 1) = Returns(behind(1), value)
        BY <3>1 DEF value
      <4> QED BY <3>3, <4>1 DEF Returns
    <3> QED BY <1>6, <1>8, <2>1, <2>2, <3>4
  <2>3. CASE asked.size # 1
    <3>1. 1 < asked.size
      BY <2>1, <2>3
    <3>2. ReadBytesAsHex(buffer, asked.size) = ReadByteAsHex(behind(1))
      BY <1>4, <3>1 DEF ReadBytesAsHex
    <3>3. 2 * 1 <= BytesLeft(buffer) /\ BytesLeft(buffer) < 2 * 1 + 2 /\ 1 \in Nat
      BY <1>2
    <3>4. ReadByteAsHex(behind(1)).thrown # "none"
      BY <3>3, NoByteIsRead
    <3> QED BY <1>6, <2>1, <2>3, <3>2, <3>4
  <2> QED BY <2>2, <2>3
<1> QED BY <1>7, <1>8

\* OK is all that is expected of a write.
LEMMA ReadOfOk ==
    ASSUME NEW asked \in Asked, asked.op \in {"G", "M"},
           NEW buffer, IsBuffer(buffer), Carries(buffer, OkText)
    PROVE  Parsed(asked, buffer).thrown = "none" /\ Parsed(asked, buffer).value = NoBytes
<1>1. OkText = <<79, 75>> /\ OkText \in Seq(ByteRange) /\ Len(OkText) = 2
  BY DEF OkText, ByteRange
<1>2. buffer.pos = 0 /\ BytesLeft(buffer) = 2 /\ \A k \in 1 .. 2 : buffer.chars[buffer.pos + k] = OkText[k]
  BY <1>1, CarriedIs
<1>3. MatchesString(buffer, OkText).thrown = "none" /\ MatchesString(buffer, OkText).value = 1
  <2>1. ~(BytesLeft(buffer) < Len(OkText)) /\ BytesLeft(buffer) = Len(OkText)
    BY <1>1, <1>2
  <2>2. \A k \in 1 .. Len(OkText) : buffer.chars[buffer.pos + k] = OkText[k]
    BY <1>1, <1>2
  <2>3. MatchesString(buffer, OkText) = Returns([buffer EXCEPT !.pos = buffer.pos + Len(OkText)], 1)
    BY <2>1, <2>2 DEF MatchesString
  <2> QED BY <2>3 DEF Returns
<1>4. VerifyOk(buffer).thrown = "none" /\ VerifyOk(buffer).value = NoBytes
  BY <1>3 DEF VerifyOk, Returns, NoBytes
<1> QED BY <1>4 DEF Parsed

\* The signal behind its letter.
LEMMA ReadOfSignal ==
    ASSUME NEW asked \in Asked, asked.op = "s", NEW answered \in Answers,
           answered.kind = "signal", Len(answered.bytes) = 1,
           NEW buffer, IsBuffer(buffer), Carries(buffer, ResponseText(answered))
    PROVE  /\ Parsed(asked, buffer).thrown = "none" /\ Parsed(asked, buffer).value = answered.bytes
           /\ ~IsOutput(asked, buffer)
<1> DEFINE text == ResponseText(answered)
           bytes == answered.bytes
           b == bytes[1]
           type == ReadChar(buffer)
<1>1. bytes \in Seq(ByteRange) /\ b \in ByteRange /\ bytes = <<b>>
  <2>1. bytes \in Seq(ByteRange) /\ Len(bytes) = 1
    BY DEF Answers, Bytes, ByteRange
  <2> HIDE DEF bytes
  <2> QED BY <2>1
<1>2. /\ text \in Seq(ByteRange) /\ Len(text) = 3 /\ text[1] = SignalLetter
      /\ \A k \in 1 .. 2 : text[1 + k] = HexText(bytes)[k]
  BY ResponseParts DEF Suits
<1>3. /\ HexText(bytes)[1] = NibbleToHexChar(b \div 16) /\ HexText(bytes)[2] = NibbleToHexChar(b % 16)
  <2>1. \A k \in 1 .. Len(bytes) : /\ HexText(bytes)[2 * k - 1] = NibbleToHexChar(bytes[k] \div 16)
                                   /\ HexText(bytes)[2 * k] = NibbleToHexChar(bytes[k] % 16)
    BY <1>1, DigitsOfBytes
  <2>2. 1 \in 1 .. Len(bytes) /\ 2 * 1 - 1 = 1 /\ 2 * 1 = 2
    OBVIOUS
  <2> HIDE DEF bytes
  <2>3. /\ HexText(bytes)[2 * 1 - 1] = NibbleToHexChar(bytes[1] \div 16)
        /\ HexText(bytes)[2 * 1] = NibbleToHexChar(bytes[1] % 16)
    BY <2>1, <2>2
  <2> QED BY <2>2, <2>3
<1>4. b \div 16 \in 0 .. 15 /\ b % 16 \in 0 .. 15 /\ 16 * (b \div 16) + (b % 16) = b
  <2>1. \A a \in 0 .. 255 : a \div 16 \in 0 .. 15 /\ a % 16 \in 0 .. 15 /\ 16 * (a \div 16) + (a % 16) = a
    OBVIOUS
  <2>2. b \in 0 .. 255
    BY <1>1 DEF ByteRange
  <2> HIDE DEF b
  <2> QED BY <2>1, <2>2
<1> HIDE DEF text, bytes, b
<1>5. /\ buffer.pos = 0 /\ BytesLeft(buffer) = 3 /\ buffer.end = 3 /\ buffer.chars[1] = SignalLetter
      /\ buffer.chars[2] = NibbleToHexChar(b \div 16) /\ buffer.chars[3] = NibbleToHexChar(b % 16)
  <2>1. buffer.pos = 0 /\ BytesLeft(buffer) = 3 /\ buffer.end = 3 /\ \A k \in 1 .. 3 : buffer.chars[k] = text[k]
    <3>1. text \in Seq(ByteRange) /\ Carries(buffer, text)
      BY <1>2 DEF text
    <3>2. buffer.pos = 0 /\ buffer.end = Len(text) /\ BytesLeft(buffer) = Len(text)
          /\ \A k \in 1 .. Len(text) : buffer.chars[k] = text[k]
      BY <3>1, CarriedIs
    <3> QED BY <1>2, <3>2
  <2>2. 1 \in 1 .. 3 /\ 2 \in 1 .. 3 /\ 3 \in 1 .. 3 /\ 1 \in 1 .. 2 /\ 2 \in 1 .. 2 /\ 1 + 1 = 2 /\ 1 + 2 = 3
    OBVIOUS
  <2>3. text[2] = HexText(bytes)[1] /\ text[3] = HexText(bytes)[2]
    BY <1>2, <2>2
  <2> QED BY <1>2, <1>3, <2>1, <2>2, <2>3
<1>6. type.thrown = "none" /\ type.value = SignalLetter /\ type.buffer = From(buffer, 1)
  <2>1. ~(BytesLeft(buffer) < 1) /\ buffer.pos + 1 = 1
    BY <1>5
  <2> QED BY <1>5, <2>1 DEF ReadChar, Returns, From
<1>7. ReadByteAsHex(From(buffer, 1)).thrown = "none" /\ ReadByteAsHex(From(buffer, 1)).value = b
  <2> DEFINE part == From(buffer, 1)
  <2>1. 1 \in 0 .. buffer.end + 1 /\ 1 \in 0 .. buffer.end
    BY <1>5
  <2>2. IsBuffer(part) /\ part.pos = 1 /\ part.chars = buffer.chars /\ BytesLeft(part) = 2
    <3>1. IsBuffer(part) /\ BytesLeft(part) = buffer.end - 1
      BY <2>1, FromIs
    <3>2. part.pos = 1 /\ part.chars = buffer.chars
      BY <2>1, MovedBuffer DEF From
    <3> HIDE DEF part
    <3> QED BY <1>5, <3>1, <3>2
  <2> HIDE DEF part
  <2>3. /\ ~(BytesLeft(part) < 2) /\ part.chars[part.pos + 1] = NibbleToHexChar(b \div 16)
        /\ part.chars[part.pos + 2] = NibbleToHexChar(b % 16)
    BY <1>5, <2>2
  <2>4. /\ IsHexDigit(part.chars[part.pos + 1]) /\ IsHexDigit(part.chars[part.pos + 2])
        /\ HexCharToNibble(part.chars[part.pos + 1]) = b \div 16 /\ HexCharToNibble(part.chars[part.pos + 2]) = b % 16
    BY <1>4, <2>3, DigitOfNibble
  <2>5. /\ ReadByteAsHex(part).thrown = "none"
        /\ ReadByteAsHex(part).value = 16 * HexCharToNibble(part.chars[part.pos + 1])
                                           + HexCharToNibble(part.chars[part.pos + 2])
    BY <2>3, <2>4 DEF ReadByteAsHex, Returns
  <2> QED BY <1>4, <2>4, <2>5 DEF part
<1> HIDE DEF type
<1>8. ParseSignal(buffer).thrown = "none" /\ ParseSignal(buffer).value = <<b>>
  <2>1. ParseSignal(buffer) = Returns(ReadByteAsHex(From(buffer, 1)).buffer, <<ReadByteAsHex(From(buffer, 1)).value>>)
    BY <1>6, <1>7 DEF ParseSignal, type
  <2> QED BY <1>7, <2>1 DEF Returns
<1>9. ~IsOutput(asked, buffer)
  BY <1>6 DEF IsOutput, type, SignalLetter, OutputLetter
<1> QED BY <1>1, <1>8, <1>9 DEF Parsed, bytes

\* A call that has its response returns the result, or throws.
LEMMA ResponseIsRead ==
    ASSUME NEW asked \in Asked, NEW answered \in Answers, Suits(asked, answered),
           NEW buffer, IsBuffer(buffer), Carries(buffer, ResponseText(answered))
    PROVE  LET parsed == Parsed(asked, buffer)
           IN  /\ parsed.thrown = "none" <=> Promise!MayReturn(asked, answered)
               /\ Promise!MayReturn(asked, answered) => parsed.value = Promise!Result(asked, answered)
               /\ ~IsOutput(asked, buffer)
<1>1. answered.kind \in {"bytes", "ok", "signal", "refused"} /\ asked.op \in Operations
  BY DEF Answers, Asked
<1>2. asked.op # "s" => ~IsOutput(asked, buffer)
  BY DEF IsOutput
<1>3. /\ answered.kind = "bytes" => asked.op \in {"g", "m"}
      /\ answered.kind = "ok" => asked.op \in {"G", "M"} /\ answered = Answer("ok", NoBytes)
      /\ answered.kind = "signal" => asked.op = "s" /\ Len(answered.bytes) = 1
      /\ answered.kind = "refused" => asked.op \in {"m", "M"} /\ answered = Refusal
  BY SuitedKinds
<1>4. Promise!Refusal = Refusal /\ Refusal.kind = "refused"
  BY DEF Promise!Refusal, Promise!Answer, Promise!NoBytes, Refusal, Answer, NoBytes
<1>5. CASE answered.kind = "bytes"
  BY <1>2, <1>3, <1>5, ReadOfBytes
<1>6. CASE answered.kind = "refused"
  <2>1. ResponseText(answered) = ErrorText
    BY <1>6 DEF ResponseText
  <2> QED BY <1>2, <1>3, <1>6, <2>1, ReadOfRefusal
<1>7. CASE answered.kind = "ok"
  <2>1. ResponseText(answered) = OkText
    BY <1>7 DEF ResponseText
  <2>2. Promise!MayReturn(asked, answered) /\ Promise!Result(asked, answered) = NoBytes
    BY <1>3, <1>4, <1>7 DEF Promise!MayReturn, Promise!Result, Answer
  <2> QED BY <1>2, <1>3, <1>7, <2>1, <2>2, ReadOfOk
<1>8. CASE answered.kind = "signal"
  <2>1. Promise!MayReturn(asked, answered) /\ Promise!Result(asked, answered) = answered.bytes
    BY <1>4, <1>8 DEF Promise!MayReturn, Promise!Result
  <2> QED BY <1>3, <1>8, <2>1, ReadOfSignal
<1> QED BY <1>1, <1>5, <1>6, <1>7, <1>8

\* Output is told from a response by its letter.
LEMMA OutputIsRead ==
    ASSUME NEW asked, asked.op = "s", NEW buffer, IsBuffer(buffer), Carries(buffer, <<OutputLetter>>)
    PROVE  IsOutput(asked, buffer)
<1> DEFINE text == <<OutputLetter>>
<1>1. text \in Seq(ByteRange) /\ Len(text) = 1 /\ text[1] = OutputLetter /\ 1 \in 1 .. 1
  BY DEF OutputLetter, ByteRange
<1> HIDE DEF text
<1>2. BytesLeft(buffer) = 1 /\ \A k \in 1 .. 1 : buffer.chars[buffer.pos + k] = text[k]
  BY <1>1, CarriedIs DEF text
<1>3. ~(BytesLeft(buffer) < 1) /\ buffer.chars[buffer.pos + 1] = OutputLetter
  BY <1>1, <1>2
<1> QED BY <1>3 DEF IsOutput, ReadChar, Returns

\* The requests of the thunk are requests, and these are they.
LEMMA AskedIs ==
    /\ Asked \subseteq Requests
    /\ Simple("g") \in Asked /\ Simple("s") \in Asked
    /\ \A pc \in Bytes : Request("G", 0, 0, <<pc>>) \in Asked
    /\ \A address \in Bytes, size \in {2, 4} : ReadRequest(address, size) \in Asked
    /\ MemoryRequests \subseteq Asked
<1>1. Asked \subseteq Requests
  <2> SUFFICES ASSUME NEW asked \in Asked PROVE asked \in Requests
    OBVIOUS
  <2>1. asked.op = "G" => asked.bytes # << >>
    <3>1. Len(<< >>) = 0
      OBVIOUS
    <3> QED BY <3>1 DEF Asked
  <2>2. asked \in [op : Operations, address : UIntegers, size : UIntegers, bytes : Seq(Bytes)]
    BY DEF Asked
  <2>3. Operations \subseteq Operations \cup {"none", "malformed"}
    OBVIOUS
  <2> QED BY <2>1, <2>2, <2>3 DEF Requests
<1>2. 0 \in UIntegers /\ 1 \in UIntegers /\ 2 \in UIntegers /\ 4 \in UIntegers /\ Bytes \subseteq UIntegers
  BY PowersAre DEF UIntegers, Bytes
<1>3. NoBytes \in Seq(Bytes) /\ Len(NoBytes) = 0
  BY DEF NoBytes
<1> DEFINE All == [op : Operations, address : UIntegers, size : UIntegers, bytes : Seq(Bytes)]
<1>5. \A op \in {"g", "s"} : Simple(op) \in Asked
  <2> TAKE op \in {"g", "s"}
  <2>1. op \in Operations
    BY DEF Operations
  <2>2. Simple(op) \in All /\ Simple(op).op = op
    BY <1>2, <1>3, <2>1 DEF Simple, Request
  <2> HIDE DEF All
  <2> QED BY <2>2 DEF Asked, All
<1>6. \A pc \in Bytes : Request("G", 0, 0, <<pc>>) \in Asked
  <2> TAKE pc \in Bytes
  <2>1. <<pc>> \in Seq(Bytes) /\ Len(<<pc>>) = 1 /\ "G" \in Operations
    BY DEF Operations
  <2> DEFINE asked == Request("G", 0, 0, <<pc>>)
  <2>2. asked \in All /\ asked.op = "G" /\ asked.address = 0 /\ asked.size = 0 /\ Len(asked.bytes) = 1
    BY <1>2, <2>1 DEF Request
  <2> HIDE DEF asked
  <2>3. asked \in Asked
    BY <2>2 DEF Asked
  <2> QED BY <2>3 DEF asked
<1>7. \A address \in Bytes, size \in {2, 4} : ReadRequest(address, size) \in Asked
  <2> TAKE address \in Bytes, size \in {2, 4}
  <2> DEFINE asked == ReadRequest(address, size)
  <2>1. asked \in All /\ asked.op = "m" /\ asked.size = size /\ asked.bytes = NoBytes
    <3>1. address \in UIntegers /\ size \in UIntegers /\ "m" \in Operations
      BY <1>2 DEF Operations
    <3> QED BY <1>3, <3>1 DEF ReadRequest, Request
  <2> HIDE DEF asked
  <2>2. asked \in Asked
    BY <2>1 DEF Asked
  <2> QED BY <2>2 DEF asked
<1>8. MemoryRequests \subseteq Asked
  <2> SUFFICES ASSUME NEW asked \in MemoryRequests PROVE asked \in Asked
    OBVIOUS
  <2>1. /\ asked \in [op : {"m", "M"}, address : UIntegers, size : {1, 2, 4}, bytes : Seq(Bytes)]
        /\ Len(asked.bytes) = IF asked.op = "M" THEN asked.size ELSE 0
    BY ThunkAssumption
  <2>2. asked \in All /\ asked.op \in {"m", "M"} /\ asked.size \in {1, 2, 4}
    BY <1>2, <2>1 DEF Operations
  <2>3. asked.op = "m" => asked.bytes = NoBytes
    <3>1. \A s \in Seq(Bytes) : Len(s) = 0 => s = << >>
      OBVIOUS
    <3> QED BY <2>1, <3>1 DEF NoBytes
  <2>4. asked.op = "M" => Len(asked.bytes) = asked.size
    BY <2>1
  <2> QED BY <2>2, <2>3, <2>4 DEF Asked
<1> QED BY <1>1, <1>5, <1>6, <1>7, <1>8

\* The device answers what the request may have as an answer.
LEMMA AnswerSuits ==
    ASSUME NEW state \in States, NEW asked \in Asked
    PROVE  LET answered == AnswerTo(state, asked)
           IN  /\ answered \in Answers /\ Suits(asked, answered)
               /\ asked.op \in {"g", "m"} => After(state, asked) = state
               /\ asked.op = "G" => After(state, asked).pc = asked.bytes[1]
<1>1. asked \in Requests /\ asked.op \in Operations
  BY AskedIs DEF Asked
<1>2. AnswerTo(state, asked) \in Answers
  BY <1>1, AnswerToIs
<1>3. asked.op \in {"g", "m"} => After(state, asked) = state
  BY DEF After
<1>4. asked.op = "G" => After(state, asked).pc = asked.bytes[1]
  BY DEF After, States
<1>5. Suits(asked, AnswerTo(state, asked))
  <2>1. CASE asked.op = "g"
    <3>1. AnswerTo(state, asked) = Answer("bytes", <<state.pc>>)
      BY <2>1 DEF AnswerTo
    <3> QED BY <2>1, <3>1 DEF Suits, Answer
  <2>2. CASE asked.op = "m"
    <3> DEFINE read == Read(state, asked.address, asked.size)
    <3>1. AnswerTo(state, asked) = read
      BY <2>2 DEF AnswerTo
    <3>2. asked.address \in Int /\ asked.size \in Nat
      BY <1>1, PowersAre DEF Requests, UIntegers
    <3>3. read = Refusal \/ (read.kind = "bytes" /\ Len(read.bytes) \in 1 .. asked.size)
      BY <3>2, ReadIs
    <3> HIDE DEF read
    <3> QED BY <2>2, <3>1, <3>3 DEF Suits
  <2>3. CASE asked.op = "s"
    <3>1. AnswerTo(state, asked) = Answer("signal", <<SignalOf(state)>>)
      BY <2>3 DEF AnswerTo
    <3> QED BY <2>3, <3>1 DEF Suits, Answer
  <2>4. CASE asked.op = "G"
    <3>1. AnswerTo(state, asked) = Answer("ok", NoBytes)
      BY <2>4 DEF AnswerTo
    <3> QED BY <2>4, <3>1 DEF Suits
  <2>5. CASE asked.op = "M"
    <3>1. AnswerTo(state, asked) \in {Answer("ok", NoBytes), Refusal}
      BY <2>5 DEF AnswerTo
    <3> QED BY <2>5, <3>1 DEF Suits
  <2> QED BY <1>1, <2>1, <2>2, <2>3, <2>4, <2>5 DEF Operations
<1> QED BY <1>2, <1>3, <1>4, <1>5

\* What changes on one side leaves the other side alone.
LEMMA SidesApart ==
    ASSUME NEW S, NEW f \in [Sides -> S], NEW x
    PROVE  /\ [f EXCEPT !["client"] = x]["client"] = x /\ [f EXCEPT !["client"] = x]["device"] = f["device"]
           /\ [f EXCEPT !["device"] = x]["device"] = x /\ [f EXCEPT !["device"] = x]["client"] = f["client"]
           /\ Other("client") = "device" /\ Other("device") = "client"
BY DEF Sides, Other

\* The first character of a packet, and what is behind it.
LEMMA FramedHead ==
    ASSUME NEW text \in Seq(ByteRange)
    PROVE  /\ Framed(text) \in Seq(ByteRange) /\ Framed(text) # << >> /\ Head(Framed(text)) = Dollar
           /\ Tail(Framed(text)) = Unread(text, 1)
           /\ << >> \o Framed(text) = Framed(text) /\ <<Plus>> \o Framed(text) # << >>
<1>1. Len(text) \in Nat
  OBVIOUS
<1>2. 0 \in 0 .. Len(text) + 4 /\ 0 < Len(text) + 4 /\ 0 # Len(text) + 4 /\ 0 + 1 = 1
  BY <1>1
<1>3. /\ Unread(text, 0) \in Seq(ByteRange) /\ Unread(text, 0) = Framed(text)
      /\ Unread(text, 0) # << >> /\ Head(Unread(text, 0)) = Framed(text)[0 + 1]
      /\ Tail(Unread(text, 0)) = Unread(text, 0 + 1)
  BY <1>2, UnreadIs
<1>4. Framed(text)[1] = Dollar
  BY FramedParts
<1>5. << >> \o Framed(text) = Framed(text) /\ <<Plus>> \o Framed(text) # << >>
  BY <1>3, PlusFirst
<1> QED BY <1>2, <1>3, <1>4, <1>5

\* A side that holds the first character of a packet.
LEMMA BeginsToHold ==
    ASSUME NEW text \in Seq(ByteRange), NEW held, held.at = "data",
           held.buffer.end = BufferSize, held.buffer.pos = 0, held.sum = 0
    PROVE  Holds(held, text, 1)
<1>1. Len(text) \in Nat /\ 1 \in 1 .. Len(text) + 1 /\ 1 - 1 = 0
  OBVIOUS
<1>2. Begins(held.buffer, text, 0)
  BY DEF Begins
<1>3. SumOf(text)[0] = 0
  BY SumOfIs
<1> QED BY <1>1, <1>2, <1>3 DEF Holds

\* The texts of a call under way have room in the buffers.
LEMMA TextsFit ==
    ASSUME AnswerInv, stage = "open"
    PROVE  /\ request \in Asked
           /\ RequestText(request) \in Seq(Chars) /\ RequestText(request) \in Seq(ByteRange)
           /\ Len(RequestText(request)) <= BufferSize
           /\ <<OutputLetter>> \in Seq(Chars) /\ <<OutputLetter>> \in Seq(ByteRange)
           /\ Len(<<OutputLetter>>) <= BufferSize
           /\ times = 1 => /\ answer \in Answers /\ Suits(request, answer)
                           /\ Response \in Seq(Chars) /\ Response \in Seq(ByteRange) /\ Len(Response) <= BufferSize
<1>1. request \in Asked /\ Fits(request)
  BY DEF AnswerInv
<1>2. ASSUME NEW text \in Seq(Chars) PROVE text \in Seq(ByteRange)
  BY DEF Chars
<1>3. RequestText(request) \in Seq(Chars) /\ Len(RequestText(request)) <= BufferSize
  BY <1>1, RequestParts DEF Fits
<1>4. <<OutputLetter>> \in Seq(Chars) /\ Len(<<OutputLetter>>) <= BufferSize
  <2>1. 1 <= BufferSize
    BY BufferAssumption
  <2> QED BY <2>1, LettersAre
<1>5. ASSUME times = 1
      PROVE  /\ answer \in Answers /\ Suits(request, answer)
             /\ Response \in Seq(Chars) /\ Response \in Seq(ByteRange) /\ Len(Response) <= BufferSize
  <2>1. answer \in Answers /\ Suits(request, answer)
    <3>1. request # NoRequest
      BY DEF AnswerInv
    <3> QED BY <1>5, <3>1 DEF AnswerInv
  <2> QED BY <1>1, <2>1, ResponseParts DEF Response
<1> DEFINE text == RequestText(request)
           output == <<OutputLetter>>
<1>6. text \in Seq(ByteRange) /\ output \in Seq(ByteRange)
  <2>1. text \in Seq(Chars) /\ output \in Seq(Chars)
    BY <1>3, <1>4
  <2> HIDE DEF text, output
  <2> QED BY <1>2, <2>1
<1> QED BY <1>1, <1>3, <1>4, <1>5, <1>6

\* Between calls nothing is under way.
LEMMA ClosedBetween == Phase /\ stage # "open" => Closed
BY DEF Phase, Asks, Hears, Serves, Tells, Told

\* A call that begins asks.
LEMMA BeginCallPhase ==
    ASSUME LineInv, Closed, faults' = 0, NEW asked, RequestText(asked) \in Seq(ByteRange), BeginCall(asked)
    PROVE  Asks' /\ request' = asked /\ stage' = "open" /\ times' = 0
<1> DEFINE text == RequestText(asked)
           before == wire["device"]
           h == InitPacket(SetEndOfBuffer(WriteSizedString(BufferInit(Blank), text).buffer), "ack")
<1>1. /\ request' = asked /\ stage' = "open" /\ times' = 0 /\ replies' = replies
      /\ Transmit(wire, Other("client"), Framed(text)) /\ packet' = [packet EXCEPT !["client"] = h]
  BY DEF BeginCall, PacketSend
<1>2. h.at = "ack"
  BY DEF InitPacket
<1> HIDE DEF h
<1>3. /\ wire \in [Sides -> Seq(ByteRange)] /\ packet \in [Sides -> Held] /\ faults \in 0 .. MaxFaults
  BY DEF LineInv
<1>4. packet'["client"] = h /\ packet'["device"] = packet["device"]
  BY <1>1, <1>3, SidesApart
<1>5. wire' = [wire EXCEPT !["device"] = @ \o Framed(text)]
  <2>1. Other("client") = "device"
    BY DEF Other
  <2> QED BY <1>1, <1>3, <2>1, QuietTransmit
<1>6. wire'["device"] = before \o Framed(text) /\ wire'["client"] = wire["client"]
  BY <1>3, <1>5, SidesApart
<1>7. replies = << >> /\ wire["client"] = << >> /\ Waits(packet["device"], before) /\ before \in {<< >>, <<Plus>>}
  BY DEF Closed, Rests, Monitor, Waits
<1>8. Waits(packet'["device"], before)
  BY <1>4, <1>7
<1> HIDE DEF before, text
<1>9. \E b \in {<< >>, <<Plus>>} : wire'["device"] = b \o Framed(text) /\ Waits(packet'["device"], b)
  BY <1>6, <1>7, <1>8
<1>10. RequestText(request') = text
  BY <1>1 DEF text
<1>11. Asks'
  BY <1>1, <1>2, <1>4, <1>6, <1>7, <1>9, <1>10 DEF Asks, Client, Monitor
<1> QED BY <1>1, <1>11

\* A request that has no room ends its call.
LEMMA TooLongPhase ==
    ASSUME LineInv, Closed, NEW asked, CallTooLong(asked)
    PROVE  Closed' /\ request' = asked /\ stage' = "failed" /\ times' = 0 /\ ~Fits(asked)
<1>1. /\ request' = asked /\ stage' = "failed" /\ times' = 0 /\ ~Fits(asked)
      /\ wire' = wire /\ replies' = replies /\ packet' = [packet EXCEPT !["client"].at = "failed"]
  BY DEF CallTooLong
<1>2. packet \in [Sides -> Held]
  BY DEF LineInv
<1>3. packet'["client"].at = "failed" /\ packet'["device"] = packet["device"]
  <2> DEFINE h == [packet["client"] EXCEPT !.at = "failed"]
  <2>1. packet' = [packet EXCEPT !["client"] = h]
    BY <1>1, <1>2
  <2>2. h.at = "failed"
    BY <1>2 DEF Sides, Held
  <2> HIDE DEF h
  <2> QED BY <1>2, <2>1, <2>2, SidesApart
<1>4. Rests'
  BY <1>1, <1>3 DEF Closed, Rests, Monitor
<1> QED BY <1>1, <1>3, <1>4 DEF Closed, Client

\* The client goes on to the next packet.
LEMMA NextPacket ==
    ASSUME LineInv, NEW side \in Sides, packet' = [packet EXCEPT ![side] = PacketGet]
    PROVE  Waits(packet'[side], << >>)
<1>1. packet'[side] = PacketGet
  BY DEF LineInv
<1>2. PacketGet.at = "start" /\ PacketGet.buffer.end = BufferSize
  BY BufferAssumption DEF PacketGet, InitPacket, BufferInit, Blank
<1> QED BY <1>1, <1>2 DEF Waits

\* A side that reads a packet has more of it to come, or has read all of it.
LEMMA ComesShows ==
    ASSUME NEW side, NEW text \in Seq(ByteRange), Comes(side, text)
    PROVE  /\ packet[side].at \in {"data", "high", "low", "poll"}
           /\ wire[side] # << >> \/ packet[side].at = "poll"
<1>1. Len(text) \in Nat
  OBVIOUS
<1>2. PICK k \in 1 .. Len(text) + 4 : wire[side] = Unread(text, k) /\ Holds(packet[side], text, k)
  BY DEF Comes
<1>3. CASE k < Len(text) + 4
  <2>1. k \in 0 .. Len(text) + 4
    BY <1>1
  <2>2. Unread(text, k) # << >>
    BY <1>3, <2>1, UnreadIs
  <2>3. k \in 1 .. Len(text) + 1 \/ k = Len(text) + 2 \/ k = Len(text) + 3
    BY <1>1, <1>3
  <2>4. packet[side].at \in {"data", "high", "low"}
    BY <1>1, <1>2, <2>3 DEF Holds
  <2> QED BY <1>2, <2>2, <2>4
<1>4. CASE k = Len(text) + 4
  <2>1. k \notin 1 .. Len(text) + 1
    BY <1>1, <1>4
  <2> QED BY <1>2, <1>4, <2>1 DEF Holds
<1> QED BY <1>1, <1>3, <1>4

\* Over a line without faults, what is waited for comes in time.
LEMMA NoTimeOut ==
    ASSUME LineInv, Phase, AnswerInv, faults' = 0, NothingCame
    PROVE  FALSE
<1>1. wire["client"] = << >> /\ Client.at \in Waiting
  BY DEF NothingCame, Client
<1>2. wire["device"] = << >> /\ Monitor.at \notin {"poll", "sent", "received"}
  <2>1. ASSUME Busy PROVE FALSE
    <3>1. faults' = faults + 1 /\ faults \in Nat
      BY <2>1, BufferAssumption DEF NothingCame, LineInv
    <3> QED BY <3>1
  <2> QED BY <2>1 DEF Busy, Monitor
<1>3. Client.at \in {"ack", "start", "data", "high", "low"}
  BY <1>1 DEF Waiting
<1>4. CASE Closed
  BY <1>3, <1>4 DEF Closed
<1>5. CASE Asks
  <2>1. RequestText(request) \in Seq(ByteRange)
    BY <1>5, TextsFit DEF Asks
  <2>2. ~Comes("device", RequestText(request))
    BY <1>2, <2>1, ComesShows DEF Monitor
  <2>3. << >> \o Framed(RequestText(request)) # << >> /\ <<Plus>> \o Framed(RequestText(request)) # << >>
    BY <2>1, FramedHead
  <2> QED BY <1>2, <1>5, <2>2, <2>3 DEF Asks
<1>6. CASE Hears
  BY <1>2, <1>6 DEF Hears
<1>7. CASE Serves
  BY <1>2, <1>7 DEF Serves
<1>8. CASE Tells
  <2>1. Response \in Seq(ByteRange) /\ <<OutputLetter>> \in Seq(ByteRange)
    BY <1>8, TextsFit DEF Tells
  <2>2. PICK text \in {Response, <<OutputLetter>>} :
           \/ \E before \in {<< >>, <<Plus>>} : wire["client"] = before \o Framed(text) /\ ClientWaits(before)
           \/ Comes("client", text)
    BY <1>8 DEF Tells
  <2>3. text \in Seq(ByteRange)
    BY <2>1, <2>2
  <2>4. ~Comes("client", text)
    BY <1>1, <1>3, <2>3, ComesShows DEF Client
  <2>5. << >> \o Framed(text) # << >> /\ <<Plus>> \o Framed(text) # << >>
    BY <2>3, FramedHead
  <2> QED BY <1>1, <2>2, <2>4, <2>5
<1>9. CASE Told
  BY <1>3, <1>9 DEF Told
<1> QED BY <1>4, <1>5, <1>6, <1>7, <1>8, <1>9 DEF Phase

\* What the client has been told is the response, and no output.
LEMMA ToldIsNoOutput ==
    ASSUME LineInv, AnswerInv, Told
    PROVE  /\ request \in Asked /\ IsBuffer(Client.buffer) /\ ~IsOutput(request, Client.buffer)
           /\ Parsed(request, Client.buffer).thrown = "none" <=> Promise!MayReturn(request, answer)
           /\ Promise!MayReturn(request, answer) =>
                  Parsed(request, Client.buffer).value = Promise!Result(request, answer)
<1>1. IsBuffer(Client.buffer)
  <2>1. packet["client"] \in Held
    BY DEF LineInv, Sides
  <2> QED BY <2>1, HeldIs DEF Client
<1>2. stage = "open" /\ times = 1 /\ Carries(Client.buffer, ResponseText(answer))
  BY DEF Told, Response
<1>3. request \in Asked /\ answer \in Answers /\ Suits(request, answer)
  BY <1>2, TextsFit
<1> HIDE DEF Promise!MayReturn, Promise!Result
<1> QED BY <1>1, <1>2, <1>3, ResponseIsRead

\* What a received packet of the client is.
LEMMA ReceivedIs ==
    ASSUME LineInv, Phase, AnswerInv, Client.at = "received"
    PROVE  /\ stage = "open" /\ request \in Asked /\ IsBuffer(Client.buffer)
           /\ \/ /\ Told /\ ~IsOutput(request, Client.buffer)
                 /\ Parsed(request, Client.buffer).thrown = "none" <=> Promise!MayReturn(request, answer)
                 /\ Promise!MayReturn(request, answer) =>
                        Parsed(request, Client.buffer).value = Promise!Result(request, answer)
              \/ IsOutput(request, Client.buffer) /\ HasOutput
<1>1. IsBuffer(Client.buffer)
  <2>1. packet["client"] \in Held
    BY DEF LineInv, Sides
  <2> QED BY <2>1, HeldIs DEF Client
<1>2. CASE HasOutput
  <2>1. IsOutput(request, Client.buffer)
    BY <1>1, <1>2, OutputIsRead DEF HasOutput
  <2>2. stage = "open"
    BY <1>2 DEF Phase, Closed, Asks, Hears, Serves, Tells, Told, HasOutput
  <2> QED BY <1>1, <1>2, <2>1, <2>2, TextsFit
<1>3. CASE ~HasOutput
  <2>1. \A before : ~ClientWaits(before)
    BY <1>3 DEF ClientWaits, Waits
  <2>2. ~Tells
    <3>1. ASSUME Tells PROVE FALSE
      <4>1. Response \in Seq(ByteRange) /\ <<OutputLetter>> \in Seq(ByteRange)
        BY <3>1, TextsFit DEF Tells
      <4>2. PICK text \in {Response, <<OutputLetter>>} : Comes("client", text)
        BY <2>1, <3>1 DEF Tells
      <4>3. text \in Seq(ByteRange)
        BY <4>1, <4>2
      <4> QED BY <4>2, <4>3, ComesShows DEF Client
    <3> QED BY <3>1
  <2>3. Told
    BY <2>1, <2>2 DEF Phase, Closed, Asks, Hears, Serves
  <2>4. stage = "open"
    BY <2>3 DEF Told
  <2> QED BY <1>1, <2>3, <2>4, ToldIsNoOutput
<1> QED BY <1>2, <1>3

\* A client that goes on to wait for the next packet is in the same phase.
LEMMA WaitsOn ==
    ASSUME LineInv, Phase, AnswerInv, Client.at = "sent" \/ HasOutput,
           packet' = [packet EXCEPT !["client"] = PacketGet], UNCHANGED <<wire, monitor, caller>>
    PROVE  Phase'
<1>1. /\ wire' = wire /\ device' = device /\ replies' = replies /\ times' = times /\ answer' = answer
      /\ request' = request /\ stage' = stage /\ result' = result
  BY DEF monitor, caller
<1>2. Waits(packet'["client"], << >>) /\ packet'["device"] = packet["device"]
  <2>1. packet \in [Sides -> Held] /\ "client" \in Sides
    BY DEF LineInv, Sides
  <2> QED BY <2>1, NextPacket, SidesApart
<1>3. ClientWaits(<< >>)'
  BY <1>2 DEF ClientWaits, Client
<1>4. \A before : ClientWaits(before) => before = << >>
  BY DEF ClientWaits, Waits, HasOutput
<1>5. Client.at \in {"sent", "received"} /\ (Client.at = "received" => HasOutput)
  BY DEF HasOutput
<1>6. Response' = Response
  BY <1>1 DEF Response
<1>7. CASE Hears
  BY <1>1, <1>2, <1>3, <1>4, <1>7 DEF Hears, Phase, Monitor
<1>8. CASE Serves
  <2>1. wire["client"] = << >> /\ wire'["client"] = << >>
    BY <1>1, <1>4, <1>8 DEF Serves
  <2>2. ClientWaits(wire["client"])'
    BY <1>2, <2>1 DEF ClientWaits, Client
  <2>3. Serves'
    BY <1>1, <1>2, <1>6, <1>8, <2>2 DEF Serves, Monitor
  <2> QED BY <2>3 DEF Phase
<1>9. CASE Tells
  <2>1. Response \in Seq(ByteRange) /\ <<OutputLetter>> \in Seq(ByteRange)
    BY <1>9, TextsFit DEF Tells
  <2>2. PICK text \in {Response, <<OutputLetter>>} :
           /\ Sent(text)
           /\ \/ \E before \in {<< >>, <<Plus>>} : wire["client"] = before \o Framed(text) /\ ClientWaits(before)
              \/ Comes("client", text)
    BY <1>9 DEF Tells
  <2>3. text \in Seq(ByteRange)
    BY <2>1, <2>2
  <2>4. ~Comes("client", text)
    BY <1>5, <2>3, ComesShows DEF Client
  <2>5. wire["client"] = << >> \o Framed(text)
    BY <1>4, <2>2, <2>4
  <2>6. Sent(text)' /\ text \in {Response', <<OutputLetter>>}
    BY <1>1, <1>6, <2>2 DEF Sent
  <2>7. wire'["client"] = << >> \o Framed(text)
    BY <1>1, <2>5
  <2>8. \E before \in {<< >>, <<Plus>>} : (wire["client"])' = before \o Framed(text) /\ ClientWaits(before)'
    BY <1>3, <2>7
  <2>9. Tells'
    <3>1. stage' = "open" /\ times' = 1 /\ wire'["device"] = << >> /\ packet'["device"].at = "ack"
      BY <1>1, <1>2, <1>9 DEF Tells, Monitor
    <3> QED BY <2>6, <2>8, <3>1 DEF Tells, Monitor
  <2> QED BY <2>9 DEF Phase
<1>10. CASE Closed \/ Asks \/ Told
  <2>1. Told /\ HasOutput
    BY <1>5, <1>10 DEF Closed, Asks, Told
  <2>2. FALSE
    <3>1. Carries(Client.buffer, <<OutputLetter>>) /\ Carries(Client.buffer, ResponseText(answer)) /\ request.op = "s"
      BY <2>1 DEF Told, HasOutput, Response
    <3>2. ~IsOutput(request, Client.buffer)
      BY <2>1, ReceivedIs, ToldIsNoOutput
    <3>3. IsBuffer(Client.buffer)
      BY <2>1, ReceivedIs DEF Told
    <3> QED BY <3>1, <3>2, <3>3, OutputIsRead
  <2> QED BY <2>2
<1> QED BY <1>7, <1>8, <1>9, <1>10 DEF Phase

\* A call that ends leaves nothing behind.
LEMMA EndsPhase ==
    ASSUME LineInv, Told, NEW h, packet' = [packet EXCEPT !["client"] = h],
           (h.at = "idle" /\ stage' = "returned") \/ (h.at = "failed" /\ stage' = "failed"),
           wire' = wire, replies' = replies
    PROVE  Closed'
<1>1. packet'["client"] = h /\ packet'["device"] = packet["device"]
  BY SidesApart DEF LineInv
<1>2. Rests'
  BY <1>1 DEF Told, Rests, Monitor
<1> QED BY <1>1, <1>2 DEF Told, Closed, Client

\* The steps of a call keep the phases, and end it with what was promised.
LEMMA CallerPhase ==
    ASSUME LineInv, Phase, AnswerInv, faults' = 0, CallerStep
    PROVE  /\ Phase' /\ AnswerInv' /\ Client.at # "failed" /\ UNCHANGED <<monitor, request>>
           /\ \/ UNCHANGED <<stage, result>>
              \/ /\ stage = "open" /\ times = 1 /\ stage' = "returned"
                 /\ Promise!MayReturn(request, answer) /\ result' = Promise!Result(request, answer)
              \/ /\ stage = "open" /\ stage' = "failed" /\ result' = result
<1>1. CASE AwaitResponse
  <2>1. Client.at = "sent" /\ packet' = [packet EXCEPT !["client"] = PacketGet] /\ UNCHANGED <<wire, monitor, caller>>
    BY <1>1 DEF AwaitResponse
  <2>2. Phase'
    BY <2>1, WaitsOn
  <2>3. UNCHANGED <<monitor, request, stage, result>>
    BY <2>1 DEF caller
  <2>4. AnswerInv'
    BY <2>3 DEF AnswerInv, monitor, Fits
  <2> QED BY <2>1, <2>2, <2>3, <2>4
<1>2. CASE SkipOutput
  <2>1. /\ Client.at = "received" /\ IsOutput(request, Client.buffer)
        /\ packet' = [packet EXCEPT !["client"] = PacketGet] /\ UNCHANGED <<wire, monitor, caller>>
    BY <1>2 DEF SkipOutput
  <2>2. Phase'
    BY <2>1, ReceivedIs, WaitsOn
  <2>3. UNCHANGED <<monitor, request, stage, result>>
    BY <2>1 DEF caller
  <2>4. AnswerInv'
    BY <2>3 DEF AnswerInv, monitor, Fits
  <2> QED BY <2>1, <2>2, <2>3, <2>4
<1>3. CASE CallReturns \/ CallThrows
  <2> DEFINE parsed == Parsed(request, Client.buffer)
             h(place) == [packet["client"] EXCEPT !.at = place, !.buffer = parsed.buffer]
  <2>1. /\ Client.at = "received" /\ ~IsOutput(request, Client.buffer)
        /\ UNCHANGED <<wire, monitor, request>>
        /\ \/ parsed.thrown = "none" /\ stage' = "returned" /\ result' = parsed.value
           \/ parsed.thrown # "none" /\ stage' = "failed" /\ result' = result
    BY <1>3 DEF CallReturns, CallThrows
  <2>2. /\ stage' = "returned" => packet' = [packet EXCEPT !["client"] = h("idle")]
        /\ stage' = "failed" => packet' = [packet EXCEPT !["client"] = h("failed")]
    BY <1>3 DEF CallReturns, CallThrows, LineInv
  <2>3. /\ Told /\ stage = "open" /\ times = 1
        /\ parsed.thrown = "none" <=> Promise!MayReturn(request, answer)
        /\ Promise!MayReturn(request, answer) => parsed.value = Promise!Result(request, answer)
    BY <2>1, ReceivedIs DEF Told
  <2> HIDE DEF parsed, Promise!MayReturn, Promise!Result
  <2>4. h("idle").at = "idle" /\ h("failed").at = "failed"
    BY DEF LineInv, Sides, Held
  <2>5. Closed'
    <3>1. replies' = replies
      BY <2>1 DEF monitor
    <3> HIDE DEF h
    <3> QED BY <2>1, <2>2, <2>3, <2>4, <3>1, EndsPhase
  <2>6. \/ /\ stage' = "returned" /\ Promise!MayReturn(request, answer) /\ result' = Promise!Result(request, answer)
        \/ /\ stage' = "failed" /\ ~Promise!MayReturn(request, answer) /\ result' = result
    BY <2>1, <2>3
  <2>7. AnswerInv'
    <3>1. request' = request /\ times' = times /\ answer' = answer /\ device' = device
      BY <2>1 DEF monitor
    <3>2. Promise!MayReturn(request', answer') <=> Promise!MayReturn(request, answer)
      BY <3>1
    <3>3. Promise!Result(request', answer') = Promise!Result(request, answer)
      BY <3>1
    <3> QED BY <2>3, <2>6, <3>1, <3>2, <3>3 DEF AnswerInv
  <2> QED BY <2>1, <2>3, <2>5, <2>6, <2>7 DEF Phase
<1>4. CASE CallTimesOut \/ ChecksumTimesOut
  <2>1. NothingCame
    BY <1>4 DEF CallTimesOut, ChecksumTimesOut, TimedOut, TimedOutInChecksum
  <2> QED BY <2>1, NoTimeOut
<1> QED BY <1>1, <1>2, <1>3, <1>4 DEF CallerStep

\* Who reads a character waits for one.
LEMMA ReceiveNeeds ==
    ASSUME NEW side, ReceiveChar(side) \/ JudgePacket(side)
    PROVE  /\ packet[side].at \in Waiting \cup {"poll"}
           /\ packet[side].at = "poll" \/ wire[side] # << >>
BY DEF ReceiveChar, JudgePacket, ReadAcknowledge, SendAgain, ReadStart, ReadData, ReadDataEnd,
       ReadChecksumHigh, ReadChecksumLow, PassOver, Acknowledge, Refuse, Reads, Waiting

\* A packet that is behind an acknowledgement, or comes, does so still when a
\* character is read; or it has been received.
LEMMA PacketComes ==
    ASSUME LineInv, faults' = 0, NEW side \in Sides, NEW text \in Seq(Chars), text \in Seq(ByteRange),
           Len(text) <= BufferSize, ReceiveChar(side) \/ JudgePacket(side),
           \/ \E before \in {<< >>, <<Plus>>} : wire[side] = before \o Framed(text) /\ Waits(packet[side], before)
           \/ Comes(side, text)
    PROVE  \E held \in Held :
               /\ packet' = [packet EXCEPT ![side] = held]
               /\ \/ /\ wire' = [wire EXCEPT ![side] = << >> \o Framed(text)] /\ Waits(held, << >>)
                  \/ \E k \in 1 .. Len(text) + 4 :
                         wire' = [wire EXCEPT ![side] = Unread(text, k)] /\ Holds(held, text, k)
                  \/ /\ wire[side] = << >> /\ wire' = [wire EXCEPT ![Other(side)] = @ \o <<Plus>>]
                     /\ held.at = "received" /\ Carries(held.buffer, text)
<1>1. CASE \E before \in {<< >>, <<Plus>>} : wire[side] = before \o Framed(text) /\ Waits(packet[side], before)
  <2> DEFINE framed == Framed(text)
  <2>1. PICK before \in {<< >>, <<Plus>>} : wire[side] = before \o framed /\ Waits(packet[side], before)
    BY <1>1
  <2>2. /\ framed \in Seq(ByteRange) /\ framed # << >> /\ Head(framed) = Dollar
        /\ Tail(framed) = Unread(text, 1) /\ << >> \o framed = framed
    BY FramedHead
  <2> HIDE DEF framed
  <2>3. PICK held \in Held :
           /\ wire' = [wire EXCEPT ![side] = Tail(wire[side])] /\ packet' = [packet EXCEPT ![side] = held]
           /\ \/ before = <<Plus>> /\ Tail(wire[side]) = framed /\ Waits(held, << >>)
              \/ /\ before = << >> /\ held.at = "data"
                 /\ held.buffer.end = BufferSize /\ held.buffer.pos = 0 /\ held.sum = 0
    BY <2>1, <2>2, WaitsReceives
  <2>4. CASE before = <<Plus>>
    <3>1. before # << >>
      BY <2>4
    <3>2. wire' = [wire EXCEPT ![side] = << >> \o framed] /\ Waits(held, << >>)
      BY <2>2, <2>3, <3>1
    <3> QED BY <2>3, <3>2 DEF framed
  <2>5. CASE before = << >>
    <3>1. before # <<Plus>>
      BY <2>5
    <3>2. Tail(wire[side]) = Unread(text, 1)
      BY <2>1, <2>2, <2>5
    <3>3. Holds(held, text, 1)
      BY <2>3, <3>1, BeginsToHold
    <3>4. 1 \in 1 .. Len(text) + 4
      OBVIOUS
    <3> QED BY <2>3, <3>2, <3>3, <3>4
  <2> QED BY <2>1, <2>4, <2>5
<1>2. CASE Comes(side, text)
  BY <1>2, ComesReceives
<1> QED BY <1>1, <1>2

\* An acknowledgement that is read by a side that has no packet to come.
LEMMA AcknowledgementReceives ==
    ASSUME LineInv, NEW side \in Sides, ReceiveChar(side) \/ JudgePacket(side),
           Waits(packet[side], wire[side])
    PROVE  \E held \in Held :
               /\ wire[side] = <<Plus>> /\ wire' = [wire EXCEPT ![side] = << >>] /\ faults' = faults
               /\ packet' = [packet EXCEPT ![side] = held] /\ Waits(held, << >>)
               /\ packet[side].at = "ack" => held.at = "sent"
<1> DEFINE before == wire[side]
<1>1. before \in {<< >>, <<Plus>>} /\ before \in Seq(ByteRange)
  BY DEF Waits, LineInv
<1>2. << >> \in Seq(ByteRange) /\ before \o << >> = before
  BY <1>1, ConcatEmptySeq
<1> HIDE DEF before
<1>3. PICK held \in Held :
         /\ wire' = [wire EXCEPT ![side] = Tail(wire[side])] /\ faults' = faults
         /\ packet' = [packet EXCEPT ![side] = held]
         /\ before = <<Plus>> /\ Tail(wire[side]) = << >> /\ Waits(held, << >>)
         /\ packet[side].at = "ack" => held.at = "sent"
  <2> DEFINE rest == << >>
  <2>1. wire[side] = before \o rest /\ Waits(packet[side], before) /\ rest \in Seq(ByteRange) /\ rest = << >>
    BY <1>2 DEF before
  <2> HIDE DEF rest
  <2> QED BY <1>1, <2>1, WaitsReceives
<1> QED BY <1>3 DEF before

\* What the client reads keeps the phases.
LEMMA ClientReceivesPhase ==
    ASSUME LineInv, Phase, AnswerInv, faults' = 0, Receive("client")
    PROVE  Phase' /\ Client.at # "failed"
<1>1. /\ device' = device /\ replies' = replies /\ times' = times /\ answer' = answer
      /\ request' = request /\ stage' = stage /\ result' = result
      /\ ReceiveChar("client") \/ JudgePacket("client")
  BY DEF Receive, monitor, caller
<1>2. Response' = Response
  BY <1>1 DEF Response
<1>3. Client.at \in Waiting \cup {"poll"} /\ (Client.at = "poll" \/ wire["client"] # << >>)
  BY <1>1, ReceiveNeeds DEF Client
<1>4. /\ Client.at \notin {"idle", "failed", "received"} /\ ~HasOutput
      /\ Client.at = "ack" => wire["client"] # << >>
  BY <1>3 DEF Waiting, HasOutput
<1> SUFFICES Phase'
  BY <1>4
<1>5. "client" \in Sides /\ wire \in [Sides -> Seq(ByteRange)] /\ packet \in [Sides -> Held]
  BY DEF LineInv, Sides
<1>6. \A before : ClientWaits(before) => Waits(packet["client"], before)
  BY <1>4 DEF ClientWaits, Client
<1>7. CASE Closed \/ Asks \/ Told
  BY <1>4, <1>7 DEF Closed, Asks, Told
<1>8. CASE Hears \/ Serves
  <2>1. Waits(packet["client"], wire["client"])
    BY <1>6, <1>8 DEF Hears, Serves
  <2>2. PICK held \in Held :
           /\ wire' = [wire EXCEPT !["client"] = << >>] /\ packet' = [packet EXCEPT !["client"] = held]
           /\ Waits(held, << >>)
    BY <1>1, <1>5, <2>1, AcknowledgementReceives
  <2>3. /\ wire'["client"] = << >> /\ wire'["device"] = wire["device"]
        /\ packet'["client"] = held /\ packet'["device"] = packet["device"]
    BY <1>5, <2>2, SidesApart
  <2>4. ClientWaits(wire["client"])'
    BY <2>2, <2>3 DEF ClientWaits, Client
  <2>5. Hears => Hears'
    BY <1>1, <2>3, <2>4 DEF Hears, Monitor
  <2>6. Serves => Serves'
    BY <1>1, <1>2, <2>3, <2>4 DEF Serves, Monitor
  <2> QED BY <1>8, <2>5, <2>6 DEF Phase
<1>9. CASE Tells
  <2>1. /\ stage = "open" /\ times = 1 /\ wire["device"] = << >> /\ packet["device"].at = "ack"
    BY <1>9 DEF Tells, Monitor
  <2>2. /\ Response \in Seq(Chars) /\ Response \in Seq(ByteRange) /\ Len(Response) <= BufferSize
        /\ <<OutputLetter>> \in Seq(Chars) /\ <<OutputLetter>> \in Seq(ByteRange)
        /\ Len(<<OutputLetter>>) <= BufferSize
    BY <2>1, TextsFit
  <2>3. PICK text \in {Response, <<OutputLetter>>} :
           /\ Sent(text)
           /\ \/ \E before \in {<< >>, <<Plus>>} : wire["client"] = before \o Framed(text) /\ ClientWaits(before)
              \/ Comes("client", text)
    BY <1>9 DEF Tells
  <2>4. text \in Seq(Chars) /\ text \in Seq(ByteRange) /\ Len(text) <= BufferSize
    BY <2>2, <2>3
  <2>5. \/ \E before \in {<< >>, <<Plus>>} : wire["client"] = before \o Framed(text) /\ Waits(packet["client"], before)
        \/ Comes("client", text)
    BY <1>6, <2>3
  <2>6. PICK held \in Held :
           /\ packet' = [packet EXCEPT !["client"] = held]
           /\ \/ /\ wire' = [wire EXCEPT !["client"] = << >> \o Framed(text)] /\ Waits(held, << >>)
              \/ \E k \in 1 .. Len(text) + 4 :
                     wire' = [wire EXCEPT !["client"] = Unread(text, k)] /\ Holds(held, text, k)
              \/ /\ wire["client"] = << >> /\ wire' = [wire EXCEPT ![Other("client")] = @ \o <<Plus>>]
                 /\ held.at = "received" /\ Carries(held.buffer, text)
    BY <1>1, <1>5, <2>4, <2>5, PacketComes
  <2>7. packet'["client"] = held /\ packet'["device"] = packet["device"]
    BY <1>5, <2>6, SidesApart
  <2>8. Sent(text)' /\ text \in {Response', <<OutputLetter>>}
    BY <1>1, <1>2, <2>3 DEF Sent
  <2>9. ASSUME wire'["device"] = << >>,
               \/ (wire["client"])' = << >> \o Framed(text) /\ ClientWaits(<< >>)'
               \/ Comes("client", text)'
        PROVE  Tells'
    <3>1. \/ \E before \in {<< >>, <<Plus>>} : (wire["client"])' = before \o Framed(text) /\ ClientWaits(before)'
          \/ Comes("client", text)'
      BY <2>9
    <3>2. stage' = "open" /\ times' = 1 /\ wire'["device"] = << >> /\ packet'["device"].at = "ack"
      BY <1>1, <2>1, <2>7, <2>9
    <3> QED BY <2>8, <3>1, <3>2 DEF Tells, Monitor
  <2>10. CASE wire' = [wire EXCEPT !["client"] = << >> \o Framed(text)] /\ Waits(held, << >>)
    <3>1. wire'["client"] = << >> \o Framed(text) /\ wire'["device"] = << >>
      BY <1>5, <2>1, <2>10, SidesApart
    <3>2. ClientWaits(<< >>)'
      BY <2>7, <2>10 DEF ClientWaits, Client
    <3> QED BY <2>9, <3>1, <3>2 DEF Phase
  <2>11. CASE \E k \in 1 .. Len(text) + 4 :
                 wire' = [wire EXCEPT !["client"] = Unread(text, k)] /\ Holds(held, text, k)
    <3>1. PICK k \in 1 .. Len(text) + 4 :
                 wire' = [wire EXCEPT !["client"] = Unread(text, k)] /\ Holds(held, text, k)
      BY <2>11
    <3>2. wire'["client"] = Unread(text, k) /\ wire'["device"] = << >>
      BY <1>5, <2>1, <3>1, SidesApart
    <3>3. wire'["client"] = Unread(text, k) /\ Holds(packet'["client"], text, k)
      BY <2>7, <3>1, <3>2
    <3>4. Comes("client", text)'
      BY <3>3 DEF Comes
    <3> QED BY <2>9, <3>2, <3>4 DEF Phase
  <2>12. CASE /\ wire["client"] = << >> /\ wire' = [wire EXCEPT ![Other("client")] = @ \o <<Plus>>]
              /\ held.at = "received" /\ Carries(held.buffer, text)
    <3>1. wire'["client"] = << >> /\ wire'["device"] = <<Plus>>
      <4>1. << >> \o <<Plus>> = <<Plus>>
        OBVIOUS
      <4>2. wire' = [wire EXCEPT !["device"] = << >> \o <<Plus>>]
        BY <2>1, <2>12 DEF Other
      <4>3. wire'["device"] = << >> \o <<Plus>> /\ wire'["client"] = wire["client"]
        BY <1>5, <4>2, SidesApart
      <4> QED BY <2>12, <4>1, <4>3
    <3>2. Waits(packet["device"], <<Plus>>)
      BY <2>1 DEF Waits
    <3>3. CASE text = Response /\ replies = << >>
      <4>1. Rests'
        BY <1>1, <2>7, <3>1, <3>2, <3>3 DEF Rests, Monitor
      <4>2. Carries(Client.buffer, Response)'
        BY <1>2, <2>7, <2>12, <3>3 DEF Client
      <4>3. Told'
        BY <1>1, <2>1, <2>7, <2>12, <3>1, <4>1, <4>2 DEF Told, Client
      <4> QED BY <4>3 DEF Phase
    <3>4. CASE request.op = "s" /\ text = <<OutputLetter>> /\ replies = <<Response>>
      <4>1. HasOutput'
        BY <1>1, <2>7, <2>12, <3>4 DEF HasOutput, Client
      <4>2. ClientWaits(wire["client"])'
        BY <3>1, <4>1 DEF ClientWaits
      <4>3. Serves'
        BY <1>1, <1>2, <2>1, <2>7, <3>1, <3>4, <4>2 DEF Serves, Monitor
      <4> QED BY <4>3 DEF Phase
    <3> QED BY <2>3, <3>3, <3>4 DEF Sent
  <2> QED BY <2>6, <2>10, <2>11, <2>12
<1> QED BY <1>4, <1>7, <1>8, <1>9 DEF Phase

\* What the monitor reads keeps the phases.
LEMMA MonitorReceivesPhase ==
    ASSUME LineInv, Phase, AnswerInv, faults' = 0, Receive("device")
    PROVE  Phase' /\ packet'["client"] = packet["client"]
<1>1. /\ device' = device /\ replies' = replies /\ times' = times /\ answer' = answer
      /\ request' = request /\ stage' = stage /\ result' = result
      /\ ReceiveChar("device") \/ JudgePacket("device")
  BY DEF Receive, monitor, caller
<1>2. Response' = Response
  BY <1>1 DEF Response
<1>3. Monitor.at \in Waiting \cup {"poll"} /\ (Monitor.at = "poll" \/ wire["device"] # << >>)
  BY <1>1, ReceiveNeeds DEF Monitor
<1>4. Monitor.at # "received" /\ (Monitor.at = "ack" => wire["device"] # << >>)
  BY <1>3 DEF Waiting
<1>5. "device" \in Sides /\ wire \in [Sides -> Seq(ByteRange)] /\ packet \in [Sides -> Held]
  BY DEF LineInv, Sides
<1>6. ASSUME Waits(Monitor, wire["device"])
      PROVE  /\ wire["device"] = <<Plus>> /\ wire'["device"] = << >> /\ wire'["client"] = wire["client"]
             /\ packet'["client"] = packet["client"] /\ Waits(Monitor', << >>)
             /\ Monitor.at = "ack" => Monitor'.at = "sent"
  <2>1. PICK held \in Held :
           /\ wire["device"] = <<Plus>>
           /\ wire' = [wire EXCEPT !["device"] = << >>] /\ packet' = [packet EXCEPT !["device"] = held]
           /\ Waits(held, << >>) /\ (packet["device"].at = "ack" => held.at = "sent")
    BY <1>1, <1>5, <1>6, AcknowledgementReceives DEF Monitor
  <2>2. /\ wire'["device"] = << >> /\ wire'["client"] = wire["client"]
        /\ packet'["device"] = held /\ packet'["client"] = packet["client"]
    BY <1>5, <2>1, SidesApart
  <2>3. Monitor' = held /\ Monitor = packet["device"]
    BY <2>2 DEF Monitor
  <2>4. Waits(Monitor', << >>) /\ (Monitor.at = "ack" => Monitor'.at = "sent")
    BY <2>1, <2>3
  <2> QED BY <2>1, <2>2, <2>4
<1>7. CASE Closed \/ Told
  <2>1. Waits(Monitor, wire["device"]) /\ replies = << >>
    BY <1>7 DEF Closed, Told, Rests
  <2>2. Rests'
    BY <1>1, <1>6, <2>1 DEF Rests
  <2>3. Closed => Closed'
    BY <1>1, <1>6, <2>1, <2>2 DEF Closed, Client
  <2>4. Told => Told'
    BY <1>1, <1>2, <1>6, <2>1, <2>2 DEF Told, Client
  <2> QED BY <1>6, <1>7, <2>1, <2>3, <2>4 DEF Phase
<1>8. CASE Hears \/ Tells
  BY <1>4, <1>8 DEF Hears, Tells
<1>9. CASE Serves
  <2>1. wire["device"] = <<Plus>> /\ Monitor.at = "ack"
    BY <1>3, <1>9 DEF Serves, Waiting
  <2>2. Waits(Monitor, wire["device"])
    BY <2>1 DEF Waits
  <2>3. ClientWaits(wire["client"])'
    BY <1>1, <1>6, <1>9, <2>2 DEF Serves, ClientWaits, HasOutput, Client
  <2>4. Serves'
    BY <1>1, <1>2, <1>6, <1>9, <2>1, <2>2, <2>3 DEF Serves
  <2> QED BY <1>6, <2>2, <2>4 DEF Phase
<1>10. CASE Asks
  <2>0. PICK text : text = RequestText(request)
    OBVIOUS
  <2>1. /\ stage = "open" /\ times = 0 /\ replies = << >> /\ packet["client"].at = "ack" /\ wire["client"] = << >>
        /\ \/ \E before \in {<< >>, <<Plus>>} : wire["device"] = before \o Framed(text) /\ Waits(packet["device"], before)
           \/ Comes("device", text)
    BY <1>10, <2>0 DEF Asks, Client, Monitor
  <2>2. text \in Seq(Chars) /\ text \in Seq(ByteRange) /\ Len(text) <= BufferSize
    BY <2>0, <2>1, TextsFit
  <2>3. RequestText(request)' = text
    BY <1>1, <2>0
  <2>4. PICK held \in Held :
           /\ packet' = [packet EXCEPT !["device"] = held]
           /\ \/ /\ wire' = [wire EXCEPT !["device"] = << >> \o Framed(text)] /\ Waits(held, << >>)
              \/ \E k \in 1 .. Len(text) + 4 :
                     wire' = [wire EXCEPT !["device"] = Unread(text, k)] /\ Holds(held, text, k)
              \/ /\ wire["device"] = << >> /\ wire' = [wire EXCEPT ![Other("device")] = @ \o <<Plus>>]
                 /\ held.at = "received" /\ Carries(held.buffer, text)
    BY <1>1, <1>5, <2>1, <2>2, PacketComes
  <2>5. packet'["device"] = held /\ packet'["client"] = packet["client"]
    BY <1>5, <2>4, SidesApart
  <2>6. ASSUME wire'["client"] = << >>,
               \/ (wire["device"])' = << >> \o Framed(text) /\ Waits(Monitor', << >>)
               \/ Comes("device", text)'
        PROVE  Asks'
    <3>1. \/ \E before \in {<< >>, <<Plus>>} : (wire["device"])' = before \o Framed(text) /\ Waits(Monitor', before)
          \/ Comes("device", text)'
      BY <2>6
    <3>2. \/ \E before \in {<< >>, <<Plus>>} :
                 (wire["device"])' = before \o Framed(RequestText(request)') /\ Waits(Monitor', before)
          \/ Comes("device", RequestText(request))'
      BY <2>3, <3>1 DEF Comes
    <3>3. stage' = "open" /\ times' = 0 /\ replies' = << >> /\ packet'["client"].at = "ack" /\ wire'["client"] = << >>
      BY <1>1, <2>1, <2>5, <2>6
    <3> QED BY <3>2, <3>3 DEF Asks, Client
  <2>7. CASE wire' = [wire EXCEPT !["device"] = << >> \o Framed(text)] /\ Waits(held, << >>)
    <3>1. wire'["device"] = << >> \o Framed(text) /\ wire'["client"] = << >>
      BY <1>5, <2>1, <2>7, SidesApart
    <3>2. Waits(Monitor', << >>)
      BY <2>5, <2>7 DEF Monitor
    <3> QED BY <2>5, <2>6, <3>1, <3>2 DEF Phase
  <2>8. CASE \E k \in 1 .. Len(text) + 4 :
                 wire' = [wire EXCEPT !["device"] = Unread(text, k)] /\ Holds(held, text, k)
    <3>1. PICK k \in 1 .. Len(text) + 4 :
                 wire' = [wire EXCEPT !["device"] = Unread(text, k)] /\ Holds(held, text, k)
      BY <2>8
    <3>2. wire'["device"] = Unread(text, k) /\ wire'["client"] = << >>
      BY <1>5, <2>1, <3>1, SidesApart
    <3>3. wire'["device"] = Unread(text, k) /\ Holds(packet'["device"], text, k)
      BY <2>5, <3>1, <3>2
    <3>4. Comes("device", text)'
      BY <3>3 DEF Comes
    <3> QED BY <2>5, <2>6, <3>2, <3>4 DEF Phase
  <2>9. CASE /\ wire["device"] = << >> /\ wire' = [wire EXCEPT ![Other("device")] = @ \o <<Plus>>]
             /\ held.at = "received" /\ Carries(held.buffer, text)
    <3>1. wire'["device"] = << >> /\ wire'["client"] = <<Plus>>
      <4>1. << >> \o <<Plus>> = <<Plus>>
        OBVIOUS
      <4>2. wire' = [wire EXCEPT !["client"] = << >> \o <<Plus>>]
        BY <2>1, <2>9 DEF Other
      <4>3. wire'["client"] = << >> \o <<Plus>> /\ wire'["device"] = wire["device"]
        BY <1>5, <4>2, SidesApart
      <4> QED BY <2>9, <4>1, <4>3
    <3>2. ClientWaits(wire["client"])'
      <4>1. Waits(packet'["client"], <<Plus>>)
        BY <2>1, <2>5 DEF Waits
      <4> QED BY <3>1, <4>1 DEF ClientWaits, Client
    <3>3. Carries(Monitor.buffer, RequestText(request))'
      BY <2>3, <2>5, <2>9 DEF Monitor, Carries
    <3>4. Hears'
      BY <1>1, <2>1, <2>5, <2>9, <3>1, <3>2, <3>3 DEF Hears, Monitor
    <3> QED BY <2>5, <3>4 DEF Phase
  <2> QED BY <2>4, <2>7, <2>8, <2>9
<1> QED BY <1>7, <1>8, <1>9, <1>10 DEF Phase

\* What the monitor carries out is the request of the call, once.
LEMMA ServePhase ==
    ASSUME Inv, Phase, AnswerInv, Serve
    PROVE  /\ Phase' /\ AnswerInv'
           /\ request \in Asked /\ stage = "open" /\ times = 0 /\ times' = 1
           /\ device' = After(device, request) /\ answer' = AnswerTo(device, request)
<1>1. /\ Monitor.at = "received" /\ replies = << >>
      /\ wire' = wire /\ packet' = packet /\ request' = request /\ stage' = stage /\ result' = result
  BY DEF Serve, line, caller
<1>2. Hears
  <2>1. \A before : ~Waits(Monitor, before)
    BY <1>1 DEF Waits
  <2>2. ASSUME Asks PROVE FALSE
    <3>1. RequestText(request) \in Seq(ByteRange)
      BY <2>2, TextsFit DEF Asks
    <3>2. ~Comes("device", RequestText(request))
      BY <1>1, <3>1, ComesShows DEF Monitor
    <3> QED BY <2>1, <2>2, <3>2 DEF Asks
  <2>3. ~Serves
    <3>1. ASSUME Serves PROVE FALSE
      <4>1. PICK x, y : replies = <<x>> \/ replies = <<x, y>>
        BY <3>1 DEF Serves
      <4>2. <<x>> # << >> /\ <<x, y>> # << >>
        OBVIOUS
      <4> QED BY <1>1, <4>1, <4>2
    <3> QED BY <3>1
  <2> QED BY <1>1, <2>1, <2>2, <2>3 DEF Phase, Closed, Tells, Told, Rests
<1>3. stage = "open" /\ times = 0 /\ Carries(Monitor.buffer, RequestText(request))
  BY <1>2 DEF Hears
<1>4. request \in Asked
  BY <1>3, TextsFit
<1>5. ParsedRequest(Monitor.buffer) = request
  <2>1. IsBuffer(Monitor.buffer)
    <3>1. packet["device"] \in Held
      BY DEF Inv, LineInv, Sides
    <3> QED BY <3>1, HeldIs DEF Monitor
  <2> QED BY <1>3, <1>4, <2>1, RequestIsRead
<1>6. /\ device' = After(device, request) /\ answer' = AnswerTo(device, request)
      /\ times' = times + 1 /\ replies' \in Responses(request)
  BY <1>5 DEF Serve
<1>7. times' = 1
  BY <1>3, <1>6
<1>8. /\ answer' \in Answers /\ Suits(request, answer')
      /\ request.op \in {"g", "m"} => After(device, request) = device
      /\ request.op = "G" => device'.pc = request.bytes[1]
  BY <1>4, <1>6, AnswerSuits DEF Inv, DeviceInv
<1>9. AnswerInv'
  <2>1. request.op \in {"g", "m"} => answer' = AnswerTo(device', request)
    BY <1>6, <1>8
  <2>2. Fits(request)
    BY <1>3 DEF AnswerInv
  <2> QED BY <1>1, <1>3, <1>4, <1>7, <1>8, <2>1, <2>2 DEF AnswerInv
<1>10. Serves'
  <2>1. replies' = <<Response'>> \/ (request.op = "s" /\ replies' = << <<OutputLetter>>, Response'>>)
    <3>1. Response' = ResponseText(AnswerTo(device, request))
      BY <1>6 DEF Response
    <3> QED BY <1>6, <3>1 DEF Responses
  <2>2. ClientWaits(wire["client"])'
    <3>1. ClientWaits(wire["client"])
      BY <1>2 DEF Hears
    <3> QED BY <1>1, <3>1 DEF ClientWaits, HasOutput, Client
  <2>3. wire'["device"] = << >> /\ Monitor'.at = "received"
    BY <1>1, <1>2 DEF Hears, Monitor
  <2> QED BY <1>1, <1>3, <1>7, <2>1, <2>2, <2>3 DEF Serves
<1> QED BY <1>3, <1>4, <1>6, <1>7, <1>9, <1>10 DEF Phase

\* Its packets follow each other, and then it waits.
LEMMA ReplyPhase ==
    ASSUME LineInv, Phase, faults' = 0, Reply
    PROVE  Phase' /\ packet'["client"] = packet["client"]
<1> DEFINE text == Head(replies)
           before == wire["client"]
           h == InitPacket(SetEndOfBuffer(WriteSizedString(BufferInit(Blank), text).buffer), "ack")
<1>1. /\ Monitor.at \in {"received", "sent"} /\ replies # << >> /\ replies' = Tail(replies)
      /\ device' = device /\ times' = times /\ answer' = answer
      /\ request' = request /\ stage' = stage /\ result' = result
      /\ Transmit(wire, Other("device"), Framed(text)) /\ packet' = [packet EXCEPT !["device"] = h]
  BY DEF Reply, PacketSend, caller
<1>2. h.at = "ack"
  BY DEF InitPacket
<1> HIDE DEF h
<1>3. wire \in [Sides -> Seq(ByteRange)] /\ packet \in [Sides -> Held] /\ faults \in 0 .. MaxFaults
  BY DEF LineInv
<1>4. packet'["device"] = h /\ packet'["client"] = packet["client"]
  BY <1>1, <1>3, SidesApart
<1>5. Serves
  BY <1>1 DEF Phase, Closed, Asks, Hears, Tells, Told, Rests
<1>6. /\ stage = "open" /\ times = 1 /\ wire["device"] = << >> /\ ClientWaits(before)
      /\ before \in {<< >>, <<Plus>>}
  <2>1. ClientWaits(before) => before \in {<< >>, <<Plus>>}
    BY DEF ClientWaits, Waits
  <2>2. Monitor.at # "ack"
    BY <1>1
  <2> QED BY <1>5, <2>1, <2>2 DEF Serves
<1>7. /\ \/ text = Response /\ replies' = << >>
         \/ request.op = "s" /\ text = <<OutputLetter>> /\ replies' = <<Response>>
  <2>1. CASE replies = <<Response>>
    <3>1. Head(<<Response>>) = Response /\ Tail(<<Response>>) = << >>
      OBVIOUS
    <3> QED BY <1>1, <2>1, <3>1
  <2>2. CASE request.op = "s" /\ replies = << <<OutputLetter>>, Response>>
    <3>1. \A x, y : Head(<<x, y>>) = x /\ Tail(<<x, y>>) = <<y>>
      OBVIOUS
    <3> QED BY <1>1, <2>2, <3>1
  <2> QED BY <1>5, <2>1, <2>2 DEF Serves
<1>8. Response' = Response
  BY <1>1 DEF Response
<1> HIDE DEF before
<1>9. PICK sent, b : sent = text /\ b = before
  OBVIOUS
<1>10. wire'["client"] = b \o Framed(sent) /\ wire'["device"] = << >>
  <2>1. wire' = [wire EXCEPT !["client"] = @ \o Framed(sent)]
    <3>1. Other("device") = "client"
      BY DEF Other
    <3> HIDE DEF text
    <3> QED BY <1>1, <1>3, <1>9, <3>1, QuietTransmit
  <2>2. wire' = [wire EXCEPT !["client"] = b \o Framed(sent)]
    BY <1>9, <2>1 DEF before
  <2> QED BY <1>3, <1>6, <2>2, SidesApart
<1>11. sent \in {Response', <<OutputLetter>>} /\ Sent(sent)'
  BY <1>1, <1>7, <1>8, <1>9 DEF Sent
<1>12. ClientWaits(b)' /\ b \in {<< >>, <<Plus>>}
  <2>1. ClientWaits(b)
    BY <1>6, <1>9
  <2>2. ClientWaits(b)'
    BY <1>1, <1>4, <2>1 DEF ClientWaits, HasOutput, Client
  <2> QED BY <1>6, <1>9, <2>2
<1>13. Tells'
  <2>1. stage' = "open" /\ times' = 1 /\ wire'["device"] = << >> /\ Monitor'.at = "ack"
    BY <1>1, <1>2, <1>4, <1>6, <1>10 DEF Monitor
  <2>2. \E between \in {<< >>, <<Plus>>} : (wire["client"])' = between \o Framed(sent) /\ ClientWaits(between)'
    BY <1>10, <1>12
  <2> QED BY <1>11, <2>1, <2>2 DEF Tells
<1> QED BY <1>4, <1>13 DEF Phase

\* Behind its last packet it waits for the next request.
LEMMA ContinuePhase ==
    ASSUME LineInv, Phase, AnswerInv, ContinueServing
    PROVE  Phase' /\ packet'["client"] = packet["client"]
<1>1. /\ Monitor.at = "sent" /\ replies = << >> /\ packet' = [packet EXCEPT !["device"] = PacketGet]
      /\ wire' = wire /\ device' = device /\ replies' = replies /\ times' = times /\ answer' = answer
      /\ request' = request /\ stage' = stage /\ result' = result
  BY DEF ContinueServing, monitor, caller
<1>2. Waits(packet'["device"], << >>) /\ packet'["client"] = packet["client"]
  <2>1. packet \in [Sides -> Held] /\ "device" \in Sides
    BY DEF LineInv, Sides
  <2> QED BY <1>1, <2>1, NextPacket, SidesApart
<1>3. Response' = Response
  BY <1>1 DEF Response
<1>4. ASSUME NEW before, Waits(Monitor, before) PROVE before = << >>
  BY <1>1, <1>4 DEF Waits
<1>5. CASE Closed \/ Told
  <2>1. wire'["device"] = << >>
    BY <1>1, <1>4, <1>5 DEF Closed, Told, Rests
  <2>2. Rests'
    BY <1>1, <1>2, <2>1 DEF Rests, Monitor
  <2>3. Closed => Closed'
    BY <1>1, <1>2, <2>2 DEF Closed, Client
  <2>4. Told => Told'
    BY <1>1, <1>2, <1>3, <2>2 DEF Told, Client
  <2> QED BY <1>2, <1>5, <2>3, <2>4 DEF Phase
<1>6. CASE Asks
  <2>1. PICK text : text = RequestText(request)
    OBVIOUS
  <2>2. text \in Seq(ByteRange)
    BY <1>6, <2>1, TextsFit DEF Asks
  <2>3. ~Comes("device", text)
    BY <1>1, <2>2, ComesShows DEF Monitor
  <2>4. wire["device"] = << >> \o Framed(text)
    BY <1>4, <1>6, <2>1, <2>3 DEF Asks
  <2>5. wire'["device"] = << >> \o Framed(text) /\ text = RequestText(request')
    BY <1>1, <2>1, <2>4
  <2>6. \E before \in {<< >>, <<Plus>>} :
           (wire["device"])' = before \o Framed(RequestText(request')) /\ Waits(packet'["device"], before)
    BY <1>2, <2>5
  <2>7. Asks'
    BY <1>1, <1>2, <1>6, <2>6 DEF Asks, Monitor, Client
  <2> QED BY <1>2, <2>7 DEF Phase
<1>7. CASE Hears \/ Tells
  BY <1>1, <1>7 DEF Hears, Tells
<1>8. CASE Serves
  <2>1. PICK x, y : replies = <<x>> \/ replies = <<x, y>>
    BY <1>8 DEF Serves
  <2>2. <<x>> # << >> /\ <<x, y>> # << >>
    OBVIOUS
  <2> QED BY <1>1, <2>1, <2>2
<1> QED BY <1>5, <1>6, <1>7, <1>8 DEF Phase

\* The process that runs again finds a line that has gone quiet.
LEMMA RestartPhase ==
    ASSUME LineInv, Phase, ProcessInv, faults' = 0, Restart
    PROVE  Phase' /\ ProcessInv' /\ UNCHANGED <<monitor, caller>>
<1> DEFINE h == [PacketGet EXCEPT !.at = "idle"]
           quiet == [wire EXCEPT !["client"] = << >>]
<1>1. /\ at = "dead" /\ ~Busy /\ at' = "idle" /\ packet' = [packet EXCEPT !["client"] = h]
      /\ Transmit(quiet, "device", <<Plus>>)
      /\ device' = device /\ replies' = replies /\ times' = times /\ answer' = answer
      /\ request' = request /\ stage' = stage /\ result' = result
  BY DEF Restart, monitor, caller
<1>2. h.at = "idle"
  BY DEF PacketGet, InitPacket
<1> HIDE DEF h
<1>3. wire \in [Sides -> Seq(ByteRange)] /\ packet \in [Sides -> Held] /\ faults \in 0 .. MaxFaults
  BY DEF LineInv
<1>4. packet'["client"] = h /\ packet'["device"] = packet["device"]
  BY <1>1, <1>3, SidesApart
<1>5. Closed /\ stage # "open"
  BY <1>1, ClosedBetween DEF ProcessInv
<1>6. wire["device"] = << >> /\ Monitor.at = "start" /\ Monitor.buffer.end = BufferSize /\ replies = << >>
  BY <1>1, <1>5 DEF Closed, Rests, Waits, Busy, Monitor
<1>7. quiet["device"] = << >> /\ quiet["client"] = << >> /\ quiet \in [Sides -> Seq(ByteRange)]
  <2>1. << >> \in Seq(ByteRange)
    OBVIOUS
  <2> QED BY <1>3, <1>6, <2>1, SidesApart
<1> HIDE DEF quiet
<1>8. wire'["device"] = <<Plus>> /\ wire'["client"] = << >>
  <2>1. wire' = [quiet EXCEPT !["device"] = @ \o <<Plus>>]
    BY <1>1, <1>3, QuietTransmit
  <2>2. << >> \o <<Plus>> = <<Plus>>
    OBVIOUS
  <2>3. wire' = [quiet EXCEPT !["device"] = <<Plus>>]
    BY <1>7, <2>1, <2>2
  <2> QED BY <1>7, <2>3, SidesApart
<1>9. Rests'
  BY <1>1, <1>4, <1>6, <1>8 DEF Rests, Waits, Monitor
<1>10. Closed'
  BY <1>1, <1>2, <1>4, <1>5, <1>8, <1>9 DEF Closed, Client
<1> QED BY <1>1, <1>5, <1>10 DEF Phase, ProcessInv, monitor, caller

\* What has gone wrong is not undone.
LEMMA FaultsStay ==
    ASSUME Inv, [Next]_vars, faults' = 0
    PROVE  faults = 0
<1> SUFFICES ASSUME faults # 0 PROVE FALSE
  OBVIOUS
<1>1. faults \in Nat /\ faults' # faults /\ faults' # faults + 1
  BY BufferAssumption DEF Inv, LineInv
<1>2. \A carried, to, text : ~Transmit(carried, to, text)
  BY <1>1 DEF Transmit
<1>3. \A asked : ~BeginCall(asked) /\ ~CallTooLong(asked)
  BY <1>1, <1>2 DEF BeginCall, CallTooLong, PacketSend
<1>4. \A side : ~ReceiveChar(side)
  BY <1>1, <1>2 DEF ReceiveChar, ReadAcknowledge, SendAgain, ReadStart, ReadData, ReadDataEnd,
                    ReadChecksumHigh, ReadChecksumLow, Consume
<1>5. \A side : ~JudgePacket(side)
  BY <1>1, <1>2 DEF JudgePacket, PassOver, Acknowledge, Refuse
<1>6. ~CallerStep
  BY <1>1 DEF CallerStep, AwaitResponse, SkipOutput, CallReturns, CallThrows, CallTimesOut, ChecksumTimesOut,
              TimedOut, TimedOutInChecksum, NothingCame
<1>7. ~MonitorStep
  BY <1>1, <1>2 DEF MonitorStep, Serve, Reply, ContinueServing, PacketSend, line
<1>8. \A how : ~Ends(how)
  BY <1>1 DEF Ends, rvars, line
<1>9. ~ThunkStep
  BY <1>1, <1>3, <1>8 DEF ThunkStep, SingleStep, GetRegisters, DetermineHardFaultCause, WasUndefinedInstruction,
      DetermineDebugTrapCause, OtherSignal, WasSVC, GetRegistersAgain, SteppedOut, WasBKPT, NotInRam,
      InstructionRead, AccessReturns, Dies, rvars, line
<1>10. ~StartStep /\ ~StartAccess /\ ~Restart
  BY <1>2, <1>3 DEF StartStep, StartAccess, Restart
<1>11. vars' # vars
  BY <1>1 DEF vars, rvars, line
<1> QED BY <1>4, <1>5, <1>6, <1>7, <1>9, <1>10, <1>11 DEF Next, Process, DeviceProcess, CallerSteps, MonitorSteps,
           ClientReceives, MonitorReceives, Receive

\* What the monitor does in a call, and that it does it once.
LEMMA MonitorPhase ==
    ASSUME Inv, Phase, AnswerInv, faults' = 0, MonitorStep
    PROVE  /\ Phase' /\ AnswerInv' /\ packet'["client"] = packet["client"]
           /\ UNCHANGED <<request, stage, result>>
           /\ \/ UNCHANGED <<device, times, answer>>
              \/ /\ request \in Asked /\ stage = "open" /\ times = 0 /\ times' = 1
                 /\ device' = After(device, request) /\ answer' = AnswerTo(device, request)
<1>1. CASE Serve
  <2>1. UNCHANGED <<request, stage, result, packet>>
    BY <1>1 DEF Serve, caller, line
  <2> QED BY <1>1, <2>1, ServePhase
<1>2. CASE Reply
  <2>1. UNCHANGED <<request, stage, result, device, times, answer>>
    BY <1>2 DEF Reply, caller
  <2>2. AnswerInv'
    BY <2>1 DEF AnswerInv, Fits
  <2> QED BY <1>2, <2>1, <2>2, ReplyPhase DEF Inv
<1>3. CASE ContinueServing
  <2>1. UNCHANGED <<request, stage, result, device, times, answer>>
    BY <1>3 DEF ContinueServing, caller, monitor
  <2>2. AnswerInv'
    BY <2>1 DEF AnswerInv, Fits
  <2> QED BY <1>3, <2>1, <2>2, ContinuePhase DEF Inv
<1> QED BY <1>1, <1>2, <1>3 DEF MonitorStep

\* Between calls, or behind an exception, nothing is under way.
LEMMA IdleIsClosed ==
    ASSUME Phase, AnswerInv, Client.at \in {"idle", "failed"}
    PROVE  Closed
<1>1. \A before : ~ClientWaits(before)
  BY DEF ClientWaits, Waits, HasOutput
<1>2. ASSUME Tells PROVE FALSE
  <2>1. Response \in Seq(ByteRange) /\ <<OutputLetter>> \in Seq(ByteRange)
    BY <1>2, TextsFit DEF Tells
  <2>2. PICK text \in {Response, <<OutputLetter>>} : Comes("client", text)
    BY <1>1, <1>2 DEF Tells
  <2>3. text \in Seq(ByteRange)
    BY <2>1, <2>2
  <2> QED BY <2>2, <2>3, ComesShows DEF Client
<1> QED BY <1>1, <1>2 DEF Phase, Asks, Hears, Serves, Told

\* A call begins with a request of the thunk.
LEMMA BeginPhase ==
    ASSUME Inv, Phase, AnswerInv, faults' = 0, NEW asked \in Asked, BeginCall(asked) \/ CallTooLong(asked)
    PROVE  /\ Phase' /\ AnswerInv' /\ request' = asked /\ times' = 0 /\ device' = device
           /\ BeginCall(asked) => stage' = "open"
           /\ stage # "open" /\ stage' \in {"open", "failed"} /\ answer' = Refusal /\ result' = result
<1>1. Closed
  <2>1. Client.at \in {"idle", "failed"}
    BY DEF BeginCall, CallTooLong
  <2> QED BY <2>1, IdleIsClosed
<1>2. LineInv /\ device' = device /\ answer' = Refusal /\ result' = result
  BY DEF Inv, BeginCall, CallTooLong
<1>3. asked # NoRequest
  <2>1. asked.op \in Operations /\ NoRequest.op = "none"
    BY DEF Asked, NoRequest, Simple, Request
  <2> QED BY <2>1 DEF Operations
<1>4. CASE BeginCall(asked)
  <2>1. RequestText(asked) \in Seq(ByteRange)
    <3>1. asked \in Requests /\ asked.op \in Operations
      BY AskedIs DEF Asked
    <3> QED BY <3>1, RequestTextIs
  <2>2. Asks' /\ request' = asked /\ stage' = "open" /\ times' = 0
    BY <1>1, <1>2, <1>4, <2>1, BeginCallPhase
  <2>3. Fits(asked)
    BY <1>4 DEF BeginCall
  <2>4. AnswerInv'
    BY <1>3, <2>2, <2>3 DEF AnswerInv
  <2> QED BY <1>1, <1>2, <2>2, <2>4 DEF Phase, Closed
<1>5. CASE CallTooLong(asked)
  <2>1. Closed' /\ request' = asked /\ stage' = "failed" /\ times' = 0 /\ ~Fits(asked)
    BY <1>1, <1>2, <1>5, TooLongPhase
  <2>2. AnswerInv'
    BY <1>3, <2>1 DEF AnswerInv
  <2>3. ~BeginCall(asked)
    BY <1>5 DEF BeginCall, CallTooLong
  <2> QED BY <1>1, <1>2, <2>1, <2>2, <2>3 DEF Phase, Closed
<1> QED BY <1>4, <1>5

\* Which request a step of the process makes, if it makes one.
LEMMA ThunkAsks ==
    ASSUME Inv, ThunkStep \/ StartStep \/ StartAccess
    PROVE  \/ \E asked \in Asked : (BeginCall(asked) \/ CallTooLong(asked)) /\ at' \notin {"idle", "dead"}
           \/ stage = "returned" /\ at' = "idle" /\ UNCHANGED rvars
           \/ Client.at = "failed" /\ at' = "dead" /\ UNCHANGED rvars
<1>1. context \in Bytes /\ Vector \in Bytes /\ Status \in Bytes
  BY DeviceAssumption DEF Inv, RoutineInv
<1>2. /\ Simple("s") \in Asked /\ Simple("g") \in Asked /\ ReadRequest(Vector, 4) \in Asked
      /\ ReadRequest(Status, 2) \in Asked /\ ReadRequest(context, 2) \in Asked
  BY <1>1, AskedIs
<1>3. CASE StartStep
  <2>1. PICK pc \in Starts : BeginCall(Request("G", 0, 0, <<pc>>)) /\ at' = "setRegisters"
    BY <1>3 DEF StartStep
  <2>2. Request("G", 0, 0, <<pc>>) \in Asked
    BY ThunkAssumption, AskedIs
  <2> QED BY <2>1, <2>2
<1>4. CASE StartAccess
  <2>1. PICK asked \in MemoryRequests : (BeginCall(asked) \/ CallTooLong(asked)) /\ at' = "memory"
    BY <1>4 DEF StartAccess
  <2>2. asked \in Asked
    BY <2>1, AskedIs
  <2> QED BY <2>1, <2>2
<1>5. ASSUME NEW call, NEW how, Returned(call), Ends(how)
      PROVE  stage = "returned" /\ at' = "idle" /\ UNCHANGED rvars
  BY <1>5 DEF Returned, Ends
<1>6. CASE WasUndefinedInstruction \/ OtherSignal \/ SteppedOut \/ NotInRam \/ InstructionRead \/ AccessReturns
  BY <1>5, <1>6 DEF WasUndefinedInstruction, OtherSignal, SteppedOut, NotInRam, InstructionRead, AccessReturns
<1>7. CASE Dies
  BY <1>7 DEF Dies
<1>8. ASSUME NEW asked \in Asked, NEW to, BeginCall(asked), Goes(to), to \notin {"idle", "dead"}
      PROVE  \E other \in Asked : (BeginCall(other) \/ CallTooLong(other)) /\ at' \notin {"idle", "dead"}
  BY <1>8 DEF Goes
<1>9. CASE SingleStep \/ WasSVC
  BY <1>2, <1>8, <1>9 DEF SingleStep, WasSVC
<1>10. CASE GetRegisters \/ GetRegistersAgain
  BY <1>2, <1>8, <1>10 DEF GetRegisters, GetRegistersAgain
<1>11. CASE DetermineHardFaultCause \/ DetermineDebugTrapCause \/ WasBKPT
  BY <1>2, <1>8, <1>11 DEF DetermineHardFaultCause, DetermineDebugTrapCause, WasBKPT
<1> QED BY <1>3, <1>4, <1>6, <1>7, <1>9, <1>10, <1>11 DEF ThunkStep

\* The phases, what is known of requests and answers, and the process keep
\* together whatever steps are taken, as long as nothing goes wrong.
LEMMA QuietStep ==
    ASSUME Inv, QuietInv, [Next]_vars, faults' = 0
    PROVE  QuietInv'
<1>1. Phase /\ AnswerInv /\ ProcessInv /\ LineInv
  BY DEF QuietInv, Inv
<1>2. CASE ThunkStep \/ StartStep \/ StartAccess
  <2>1. CASE \E asked \in Asked : (BeginCall(asked) \/ CallTooLong(asked)) /\ at' \notin {"idle", "dead"}
    <3>1. PICK asked \in Asked : (BeginCall(asked) \/ CallTooLong(asked)) /\ at' \notin {"idle", "dead"}
      BY <2>1
    <3>2. Phase' /\ AnswerInv'
      BY <1>1, <3>1, BeginPhase
    <3> QED BY <3>1, <3>2 DEF QuietInv, ProcessInv
  <2>2. CASE UNCHANGED rvars
    <3>1. Phase'
      BY <1>1, <2>2 DEF Phase, Closed, Asks, Hears, Serves, Tells, Told, Rests, ClientWaits, HasOutput, Sent, Comes,
                        Client, Monitor, Response, rvars, line, monitor, caller
    <3>2. AnswerInv'
      BY <1>1, <2>2 DEF AnswerInv, Fits, rvars, monitor, caller
    <3>3. CASE stage = "returned" /\ at' = "idle"
      BY <2>2, <3>1, <3>2, <3>3 DEF QuietInv, ProcessInv, rvars, caller
    <3>4. CASE Client.at = "failed" /\ at' = "dead"
      <4>1. stage # "open"
        BY <1>1, <3>4, IdleIsClosed DEF Closed
      <4> QED BY <2>2, <3>1, <3>2, <3>4, <4>1 DEF QuietInv, ProcessInv, Client, rvars, line, caller
    <3>5. CASE \E asked \in Asked : (BeginCall(asked) \/ CallTooLong(asked)) /\ at' \notin {"idle", "dead"}
      BY <2>1, <3>5
    <3> QED BY <1>2, <3>3, <3>4, <3>5, ThunkAsks
  <2> QED BY <1>2, <2>1, <2>2, ThunkAsks
<1>3. ASSUME Phase', AnswerInv', at' = at, at # "dead" \/ packet'["client"] = packet["client"],
             stage' = stage \/ stage' # "open"
      PROVE  QuietInv'
  BY <1>1, <1>3 DEF QuietInv, ProcessInv, Client
<1>4. CASE ClientReceives
  <2>1. Receive("client") /\ at' = at
    BY <1>4 DEF ClientReceives, thunk
  <2>2. UNCHANGED <<device, times, answer, request, stage, result>>
    BY <2>1 DEF Receive, monitor, caller
  <2>3. AnswerInv'
    BY <1>1, <2>2 DEF AnswerInv, Fits
  <2>4. Phase' /\ Client.at # "failed"
    BY <1>1, <2>1, ClientReceivesPhase
  <2> QED BY <1>1, <1>3, <2>1, <2>2, <2>3, <2>4 DEF ProcessInv
<1>5. CASE MonitorReceives
  <2>1. Receive("device") /\ at' = at
    BY <1>5 DEF MonitorReceives, thunk
  <2>2. UNCHANGED <<device, times, answer, request, stage, result>>
    BY <2>1 DEF Receive, monitor, caller
  <2>3. AnswerInv'
    BY <1>1, <2>2 DEF AnswerInv, Fits
  <2>4. Phase' /\ packet'["client"] = packet["client"]
    BY <1>1, <2>1, MonitorReceivesPhase
  <2> QED BY <1>3, <2>1, <2>2, <2>3, <2>4
<1>6. CASE CallerSteps
  <2>1. CallerStep /\ at' = at
    BY <1>6 DEF CallerSteps, thunk
  <2>2. Phase' /\ AnswerInv' /\ Client.at # "failed" /\ (stage' = stage \/ stage' # "open")
    BY <1>1, <2>1, CallerPhase
  <2> QED BY <1>1, <1>3, <2>1, <2>2 DEF ProcessInv
<1>7. CASE MonitorSteps
  <2>1. MonitorStep /\ at' = at
    BY <1>7 DEF MonitorSteps, thunk
  <2>2. Phase' /\ AnswerInv' /\ packet'["client"] = packet["client"] /\ stage' = stage
    BY <1>1, <2>1, MonitorPhase
  <2> QED BY <1>3, <2>1, <2>2
<1>8. CASE Restart
  <2>1. Phase' /\ ProcessInv' /\ UNCHANGED <<monitor, caller>>
    BY <1>1, <1>8, RestartPhase
  <2>2. AnswerInv'
    BY <1>1, <2>1 DEF AnswerInv, Fits, monitor, caller
  <2> QED BY <2>1, <2>2 DEF QuietInv
<1>9. CASE UNCHANGED vars
  <2>1. UNCHANGED rvars /\ at' = at
    BY <1>9 DEF vars, thunk
  <2>2. Phase'
    BY <1>1, <2>1 DEF Phase, Closed, Asks, Hears, Serves, Tells, Told, Rests, ClientWaits, HasOutput, Sent, Comes,
                      Client, Monitor, Response, rvars, line, monitor, caller
  <2>3. AnswerInv'
    BY <1>1, <2>1 DEF AnswerInv, Fits, rvars, monitor, caller
  <2>4. packet' = packet /\ stage' = stage
    BY <2>1 DEF rvars, line, caller
  <2> QED BY <1>3, <2>1, <2>2, <2>3, <2>4
<1> QED BY <1>2, <1>4, <1>5, <1>6, <1>7, <1>8, <1>9 DEF Next, Process, DeviceProcess

\* No call is under way at first.
LEMMA QuietAtFirst == Init => QuietInv
<1> SUFFICES ASSUME Init PROVE QuietInv
  OBVIOUS
<1>1. /\ wire = [side \in Sides |-> IF side = "device" THEN <<Plus>> ELSE << >>]
      /\ packet = [side \in Sides |-> [PacketGet EXCEPT !.at = IF side = "client" THEN "idle" ELSE "start"]]
      /\ replies = << >> /\ request = NoRequest /\ stage = "returned" /\ at = "idle"
  BY DEF Init, RemoteInit, LineInit
<1>2. /\ wire["device"] = <<Plus>> /\ wire["client"] = << >>
      /\ packet["client"].at = "idle" /\ packet["device"].at = "start"
      /\ packet["device"].buffer.end = BufferSize
  <2>1. "client" \in Sides /\ "device" \in Sides
    BY DEF Sides
  <2>2. PacketGet.buffer.end = BufferSize
    BY BufferAssumption DEF PacketGet, InitPacket, BufferInit, Blank
  <2>3. /\ [PacketGet EXCEPT !.at = "idle"].at = "idle" /\ [PacketGet EXCEPT !.at = "start"].at = "start"
        /\ [PacketGet EXCEPT !.at = "start"].buffer = PacketGet.buffer
    BY DEF PacketGet, InitPacket
  <2>4. packet["client"] = [PacketGet EXCEPT !.at = "idle"] /\ packet["device"] = [PacketGet EXCEPT !.at = "start"]
    BY <1>1, <2>1
  <2>5. wire["device"] = <<Plus>> /\ wire["client"] = << >>
    BY <1>1, <2>1
  <2> QED BY <2>2, <2>3, <2>4, <2>5
<1>3. Closed
  BY <1>1, <1>2 DEF Closed, Rests, Waits, Client, Monitor
<1> QED BY <1>1, <1>3 DEF QuietInv, Phase, AnswerInv, ProcessInv

\* What holds of a call as long as the line makes no fault.
Sound == Inv /\ (faults = 0 => QuietInv)

\* It is inductive: the count of faults never falls.
LEMMA SoundAlways == Spec => []Sound
<1>1. Init => Sound
  BY InitIsTyped, QuietAtFirst DEF Sound
<1>2. Sound /\ [Next]_vars => Sound'
  <2> SUFFICES ASSUME Sound, [Next]_vars PROVE Sound'
    OBVIOUS
  <2>1. Inv /\ Inv'
    BY StepIsTyped DEF Sound
  <2>2. ASSUME faults' = 0 PROVE QuietInv'
    <3>1. faults = 0
      BY <2>1, <2>2, FaultsStay
    <3> QED BY <2>1, <2>2, <3>1, QuietStep DEF Sound
  <2> QED BY <2>1, <2>2 DEF Sound
<1> QED BY <1>1, <1>2, PTL DEF Spec

\* As long as the line loses and damages nothing and what is waited for comes
\* in good time, a call fails for one reason only: its request has no room in
\* the packet, or the device refused it or answered in part.  Whatever the size
\* of the buffers, the width of the unsigned integers, the program and memory
\* of the device and the requests: every request that is sent is read by the
\* monitor as it was asked, and every response by the client as it was
\* answered, with the acknowledgements and the output that come in between.
THEOREM FailuresAreCaused == Spec => []FailuresHaveACause
<1>1. Sound => FailuresHaveACause
  <2> SUFFICES ASSUME Sound, at = "dead", ~(faults > 0)
               PROVE  ~Fits(request) \/ ~Promise!MayReturn(request, answer)
    BY DEF FailuresHaveACause
  <2>1. faults = 0
    BY BufferAssumption DEF Sound, Inv, LineInv
  <2>2. Phase /\ AnswerInv /\ Client.at = "failed"
    BY <2>1 DEF Sound, QuietInv, ProcessInv
  <2>3. stage = "failed"
    BY <2>2, IdleIsClosed DEF Closed
  <2> QED BY <2>2, <2>3 DEF AnswerInv
<1> QED BY <1>1, SoundAlways, PTL

-----------------------------------------------------------------------------
(* What a call promises.                                                   *)

\* The device that the promise is about is this one.
LEMMA PromiseIsOfThisDevice ==
    \A state, asked : Promise!After(state, asked) = After(state, asked)
                      /\ Promise!AnswerTo(state, asked) = AnswerTo(state, asked)
BY DEF Promise!After, After, Promise!AnswerTo, AnswerTo, Promise!Writable, Writable, Promise!Written, Written,
       Promise!Step, Step, Promise!InstructionAt, InstructionAt, Promise!Answer, Answer, Promise!NoBytes, NoBytes,
       Promise!Read, Read, Promise!IsThere, IsThere, Promise!Refusal, Refusal, Promise!ByteAt, ByteAt,
       Promise!CodeByte, CodeByte, Promise!SignalOf, SignalOf, Promise!SIGSEGV, SIGSEGV, Promise!SIGBUS, SIGBUS,
       Promise!SIGTRAP, SIGTRAP

\* The promise begins where the call does.
LEMMA PromiseAtFirst == Init => Promise!Init
BY DEF Init, RemoteInit, Promise!Init, Promise!PowerOn, PowerOn, Promise!NoRequest, NoRequest, Promise!Simple, Simple,
       Promise!Request, Request, Promise!NoBytes, NoBytes, Promise!Refusal, Refusal, Promise!Answer, Answer

\* Every step of a call, of the monitor and of the process is one of the promise,
\* or changes nothing that the promise speaks of.
LEMMA StepKeepsPromise ==
    ASSUME Inv, QuietInv, [Next]_vars, faults' = 0
    PROVE  [Promise!Next]_Promise!cvars
<1>1. Phase /\ AnswerInv /\ LineInv
  BY DEF QuietInv, Inv
<1>2. ASSUME UNCHANGED <<device, request, stage, times, answer, result>>
      PROVE  [Promise!Next]_Promise!cvars
  BY <1>2 DEF Promise!cvars
<1>3. CASE ThunkStep \/ StartStep \/ StartAccess
  <2>1. CASE UNCHANGED rvars
    BY <1>2, <2>1 DEF rvars, monitor, caller
  <2>2. CASE \E asked \in Asked : BeginCall(asked) \/ CallTooLong(asked)
    <3>1. PICK asked \in Asked : BeginCall(asked) \/ CallTooLong(asked)
      BY <2>2
    <3>2. /\ request' = asked /\ times' = 0 /\ device' = device /\ result' = result /\ answer' = Refusal
          /\ stage # "open" /\ stage' \in {"open", "failed"}
      BY <1>1, <3>1, BeginPhase
    <3>3. asked.op \in Promise!Operations
      BY DEF Asked, Operations, Promise!Operations
    <3>4. Promise!Refusal = Refusal
      BY DEF Promise!Refusal, Refusal, Promise!Answer, Answer, Promise!NoBytes, NoBytes
    <3> QED BY <3>2, <3>3, <3>4 DEF Promise!Next, Promise!Call
  <2> QED BY <1>3, <2>1, <2>2, ThunkAsks
<1>4. CASE ClientReceives \/ MonitorReceives
  BY <1>2, <1>4 DEF ClientReceives, MonitorReceives, Receive, monitor, caller
<1>5. CASE CallerSteps
  <2>1. CallerStep
    BY <1>5 DEF CallerSteps
  <2>2. /\ UNCHANGED <<monitor, request>>
        /\ \/ UNCHANGED <<stage, result>>
           \/ /\ stage = "open" /\ times = 1 /\ stage' = "returned"
              /\ Promise!MayReturn(request, answer) /\ result' = Promise!Result(request, answer)
           \/ /\ stage = "open" /\ stage' = "failed" /\ result' = result
    BY <1>1, <2>1, CallerPhase
  <2>3. UNCHANGED <<device, times, answer, request>>
    BY <2>2 DEF monitor
  <2> HIDE DEF Promise!MayReturn, Promise!Result
  <2> QED BY <1>2, <2>2, <2>3 DEF Promise!Next, Promise!Return, Promise!Fail
<1>6. CASE MonitorSteps
  <2>1. MonitorStep
    BY <1>6 DEF MonitorSteps
  <2>2. /\ UNCHANGED <<request, stage, result>>
        /\ \/ UNCHANGED <<device, times, answer>>
           \/ /\ times = 0 /\ times' = 1
              /\ device' = After(device, request) /\ answer' = AnswerTo(device, request)
    BY <1>1, <2>1, MonitorPhase
  <2>3. device' = After(device, request) => device' = Promise!After(device, request)
    BY PromiseIsOfThisDevice
  <2>4. answer' = AnswerTo(device, request) => answer' = Promise!AnswerTo(device, request)
    BY PromiseIsOfThisDevice
  <2> HIDE DEF Promise!After, Promise!AnswerTo
  <2> QED BY <1>2, <2>2, <2>3, <2>4 DEF Promise!Next, Promise!CarryOut
<1>7. CASE Restart
  BY <1>2, <1>7 DEF Restart, monitor, caller
<1>8. CASE UNCHANGED vars
  BY <1>2, <1>8 DEF vars, rvars, monitor, caller
<1> QED BY <1>3, <1>4, <1>5, <1>6, <1>7, <1>8 DEF Next, Process, DeviceProcess

\* A call returns with the answer to its own request, which the device has
\* carried out once, and fails otherwise: as long as the line makes no fault,
\* whatever else the constants are, each step of the model is one of RemoteCall.
THEOREM QuietCallsKeepPromise ==
    Spec => Promise!Init /\ [][faults' = 0 => [Promise!Next]_Promise!cvars]_vars
<1>1. Sound /\ [Next]_vars => [faults' = 0 => [Promise!Next]_Promise!cvars]_vars
  <2> SUFFICES ASSUME Sound, [Next]_vars, faults' = 0 PROVE [Promise!Next]_Promise!cvars
    OBVIOUS
  <2>1. Inv /\ QuietInv
    BY FaultsStay DEF Sound
  <2> QED BY <2>1, StepKeepsPromise
<1> QED BY <1>1, PromiseAtFirst, SoundAlways, PTL DEF Spec

\* Over a line that makes no fault, a call is what RemoteCall says of it.
THEOREM CallsOverQuietLine ==
    ASSUME MaxFaults = 0
    PROVE  Spec => ImplementsRemoteCall
<1>1. Sound /\ Sound' /\ [Next]_vars => [Promise!Next]_Promise!cvars
  <2> SUFFICES ASSUME Sound, Sound', [Next]_vars PROVE [Promise!Next]_Promise!cvars
    OBVIOUS
  <2>1. faults = 0 /\ faults' = 0
    BY DEF Sound, Inv, LineInv
  <2> QED BY <2>1, StepKeepsPromise DEF Sound
<1> QED BY <1>1, PromiseAtFirst, SoundAlways, PTL DEF Spec, ImplementsRemoteCall, Promise!CallSpec

\* What has been returned to the process is the answer to its request.
LEMMA ReturnedIs ==
    ASSUME Inv, QuietInv, NEW call, Returned(call), request # NoRequest
    PROVE  /\ request \in Asked /\ times = 1
           /\ request.op = "g" => result[1] = device.pc
           /\ request.op = "s" => result = answer.bytes
           /\ request.op = "G" => device.pc = request.bytes[1]
           /\ request.op = "m" /\ request.size \in {2, 4} =>
                  \A k \in 1 .. request.size : result[k] = ByteAt(device, request.address + k - 1)
<1>1. /\ stage = "returned" /\ times = 1 /\ request \in Asked
      /\ Promise!MayReturn(request, answer) /\ result = Promise!Result(request, answer)
      /\ answer \in Answers /\ Suits(request, answer)
      /\ request.op \in {"g", "m"} => answer = AnswerTo(device, request)
      /\ request.op = "G" => device.pc = request.bytes[1]
  BY DEF Returned, QuietInv, AnswerInv
<1>2. Promise!Refusal = Refusal
  BY DEF Promise!Refusal, Refusal, Promise!Answer, Answer, Promise!NoBytes, NoBytes
<1>3. Refusal.kind = "refused"
  BY DEF Refusal, Answer
<1>4. answer # Refusal => result = answer.bytes
  BY <1>1, <1>2 DEF Promise!Result
<1>5. ASSUME request.op = "g" PROVE result[1] = device.pc
  <2>1. answer = Answer("bytes", <<device.pc>>)
    BY <1>1, <1>5 DEF AnswerTo
  <2>2. answer.kind = "bytes" /\ answer.bytes[1] = device.pc
    BY <2>1 DEF Answer
  <2> QED BY <1>3, <1>4, <2>2
<1>6. ASSUME request.op = "s" PROVE result = answer.bytes
  <2>1. answer.kind = "signal"
    BY <1>1, <1>6 DEF Suits
  <2> QED BY <1>3, <1>4, <2>1
<1>7. ASSUME request.op = "m", request.size \in {2, 4}, NEW k \in 1 .. request.size
      PROVE  result[k] = ByteAt(device, request.address + k - 1)
  <2>1. answer = Read(device, request.address, request.size)
    BY <1>1, <1>7 DEF AnswerTo
  <2>2. answer # Refusal /\ answer.kind = "bytes" /\ Len(answer.bytes) = request.size
    <3>1. request.size # 1
      BY <1>7
    <3>2. answer = Refusal \/ answer.kind = "bytes"
      BY <1>1, <1>7 DEF Suits
    <3> QED BY <1>1, <1>2, <1>3, <1>7, <3>1, <3>2 DEF Promise!MayReturn
  <2>3. device \in States /\ request.address \in Int /\ request.size \in Nat
    <3>1. request.address \in UIntegers
      BY <1>1 DEF Asked
    <3> QED BY <1>7, <3>1 DEF UIntegers, Inv, DeviceInv
  <2>4. answer.bytes[k] = ByteAt(device, request.address + k - 1)
    <3> HIDE DEF Refusal
    <3> QED BY <1>7, <2>1, <2>2, <2>3, ReadIs
  <2> QED BY <1>4, <2>2, <2>4
<1> QED BY <1>1, <1>5, <1>6, <1>7

\* The instruction that a step executes, which is not the handler's.
LEMMA ExecutesIs ==
    ASSUME NEW state \in States, NEW pc \in Starts, state.pc = pc
    PROVE  LET stepped == Step(state)
           IN  /\ stepped.pc = Landing(pc) /\ SignalOf(state) = SignalAt(pc)
               /\ InstructionAt(pc) = "svc" => stepped.back = pc + 2
               /\ InstructionAt(pc) \in {"undefined", "fault"} => stepped.undefined = (InstructionAt(pc) = "undefined")
<1>1. InstructionAt(pc) # "return"
  BY StartsAssumption
<1>2. SignalOf(state) = SignalAt(pc)
  <2>1. [PowerOn EXCEPT !.pc = pc].pc = pc
    BY DEF PowerOn
  <2> QED BY <2>1 DEF SignalAt, SignalOf
<1> USE DEF States
<1>3. CASE InstructionAt(pc) = "plain"
  BY <1>2, <1>3 DEF Step, Landing, Arrival
<1>4. CASE InstructionAt(pc) = "svc"
  BY <1>2, <1>4 DEF Step, Landing, Arrival
<1>5. CASE InstructionAt(pc) \in {"bkpt", "bus"}
  BY <1>2, <1>5 DEF Step, Landing, Arrival
<1>6. CASE InstructionAt(pc) = "undefined"
  BY <1>2, <1>6 DEF Step, Landing, Arrival
<1>7. CASE InstructionAt(pc) \notin {"plain", "svc", "bkpt", "bus", "undefined"}
  BY <1>1, <1>2, <1>7 DEF Step, Landing, Arrival
<1> QED BY <1>3, <1>4, <1>5, <1>6, <1>7

\* What each signal tells of the instruction.
LEMMA SignalTells ==
    ASSUME NEW pc \in Starts
    PROVE  /\ SignalAt(pc) = SIGSEGV <=> InstructionAt(pc) \in {"undefined", "fault"}
           /\ SignalAt(pc) \notin {SIGSEGV, SIGTRAP} => InstructionAt(pc) = "bus"
           /\ SignalAt(pc) = SIGTRAP => InstructionAt(pc) \in {"plain", "svc", "bkpt"}
<1>1. [PowerOn EXCEPT !.pc = pc].pc = pc
  BY DEF PowerOn
<1>2. InstructionAt(pc) \in Kinds \ {"return"}
  BY StartsAssumption, DeviceAssumption DEF InstructionAt, Kinds
<1> QED BY <1>1, <1>2 DEF SignalAt, SignalOf, SIGSEGV, SIGTRAP, SIGBUS, Kinds

\* Where the status and the vector are read, and that they tell.
LEMMA TablesAre ==
    ASSUME NEW state \in States
    PROVE  /\ ByteAt(state, Status) = IF state.undefined THEN 1 ELSE 0
           /\ ByteAt(state, Vector) = Handler + 1 /\ ByteAt(state, Vector + 1) = 0
<1>1. Vector \in Nat /\ Status \in Nat
  BY DeviceAssumption DEF Bytes
<1>2. Vector \in Vector .. Vector + 3 /\ Vector + 1 \in Vector .. Vector + 3 /\ Status \in Status .. Status + 1
  BY <1>1
<1>3. /\ Vector \notin Cells /\ Vector + 1 \notin Cells /\ Status \notin Cells
      /\ Vector # Status /\ Vector + 1 # Status /\ Vector + 1 # Vector
  BY <1>1, <1>2, LayoutAssumption
<1>4. Vector \notin DOMAIN Instructions
  <2> SUFFICES ASSUME Vector \in DOMAIN Instructions PROVE FALSE
    OBVIOUS
  <2>1. (Vector .. Vector + 3) \cap (Cells \cup (Vector .. Vector + 3) \cup (Status .. Status + 1)) = {}
    BY LayoutAssumption
  <2> QED BY <1>2, <2>1
<1>5. CodeByte(Vector + 1) = 0
  <2>1. (Vector + 1) - 1 = Vector
    BY <1>1
  <2> QED BY <1>4, <2>1 DEF CodeByte, InstructionAt
<1> QED BY <1>3, <1>5 DEF ByteAt

\* The handler's address, and what it tells of the instruction.
LEMMA HandlerIs ==
    ASSUME NEW pc \in Starts
    PROVE  /\ InstructionAt(Handler) = "return"
           /\ (Handler + 1) - ((Handler + 1) % 2) + 256 * 0 = Handler
           /\ SignalAt(pc) = SIGTRAP => (Landing(pc) = Handler <=> InstructionAt(pc) = "svc")
<1>1. InstructionAt(Handler) = "return"
  BY LayoutAssumption
<1>2. (Handler + 1) - ((Handler + 1) % 2) + 256 * 0 = Handler
  <2>1. Handler \in Nat /\ Handler % 2 = 0
    BY DeviceAssumption DEF Bytes
  <2> QED BY <2>1
<1>3. /\ InstructionAt(pc) # "return" /\ (InstructionAt(pc) = "plain" => pc + 2 # Handler)
  BY StartsAssumption
<1> QED BY <1>1, <1>2, <1>3 DEF Landing, Arrival

\* A half-word of the program that is BKPT is told from one that is not.
LEMMA BkptIs ==
    ASSUME NEW state \in States, NEW pc \in Starts, InstructionAt(pc) \in {"plain", "bkpt"}
    PROVE  ByteAt(state, Arrival(pc) + 1) = 190 <=> InstructionAt(Arrival(pc)) = "bkpt"
<1>1. pc \in DOMAIN Instructions /\ pc \in Nat
  BY DeviceAssumption DEF InstructionAt, Bytes
<1>2. pc % 2 = 0 /\ (pc .. pc + 3) \cap (Cells \cup (Vector .. Vector + 3) \cup (Status .. Status + 1)) = {}
  BY <1>1, LayoutAssumption
<1>3. Vector \in Vector .. Vector + 3 /\ Status \in Status .. Status + 1
  BY DeviceAssumption DEF Bytes
<1>4. Arrival(pc) \in {pc, pc + 2}
  BY DEF Arrival
<1>5. /\ Arrival(pc) + 1 \in pc .. pc + 3 /\ (Arrival(pc) + 1) % 2 = 1 /\ (Arrival(pc) + 1) - 1 = Arrival(pc)
  BY <1>1, <1>2, <1>4
<1>6. Arrival(pc) + 1 \notin Cells /\ Arrival(pc) + 1 # Vector /\ Arrival(pc) + 1 # Status
  BY <1>2, <1>3, <1>5
<1>7. ByteAt(state, Arrival(pc) + 1) = CodeByte(Arrival(pc) + 1)
  BY <1>6 DEF ByteAt
<1> QED BY <1>5, <1>7 DEF CodeByte

\* What a call does to the device while it is under way.
LEMMA CarriedOutInStep ==
    ASSUME Inv, QuietInv, StepInv, MonitorStep, faults' = 0, UNCHANGED thunk
    PROVE  StepInv'
<1>1. /\ UNCHANGED <<request, stage, result>>
      /\ \/ UNCHANGED <<device, times, answer>>
         \/ /\ request \in Asked /\ stage = "open" /\ times = 0 /\ times' = 1
            /\ device' = After(device, request) /\ answer' = AnswerTo(device, request)
  BY MonitorPhase DEF QuietInv
<1>2. /\ at' = at /\ context' = context /\ signal' = signal /\ outcome' = outcome /\ began' = began
  BY DEF thunk
<1>3. CASE UNCHANGED <<device, times, answer>>
  BY <1>1, <1>2, <1>3 DEF StepInv, CallsInv, Ran, StepsTellWhatRan
<1>4. CASE /\ request \in Asked /\ stage = "open" /\ times = 0 /\ times' = 1
           /\ device' = After(device, request) /\ answer' = AnswerTo(device, request)
  <2>1. at \notin {"idle", "dead"} /\ device \in States
    BY <1>4 DEF QuietInv, ProcessInv, Inv, DeviceInv
  <2>2. request.op \in {"g", "m"} => device' = device
    BY <1>4, <2>1, AnswerSuits
  <2>3. ASSUME device' = device, at \notin {"singleStep", "stepOut"} PROVE StepInv'
    BY <1>1, <1>2, <2>1, <2>3 DEF StepInv, CallsInv, Ran, StepsTellWhatRan
  <2>4. CASE at \in {"getRegisters", "getAgain"}
    <3>1. request = Simple("g")
      BY <2>4 DEF StepInv, CallsInv
    <3> QED BY <2>2, <2>3, <2>4, <3>1 DEF Simple, Request
  <2>5. CASE at \in {"faultStatus", "vector", "instruction"}
    <3>1. request.op = "m"
      BY <2>5 DEF StepInv, CallsInv, ReadRequest, Request
    <3> QED BY <2>2, <2>3, <2>5, <3>1
  <2>6. CASE at = "singleStep"
    <3>1. request = Simple("s") /\ device.pc = began /\ began \in Starts
      BY <1>4, <2>6 DEF StepInv, CallsInv
    <3>2. device' = Step(device) /\ answer' = Answer("signal", <<SignalOf(device)>>)
      <4>1. request.op = "s"
        BY <3>1 DEF Simple, Request
      <4> QED BY <1>4, <4>1 DEF After, AnswerTo
    <3>3. Ran' /\ SignalOf(device) = SignalAt(began)
      <4>1. /\ device'.pc = Landing(began) /\ SignalOf(device) = SignalAt(began)
            /\ InstructionAt(began) = "svc" => device'.back = began + 2
            /\ InstructionAt(began) \in {"undefined", "fault"} =>
                   device'.undefined = (InstructionAt(began) = "undefined")
        BY <2>1, <3>1, <3>2, ExecutesIs
      <4> QED BY <1>2, <4>1 DEF Ran
    <3>4. answer'.bytes = <<SignalAt(began')>>
      BY <1>2, <3>2, <3>3 DEF Answer
    <3> QED BY <1>1, <1>2, <1>4, <2>6, <3>1, <3>3, <3>4 DEF StepInv, CallsInv, StepsTellWhatRan
  <2>7. CASE at = "stepOut"
    <3>1. /\ request = Simple("s") /\ device.pc = Handler /\ device.back = began + 2 /\ began \in Starts
          /\ InstructionAt(began) = "svc"
      BY <1>4, <2>7 DEF StepInv, CallsInv
    <3>2. device' = Step(device)
      <4>1. request.op = "s"
        BY <3>1 DEF Simple, Request
      <4> QED BY <1>4, <4>1 DEF After
    <3>3. device'.pc = began + 2
      <4>1. InstructionAt(device.pc) = "return"
        BY <3>1, HandlerIs
      <4> QED BY <2>1, <3>1, <3>2, <4>1 DEF Step, States
    <3> QED BY <1>1, <1>2, <1>4, <2>7, <3>1, <3>3 DEF StepInv, CallsInv, StepsTellWhatRan
  <2>8. CASE at = "setRegisters"
    <3>1. request = Request("G", 0, 0, <<began>>)
      BY <2>8 DEF StepInv, CallsInv
    <3> QED BY <1>1, <1>2, <2>8 DEF StepInv, CallsInv, StepsTellWhatRan
  <2>9. CASE at = "memory"
    BY <1>2, <2>9 DEF StepInv, CallsInv, StepsTellWhatRan
  <2>10. at \in Places2
    BY DEF Inv, RoutineInv
  <2> QED BY <2>1, <2>4, <2>5, <2>6, <2>7, <2>8, <2>9, <2>10 DEF Places2
<1> QED BY <1>1, <1>3, <1>4

\* The steps of the process, each behind the call that it needs.
LEMMA NextCallInStep ==
    ASSUME Inv, QuietInv, StepInv, ThunkStep, faults' = 0
    PROVE  StepInv'
<1>1. /\ device \in States /\ Phase /\ AnswerInv
      /\ context \in Bytes /\ Vector \in Bytes /\ Status \in Bytes
  BY DeviceAssumption DEF QuietInv, Inv, DeviceInv, RoutineInv
<1>2. ASSUME NEW asked \in Asked, BeginCall(asked)
      PROVE  request' = asked /\ times' = 0 /\ device' = device
  BY <1>1, <1>2, BeginPhase
<1>3. ASSUME NEW call, Returned(call), call \notin {"idle", "dead", "memory"}
      PROVE  began \in Starts
  BY <1>3 DEF Returned, StepInv
<1>4. \A op \in {"g", "s"} : Simple(op) \in Asked /\ Simple(op).op = op /\ Simple(op) # NoRequest
  <2>1. \A op : Simple(op).op = op
    BY DEF Simple, Request
  <2>2. NoRequest.op = "none"
    BY <2>1 DEF NoRequest
  <2> QED BY <2>1, <2>2, AskedIs
<1>5. \A address \in Bytes, size \in {2, 4} :
         LET asked == ReadRequest(address, size)
         IN  asked \in Asked /\ asked.op = "m" /\ asked.address = address /\ asked.size = size /\ asked # NoRequest
  <2>1. \A address, size : LET asked == ReadRequest(address, size)
                           IN  asked.op = "m" /\ asked.address = address /\ asked.size = size
    BY DEF ReadRequest, Request
  <2>2. NoRequest.op = "none"
    BY DEF NoRequest, Simple, Request
  <2> QED BY <2>1, <2>2, AskedIs
<1>6. ASSUME NEW address \in Bytes, NEW size \in {2, 4}, request = ReadRequest(address, size),
             NEW call, Returned(call), NEW k \in 1 .. size
      PROVE  result[k] = ByteAt(device, address + k - 1)
  <2>1. request # NoRequest /\ request.op = "m" /\ request.size = size /\ request.address = address
    BY <1>5, <1>6
  <2> QED BY <1>6, <2>1, ReturnedIs
<1>7. ASSUME request = Simple("g"), NEW call, Returned(call)
      PROVE  result[1] = device.pc
  <2>1. request # NoRequest /\ request.op = "g"
    BY <1>4, <1>7
  <2> QED BY <1>7, <2>1, ReturnedIs
<1>8. CASE SingleStep
  <2>1. request = Request("G", 0, 0, <<began>>) /\ Returned("setRegisters") /\ BeginCall(Simple("s"))
    BY <1>8 DEF SingleStep, Returned, StepInv, CallsInv
  <2>2. request.op = "G" /\ request.bytes[1] = began /\ request # NoRequest
    BY <2>1 DEF Request, NoRequest, Simple
  <2>3. device.pc = began
    BY <2>1, <2>2, ReturnedIs
  <2>4. request' = Simple("s") /\ times' = 0 /\ device' = device
    BY <1>2, <1>4, <2>1
  <2>5. at' = "singleStep" /\ began' = began /\ began \in Starts
    BY <1>3, <1>8, <2>1 DEF SingleStep, Goes
  <2> QED BY <2>3, <2>4, <2>5 DEF StepInv, CallsInv, StepsTellWhatRan
<1>9. CASE GetRegisters
  <2>1. request = Simple("s") /\ Returned("singleStep") /\ BeginCall(Simple("g")) /\ began \in Starts
    BY <1>3, <1>9 DEF GetRegisters, Returned, StepInv, CallsInv
  <2>2. request.op = "s" /\ request # NoRequest
    BY <1>4, <2>1
  <2>3. times = 1 /\ result = answer.bytes
    BY <2>1, <2>2, ReturnedIs
  <2>4. Ran /\ answer.bytes = <<SignalAt(began)>>
    BY <2>1, <2>3 DEF Returned, StepInv, CallsInv
  <2>5. request' = Simple("g") /\ device' = device
    BY <1>2, <1>4, <2>1
  <2>6. at' = "getRegisters" /\ began' = began /\ signal' = SignalAt(began)
    BY <1>9, <2>3, <2>4 DEF GetRegisters, Goes
  <2>7. Ran'
    BY <2>4, <2>5, <2>6 DEF Ran
  <2> QED BY <2>1, <2>5, <2>6, <2>7 DEF StepInv, CallsInv, StepsTellWhatRan
<1>10. ASSUME Returned("getRegisters")
       PROVE  Ran /\ signal = SignalAt(began) /\ began \in Starts /\ result[1] = device.pc /\ device.pc = Landing(began)
  <2>1. request = Simple("g") /\ Ran /\ signal = SignalAt(began)
    BY <1>10 DEF Returned, StepInv, CallsInv
  <2> QED BY <1>3, <1>7, <1>10, <2>1 DEF Ran
<1>11. CASE DetermineHardFaultCause
  <2>1. Returned("getRegisters") /\ BeginCall(ReadRequest(Status, 2)) /\ signal = SIGSEGV
    BY <1>11 DEF DetermineHardFaultCause
  <2>2. request' = ReadRequest(Status, 2) /\ device' = device
    BY <1>1, <1>2, <1>5, <2>1
  <2>3. at' = "faultStatus" /\ began' = began /\ context' = Landing(began)
    BY <1>10, <1>11, <2>1 DEF DetermineHardFaultCause, Goes
  <2>4. Ran'
    BY <1>10, <2>1, <2>2, <2>3 DEF Ran
  <2> QED BY <1>10, <2>1, <2>2, <2>3, <2>4 DEF StepInv, CallsInv, StepsTellWhatRan
<1>12. CASE DetermineDebugTrapCause
  <2>1. Returned("getRegisters") /\ BeginCall(ReadRequest(Vector, 4)) /\ signal = SIGTRAP
    BY <1>12 DEF DetermineDebugTrapCause
  <2>2. request' = ReadRequest(Vector, 4) /\ device' = device
    BY <1>1, <1>2, <1>5, <2>1
  <2>3. at' = "vector" /\ began' = began /\ context' = Landing(began)
    BY <1>10, <1>12, <2>1 DEF DetermineDebugTrapCause, Goes
  <2>4. Ran'
    BY <1>10, <2>1, <2>2, <2>3 DEF Ran
  <2> QED BY <1>10, <2>1, <2>2, <2>3, <2>4 DEF StepInv, CallsInv, StepsTellWhatRan
<1>13. ASSUME Returned("vector")
       PROVE  /\ Ran /\ context = Landing(began) /\ SignalAt(began) = SIGTRAP /\ began \in Starts
              /\ SvcHandlerAddress = Handler
  <2>1. /\ request = ReadRequest(Vector, 4) /\ Ran /\ context = Landing(began) /\ SignalAt(began) = SIGTRAP
    BY <1>13 DEF Returned, StepInv, CallsInv
  <2>2. result[1] = Handler + 1 /\ result[2] = 0
    <3>0. 4 \in {2, 4} /\ 1 \in 1 .. 4 /\ 2 \in 1 .. 4
      OBVIOUS
    <3>1. result[1] = ByteAt(device, Vector + 1 - 1) /\ result[2] = ByteAt(device, Vector + 2 - 1)
      BY <1>1, <1>6, <1>13, <2>1, <3>0
    <3>2. Vector + 1 - 1 = Vector /\ Vector + 2 - 1 = Vector + 1
      BY <1>1 DEF Bytes
    <3> QED BY <1>1, <3>1, <3>2, TablesAre
  <2>3. SvcHandlerAddress = Handler
    BY <1>3, <1>13, <2>2, HandlerIs DEF SvcHandlerAddress
  <2> QED BY <1>3, <1>13, <2>1, <2>3
<1>14. CASE WasSVC
  <2>1. Returned("vector") /\ context = SvcHandlerAddress /\ BeginCall(Simple("s"))
    BY <1>14 DEF WasSVC
  <2>2. InstructionAt(began) = "svc" /\ device.pc = Handler /\ device.back = began + 2
    BY <1>13, <2>1, HandlerIs DEF Ran
  <2>3. request' = Simple("s") /\ times' = 0 /\ device' = device
    BY <1>2, <1>4, <2>1
  <2>4. at' = "stepOut" /\ began' = began
    BY <1>14 DEF WasSVC, Goes
  <2> QED BY <1>13, <2>1, <2>2, <2>3, <2>4 DEF StepInv, CallsInv, StepsTellWhatRan
<1>15. CASE GetRegistersAgain
  <2>1. /\ Returned("stepOut") /\ request = Simple("s") /\ InstructionAt(began) = "svc" /\ began \in Starts
        /\ times = 1 => device.pc = began + 2
    BY <1>3, <1>15 DEF GetRegistersAgain, Returned, StepInv, CallsInv
  <2>2. times = 1
    BY <1>4, <2>1, ReturnedIs
  <2>3. request' = Simple("g") /\ device' = device
    BY <1>2, <1>4, <1>15 DEF GetRegistersAgain
  <2>4. at' = "getAgain" /\ began' = began
    BY <1>15 DEF GetRegistersAgain, Goes
  <2> QED BY <2>1, <2>2, <2>3, <2>4 DEF StepInv, CallsInv, StepsTellWhatRan
<1>16. CASE WasBKPT
  <2>1. Returned("vector") /\ context # SvcHandlerAddress /\ context \in RamBase .. RamEnd - 1
    BY <1>16 DEF WasBKPT
  <2>2. request' = ReadRequest(context, 2) /\ device' = device
    BY <1>1, <1>2, <1>5, <1>16 DEF WasBKPT
  <2>3. at' = "instruction" /\ began' = began /\ context' = context
    BY <1>16 DEF WasBKPT, Goes
  <2>4. Ran' /\ InstructionAt(began) # "svc"
    BY <1>13, <2>1, <2>2, <2>3, HandlerIs DEF Ran
  <2> QED BY <1>13, <2>1, <2>2, <2>3, <2>4 DEF StepInv, CallsInv, StepsTellWhatRan
<1>17. ASSUME NEW how, Ends(how), how \in {"ok", "svc", "bkpt", "undefined", "hardFault"},
              how = StepAnswer(began), context' = Arrival(began), device.pc = Arrival(began)
       PROVE  StepInv'
  <2>1. at' = "idle" /\ outcome' = how /\ device' = device /\ began' = began
    BY <1>17 DEF Ends, rvars, monitor
  <2> QED BY <1>17, <2>1 DEF StepInv, CallsInv, StepsTellWhatRan
<1>18. CASE WasUndefinedInstruction
  <2> DEFINE how == IF result[1] % 2 = 1 THEN "undefined" ELSE "hardFault"
  <2>1. /\ Returned("faultStatus") /\ Ends(how) /\ context' = context
    BY <1>18 DEF WasUndefinedInstruction
  <2>2. /\ request = ReadRequest(Status, 2) /\ Ran /\ context = Landing(began) /\ SignalAt(began) = SIGSEGV
        /\ began \in Starts
    BY <1>3, <2>1 DEF Returned, StepInv, CallsInv
  <2>3. InstructionAt(began) \in {"undefined", "fault"}
    BY <2>2, SignalTells
  <2>4. result[1] = IF device.undefined THEN 1 ELSE 0
    <3>0. 2 \in {2, 4} /\ 1 \in 1 .. 2
      OBVIOUS
    <3>1. result[1] = ByteAt(device, Status + 1 - 1)
      BY <1>1, <1>6, <2>1, <2>2, <3>0
    <3>2. Status + 1 - 1 = Status
      BY <1>1 DEF Bytes
    <3> QED BY <1>1, <3>1, <3>2, TablesAre
  <2>5. how = StepAnswer(began)
    <3>1. device.undefined = (InstructionAt(began) = "undefined")
      BY <2>2, <2>3 DEF Ran
    <3>2. 1 % 2 = 1 /\ 0 % 2 = 0
      OBVIOUS
    <3>3. CASE InstructionAt(began) = "undefined"
      BY <2>4, <3>1, <3>2, <3>3 DEF StepAnswer
    <3>4. CASE InstructionAt(began) = "fault"
      <4>1. ~device.undefined
        BY <3>1, <3>4
      <4>2. result[1] = 0
        BY <2>4, <4>1
      <4>3. how = "hardFault"
        BY <3>2, <4>2
      <4> QED BY <3>4, <4>3 DEF StepAnswer
    <3> QED BY <2>3, <3>3, <3>4
  <2>6. Landing(began) = Arrival(began) /\ device.pc = Landing(began)
    BY <2>2, <2>3 DEF Landing, Ran
  <2>7. how \in {"ok", "svc", "bkpt", "undefined", "hardFault"}
    OBVIOUS
  <2> HIDE DEF how
  <2> QED BY <1>17, <2>1, <2>2, <2>5, <2>6, <2>7
<1>19. CASE OtherSignal
  <2>1. Returned("getRegisters") /\ signal \notin {SIGTRAP, SIGSEGV} /\ context' = result[1] /\ Ends("ok")
    BY <1>19 DEF OtherSignal
  <2>2. InstructionAt(began) = "bus"
    BY <1>10, <2>1, SignalTells
  <2>3. Arrival(began) = began /\ Landing(began) = began /\ StepAnswer(began) = "ok"
    BY <2>2 DEF Arrival, Landing, StepAnswer
  <2> QED BY <1>10, <1>17, <2>1, <2>3
<1>20. CASE SteppedOut
  <2>1. /\ Returned("getAgain") /\ context' = result[1] /\ Ends("svc")
        /\ request = Simple("g") /\ InstructionAt(began) = "svc" /\ device.pc = began + 2
    BY <1>20 DEF SteppedOut, Returned, StepInv, CallsInv
  <2>2. Arrival(began) = began + 2 /\ StepAnswer(began) = "svc"
    BY <2>1 DEF Arrival, StepAnswer
  <2>3. result[1] = device.pc
    BY <1>7, <2>1
  <2> QED BY <1>17, <2>1, <2>2, <2>3
<1>21. CASE NotInRam
  <2>1. /\ Returned("vector") /\ context # SvcHandlerAddress /\ context \notin RamBase .. RamEnd - 1
        /\ Ends("ok") /\ context' = context
    BY <1>21 DEF NotInRam
  <2>2. InstructionAt(began) \in {"plain", "bkpt"}
    BY <1>13, <2>1, HandlerIs, SignalTells
  <2>3. Landing(began) = Arrival(began) /\ device.pc = Landing(began)
    BY <1>13, <2>1, <2>2 DEF Landing, Ran
  <2>4. StepAnswer(began) = "ok"
    BY <1>13, <2>1, <2>2, <2>3 DEF StepAnswer
  <2> QED BY <1>13, <1>17, <2>1, <2>3, <2>4
<1>22. CASE InstructionRead
  <2> DEFINE how == IF result[2] = 190 THEN "bkpt" ELSE "ok"
  <2>1. Returned("instruction") /\ Ends(how) /\ context' = context
    BY <1>22 DEF InstructionRead
  <2>2. /\ request = ReadRequest(context, 2) /\ Ran /\ context = Landing(began) /\ SignalAt(began) = SIGTRAP
        /\ InstructionAt(began) # "svc" /\ context \in RamBase .. RamEnd - 1 /\ began \in Starts
    BY <1>3, <2>1 DEF Returned, StepInv, CallsInv
  <2>3. InstructionAt(began) \in {"plain", "bkpt"}
    BY <2>2, SignalTells
  <2>4. Landing(began) = Arrival(began) /\ device.pc = Landing(began)
    BY <2>2, <2>3 DEF Landing, Ran
  <2>5. result[2] = 190 <=> InstructionAt(Arrival(began)) = "bkpt"
    <3>0. 2 \in {2, 4} /\ 2 \in 1 .. 2
      OBVIOUS
    <3>1. result[2] = ByteAt(device, context + 2 - 1)
      BY <1>1, <1>6, <2>1, <2>2, <3>0
    <3>2. context + 2 - 1 = context + 1
      BY <1>1 DEF Bytes
    <3> QED BY <1>1, <2>2, <2>3, <2>4, <3>1, <3>2, BkptIs
  <2>6. how = StepAnswer(began)
    BY <2>2, <2>3, <2>4, <2>5 DEF StepAnswer
  <2>7. how \in {"ok", "svc", "bkpt", "undefined", "hardFault"}
    OBVIOUS
  <2> HIDE DEF how
  <2> QED BY <1>17, <2>1, <2>2, <2>4, <2>6, <2>7
<1>23. CASE AccessReturns
  <2>1. at' = "idle" /\ outcome' = "accessed"
    BY <1>23 DEF AccessReturns, Ends
  <2> QED BY <2>1 DEF StepInv, CallsInv, StepsTellWhatRan
<1>24. CASE Dies
  <2>1. at' = "dead" /\ outcome' = "failed"
    BY <1>24 DEF Dies
  <2> QED BY <2>1 DEF StepInv, CallsInv, StepsTellWhatRan
<1> QED BY <1>8, <1>9, <1>11, <1>12, <1>14, <1>15, <1>16, <1>18, <1>19, <1>20, <1>21, <1>22, <1>23, <1>24
        DEF ThunkStep

\* What each call of a step rests on is there, whatever steps are taken.
LEMMA StepInvStep ==
    ASSUME Inv, QuietInv, StepInv, [Next]_vars, faults' = 0
    PROVE  StepInv'
<1>1. ASSUME UNCHANGED <<device, times, answer, request>>, UNCHANGED thunk
      PROVE  StepInv'
  BY <1>1 DEF thunk, StepInv, CallsInv, Ran, StepsTellWhatRan
<1>2. CASE StartStep
  <2>1. PICK pc \in Starts : context' = pc /\ began' = pc /\ BeginCall(Request("G", 0, 0, <<pc>>))
    BY <1>2 DEF StartStep
  <2>2. request' = Request("G", 0, 0, <<began'>>) /\ at' = "setRegisters"
    BY <1>2, <2>1 DEF StartStep, BeginCall
  <2> QED BY <2>1, <2>2 DEF StepInv, CallsInv, StepsTellWhatRan
<1>3. CASE StartAccess
  <2>1. at' = "memory"
    BY <1>3 DEF StartAccess
  <2> QED BY <2>1 DEF StepInv, CallsInv, StepsTellWhatRan
<1>4. CASE Restart
  <2>1. at = "dead" /\ at' = "idle" /\ outcome' = outcome
    BY <1>4 DEF Restart
  <2>2. outcome' = "failed"
    BY <2>1 DEF StepInv
  <2> QED BY <2>1, <2>2 DEF StepInv, CallsInv, StepsTellWhatRan
<1>5. CASE ClientReceives \/ MonitorReceives
  BY <1>1, <1>5 DEF ClientReceives, MonitorReceives, Receive, monitor, caller
<1>6. CASE CallerSteps
  <2>1. UNCHANGED <<monitor, request>>
    BY <1>6, CallerPhase DEF CallerSteps, QuietInv, Inv
  <2> QED BY <1>1, <1>6, <2>1 DEF CallerSteps, monitor
<1>7. CASE UNCHANGED vars
  BY <1>1, <1>7 DEF vars, rvars, monitor, caller
<1> QED BY <1>2, <1>3, <1>4, <1>5, <1>6, <1>7, NextCallInStep, CarriedOutInStep
        DEF Next, Process, DeviceProcess, MonitorSteps

\* As long as the line makes no fault, a step that ends has executed exactly the
\* instruction it began at, and an SVC with its handler; it leaves the context
\* as the device left its registers, and tells of each instruction, in RAM, in
\* ROM or not there, what it was.  So it is for every program, layout of the
\* device's memory and set of starts that the assumptions admit.
THEOREM StepsTellOverQuietLine == Spec => [](faults = 0 => StepsTellWhatRan)
<1> DEFINE StepSound == faults = 0 => StepInv
<1>1. Init => StepSound
  BY DEF Init, StepInv, CallsInv, StepsTellWhatRan
<1>2. Sound /\ StepSound /\ [Next]_vars => StepSound'
  <2> SUFFICES ASSUME Sound, StepSound, [Next]_vars, faults' = 0 PROVE StepInv'
    OBVIOUS
  <2>1. Inv /\ QuietInv /\ StepInv
    BY FaultsStay DEF Sound
  <2> QED BY <2>1, StepInvStep
<1>3. StepSound => (faults = 0 => StepsTellWhatRan)
  BY DEF StepInv
<1> QED BY <1>1, <1>2, <1>3, SoundAlways, PTL DEF Spec
=============================================================================
