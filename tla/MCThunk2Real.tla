---------------------------- MODULE MCThunk2Real ----------------------------
EXTENDS Thunk2Real, TLC

\* A test program in RAM (from 128) and in ROM (from 16), and the handler at 64.
Program ==
    (16 :> "plain") @@ (18 :> "bkpt") @@ (64 :> "return")
        @@ (128 :> "plain") @@ (130 :> "bkpt") @@ (132 :> "svc") @@ (134 :> "undefined") @@ (136 :> "bus")

\* Data of one byte; the address behind it is not there.
OneCell == {160}

RomAndRam == {16, 128, 132, 134, 136, 200}

\* A byte written, read, read in part, refused, and two bytes that do not fit.
Accesses ==
    {Request("M", 160, 1, <<7>>), Request("m", 160, 1, NoBytes), Request("m", 160, 2, NoBytes),
     Request("m", 161, 1, NoBytes), Request("M", 161, 1, <<7>>), Request("M", 160, 2, <<7, 7>>)}

-----------------------------------------------------------------------------
(* The numbers of a buffer, which no request of these instances writes.    *)

Empty(size) == BufferInit([k \in 1 .. size |-> 0])
Back(written) == BufferReset(SetEndOfBuffer(written.buffer))

\* What is written in hexadecimal is read back, up to the end and no further,
\* be it unsigned or the smallest of the signed.
ASSUME UIntegersAreReadBack ==
    \A value \in UIntegers, size \in 2 .. 3 :
        LET read == ReadUIntegerAsHex(Back(WriteUIntegerAsHex(Empty(size), value)))
        IN  read.thrown = "none" /\ read.value = value /\ BytesLeft(read.buffer) = 0

ASSUME IntegersAreReadBack ==
    \A value \in -(UIntRange \div 2) .. (UIntRange \div 2) - 1, size \in 3 .. 4 :
        LET read == ReadIntegerAsHex(Back(WriteIntegerAsHex(Empty(size), value)))
        IN  read.thrown = "none" /\ read.value = value /\ BytesLeft(read.buffer) = 0

\* A text is matched in front of a colon and at the end, and nowhere else.
ASSUME TextsAreMatchedWhole ==
    \A behind \in {<< >>, <<58>>, <<81>>} :
        LET matched == MatchesString(BufferInit(<<81, 113>> \o behind), <<81, 113>>)
        IN  /\ matched.thrown = "none"
            /\ (matched.value = 1) = (behind # <<81>>)
            /\ matched.buffer.pos = 2 * matched.value
=============================================================================
