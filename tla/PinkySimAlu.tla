----------------------------- MODULE PinkySimAlu -----------------------------
(***************************************************************************)
(* The arithmetic of the CPU core (libpinkysim/src/pinkySim.c): words of   *)
(* Width bits, addition with carry, the four shifts, the flags and the     *)
(* conditions on them.  All operators are pure.                            *)
(***************************************************************************)
EXTENDS Integers

CONSTANTS
    Width,      \* bits of a word: 32 in the C code
    SignBit     \* the value of the highest one, 1 << 31

ASSUME WordAssumption == Width \in Nat /\ Width >= 4 /\ SignBit = 2 ^ (Width - 1)
ASSUME PowersAssumption ==
    2 ^ 0 = 1 /\ \A k \in 0 .. (Width - 1) : 2 ^ (k + 1) = 2 * 2 ^ k

WordRange == 2 * SignBit
Word      == 0 .. (WordRange - 1)

Wrap(n)   == n % WordRange
Signed(x) == IF x >= SignBit THEN x - WordRange ELSE x
Not(x)    == WordRange - 1 - x
Bit(x, k) == (x \div 2 ^ k) % 2 = 1

-----------------------------------------------------------------------------
(* Sums.                                                                   *)

\* Mutated form of AddWithCarry: the carry misses the sum that wraps to 0.
AddWithCarry_ResultLess(x, y, carry) ==
    LET carryIn     == IF carry THEN 1 ELSE 0
        unsignedSum == x + y + carryIn
        result      == Wrap(unsignedSum)
    IN  [result   |-> result,
         carryOut |-> result < x,
         overflow |-> Signed(result) # Signed(x) + Signed(y) + carryIn]

\* The carry and the overflow are told by the sums in a wider type.
AddWithCarry(x, y, carry) ==
    LET carryIn     == IF carry THEN 1 ELSE 0
        unsignedSum == x + y + carryIn
        signedSum   == Signed(x) + Signed(y) + carryIn
        result      == Wrap(unsignedSum)
    IN  [result   |-> result,
         carryOut |-> result # unsignedSum,
         overflow |-> Signed(result) # signedSum]

-----------------------------------------------------------------------------
(* Shifts.  The amount is positive.                                        *)

LSL_C(x, n) ==
    [result   |-> IF n >= Width THEN 0 ELSE Wrap(x * 2 ^ n),
     carryOut |-> n <= Width /\ Bit(x, Width - n)]

LSR_C(x, n) ==
    [result   |-> IF n >= Width THEN 0 ELSE x \div 2 ^ n,
     carryOut |-> n <= Width /\ Bit(x, n - 1)]

\* Shifted out entirely, a word is its sign.
ASR_C(x, n) ==
    [result   |-> IF n < Width THEN Wrap(Signed(x) \div 2 ^ n)
                  ELSE IF x >= SignBit THEN WordRange - 1 ELSE 0,
     carryOut |-> IF n > Width THEN x >= SignBit ELSE Bit(x, n - 1)]

\* The two parts share no bit, so their sum is their union.
ROR_C(x, n) ==
    LET m      == n % Width
        low    == IF m = 0 THEN x ELSE LSR_C(x, m).result
        result == low + LSL_C(x, Width - m).result
    IN  [result |-> result, carryOut |-> result >= SignBit]

\* Mutated form of Shift_C: a shift by the width or more is a shift by the rest.
Shift_C_Masked(x, type, n, carry) ==
    LET m == n % Width
    IN  CASE m = 0        -> [result |-> x, carryOut |-> carry]
          [] type = "lsl" -> LSL_C(x, m)
          [] type = "lsr" -> LSR_C(x, m)
          [] type = "asr" -> ASR_C(x, m)
          [] type = "ror" -> ROR_C(x, m)

\* A shift by nothing keeps the carry.
Shift_C(x, type, n, carry) ==
    CASE n = 0        -> [result |-> x, carryOut |-> carry]
      [] n # 0 /\ type = "lsl" -> LSL_C(x, n)
      [] n # 0 /\ type = "lsr" -> LSR_C(x, n)
      [] n # 0 /\ type = "asr" -> ASR_C(x, n)
      [] n # 0 /\ type = "ror" -> ROR_C(x, n)

\* Immediate shifts to the right write 32 as 0.
DecodeImmShift(type, imm) == IF type \in {"lsr", "asr"} /\ imm = 0 THEN Width ELSE imm

-----------------------------------------------------------------------------
(* Flags and conditions.                                                   *)

Flags == [N : BOOLEAN, Z : BOOLEAN, C : BOOLEAN, V : BOOLEAN]

UpdateNZ(flags, result) == [flags EXCEPT !.N = result >= SignBit, !.Z = result = 0]

UpdateNZC(flags, shift) == [UpdateNZ(flags, shift.result) EXCEPT !.C = shift.carryOut]

UpdateNZCV(flags, sum) ==
    [UpdateNZ(flags, sum.result) EXCEPT !.C = sum.carryOut, !.V = sum.overflow]

\* Mutated form of Condition: greater than forgets that equal is not greater.
Condition_EqualIsGreater(flags) ==
    [EQ |-> flags.Z, CS |-> flags.C, MI |-> flags.N, VS |-> flags.V,
     HI |-> flags.C /\ ~flags.Z,
     GE |-> flags.N = flags.V,
     GT |-> flags.N = flags.V]

Condition(flags) ==
    [EQ |-> flags.Z, CS |-> flags.C, MI |-> flags.N, VS |-> flags.V,
     HI |-> flags.C /\ ~flags.Z,
     GE |-> flags.N = flags.V,
     GT |-> flags.N = flags.V /\ ~flags.Z]

\* Odd condition codes are the opposites of the even ones before them.
Opposite == [NE |-> "EQ", CC |-> "CS", PL |-> "MI", VC |-> "VS",
             LS |-> "HI", LT |-> "GE", LE |-> "GT"]

Conditions == {"EQ", "CS", "MI", "VS", "HI", "GE", "GT", "AL"} \cup DOMAIN Opposite

ConditionPassed(cond, flags) ==
    IF cond \in DOMAIN Opposite THEN ~Condition(flags)[Opposite[cond]]
    ELSE Condition(flags)[cond]

-----------------------------------------------------------------------------
(* What the arithmetic is for.                                             *)

Comparisons == {"EQ", "NE", "CS", "CC", "HI", "LS", "GE", "LT", "GT", "LE"}

\* What a condition means after a comparison of x with y.
Compared(cond, x, y) ==
    CASE cond = "EQ" -> x = y
      [] cond = "NE" -> x # y
      [] cond = "CS" -> x >= y
      [] cond = "CC" -> x < y
      [] cond = "HI" -> x > y
      [] cond = "LS" -> x <= y
      [] cond = "GE" -> Signed(x) >= Signed(y)
      [] cond = "LT" -> Signed(x) < Signed(y)
      [] cond = "GT" -> Signed(x) > Signed(y)
      [] cond = "LE" -> Signed(x) <= Signed(y)

\* A number of twice the width, unsigned and signed.
Double(high, low)       == high * WordRange + low
SignedDouble(high, low) == Signed(high) * WordRange + low

\* A sum of two such numbers, as its two halves were added.
IsDoubleSum(xh, xl, yh, yl, carry, high, low) ==
    LET carryIn   == IF carry THEN 1 ELSE 0
        sum       == Double(xh, xl) + Double(yh, yl) + carryIn
        signedSum == SignedDouble(xh, xl) + SignedDouble(yh, yl) + carryIn
    IN  /\ Double(high.result, low.result)
             = IF high.carryOut THEN sum - WordRange * WordRange ELSE sum
        /\ SignedDouble(high.result, low.result) = signedSum <=> ~high.overflow

\* A shift by one place, and what is shifted out.
ShiftByOne(type, x) ==
    CASE type = "lsl" -> [result |-> Wrap(2 * x), carryOut |-> x >= SignBit]
      [] type = "lsr" -> [result |-> x \div 2, carryOut |-> x % 2 = 1]
      [] type = "asr" -> [result |-> Wrap(Signed(x) \div 2), carryOut |-> x % 2 = 1]
      [] type = "ror" -> [result |-> x \div 2 + (x % 2) * SignBit, carryOut |-> x % 2 = 1]

\* n times one place.
Repeated(type, x, carry, n) ==
    LET shifted[k \in 0 .. n] ==
          IF k = 0 THEN [result |-> x, carryOut |-> carry]
          ELSE ShiftByOne(type, shifted[k - 1].result)
    IN  shifted[n]
=============================================================================
