-------------------------- MODULE PinkySimAluProofs --------------------------
(***************************************************************************)
(* The arithmetic of PinkySimAlu for words of every width: what a carry    *)
(* and an overflow say, that the conditions decide comparisons, that sums  *)
(* of halves make the sum of the whole, and that a shift by n places is n  *)
(* shifts by one.                                                          *)
(***************************************************************************)
EXTENDS PinkySimAlu, WellFoundedInduction, TLAPS

-----------------------------------------------------------------------------
(* Powers of two.                                                          *)

\* A set of numbers has a lowest one.
LEMMA HasLowest ==
    ASSUME NEW S, S \subseteq Nat, S # {}
    PROVE  \E m \in S : \A j \in S : m <= j
<1>1. IsWellFoundedOn(OpToRel(<, Nat), Nat)
  BY NatLessThanWellFounded
<1>2. PICK m \in S : \A j \in S : ~(<<j, m>> \in OpToRel(<, Nat))
  BY <1>1, WFMin
<1>3. ASSUME NEW j \in S
      PROVE  m <= j
  <2>1. <<j, m>> \notin {ss \in Nat \X Nat : ss[1] < ss[2]}
    BY <1>2 DEF OpToRel
  <2> QED BY <2>1
<1> QED BY <1>3

\* The weight of a bit.
Power(k) == 2 ^ k

\* What the assumptions tell of weights.
LEMMA PowerStep ==
    /\ Width \in Nat /\ Width >= 4 /\ SignBit = Power(Width - 1)
    /\ Power(0) = 1 /\ \A k \in 0 .. (Width - 1) : Power(k + 1) = 2 * Power(k)
  BY WordAssumption, PowersAssumption DEF Power

\* They are positive numbers.
LEMMA PowerIs ==
    \A k \in 0 .. Width : Power(k) \in Nat \ {0}
<1> DEFINE bad == {k \in 0 .. Width : Power(k) \notin Nat \ {0}}
<1> SUFFICES ASSUME bad # {} PROVE FALSE
  OBVIOUS
<1>1. PICK m \in bad : \A j \in bad : m <= j
  <2>1. bad \subseteq Nat
    BY PowerStep
  <2> HIDE DEF bad
  <2> QED BY <2>1, HasLowest
<1>2. m \in 0 .. Width /\ Power(m) \notin Nat \ {0}
  OBVIOUS
<1>3. m # 0
  BY <1>2, PowerStep
<1>4. m - 1 \in 0 .. (Width - 1) /\ (m - 1) + 1 = m /\ ~(m <= m - 1) /\ m - 1 \in 0 .. Width
  BY <1>2, <1>3, PowerStep
<1>5. Power(m - 1) \in Nat \ {0}
  BY <1>1, <1>4
<1> QED BY <1>2, <1>4, <1>5, PowerStep

\* Weights multiply as their bits add up.
LEMMA PowersMultiply ==
    ASSUME NEW j \in 0 .. Width
    PROVE  \A k \in 0 .. (Width - j) : Power(j + k) = Power(j) * Power(k)
<1> DEFINE bad == {k \in 0 .. (Width - j) : Power(j + k) # Power(j) * Power(k)}
<1> SUFFICES ASSUME bad # {} PROVE FALSE
  OBVIOUS
<1>1. PICK m \in bad : \A k \in bad : m <= k
  <2>1. bad \subseteq Nat
    BY PowerStep
  <2> HIDE DEF bad
  <2> QED BY <2>1, HasLowest
<1>2. m \in 0 .. (Width - j) /\ Power(j + m) # Power(j) * Power(m)
  OBVIOUS
<1>3. m # 0
  BY <1>2, PowerStep, PowerIs
<1> DEFINE l == m - 1
<1>4. /\ l \in 0 .. (Width - j) /\ l \in 0 .. (Width - 1) /\ j + l \in 0 .. (Width - 1)
      /\ l + 1 = m /\ (j + l) + 1 = j + m /\ ~(m <= l)
  BY <1>2, <1>3, PowerStep
<1>5. Power(j + l) = Power(j) * Power(l)
  BY <1>1, <1>4
<1> HIDE DEF l
<1>6. Power(j + m) = 2 * Power(j + l) /\ Power(m) = 2 * Power(l)
  BY <1>4, PowerStep
<1>7. Power(j) \in Int /\ Power(l) \in Int
  BY <1>4, PowerStep, PowerIs
<1> QED BY <1>2, <1>5, <1>6, <1>7

\* The sign bit is the highest of at least four, half of the values there are.
LEMMA SignBitIs ==
    /\ SignBit \in Nat \ {0} /\ SignBit >= 8
    /\ WordRange \in Nat \ {0} /\ WordRange = 2 * SignBit /\ WordRange = Power(Width)
<1>1. Width - 1 \in 0 .. (Width - 1) /\ (Width - 1) + 1 = Width /\ Width - 1 \in 0 .. Width
  BY PowerStep
<1>2. Power(Width) = 2 * SignBit /\ SignBit \in Nat \ {0}
  BY <1>1, PowerStep, PowerIs
<1>3. Power(3) = 8
  BY PowerStep
<1>4. 3 \in 0 .. Width /\ Width - 4 \in 0 .. (Width - 3) /\ 3 + (Width - 4) = Width - 1
  BY PowerStep
<1>5. SignBit = 8 * Power(Width - 4) /\ Power(Width - 4) \in Nat \ {0}
  <2>1. Power(3 + (Width - 4)) = Power(3) * Power(Width - 4)
    BY <1>4, PowersMultiply
  <2>2. Power(Width - 4) \in Nat \ {0}
    BY <1>4, PowerStep, PowerIs
  <2> QED BY <1>3, <1>4, <2>1, <2>2, PowerStep
<1> QED BY <1>2, <1>5 DEF WordRange

-----------------------------------------------------------------------------
(* Sums and comparisons.                                                   *)

\* A sum with its carries as numbers: the one that went in, and the one that
\* came out for a word range that was lost.
IsSum(x, y, in, sum, out) ==
    /\ sum.result \in Word
    /\ sum.result = (x + y + in) - out * WordRange
    /\ sum.carryOut <=> out = 1
    /\ sum.overflow <=> Signed(sum.result) # Signed(x) + Signed(y) + in

\* A number below twice a modulus is reduced by at most one subtraction.
LEMMA Remainder ==
    ASSUME NEW n \in Int, NEW w \in Nat \ {0}, 0 <= n, n < 2 * w
    PROVE  n % w = IF n < w THEN n ELSE n - w
  OBVIOUS

\* Words, their complements and their signed values.
LEMMA WordTypes ==
    /\ SignBit \in Nat \ {0} /\ WordRange \in Nat \ {0} /\ WordRange = 2 * SignBit
    /\ \A x \in Word :
         /\ x \in Int /\ 0 <= x /\ x < WordRange
         /\ Not(x) \in Word /\ Not(x) = WordRange - 1 - x
         /\ Signed(x) \in Int
         /\ x < SignBit => Signed(x) = x
         /\ x >= SignBit => Signed(x) = x - WordRange
  BY SignBitIs DEF Word, WordRange, Not, Signed

\* What is cut to the width of a word is a word.
LEMMA WrapIs ==
    \A n \in Int : Wrap(n) \in Word
  BY SignBitIs DEF Wrap, Word

\* addWithCarry adds: the carry tells whether a word range was lost, the
\* overflow whether the signed sum is another one.
LEMMA SumIsExact ==
    ASSUME NEW x \in Word, NEW y \in Word, NEW carry \in BOOLEAN,
           NEW in \in {0, 1}, carry <=> in = 1
    PROVE  \E out \in {0, 1} : IsSum(x, y, in, AddWithCarry(x, y, carry), out)
<1> DEFINE sum    == AddWithCarry(x, y, carry)
           total  == x + y + in
           signed == Signed(x) + Signed(y) + in
<1>1. total \in Int /\ 0 <= total /\ total < 2 * WordRange
  <2>1. /\ x \in Int /\ 0 <= x /\ x <= WordRange - 1
        /\ y \in Int /\ 0 <= y /\ y <= WordRange - 1
        /\ WordRange \in Int
    BY WordTypes
  <2> QED BY <2>1
<1>2. total % WordRange = IF total < WordRange THEN total ELSE total - WordRange
  BY <1>1, WordTypes, Remainder
<1>3. (IF carry THEN 1 ELSE 0) = in
  OBVIOUS
<1>4. /\ sum.result = total % WordRange
      /\ sum.carryOut <=> sum.result # total
      /\ sum.overflow <=> Signed(sum.result) # signed
  BY <1>3 DEF AddWithCarry, Wrap
<1> HIDE DEF sum, total, signed
<1>5. CASE total < WordRange
  <2>1. sum.result \in Word /\ sum.result = total - 0 * WordRange /\ sum.result = total
    BY <1>1, <1>2, <1>4, <1>5, WordTypes DEF Word
  <2>2. sum.carryOut <=> 0 = 1
    BY <1>4, <2>1
  <2>3. IsSum(x, y, in, sum, 0)
    BY <1>4, <2>1, <2>2 DEF IsSum, total, signed
  <2> QED BY <2>3 DEF sum
<1>6. CASE ~(total < WordRange)
  <2>1. sum.result \in Word /\ sum.result = total - 1 * WordRange /\ sum.result # total
    BY <1>1, <1>2, <1>4, <1>6, WordTypes DEF Word
  <2>2. sum.carryOut <=> 1 = 1
    BY <1>4, <2>1
  <2>3. IsSum(x, y, in, sum, 1)
    BY <1>4, <2>1, <2>2 DEF IsSum, total, signed
  <2> QED BY <2>3 DEF sum
<1> QED BY <1>5, <1>6

\* After a comparison of any two words, of whatever width, the conditions go by
\* their order, as unsigned and as signed numbers, also where the difference
\* overflows.
THEOREM ConditionsCompare ==
    ASSUME NEW x \in Word, NEW y \in Word, NEW flags \in Flags, NEW cond \in Comparisons
    PROVE  ConditionPassed(cond, UpdateNZCV(flags, AddWithCarry(x, Not(y), TRUE)))
             <=> Compared(cond, x, y)
<1> DEFINE sum   == AddWithCarry(x, Not(y), TRUE)
           after == UpdateNZCV(flags, sum)
           r     == sum.result
<1>1. PICK out \in {0, 1} : IsSum(x, Not(y), 1, sum, out)
  <2>1. Not(y) \in Word
    BY WordTypes
  <2> QED BY <2>1, SumIsExact
<1>2. sum.overflow \in BOOLEAN
  BY DEF AddWithCarry
<1> HIDE DEF sum
<1>3. /\ r \in Word
      /\ r = IF x >= y THEN x - y ELSE x - y + WordRange
      /\ sum.carryOut <=> x >= y
      /\ sum.overflow <=> Signed(r) # Signed(x) - Signed(y)
  BY <1>1, WordTypes DEF IsSum
<1>4. /\ after.N <=> r >= SignBit
      /\ after.Z <=> r = 0
      /\ after.C <=> sum.carryOut
      /\ after.V <=> sum.overflow
      /\ after.N \in BOOLEAN /\ after.V \in BOOLEAN
  <2> DEFINE nz == UpdateNZ(flags, r)
  <2>1. (nz.N <=> r >= SignBit) /\ (nz.Z <=> r = 0) /\ nz.N \in BOOLEAN /\ nz \in Flags
    <3> HIDE DEF r
    <3>1. nz \in Flags
      <4>1. nz = [flags EXCEPT !.N = (r >= SignBit), !.Z = (r = 0)]
        BY DEF UpdateNZ
      <4>2. PICK n \in BOOLEAN : n = (r >= SignBit)
        <5>1. (r >= SignBit) \in BOOLEAN
          OBVIOUS
        <5> QED BY <5>1, Zenon
      <4>3. PICK z \in BOOLEAN : z = (r = 0)
        OBVIOUS
      <4> HIDE DEF nz
      <4>4. nz = [flags EXCEPT !.N = n, !.Z = z]
        BY <4>1, <4>2, <4>3, Zenon
      <4> QED BY <4>4 DEF Flags
    <3>2. (nz.N <=> r >= SignBit) /\ (nz.Z <=> r = 0)
      BY DEF UpdateNZ, Flags
    <3> QED BY <3>1, <3>2 DEF Flags
  <2>2. after = [nz EXCEPT !.C = sum.carryOut, !.V = sum.overflow]
    BY DEF UpdateNZCV
  <2> HIDE DEF nz, after, r
  <2>3. /\ after.N = nz.N /\ after.Z = nz.Z
        /\ after.C = sum.carryOut /\ after.V = sum.overflow
    BY <2>1, <2>2 DEF Flags
  <2> QED BY <1>2, <2>1, <2>3
<1> HIDE DEF after, r
<1>5. /\ after.Z <=> x = y
      /\ after.C <=> x >= y
  BY <1>3, <1>4, WordTypes
<1>6. (after.N = after.V) <=> Signed(x) >= Signed(y)
  <2>1. (r >= SignBit <=> Signed(r) # Signed(x) - Signed(y)) <=> Signed(x) >= Signed(y)
    BY <1>3, WordTypes
  <2>2. (after.N <=> after.V) <=> Signed(x) >= Signed(y)
    BY <1>3, <1>4, <2>1
  <2> QED BY <1>4, <2>2
<1>7. /\ Condition(after).EQ <=> x = y
      /\ Condition(after).CS <=> x >= y
      /\ Condition(after).HI <=> x >= y /\ x # y
      /\ Condition(after).GE <=> Signed(x) >= Signed(y)
      /\ Condition(after).GT <=> Signed(x) >= Signed(y) /\ x # y
  BY <1>5, <1>6 DEF Condition
<1>8. /\ x > y <=> x >= y /\ x # y
      /\ x < y <=> ~(x >= y)
      /\ x <= y <=> ~(x >= y /\ x # y)
      /\ Signed(x) > Signed(y) <=> Signed(x) >= Signed(y) /\ x # y
      /\ Signed(x) < Signed(y) <=> ~(Signed(x) >= Signed(y))
      /\ Signed(x) <= Signed(y) <=> ~(Signed(x) >= Signed(y) /\ x # y)
  <2>1. x \in Int /\ y \in Int /\ Signed(x) \in Int /\ Signed(y) \in Int
    BY WordTypes
  <2>2. Signed(x) = Signed(y) <=> x = y
    BY WordTypes
  <2> QED BY <2>1, <2>2
<1>9. CASE cond \in {"EQ", "CS", "HI", "GE", "GT"}
  <2>1. ConditionPassed(cond, after) <=> Compared(cond, x, y)
    BY <1>7, <1>8, <1>9 DEF ConditionPassed, Opposite, Compared
  <2> QED BY <2>1 DEF after, sum
<1>10. CASE cond \in {"NE", "CC", "LS", "LT", "LE"}
  <2>1. ConditionPassed(cond, after) <=> ~Condition(after)[Opposite[cond]]
    BY <1>10 DEF ConditionPassed, Opposite
  <2>2. /\ Opposite["NE"] = "EQ" /\ Opposite["CC"] = "CS" /\ Opposite["LS"] = "HI"
        /\ Opposite["LT"] = "GE" /\ Opposite["LE"] = "GT"
    BY DEF Opposite
  <2>3. ConditionPassed(cond, after) <=> Compared(cond, x, y)
    BY <1>7, <1>8, <1>10, <2>1, <2>2 DEF Compared
  <2> QED BY <2>3 DEF after, sum
<1> QED BY <1>9, <1>10 DEF Comparisons

\* Adding the upper halves with the carry of the lower ones adds the numbers of
\* twice the width, with the carry and the overflow of the whole.
THEOREM HalvesAdd ==
    ASSUME NEW xh \in Word, NEW xl \in Word, NEW yh \in Word, NEW yl \in Word,
           NEW carry \in BOOLEAN
    PROVE  LET low  == AddWithCarry(xl, yl, carry)
               high == AddWithCarry(xh, yh, low.carryOut)
           IN  IsDoubleSum(xh, xl, yh, yl, carry, high, low)
<1> DEFINE low  == AddWithCarry(xl, yl, carry)
           high == AddWithCarry(xh, yh, low.carryOut)
<1> SUFFICES IsDoubleSum(xh, xl, yh, yl, carry, high, low)
  OBVIOUS
<1>1. PICK c \in {0, 1} : carry <=> c = 1
  OBVIOUS
<1>2. PICK cl \in {0, 1} : IsSum(xl, yl, c, low, cl)
  BY <1>1, SumIsExact
<1>3. low.carryOut \in BOOLEAN /\ (low.carryOut <=> cl = 1)
  <2>1. low.carryOut \in BOOLEAN
    BY DEF AddWithCarry
  <2> HIDE DEF low
  <2> QED BY <1>2, <2>1 DEF IsSum
<1> HIDE DEF low
<1>4. PICK ch \in {0, 1} : IsSum(xh, yh, cl, high, ch)
  BY <1>3, SumIsExact
<1> HIDE DEF high
<1> DEFINE h == high.result
           l == low.result
<1>5. /\ h \in Word /\ l \in Word
      /\ l = (xl + yl + c) - cl * WordRange
      /\ h = (xh + yh + cl) - ch * WordRange
      /\ high.carryOut <=> ch = 1
      /\ high.overflow <=> Signed(h) # Signed(xh) + Signed(yh) + cl
  BY <1>2, <1>4 DEF IsSum
<1> HIDE DEF h, l
<1>6. /\ xh \in Int /\ xl \in Int /\ yh \in Int /\ yl \in Int /\ WordRange \in Nat \ {0}
      /\ Signed(xh) \in Int /\ Signed(yh) \in Int /\ Signed(h) \in Int
      /\ h \in Int /\ l \in Int /\ c \in Int
  BY <1>5, WordTypes
<1>7. Double(h, l) = (Double(xh, xl) + Double(yh, yl) + c) - ch * (WordRange * WordRange)
  <2>1. CASE cl = 0 /\ ch = 0
    BY <1>5, <1>6, <2>1 DEF Double
  <2>2. CASE cl = 1 /\ ch = 0
    BY <1>5, <1>6, <2>2 DEF Double
  <2>3. CASE cl = 0 /\ ch = 1
    BY <1>5, <1>6, <2>3 DEF Double
  <2>4. CASE cl = 1 /\ ch = 1
    BY <1>5, <1>6, <2>4 DEF Double
  <2> QED BY <2>1, <2>2, <2>3, <2>4
<1>8. SignedDouble(h, l) - (SignedDouble(xh, xl) + SignedDouble(yh, yl) + c)
        = (Signed(h) - (Signed(xh) + Signed(yh) + cl)) * WordRange
  <2>1. CASE cl = 0
    BY <1>5, <1>6, <2>1 DEF SignedDouble
  <2>2. CASE cl = 1
    BY <1>5, <1>6, <2>2 DEF SignedDouble
  <2> QED BY <2>1, <2>2
<1> DEFINE sum    == Double(xh, xl) + Double(yh, yl) + c
           signed == SignedDouble(xh, xl) + SignedDouble(yh, yl) + c
<1>9. Double(h, l) = IF high.carryOut THEN sum - WordRange * WordRange ELSE sum
  <2>1. sum \in Int /\ WordRange * WordRange \in Int
    BY <1>6 DEF Double
  <2>2. Double(h, l) = sum - ch * (WordRange * WordRange)
    BY <1>7
  <2> HIDE DEF sum
  <2> QED BY <1>5, <2>1, <2>2
<1>10. SignedDouble(h, l) = signed <=> ~high.overflow
  <2> DEFINE s == Signed(xh) + Signed(yh) + cl
             e == SignedDouble(h, l)
  <2>1. s \in Int /\ e \in Int /\ signed \in Int
    BY <1>6 DEF SignedDouble
  <2>2. e - signed = (Signed(h) - s) * WordRange
    BY <1>8
  <2>3. high.overflow <=> Signed(h) # s
    BY <1>5
  <2> HIDE DEF s, e, signed
  <2>4. e = signed <=> Signed(h) = s
    <3>1. CASE Signed(h) = s
      BY <1>6, <2>1, <2>2, <3>1
    <3>2. CASE Signed(h) > s
      BY <1>6, <2>1, <2>2, <3>2
    <3>3. CASE Signed(h) < s
      BY <1>6, <2>1, <2>2, <3>3
    <3> QED BY <1>6, <2>1, <3>1, <3>2, <3>3
  <2>5. e = signed <=> ~high.overflow
    BY <2>3, <2>4
  <2> QED BY <2>5 DEF e
<1>11. (IF carry THEN 1 ELSE 0) = c
  BY <1>1
<1> QED BY <1>9, <1>10, <1>11 DEF IsDoubleSum, h, l

-----------------------------------------------------------------------------
(* What the operators return.                                              *)

\* A sum is a word with two flags.
LEMMA SumTypes ==
    ASSUME NEW x \in Word, NEW y \in Word, NEW carry \in BOOLEAN
    PROVE  /\ AddWithCarry(x, y, carry).result \in Word
           /\ AddWithCarry(x, y, carry).carryOut \in BOOLEAN
           /\ AddWithCarry(x, y, carry).overflow \in BOOLEAN
<1>1. PICK in \in {0, 1} : carry <=> in = 1
  OBVIOUS
<1>2. PICK out \in {0, 1} : IsSum(x, y, in, AddWithCarry(x, y, carry), out)
  BY <1>1, SumIsExact
<1>3. AddWithCarry(x, y, carry).result \in Word
  BY <1>2 DEF IsSum
<1>4. /\ AddWithCarry(x, y, carry).carryOut \in BOOLEAN
      /\ AddWithCarry(x, y, carry).overflow \in BOOLEAN
  BY DEF AddWithCarry
<1> QED BY <1>3, <1>4

\* The shifts that leave something of a word.
LEMMA ShiftedTypes ==
    ASSUME NEW x \in Word, NEW k \in 0 .. Width
    PROVE  /\ Wrap(x * 2 ^ k) \in Word /\ x \div 2 ^ k \in Word
           /\ Wrap(Signed(x) \div 2 ^ k) \in Word
<1> DEFINE w == 2 ^ k
<1>1. w \in Nat \ {0}
  BY PowerIs DEF Power
<1> HIDE DEF w
<1>2. x \in Int /\ 0 <= x /\ x < WordRange /\ Signed(x) \in Int /\ WordRange \in Int
  BY WordTypes
<1>3. x * w \in Int /\ Signed(x) \div w \in Int
  BY <1>1, <1>2
<1>4. x \div w \in Int /\ 0 <= x \div w /\ x \div w <= x
  BY <1>1, <1>2
<1>5. x \div w \in Word
  BY <1>2, <1>4 DEF Word
<1> QED BY <1>3, <1>5, WrapIs DEF w

\* So does every shift, with a flag.
LEMMA ShiftsAreTyped ==
    ASSUME NEW x \in Word, NEW n \in Nat \ {0}
    PROVE  /\ LSL_C(x, n).result \in Word /\ LSL_C(x, n).carryOut \in BOOLEAN
           /\ LSR_C(x, n).result \in Word /\ LSR_C(x, n).carryOut \in BOOLEAN
           /\ ASR_C(x, n).result \in Word /\ ASR_C(x, n).carryOut \in BOOLEAN
<1>1. 0 \in Word /\ WordRange - 1 \in Word
  BY SignBitIs DEF Word
<1>2. ASSUME NEW k PROVE Bit(x, k) \in BOOLEAN
  BY DEF Bit
<1>3. CASE n < Width
  <2>1. n \in 0 .. Width
    BY <1>3, PowerStep
  <2>2. ~(n > Width) /\ ~(n >= Width)
    BY <1>3, PowerStep
  <2>3. /\ LSL_C(x, n).result = Wrap(x * 2 ^ n)
        /\ LSR_C(x, n).result = x \div 2 ^ n
        /\ ASR_C(x, n).result = Wrap(Signed(x) \div 2 ^ n)
        /\ ASR_C(x, n).carryOut = Bit(x, n - 1)
    BY <1>3, <2>2 DEF LSL_C, LSR_C, ASR_C
  <2>4. LSL_C(x, n).carryOut \in BOOLEAN /\ LSR_C(x, n).carryOut \in BOOLEAN
    BY DEF LSL_C, LSR_C
  <2> QED BY <1>2, <2>1, <2>3, <2>4, ShiftedTypes
<1>4. CASE ~(n < Width)
  <2>1. n >= Width
    BY <1>4, PowerStep
  <2>2. /\ LSL_C(x, n).result = 0 /\ LSR_C(x, n).result = 0
        /\ ASR_C(x, n).result \in {0, WordRange - 1}
    BY <1>4, <2>1 DEF LSL_C, LSR_C, ASR_C
  <2>3. LSL_C(x, n).carryOut \in BOOLEAN /\ LSR_C(x, n).carryOut \in BOOLEAN
    BY DEF LSL_C, LSR_C
  <2>4. ASR_C(x, n).carryOut \in BOOLEAN
    <3>1. (x >= SignBit) \in BOOLEAN
      OBVIOUS
    <3>2. ASR_C(x, n).carryOut = IF n > Width THEN x >= SignBit ELSE Bit(x, n - 1)
      BY DEF ASR_C
    <3> QED BY <1>2, <3>1, <3>2, Zenon
  <2> QED BY <1>1, <2>2, <2>3, <2>4
<1> QED BY <1>3, <1>4

\* Quotients and remainders.
LEMMA Division ==
    ASSUME NEW x \in Int, NEW w \in Nat \ {0}
    PROVE  /\ x \div w \in Int /\ x % w \in 0 .. (w - 1)
           /\ x = w * (x \div w) + (x % w)
           /\ \A q \in Int : \A r \in 0 .. (w - 1) : x = w * q + r => x \div w = q /\ x % w = r
<1>1. x \div w \in Int /\ x % w \in 0 .. (w - 1)
  OBVIOUS
<1>2. x = w * (x \div w) + (x % w)
  OBVIOUS
<1>3. ASSUME NEW q \in Int, NEW r \in 0 .. (w - 1), x = w * q + r
      PROVE  x \div w = q /\ x % w = r
  BY <1>3
<1> QED BY <1>1, <1>2, <1>3

\* Products grow with their factors.
LEMMA ProductsGrow ==
    ASSUME NEW a \in Int, NEW b \in Int, NEW w \in Nat, a <= b
    PROVE  /\ a * w \in Int /\ b * w \in Int /\ a * w <= b * w
           /\ w * a \in Int /\ w * b \in Int /\ w * a <= w * b
  OBVIOUS

\* A number below a product, by its quotient and its remainder.
LEMMA Parts ==
    ASSUME NEW w \in Nat \ {0}, NEW v \in Nat \ {0}, NEW x \in Nat, x < w * v,
           NEW h \in Int, NEW l \in 0 .. (w - 1), x = (w * h) + l
    PROVE  /\ h \in 0 .. (v - 1) /\ l * v \in 0 .. ((w * v) - v)
           /\ x * v = ((w * v) * h) + (l * v)
<1>1. /\ w * h \in Int /\ w * v \in Int /\ l * v \in Int /\ w \in Nat /\ v \in Nat
      /\ l \in Int /\ w - 1 \in Int /\ 0 \in Int /\ v \in Int /\ h \in Int
  OBVIOUS
<1>2. h < v
  <2>1. ASSUME v <= h PROVE FALSE
    <3>1. w * v <= w * h
      BY <1>1, <2>1, ProductsGrow
    <3> QED BY <1>1, <3>1
  <2> QED BY <2>1
<1>3. h >= 0
  <2>1. ASSUME h <= -1 PROVE FALSE
    <3>1. w * h <= w * (-1)
      BY <1>1, <2>1, ProductsGrow
    <3>2. w * (-1) = -w
      OBVIOUS
    <3> QED BY <1>1, <3>1, <3>2
  <2> QED BY <2>1
<1>4. l * v \in 0 .. ((w * v) - v)
  <2>1. l * v <= (w - 1) * v /\ 0 * v <= l * v
    <3>1. l <= w - 1 /\ 0 <= l
      OBVIOUS
    <3> QED BY <1>1, <3>1, ProductsGrow
  <2>2. (w - 1) * v = (w * v) - v /\ 0 * v = 0
    OBVIOUS
  <2> QED BY <1>1, <2>1, <2>2
<1>5. x * v = ((w * v) * h) + (l * v)
  OBVIOUS
<1> QED BY <1>2, <1>3, <1>4, <1>5

\* Cut to a word range, a multiple of one is lost.
LEMMA MultipleIsLost ==
    ASSUME NEW a \in Int, NEW h \in Int, NEW b \in 0 .. (WordRange - 1),
           a = (WordRange * h) + b
    PROVE  Wrap(a) = b
  BY SignBitIs, Division DEF Wrap

\* The weights of a bit and of what is above it.
LEMMA WeightsAre ==
    ASSUME NEW m \in 0 .. Width
    PROVE  /\ Power(m) \in Nat \ {0} /\ Power(Width - m) \in Nat \ {0}
           /\ Power(m) * Power(Width - m) = WordRange
<1>1. Width - m \in 0 .. Width /\ m + (Width - m) = Width /\ Width - m \in 0 .. (Width - m)
  BY PowerStep
<1>2. Power(m + (Width - m)) = Power(m) * Power(Width - m)
  BY <1>1, PowersMultiply
<1> QED BY <1>1, <1>2, PowerIs, SignBitIs

\* A word is split at a bit; shifted to the left by as many places as its upper
\* part has, it keeps the lower one.
LEMMA SplitIs ==
    ASSUME NEW x \in Word, NEW m \in 0 .. Width
    PROVE  \E h, l \in Int :
             /\ h = x \div Power(m) /\ h \in 0 .. (Power(Width - m) - 1)
             /\ l = x % Power(m) /\ l \in 0 .. (Power(m) - 1)
             /\ x = (Power(m) * h) + l
             /\ l * Power(Width - m) \in 0 .. (WordRange - Power(Width - m))
             /\ Wrap(x * Power(Width - m)) = l * Power(Width - m)
<1> DEFINE w == Power(m)
           v == Power(Width - m)
<1>1. w \in Nat \ {0} /\ v \in Nat \ {0} /\ w * v = WordRange
  BY WeightsAre
<1> HIDE DEF w, v
<1>2. x \in Nat /\ x \in Int /\ x < w * v
  <2>1. x \in Int /\ 0 <= x /\ x < WordRange
    BY WordTypes
  <2> QED BY <1>1, <2>1
<1>3. \E h, l \in Int : h = x \div w /\ l = x % w /\ l \in 0 .. (w - 1) /\ x = (w * h) + l
  <2>1. x \div w \in Int /\ x % w \in 0 .. (w - 1) /\ x = (w * (x \div w)) + (x % w)
    BY <1>1, <1>2, Division
  <2>2. x % w \in Int
    BY <1>1, <2>1
  <2> QED BY <2>1, <2>2, Zenon
<1>4. PICK h \in Int, l \in Int :
        h = x \div w /\ l = x % w /\ l \in 0 .. (w - 1) /\ x = (w * h) + l
  BY <1>3
<1>5. /\ h \in 0 .. (v - 1) /\ l * v \in 0 .. ((w * v) - v)
      /\ x * v = ((w * v) * h) + (l * v)
  <2>1. l \in 0 .. (w - 1) /\ x = (w * h) + l
    BY <1>4, Zenon
  <2> QED BY <1>1, <1>2, <2>1, Parts
<1>6. Wrap(x * v) = l * v
  <2> DEFINE a == x * v
             b == l * v
  <2>1. a \in Int
    BY <1>1, <1>2, ProductsGrow
  <2>2. b \in 0 .. (WordRange - v) /\ a = (WordRange * h) + b
    BY <1>1, <1>5
  <2> HIDE DEF a, b
  <2>3. b \in 0 .. (WordRange - 1)
    BY <1>1, <2>2, SignBitIs
  <2>4. Wrap(a) = b
    BY <2>1, <2>2, <2>3, MultipleIsLost
  <2> QED BY <2>4 DEF a, b
<1>7. l * v \in 0 .. (WordRange - v)
  BY <1>1, <1>5
<1> QED BY <1>4, <1>5, <1>6, <1>7, Zenon DEF w, v

\* The parts of a rotated word make a word.
LEMMA RotatedIs ==
    ASSUME NEW x \in Word, NEW m \in 0 .. Width
    PROVE  (x \div 2 ^ m) + Wrap(x * 2 ^ (Width - m)) \in Word
<1>1. PICK h \in Int, l \in Int :
        /\ h = x \div Power(m) /\ h \in 0 .. (Power(Width - m) - 1)
        /\ l * Power(Width - m) \in 0 .. (WordRange - Power(Width - m))
        /\ Wrap(x * Power(Width - m)) = l * Power(Width - m)
  BY SplitIs
<1> DEFINE v == Power(Width - m)
           b == l * v
<1>2. (x \div 2 ^ m) + Wrap(x * 2 ^ (Width - m)) = h + b
  BY <1>1 DEF Power
<1>3. v \in Nat \ {0} /\ WordRange \in Int
  BY WeightsAre, SignBitIs
<1>4. h \in 0 .. (v - 1) /\ b \in 0 .. (WordRange - v)
  BY <1>1
<1> HIDE DEF v, b
<1>5. h + b \in 0 .. (WordRange - 1)
  BY <1>3, <1>4
<1> QED BY <1>2, <1>5 DEF Word

\* A shift returns a word and a flag.
LEMMA ShiftTypes ==
    ASSUME NEW x \in Word, NEW type \in {"lsl", "lsr", "asr", "ror"}, NEW n \in Nat,
           NEW carry \in BOOLEAN
    PROVE  /\ Shift_C(x, type, n, carry).result \in Word
           /\ Shift_C(x, type, n, carry).carryOut \in BOOLEAN
<1>1. CASE n = 0
  BY <1>1 DEF Shift_C
<1>2. CASE n # 0 /\ type \in {"lsl", "lsr", "asr"}
  <2>1. \/ type = "lsl" /\ Shift_C(x, type, n, carry) = LSL_C(x, n)
        \/ type = "lsr" /\ Shift_C(x, type, n, carry) = LSR_C(x, n)
        \/ type = "asr" /\ Shift_C(x, type, n, carry) = ASR_C(x, n)
    BY <1>2 DEF Shift_C
  <2> QED BY <1>2, <2>1, ShiftsAreTyped
<1>3. CASE n # 0 /\ type = "ror"
  <2> DEFINE m == n % Width
  <2>1. Shift_C(x, type, n, carry) = ROR_C(x, n)
    BY <1>3 DEF Shift_C
  <2>2. m \in 0 .. (Width - 1) /\ m \in 0 .. Width /\ Width - m \in Nat
    BY PowerStep
  <2> DEFINE r == ROR_C(x, n).result
  <2>3. r \in Word
    <3>1. CASE m = 0
      <4>1. LSL_C(x, Width).result = 0 /\ Width - 0 = Width
        BY PowerStep DEF LSL_C
      <4>2. r = x + 0
        BY <3>1, <4>1 DEF ROR_C
      <4> QED BY <4>2, WordTypes
    <3>2. CASE m # 0
      <4>1. ~(m >= Width) /\ ~(Width - m >= Width)
        BY <2>2, <3>2, PowerStep
      <4> HIDE DEF m
      <4>2. /\ LSR_C(x, m).result = x \div 2 ^ m
            /\ LSL_C(x, Width - m).result = Wrap(x * 2 ^ (Width - m))
        BY <4>1 DEF LSR_C, LSL_C
      <4>3. r = (x \div 2 ^ m) + Wrap(x * 2 ^ (Width - m))
        BY <3>2, <4>2 DEF ROR_C, m
      <4> QED BY <2>2, <4>3, RotatedIs
    <3> QED BY <3>1, <3>2
  <2>4. ROR_C(x, n).carryOut = (r >= SignBit)
    BY DEF ROR_C
  <2> HIDE DEF r
  <2>5. (r >= SignBit) \in BOOLEAN
    OBVIOUS
  <2>6. ROR_C(x, n).carryOut \in BOOLEAN
    BY <2>4, <2>5, Zenon
  <2>7. QED
    BY <2>1, <2>3, <2>6 DEF r
<1> QED BY <1>1, <1>2, <1>3

\* The flags stay flags.
LEMMA FlagsAreTyped ==
    ASSUME NEW flags \in Flags, NEW r \in Word, NEW c \in BOOLEAN, NEW v \in BOOLEAN
    PROVE  /\ UpdateNZ(flags, r) \in Flags
           /\ [UpdateNZ(flags, r) EXCEPT !.C = c] \in Flags
           /\ [UpdateNZ(flags, r) EXCEPT !.C = c, !.V = v] \in Flags
<1> DEFINE nz == UpdateNZ(flags, r)
<1>1. nz \in Flags
  <2>1. nz = [flags EXCEPT !.N = (r >= SignBit), !.Z = (r = 0)]
    BY DEF UpdateNZ
  <2>2. PICK n \in BOOLEAN : n = (r >= SignBit)
    <3>1. (r >= SignBit) \in BOOLEAN
      OBVIOUS
    <3> QED BY <3>1, Zenon
  <2>3. PICK z \in BOOLEAN : z = (r = 0)
    OBVIOUS
  <2> HIDE DEF nz
  <2>4. nz = [flags EXCEPT !.N = n, !.Z = z]
    BY <2>1, <2>2, <2>3, Zenon
  <2> QED BY <2>4 DEF Flags
<1> HIDE DEF nz
<1>2. [nz EXCEPT !.C = c] \in Flags /\ [nz EXCEPT !.C = c, !.V = v] \in Flags
  BY <1>1 DEF Flags
<1> QED BY <1>1, <1>2 DEF nz

-----------------------------------------------------------------------------
(* Shifts are shifts by one place, again and again.                        *)

\* A quotient and a remainder are told by what they make.
LEMMA QuotientIs ==
    ASSUME NEW x \in Int, NEW w \in Nat \ {0}, NEW h \in Int, NEW l \in 0 .. (w - 1),
           x = (w * h) + l
    PROVE  x \div w = h /\ x % w = l
  BY Division

\* A number is split at a bit, and the bit told: at the next one up, the quotient
\* is halved and the bit moves into the remainder.
LEMMA Halving ==
    ASSUME NEW x \in Int, NEW m \in 0 .. (Width - 1)
    PROVE  \E g, l \in Int : \E b \in {0, 1} :
             /\ l \in 0 .. (Power(m) - 1)
             /\ x = (Power(m) * ((2 * g) + b)) + l
             /\ x \div Power(m) = (2 * g) + b /\ x % Power(m) = l
             /\ x \div Power(m + 1) = g /\ x % Power(m + 1) = l + (b * Power(m))
<1> DEFINE w == Power(m)
           v == Power(m + 1)
<1>1. w \in Nat \ {0} /\ v = 2 * w
  <2>1. m \in 0 .. Width
    BY PowerStep
  <2> QED BY <2>1, PowerStep, PowerIs
<1> HIDE DEF w, v
<1>2. \E h, l \in Int : l \in 0 .. (w - 1) /\ x = (w * h) + l /\ x \div w = h /\ x % w = l
  <2>1. x \div w \in Int /\ x % w \in 0 .. (w - 1) /\ x = (w * (x \div w)) + (x % w)
    BY <1>1, Division
  <2>2. x % w \in Int
    BY <1>1, <2>1
  <2> QED BY <2>1, <2>2, Zenon
<1>3. PICK h \in Int, l \in Int :
        l \in 0 .. (w - 1) /\ x = (w * h) + l /\ x \div w = h /\ x % w = l
  BY <1>2
<1>4. \E g \in Int : \E b \in {0, 1} : h = (2 * g) + b
  <2>1. h \div 2 \in Int /\ h % 2 \in {0, 1} /\ h = (2 * (h \div 2)) + (h % 2)
    OBVIOUS
  <2> QED BY <2>1, Zenon
<1>5. PICK g \in Int, b \in {0, 1} : h = (2 * g) + b
  BY <1>4
<1> DEFINE e == l + (b * w)
<1>6. b * w \in Int /\ e \in 0 .. (v - 1)
  <2>1. l \in Int /\ 0 <= l /\ l <= w - 1
    BY <1>1, <1>3
  <2>2. b * w = 0 \/ b * w = w
    BY <1>1
  <2> QED BY <1>1, <2>1, <2>2
<1>7. x = (v * g) + e
  <2>1. w * ((2 * g) + b) = (v * g) + (b * w)
    BY <1>1
  <2>2. x = (w * ((2 * g) + b)) + l
    BY <1>3, <1>5
  <2>3. v * g \in Int /\ b * w \in Int /\ l \in Int
    BY <1>1, <1>6
  <2> QED BY <2>1, <2>2, <2>3
<1>8. v \in Nat \ {0}
  BY <1>1
<1>9. e = l + (b * w)
  OBVIOUS
<1> HIDE DEF e
<1>10. x \div v = g /\ x % v = e
  BY <1>6, <1>7, <1>8, QuotientIs
<1>11. x = (w * ((2 * g) + b)) + l /\ x \div w = (2 * g) + b
  BY <1>3, <1>5
<1> QED BY <1>3, <1>9, <1>10, <1>11, Zenon DEF w, v

\* Doubled and cut, a number that was cut before is the same.
LEMMA DoubleWraps ==
    ASSUME NEW a \in Int
    PROVE  Wrap(2 * Wrap(a)) = Wrap(2 * a)
<1> DEFINE w == WordRange
<1>1. w \in Nat \ {0}
  BY SignBitIs
<1>2. \E q, r \in Int : r \in 0 .. (w - 1) /\ a = (w * q) + r /\ a % w = r
  <2> HIDE DEF w
  <2>1. a \div w \in Int /\ a % w \in 0 .. (w - 1) /\ a = (w * (a \div w)) + (a % w)
    BY <1>1, Division
  <2>2. a % w \in Int
    BY <1>1, <2>1
  <2> QED BY <2>1, <2>2, Zenon
<1>3. PICK q \in Int, r \in Int : r \in 0 .. (w - 1) /\ a = (w * q) + r /\ a % w = r
  BY <1>2
<1>4. Wrap(a) = r
  BY <1>3 DEF Wrap
<1> HIDE DEF w
<1> DEFINE d == 2 * a
           h == IF 2 * r < w THEN 2 * q ELSE (2 * q) + 1
           e == IF 2 * r < w THEN 2 * r ELSE (2 * r) - w
<1>5. 2 * r \in Int /\ 0 <= 2 * r /\ 2 * r < 2 * w
  BY <1>1, <1>3
<1>6. d \in Int /\ h \in Int /\ e \in 0 .. (w - 1)
  BY <1>1, <1>5
<1>7. d = (w * h) + e
  <2>1. d = (w * (2 * q)) + (2 * r)
    <3>1. a = (w * q) + r
      BY <1>3
    <3> QED BY <1>1, <3>1
  <2>2. w * ((2 * q) + 1) = (w * (2 * q)) + w /\ w * (2 * q) \in Int
    BY <1>1
  <2> HIDE DEF d
  <2> QED BY <1>1, <1>5, <2>1, <2>2
<1>8. (2 * r) % w = e
  BY <1>1, <1>5, Remainder
<1> HIDE DEF d, h, e
<1>9. Wrap(d) = e
  BY <1>6, <1>7, MultipleIsLost DEF w
<1>10. Wrap(2 * r) = e
  BY <1>8 DEF Wrap, w
<1> QED BY <1>4, <1>9, <1>10 DEF d

\* One place to the left.
LEMMA LeftStep ==
    ASSUME NEW x \in Word, NEW k \in 0 .. (Width - 1)
    PROVE  /\ Wrap(2 * Wrap(x * Power(k))) = Wrap(x * Power(k + 1))
           /\ Wrap(x * Power(k)) >= SignBit <=> Bit(x, Width - (k + 1))
<1> DEFINE m == Width - (k + 1)
           p == Power(m)
           u == Power(k)
<1>1. /\ m \in 0 .. (Width - 1) /\ m \in 0 .. Width /\ m + 1 \in 0 .. Width /\ k \in 0 .. Width
      /\ Width - (m + 1) = k /\ m + k = Width - 1 /\ k \in 0 .. (Width - m)
  BY PowerStep
<1>2. p \in Nat \ {0} /\ u \in Nat \ {0} /\ p * u = SignBit /\ Power(k + 1) = 2 * u
  <2>1. Power(m + k) = Power(m) * Power(k)
    BY <1>1, PowersMultiply
  <2> QED BY <1>1, <2>1, PowerStep, PowerIs
<1>3. x \in Int
  BY WordTypes
<1>4. Wrap(2 * Wrap(x * u)) = Wrap(x * Power(k + 1))
  <2> DEFINE a == x * u
  <2>1. a \in Int /\ 2 * a = x * Power(k + 1)
    BY <1>2, <1>3
  <2> HIDE DEF a
  <2>2. Wrap(2 * Wrap(a)) = Wrap(2 * a)
    BY <2>1, DoubleWraps
  <2> QED BY <2>1, <2>2 DEF a
<1>5. PICK g \in Int, l \in Int, b \in {0, 1} :
        /\ l \in 0 .. (p - 1) /\ x \div Power(m) = (2 * g) + b
        /\ x % Power(m + 1) = l + (b * p)
  BY <1>1, <1>3, Halving
<1>6. Bit(x, m) <=> b = 1
  <2>1. ((2 * g) + b) % 2 = b
    OBVIOUS
  <2>2. x \div 2 ^ m = (2 * g) + b
    BY <1>5 DEF Power
  <2> QED BY <2>1, <2>2 DEF Bit
<1>7. Wrap(x * u) = (l + (b * p)) * u
  <2>1. Wrap(x * Power(Width - (m + 1))) = (x % Power(m + 1)) * Power(Width - (m + 1))
    <3> DEFINE n == m + 1
    <3>1. n \in 0 .. Width
      BY <1>1
    <3> HIDE DEF n
    <3>2. Wrap(x * Power(Width - n)) = (x % Power(n)) * Power(Width - n)
      BY <3>1, SplitIs
    <3> QED BY <3>2 DEF n
  <2>2. Width - (m + 1) = k
    BY <1>1
  <2> HIDE DEF m, p, u
  <2> QED BY <1>5, <2>1, <2>2 DEF u
<1> HIDE DEF m, p, u
<1>8. (l + (b * p)) * u >= SignBit <=> b = 1
  <2>1. l \in Int /\ 0 <= l /\ l <= p - 1 /\ p - 1 \in Int /\ 0 \in Int /\ u \in Nat
    BY <1>2, <1>5
  <2>2. l * u \in Int /\ 0 * u <= l * u /\ l * u <= (p - 1) * u
    BY <2>1, ProductsGrow
  <2>3. 0 * u = 0 /\ (p - 1) * u = (p * u) - u
    BY <1>2
  <2>4. CASE b = 1
    <3>1. (l + (b * p)) * u = (l * u) + (p * u)
      BY <1>2, <2>1, <2>4
    <3> QED BY <1>2, <2>2, <2>3, <2>4, <3>1
  <2>5. CASE b = 0
    <3>1. (l + (b * p)) * u = l * u
      BY <1>2, <2>1, <2>5
    <3> QED BY <1>2, <2>2, <2>3, <2>5, <3>1
  <2> QED BY <2>4, <2>5
<1> QED BY <1>4, <1>6, <1>7, <1>8 DEF m, u

\* A number that fits is told from its word.
LEMMA SignedWraps ==
    ASSUME NEW v \in Int, 0 - SignBit <= v, v < SignBit
    PROVE  /\ Signed(Wrap(v)) = v /\ Wrap(v) % 2 = v % 2
           /\ Wrap(v) = IF v < 0 THEN v + WordRange ELSE v
<1>1. SignBit \in Nat \ {0} /\ WordRange \in Nat /\ WordRange = 2 * SignBit
  BY SignBitIs
<1>2. Wrap(v) = IF v < 0 THEN v + WordRange ELSE v
  <2> DEFINE h == IF v < 0 THEN 0 - 1 ELSE 0
             e == IF v < 0 THEN v + WordRange ELSE v
  <2>1. h \in Int /\ e \in 0 .. (WordRange - 1)
    BY <1>1
  <2>2. v = (WordRange * h) + e
    BY <1>1
  <2> HIDE DEF h, e
  <2>3. Wrap(v) = e
    BY <2>1, <2>2, MultipleIsLost
  <2> QED BY <2>3 DEF e
<1>3. Signed(Wrap(v)) = v
  BY <1>1, <1>2 DEF Signed
<1>4. Wrap(v) % 2 = v % 2
  BY <1>1, <1>2
<1> QED BY <1>2, <1>3, <1>4

\* The signed value of a word, and what a shift to the right leaves of it.
LEMMA QuotientFits ==
    ASSUME NEW z \in Int, 0 - SignBit <= z, z < SignBit, NEW w \in Nat \ {0}
    PROVE  z \div w \in Int /\ 0 - SignBit <= z \div w /\ z \div w < SignBit
<1>1. SignBit \in Nat \ {0}
  BY SignBitIs
<1>2. \E v, l \in Int : l \in 0 .. (w - 1) /\ z = (w * v) + l /\ z \div w = v
  <2>1. z \div w \in Int /\ z % w \in 0 .. (w - 1) /\ z = (w * (z \div w)) + (z % w)
    BY Division
  <2>2. z % w \in Int
    BY <2>1
  <2> QED BY <2>1, <2>2, Zenon
<1>3. PICK v \in Int, l \in Int : l \in 0 .. (w - 1) /\ z = (w * v) + l /\ z \div w = v
  BY <1>2
<1> DEFINE n == w * v
<1>4. n \in Int /\ 0 <= l /\ l <= w - 1 /\ l \in Int /\ z = n + l
  BY <1>3
<1>5. v >= 0 => n >= v
  <2>1. ASSUME v >= 0 PROVE n >= v
    <3>1. v \in Nat /\ 1 \in Int /\ w \in Int /\ 1 <= w
      BY <2>1
    <3>2. 1 * v <= w * v /\ 1 * v = v
      BY <3>1, ProductsGrow
    <3> QED BY <3>2
  <2> QED BY <2>1
<1>6. v < 0 => n + w <= v + 1
  <2>1. ASSUME v < 0 PROVE n + w <= v + 1
    <3> DEFINE u == 0 - (v + 1)
    <3>1. u \in Nat /\ 1 \in Int /\ w \in Int /\ 1 <= w
      BY <2>1
    <3>2. n + w = 0 - (w * u) /\ v + 1 = 0 - u
      OBVIOUS
    <3> HIDE DEF u
    <3>3. 1 * u <= w * u /\ w * u \in Int /\ 1 * u = u
      BY <3>1, ProductsGrow
    <3> HIDE DEF n
    <3> QED BY <1>4, <3>1, <3>2, <3>3
  <2> QED BY <2>1
<1> HIDE DEF n
<1>7. v < SignBit
  BY <1>1, <1>4, <1>5
<1>8. 0 - SignBit <= v
  BY <1>1, <1>4, <1>6
<1> QED BY <1>3, <1>7, <1>8

\* A signed value is one that fits.
LEMMA SignedFits ==
    ASSUME NEW x \in Word
    PROVE  /\ Signed(x) \in Int /\ 0 - SignBit <= Signed(x) /\ Signed(x) < SignBit
           /\ Wrap(Signed(x)) = x /\ x = Signed(x) + (IF x >= SignBit THEN WordRange ELSE 0)
<1>1. /\ SignBit \in Nat \ {0} /\ WordRange = 2 * SignBit /\ x \in Int /\ 0 <= x /\ x < WordRange
  BY WordTypes
<1>2. /\ Signed(x) \in Int /\ 0 - SignBit <= Signed(x) /\ Signed(x) < SignBit
      /\ x = Signed(x) + (IF x >= SignBit THEN WordRange ELSE 0)
      /\ Signed(x) < 0 <=> x >= SignBit
  BY <1>1 DEF Signed
<1>3. Wrap(Signed(x)) = IF Signed(x) < 0 THEN Signed(x) + WordRange ELSE Signed(x)
  BY <1>2, SignedWraps
<1> QED BY <1>1, <1>2, <1>3

\* One place to the right, of a signed number.
LEMMA ArithmeticStep ==
    ASSUME NEW x \in Word, NEW k \in 0 .. (Width - 1)
    PROVE  LET y == Wrap(Signed(x) \div Power(k))
           IN  /\ Wrap(Signed(y) \div 2) = Wrap(Signed(x) \div Power(k + 1))
               /\ y % 2 = 1 <=> Bit(x, k)
<1> DEFINE z == Signed(x)
           w == Power(k)
           u == Power(Width - (k + 1))
           y == Wrap(z \div w)
<1>1. z \in Int /\ 0 - SignBit <= z /\ z < SignBit
      /\ x = z + (IF x >= SignBit THEN WordRange ELSE 0)
  BY SignedFits
<1>2. w \in Nat \ {0} /\ u \in Nat \ {0} /\ WordRange = w * (2 * u)
  <2>1. /\ k \in 0 .. Width /\ Width - (k + 1) \in 0 .. (Width - 1)
        /\ Width - (k + 1) \in 0 .. Width /\ (Width - (k + 1)) + 1 = Width - k
    BY PowerStep
  <2>2. Power((Width - (k + 1)) + 1) = 2 * u
    BY <2>1, PowerStep
  <2>3. Power(Width - k) = 2 * u
    BY <2>1, <2>2
  <2> QED BY <2>1, <2>3, PowerIs, WeightsAre
<1> HIDE DEF z
<1>3. PICK g \in Int, l \in Int, b \in {0, 1} :
        /\ l \in 0 .. (w - 1) /\ z = (w * ((2 * g) + b)) + l
        /\ z \div w = (2 * g) + b /\ z \div Power(k + 1) = g
  BY <1>1, Halving
<1> DEFINE v == (2 * g) + b
<1>4. v \in Int /\ 0 - SignBit <= v /\ v < SignBit
  <2>1. z \div w \in Int /\ 0 - SignBit <= z \div w /\ z \div w < SignBit
    <3> HIDE DEF w
    <3> QED BY <1>1, <1>2, QuotientFits
  <2> QED BY <1>3, <2>1
<1>5. v \div 2 = g /\ v % 2 = b
  OBVIOUS
<1>6. y = Wrap(v)
  BY <1>3
<1>7. Signed(y) = v /\ y % 2 = b
  <2> HIDE DEF v, y
  <2> QED BY <1>4, <1>5, <1>6, SignedWraps
<1>8. Wrap(Signed(y) \div 2) = Wrap(z \div Power(k + 1))
  BY <1>3, <1>5, <1>7
<1>9. Bit(x, k) <=> b = 1
  <2> DEFINE f == IF x >= SignBit THEN 2 * u ELSE 0
             h == v + f
  <2>1. f \in Int /\ h \in Int /\ h % 2 = b
    BY <1>2
  <2>2. x = (w * h) + l
    <3>1. w * h = (w * v) + (w * f)
      BY <1>2
    <3>2. w * f = IF x >= SignBit THEN WordRange ELSE 0
      BY <1>2
    <3>3. z = (w * v) + l
      BY <1>3
    <3>4. w * v \in Int /\ l \in Int /\ WordRange \in Int
      BY <1>2, SignBitIs
    <3> HIDE DEF v, f, h, w
    <3> QED BY <1>1, <3>1, <3>2, <3>3, <3>4
  <2> HIDE DEF h, w
  <2>3. x \in Int
    BY WordTypes
  <2>4. l \in 0 .. (w - 1) /\ h \in Int /\ w \in Nat \ {0}
    BY <1>2, <1>3, <2>1
  <2>5. x \div w = h /\ x % w = l
    BY <2>2, <2>3, <2>4, QuotientIs
  <2> QED BY <2>1, <2>5 DEF Bit, w, Power
<1> QED BY <1>7, <1>8, <1>9 DEF z

\* A word rotated by m places: what was below the bit m is above the rest.
Rotated(x, m) == (x \div Power(m)) + ((x % Power(m)) * Power(Width - m))

\* One place around.
LEMMA RotateStep ==
    ASSUME NEW x \in Word, NEW m \in 0 .. (Width - 1)
    PROVE  LET y == Rotated(x, m)
           IN  /\ (y \div 2) + ((y % 2) * SignBit) = Rotated(x, m + 1)
               /\ y % 2 = 1 <=> Rotated(x, m + 1) >= SignBit
<1> DEFINE p == Power(m)
           u == Power(Width - (m + 1))
           y == Rotated(x, m)
<1>1. /\ m \in 0 .. Width /\ m + 1 \in 0 .. Width /\ Width - (m + 1) \in 0 .. (Width - 1)
      /\ Width - (m + 1) \in 0 .. (Width - m) /\ m + (Width - (m + 1)) = Width - 1
      /\ (Width - (m + 1)) + 1 = Width - m /\ Width - (m + 1) \in 0 .. Width
  BY PowerStep
<1>2. p \in Nat \ {0} /\ u \in Nat \ {0} /\ p * u = SignBit /\ Power(Width - m) = 2 * u
  <2>1. Power(m + (Width - (m + 1))) = Power(m) * Power(Width - (m + 1))
    BY <1>1, PowersMultiply
  <2>2. Power((Width - (m + 1)) + 1) = 2 * Power(Width - (m + 1))
    BY <1>1, PowerStep
  <2>3. Power(m + (Width - (m + 1))) = SignBit /\ Power((Width - (m + 1)) + 1) = Power(Width - m)
    BY <1>1, PowerStep
  <2> QED BY <1>1, <2>1, <2>2, <2>3, PowerIs
<1>3. x \in Int
  BY WordTypes
<1>4. PICK g \in Int, l \in Int, b \in {0, 1} :
        /\ l \in 0 .. (p - 1) /\ x \div Power(m) = (2 * g) + b /\ x % Power(m) = l
        /\ x \div Power(m + 1) = g /\ x % Power(m + 1) = l + (b * p)
  BY <1>3, Halving
<1>5. g \in 0 .. (u - 1)
  <2> DEFINE n == m + 1
  <2>1. n \in 0 .. Width
    BY <1>1
  <2> HIDE DEF n
  <2>2. x \div Power(n) \in 0 .. (Power(Width - n) - 1)
    BY <2>1, SplitIs
  <2> QED BY <1>4, <2>2 DEF n
<1> DEFINE q == g + (l * u)
<1>6. l * u \in Int /\ q \in Int /\ l \in Int /\ 0 <= l /\ l <= p - 1
  BY <1>2, <1>4
<1>7. y = (2 * q) + b
  <2>1. y = ((2 * g) + b) + (l * (2 * u))
    BY <1>2, <1>4 DEF Rotated
  <2>2. l * (2 * u) = 2 * (l * u)
    BY <1>2, <1>6
  <2> HIDE DEF y, u
  <2> QED BY <1>6, <2>1, <2>2
<1>8. Rotated(x, m + 1) = q + (b * SignBit)
  <2>1. Rotated(x, m + 1) = g + ((l + (b * p)) * u)
    BY <1>4 DEF Rotated
  <2>2. (l + (b * p)) * u = (l * u) + (b * (p * u))
    BY <1>2, <1>6
  <2>3. b * (p * u) = b * SignBit /\ b * SignBit \in Int
    BY <1>2, SignBitIs
  <2> HIDE DEF u, p
  <2> QED BY <1>6, <2>1, <2>2, <2>3
<1>9. 0 <= q /\ q < SignBit
  <2>1. p - 1 \in Int /\ 0 \in Int /\ u \in Nat
    BY <1>2
  <2>2. 0 * u <= l * u /\ l * u <= (p - 1) * u
    BY <1>6, <2>1, ProductsGrow
  <2>3. 0 * u = 0 /\ (p - 1) * u = (p * u) - u
    BY <1>2
  <2> HIDE DEF u, p
  <2> QED BY <1>2, <1>5, <1>6, <2>2, <2>3
<1> HIDE DEF q, y
<1>10. y \div 2 = q /\ y % 2 = b
  BY <1>6, <1>7
<1>11. SignBit \in Nat
  BY SignBitIs
<1>12. b * SignBit = IF b = 1 THEN SignBit ELSE 0
  BY <1>11
<1>13. b = 1 <=> q + (b * SignBit) >= SignBit
  BY <1>6, <1>9, <1>11, <1>12
<1> QED BY <1>8, <1>10, <1>13 DEF y

\* What shifts of each kind return, the shift by nothing among them.
LEMMA LeftIs ==
    ASSUME NEW x \in Word, NEW k \in Nat, NEW carry
    PROVE  /\ Shift_C(x, "lsl", k, carry).result = IF k >= Width THEN 0 ELSE Wrap(x * Power(k))
           /\ Shift_C(x, "lsr", k, carry).result = IF k >= Width THEN 0 ELSE x \div Power(k)
           /\ Shift_C(x, "asr", k, carry).result
                = IF k < Width THEN Wrap(Signed(x) \div Power(k))
                  ELSE IF x >= SignBit THEN WordRange - 1 ELSE 0
<1>1. x \in Int /\ Wrap(x) = x /\ Signed(x) \in Int /\ Wrap(Signed(x)) = x
  <2>1. x \in Int /\ 0 <= x /\ x < WordRange /\ WordRange \in Nat \ {0}
    BY WordTypes
  <2> QED BY <2>1, SignedFits DEF Wrap
<1>2. CASE k = 0
  <2>1. Shift_C(x, "lsl", k, carry).result = x /\ Shift_C(x, "lsr", k, carry).result = x
        /\ Shift_C(x, "asr", k, carry).result = x
    BY <1>2 DEF Shift_C
  <2>2. Power(k) = 1 /\ k < Width /\ ~(k >= Width)
    BY <1>2, PowerStep
  <2>3. x * 1 = x /\ x \div 1 = x /\ Signed(x) \div 1 = Signed(x)
    BY <1>1
  <2> QED BY <1>1, <2>1, <2>2, <2>3
<1>3. CASE k # 0
  <2>1. /\ Shift_C(x, "lsl", k, carry) = LSL_C(x, k) /\ Shift_C(x, "lsr", k, carry) = LSR_C(x, k)
        /\ Shift_C(x, "asr", k, carry) = ASR_C(x, k)
    BY <1>3 DEF Shift_C
  <2> QED BY <2>1 DEF LSL_C, LSR_C, ASR_C, Power
<1> QED BY <1>2, <1>3

\* A rotation by the width is none.
LEMMA RotatedWhole ==
    ASSUME NEW x \in Word
    PROVE  Rotated(x, 0) = x /\ Rotated(x, Width) = x
<1>1. /\ x \in Int /\ 0 <= x /\ x < WordRange /\ WordRange \in Nat \ {0}
      /\ Power(0) = 1 /\ Power(Width) = WordRange /\ Width - Width = 0 /\ Width - 0 = Width
  BY WordTypes, SignBitIs, PowerStep
<1>2. x \div 1 = x /\ x % 1 = 0 /\ x \div WordRange = 0 /\ x % WordRange = x
  BY <1>1
<1>3. Rotated(x, 0) = x + (0 * WordRange)
  BY <1>1, <1>2 DEF Rotated
<1>4. Rotated(x, Width) = 0 + (x * 1)
  BY <1>1, <1>2 DEF Rotated
<1> QED BY <1>1, <1>3, <1>4

\* ROR rotates by the rest of the amount, its carry the bit that came to the top.
LEMMA RotationIs ==
    ASSUME NEW x \in Word, NEW k \in Nat, NEW carry
    PROVE  /\ Shift_C(x, "ror", k, carry).result = Rotated(x, k % Width)
           /\ k # 0 => Shift_C(x, "ror", k, carry).carryOut = (Rotated(x, k % Width) >= SignBit)
<1> DEFINE m == k % Width
<1>1. m \in 0 .. (Width - 1) /\ m \in 0 .. Width /\ Width - m \in 0 .. Width
  BY PowerStep
<1>2. CASE k = 0
  <2>1. Shift_C(x, "ror", k, carry).result = x /\ m = 0
    BY <1>2, PowerStep DEF Shift_C
  <2> QED BY <1>2, <2>1, RotatedWhole
<1>3. CASE k # 0
  <2>1. Shift_C(x, "ror", k, carry) = ROR_C(x, k)
    BY <1>3 DEF Shift_C
  <2>2. ROR_C(x, k).result = Rotated(x, m)
    <3>1. CASE m = 0
      <4>1. LSL_C(x, Width).result = 0 /\ Width - 0 = Width /\ x + 0 = x
        BY PowerStep, WordTypes DEF LSL_C
      <4>2. ROR_C(x, k).result = x + 0
        BY <3>1, <4>1 DEF ROR_C
      <4> QED BY <3>1, <4>1, <4>2, RotatedWhole
    <3>2. CASE m # 0
      <4>1. ~(m >= Width) /\ ~(Width - m >= Width)
        BY <1>1, <3>2, PowerStep
      <4> HIDE DEF m
      <4>2. /\ LSR_C(x, m).result = x \div Power(m)
            /\ LSL_C(x, Width - m).result = Wrap(x * Power(Width - m))
        BY <4>1 DEF LSR_C, LSL_C, Power
      <4>3. Wrap(x * Power(Width - m)) = (x % Power(m)) * Power(Width - m)
        BY <1>1, SplitIs
      <4>4. ROR_C(x, k).result = (x \div Power(m)) + Wrap(x * Power(Width - m))
        BY <3>2, <4>2 DEF ROR_C, m
      <4> QED BY <4>3, <4>4 DEF Rotated
    <3> QED BY <3>1, <3>2
  <2>3. ROR_C(x, k).carryOut = (ROR_C(x, k).result >= SignBit)
    BY DEF ROR_C
  <2> QED BY <1>3, <2>1, <2>2, <2>3
<1> QED BY <1>2, <1>3

\* Two shifts are the same when they leave the same word and the same flag.
LEMMA SameShift ==
    ASSUME NEW r, NEW q, r = q, NEW a \in BOOLEAN, NEW b \in BOOLEAN, a <=> b
    PROVE  [result |-> r, carryOut |-> a] = [result |-> q, carryOut |-> b]
<1>1. a = b
  BY Zenon
<1> QED BY <1>1

\* A shift by one place more is one more place.
LEMMA OnePlace ==
    ASSUME NEW x \in Word, NEW type \in {"lsl", "lsr", "asr", "ror"}, NEW k \in Nat,
           NEW carry \in BOOLEAN
    PROVE  ShiftByOne(type, Shift_C(x, type, k, carry).result) = Shift_C(x, type, k + 1, carry)
<1> DEFINE y == Shift_C(x, type, k, carry).result
           n == k + 1
           s == Shift_C(x, type, n, carry)
<1>1. /\ n \in Nat /\ n # 0 /\ Width \in Nat /\ Width >= 4 /\ x \in Int
      /\ SignBit \in Nat \ {0} /\ WordRange = 2 * SignBit
  BY PowerStep, WordTypes
<1>2. /\ type = "lsl" => s = LSL_C(x, n)
      /\ type = "lsr" => s = LSR_C(x, n)
      /\ type = "asr" => s = ASR_C(x, n)
      /\ type = "ror" => s = ROR_C(x, n)
  <2> HIDE DEF n
  <2> QED BY <1>1 DEF Shift_C
<1>3. s = [result |-> s.result, carryOut |-> s.carryOut] /\ s.carryOut \in BOOLEAN
  <2>1. s = [result |-> s.result, carryOut |-> s.carryOut]
    BY <1>2 DEF LSL_C, LSR_C, ASR_C, ROR_C
  <2>2. s.carryOut \in BOOLEAN
    BY <1>1, ShiftTypes
  <2> QED BY <2>1, <2>2
<1>4. CASE type = "lsl"
  <2>1. ShiftByOne(type, y) = [result |-> Wrap(2 * y), carryOut |-> y >= SignBit]
    BY <1>4 DEF ShiftByOne
  <2>2. s.carryOut <=> n <= Width /\ Bit(x, Width - n)
    <3>1. s = LSL_C(x, n)
      BY <1>2, <1>4
    <3> HIDE DEF s, n
    <3>2. LSL_C(x, n).carryOut = (n <= Width /\ Bit(x, Width - n))
      BY DEF LSL_C
    <3> QED BY <3>1, <3>2, Zenon
  <2>3. /\ y = IF k >= Width THEN 0 ELSE Wrap(x * Power(k))
        /\ s.result = IF n >= Width THEN 0 ELSE Wrap(x * Power(n))
    BY <1>1, <1>4, LeftIs
  <2> HIDE DEF s, y
  <2>4. CASE k < Width
    <3>1. k \in 0 .. (Width - 1) /\ ~(k >= Width) /\ n <= Width /\ (n >= Width => n = Width)
      BY <1>1, <2>4
    <3>2. Wrap(2 * y) = Wrap(x * Power(n)) /\ (y >= SignBit <=> Bit(x, Width - n))
      BY <2>3, <3>1, LeftStep
    <3>3. Wrap(x * Power(Width)) = 0
      <4>1. x * WordRange \in Int /\ 0 \in 0 .. (WordRange - 1) /\ x * WordRange = (WordRange * x) + 0
        BY <1>1
      <4> DEFINE a == x * WordRange
      <4> HIDE DEF a
      <4>2. a \in Int /\ 0 \in 0 .. (WordRange - 1) /\ a = (WordRange * x) + 0
        BY <4>1 DEF a
      <4>3. Wrap(a) = 0
        BY <1>1, <4>2, MultipleIsLost
      <4> QED BY <4>3, SignBitIs DEF a
    <3>4. Wrap(2 * y) = s.result
      BY <2>3, <3>1, <3>2, <3>3
    <3>5. y >= SignBit <=> s.carryOut
      BY <2>2, <3>1, <3>2
    <3>6. (y >= SignBit) \in BOOLEAN
      OBVIOUS
    <3> QED BY <1>3, <2>1, <3>4, <3>5, <3>6, SameShift DEF s, y
  <2>5. CASE ~(k < Width)
    <3>1. y = 0 /\ s.result = 0 /\ ~(n <= Width)
      BY <1>1, <2>3, <2>5
    <3>2. Wrap(2 * y) = s.result
      BY <1>1, <3>1 DEF Wrap
    <3>3. y >= SignBit <=> s.carryOut
      BY <1>1, <2>2, <3>1
    <3>4. (y >= SignBit) \in BOOLEAN
      OBVIOUS
    <3> QED BY <1>3, <2>1, <3>2, <3>3, <3>4, SameShift DEF s, y
  <2> QED BY <2>4, <2>5
<1>5. CASE type = "lsr"
  <2>1. ShiftByOne(type, y) = [result |-> y \div 2, carryOut |-> y % 2 = 1]
    BY <1>5 DEF ShiftByOne
  <2>2. s.carryOut <=> n <= Width /\ Bit(x, k)
    <3>1. n - 1 = k
      BY <1>1
    <3>2. s = LSR_C(x, n)
      BY <1>2, <1>5
    <3> HIDE DEF s, n
    <3>3. LSR_C(x, n).carryOut = (n <= Width /\ Bit(x, n - 1))
      BY DEF LSR_C
    <3> QED BY <3>1, <3>2, <3>3, Zenon
  <2>3. /\ y = IF k >= Width THEN 0 ELSE x \div Power(k)
        /\ s.result = IF n >= Width THEN 0 ELSE x \div Power(n)
    BY <1>1, <1>5, LeftIs
  <2>4. (y % 2 = 1) \in BOOLEAN
    OBVIOUS
  <2> HIDE DEF s, y
  <2>5. y \div 2 = s.result /\ (y % 2 = 1 <=> s.carryOut)
    <3>1. CASE k < Width
      <4>1. k \in 0 .. (Width - 1) /\ ~(k >= Width) /\ n <= Width /\ (n >= Width => n = Width)
        BY <1>1, <3>1
      <4>2. PICK g \in Int, b \in {0, 1} : x \div Power(k) = (2 * g) + b /\ x \div Power(k + 1) = g
        BY <1>1, <4>1, Halving
      <4>3. y = (2 * g) + b /\ x \div Power(n) = g
        BY <2>3, <4>1, <4>2
      <4>4. y \div 2 = g /\ y % 2 = b
        BY <4>3
      <4>5. Bit(x, k) <=> b = 1
        BY <2>3, <4>1, <4>4 DEF Bit, Power
      <4>6. x \div Power(Width) = 0
        <5>1. x \div WordRange = 0
          BY <1>1, WordTypes
        <5> QED BY <5>1, SignBitIs
      <4> QED BY <2>2, <2>3, <4>1, <4>3, <4>4, <4>5, <4>6
    <3>2. CASE ~(k < Width)
      <4>1. y = 0 /\ s.result = 0 /\ ~(n <= Width)
        BY <1>1, <2>3, <3>2
      <4> QED BY <2>2, <4>1
    <3> QED BY <3>1, <3>2
  <2> QED BY <1>3, <2>1, <2>4, <2>5, SameShift DEF s, y
<1>6. CASE type = "asr"
  <2>1. ShiftByOne(type, y) = [result |-> Wrap(Signed(y) \div 2), carryOut |-> y % 2 = 1]
    BY <1>6 DEF ShiftByOne
  <2>2. s.carryOut <=> IF n > Width THEN x >= SignBit ELSE Bit(x, k)
    <3>1. n - 1 = k
      BY <1>1
    <3>2. s = ASR_C(x, n)
      BY <1>2, <1>6
    <3> HIDE DEF s, n
    <3>3. ASR_C(x, n).carryOut = IF n > Width THEN x >= SignBit ELSE Bit(x, n - 1)
      BY DEF ASR_C
    <3> QED BY <3>1, <3>2, <3>3, Zenon
  <2>3. /\ y = IF k < Width THEN Wrap(Signed(x) \div Power(k))
               ELSE IF x >= SignBit THEN WordRange - 1 ELSE 0
        /\ s.result = IF n < Width THEN Wrap(Signed(x) \div Power(n))
                      ELSE IF x >= SignBit THEN WordRange - 1 ELSE 0
    BY <1>1, <1>6, LeftIs
  <2>4. (y % 2 = 1) \in BOOLEAN
    OBVIOUS
  <2>5. WordRange - 1 \in Nat /\ Wrap(0 - 1) = WordRange - 1 /\ Wrap(0) = 0
        /\ Signed(WordRange - 1) = 0 - 1 /\ Signed(0) = 0
    <3>1. Wrap(0 - 1) = WordRange - 1 /\ Wrap(0) = 0
      BY <1>1, SignedWraps
    <3> QED BY <1>1, <3>1 DEF Signed
  <2> HIDE DEF s, y
  <2>6. Wrap(Signed(y) \div 2) = s.result /\ (y % 2 = 1 <=> s.carryOut)
    <3>1. CASE k < Width
      <4>1. k \in 0 .. (Width - 1) /\ n <= Width /\ ~(n > Width) /\ (~(n < Width) => n = Width)
        BY <1>1, <3>1
      <4>2. /\ Wrap(Signed(y) \div 2) = Wrap(Signed(x) \div Power(n))
            /\ y % 2 = 1 <=> Bit(x, k)
        BY <2>3, <3>1, <4>1, ArithmeticStep
      <4>3. Wrap(Signed(x) \div Power(Width)) = IF x >= SignBit THEN WordRange - 1 ELSE 0
        <5> DEFINE z == Signed(x)
        <5>1. z \in Int /\ 0 - SignBit <= z /\ z < SignBit /\ (x >= SignBit <=> z < 0)
          BY <1>1, WordTypes, SignedFits DEF Signed
        <5> HIDE DEF z
        <5>2. z \div WordRange = IF z < 0 THEN 0 - 1 ELSE 0
          BY <1>1, <5>1
        <5>3. Wrap(z \div WordRange) = IF x >= SignBit THEN WordRange - 1 ELSE 0
          BY <2>5, <5>1, <5>2
        <5> QED BY <5>3, SignBitIs DEF z
      <4> QED BY <2>2, <2>3, <4>1, <4>2, <4>3
    <3>2. CASE ~(k < Width)
      <4>1. n > Width /\ ~(n < Width)
        BY <1>1, <3>2
      <4>2. CASE x >= SignBit
        <5>1. y = WordRange - 1 /\ s.result = WordRange - 1 /\ s.carryOut
          BY <2>2, <2>3, <3>2, <4>1, <4>2
        <5>2. Signed(y) \div 2 = 0 - 1 /\ y % 2 = 1
          BY <1>1, <2>5, <5>1
        <5> QED BY <2>5, <5>1, <5>2
      <4>3. CASE ~(x >= SignBit)
        <5>1. y = 0 /\ s.result = 0 /\ ~s.carryOut
          BY <2>2, <2>3, <3>2, <4>1, <4>3
        <5>2. Signed(y) \div 2 = 0 /\ y % 2 # 1
          BY <2>5, <5>1
        <5> QED BY <2>5, <5>1, <5>2
      <4> QED BY <4>2, <4>3
    <3> QED BY <3>1, <3>2
  <2> QED BY <1>3, <2>1, <2>4, <2>6, SameShift DEF s, y
<1>7. CASE type = "ror"
  <2> DEFINE m == k % Width
             next == (k + 1) % Width
  <2>1. ShiftByOne(type, y) = [result |-> (y \div 2) + ((y % 2) * SignBit), carryOut |-> y % 2 = 1]
    BY <1>7 DEF ShiftByOne
  <2>2. m \in 0 .. (Width - 1) /\ next = IF m + 1 = Width THEN 0 ELSE m + 1
    <3> DEFINE w == Width
               q == k \div w
    <3>1. w \in Nat \ {0} /\ w >= 4 /\ k \in Int
      BY <1>1
    <3>2. q \in Int /\ m \in 0 .. (w - 1) /\ k = (w * q) + m
      <4> HIDE DEF w
      <4> QED BY <3>1, Division DEF q, m, w
    <3>3. k + 1 \in Int /\ q + 1 \in Int /\ 0 \in 0 .. (w - 1)
      BY <3>1, <3>2
    <3> DEFINE c == k + 1
               p == q + 1
    <3>4. CASE m + 1 = w
      <4>1. c = (w * p) + 0
        <5> HIDE DEF w, q, m
        <5> QED BY <3>1, <3>2, <3>4
      <4> HIDE DEF w, c, p
      <4>2. c % w = 0
        BY <3>1, <3>3, <4>1, QuotientIs DEF c, p
      <4> QED BY <3>2, <3>4, <4>2 DEF c, w
    <3>5. CASE m + 1 # w
      <4> DEFINE l == m + 1
      <4>1. c = (w * q) + l /\ l \in 0 .. (w - 1)
        <5> HIDE DEF w, q, m
        <5> QED BY <3>1, <3>2, <3>5
      <4> HIDE DEF w, c, q, l
      <4>2. c % w = l
        BY <3>1, <3>2, <3>3, <4>1, QuotientIs DEF c
      <4> QED BY <3>2, <3>5, <4>2 DEF c, w, l
    <3> QED BY <3>4, <3>5
  <2>3. /\ y = Rotated(x, m) /\ s.result = Rotated(x, next)
        /\ s.carryOut = (Rotated(x, next) >= SignBit)
    BY <1>1, <1>7, RotationIs
  <2>4. (y % 2 = 1) \in BOOLEAN
    OBVIOUS
  <2> HIDE DEF s, y, m, next
  <2>5. Rotated(x, next) = Rotated(x, m + 1)
    BY <2>2, RotatedWhole
  <2>6. /\ (y \div 2) + ((y % 2) * SignBit) = Rotated(x, m + 1)
        /\ y % 2 = 1 <=> Rotated(x, m + 1) >= SignBit
    BY <2>2, <2>3, RotateStep
  <2>7. (y \div 2) + ((y % 2) * SignBit) = s.result /\ (y % 2 = 1 <=> s.carryOut)
    BY <2>3, <2>5, <2>6
  <2> QED BY <1>3, <2>1, <2>4, <2>7, SameShift DEF s, y
<1> QED BY <1>4, <1>5, <1>6, <1>7

\* A shift by n places is n shifts by one, whatever n: by nothing, by the width
\* and by more.
THEOREM ShiftsRepeat ==
    ASSUME NEW x \in Word, NEW type \in {"lsl", "lsr", "asr", "ror"}, NEW n \in Nat,
           NEW carry \in BOOLEAN
    PROVE  Shift_C(x, type, n, carry) = Repeated(type, x, carry, n)
<1> DEFINE Next(f) == [k \in 0 .. n |->
                         IF k = 0 THEN [result |-> x, carryOut |-> carry]
                         ELSE ShiftByOne(type, f[k - 1].result)]
           f == [k \in 0 .. n |-> Shift_C(x, type, k, carry)]
           shifted == CHOOSE g : g = Next(g)
<1>1. f = Next(f)
  <2>1. ASSUME NEW k \in 0 .. n
        PROVE  Shift_C(x, type, k, carry)
                 = IF k = 0 THEN [result |-> x, carryOut |-> carry]
                   ELSE ShiftByOne(type, f[k - 1].result)
    <3>1. CASE k = 0
      BY <3>1 DEF Shift_C
    <3>2. CASE k # 0
      <4>1. k - 1 \in Nat /\ k - 1 \in 0 .. n /\ (k - 1) + 1 = k
        BY <3>2
      <4>2. f[k - 1] = Shift_C(x, type, k - 1, carry)
        BY <4>1
      <4> DEFINE j == k - 1
      <4> HIDE DEF j, f
      <4>3. ShiftByOne(type, Shift_C(x, type, j, carry).result) = Shift_C(x, type, j + 1, carry)
        BY <4>1, OnePlace DEF j
      <4> QED BY <3>2, <4>1, <4>2, <4>3 DEF j
    <3> QED BY <3>1, <3>2
  <2> QED BY <2>1
<1>2. shifted = Next(shifted)
  <2> HIDE DEF Next
  <2> QED BY <1>1
<1>3. Repeated(type, x, carry, n) = shifted[n]
  BY DEF Repeated
<1> HIDE DEF shifted
<1>4. \A k \in 0 .. n : shifted[k] = f[k]
  <2> DEFINE S == {k \in 0 .. n : shifted[k] # f[k]}
  <2>1. SUFFICES ASSUME S # {} PROVE FALSE
    OBVIOUS
  <2>2. S \subseteq Nat
    OBVIOUS
  <2>3. PICK k \in S : \A j \in S : k <= j
    <3> HIDE DEF S
    <3> QED BY <2>1, <2>2, HasLowest
  <2>4. k \in 0 .. n /\ shifted[k] # f[k]
    OBVIOUS
  <2>5. /\ shifted[k] = IF k = 0 THEN [result |-> x, carryOut |-> carry]
                        ELSE ShiftByOne(type, shifted[k - 1].result)
        /\ f[k] = IF k = 0 THEN [result |-> x, carryOut |-> carry]
                  ELSE ShiftByOne(type, f[k - 1].result)
    <3> HIDE DEF f
    <3>1. Next(shifted)[k] = IF k = 0 THEN [result |-> x, carryOut |-> carry]
                             ELSE ShiftByOne(type, shifted[k - 1].result)
      BY <2>4
    <3>2. Next(f)[k] = IF k = 0 THEN [result |-> x, carryOut |-> carry]
                       ELSE ShiftByOne(type, f[k - 1].result)
      BY <2>4
    <3> HIDE DEF Next
    <3> QED BY <1>1, <1>2, <3>1, <3>2
  <2>6. k # 0
    <3> HIDE DEF f
    <3> QED BY <2>4, <2>5
  <2>7. k - 1 \in 0 .. n /\ k - 1 < k
    BY <2>4, <2>6
  <2>8. shifted[k - 1] = f[k - 1]
    <3> HIDE DEF f
    <3>1. k - 1 \notin S
      BY <2>3, <2>4, <2>7
    <3> QED BY <2>7, <3>1
  <2> HIDE DEF f
  <2> QED BY <2>4, <2>5, <2>6, <2>8
<1>5. n \in 0 .. n
  OBVIOUS
<1> QED BY <1>3, <1>4, <1>5
=============================================================================
