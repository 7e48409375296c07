-------------------------- MODULE PinkySimCpuProofs --------------------------
(***************************************************************************)
(* The instructions of PinkySimCpu, for words of every width and whatever  *)
(* registers, instructions and memory there are.  TypeOK is inductive, and *)
(* what the properties say of a state follows from it: they execute their  *)
(* scenario from wherever the program has come to.                         *)
(***************************************************************************)
EXTENDS PinkySimCpu, PinkySimAluProofs, FiniteSetTheorems

-----------------------------------------------------------------------------
(* Sums over sets.                                                         *)

\* Among subsets of a finite set there is a minimal one: without any of its elements
\* it is none of them.
LEMMA HasMinimal ==
    ASSUME NEW S, IsFiniteSet(S), NEW B, B \subseteq SUBSET S, B # {}
    PROVE  \E s \in B : \A x \in s : s \ {x} \notin B
<1> DEFINE sizes == {Cardinality(s) : s \in B}
<1>1. \A s \in SUBSET S : IsFiniteSet(s) /\ Cardinality(s) \in Nat
  BY FS_Subset, FS_CardinalityType
<1>2. sizes \subseteq Nat /\ sizes # {}
  BY <1>1
<1>3. PICK n \in sizes : \A k \in sizes : n <= k
  <2> HIDE DEF sizes
  <2> QED BY <1>2, HasLowest
<1>4. PICK s \in B : Cardinality(s) = n
  OBVIOUS
<1>5. ASSUME NEW x \in s, s \ {x} \in B PROVE FALSE
  <2>1. Cardinality(s \ {x}) = Cardinality(s) - 1
    BY <1>1, FS_RemoveElement
  <2>2. n <= Cardinality(s \ {x})
    BY <1>3, <1>5
  <2> QED BY <1>1, <1>4, <2>1, <2>2
<1> QED BY <1>4, <1>5

\* The element that a fold takes next.
Picked(s) == CHOOSE x \in s : TRUE

\* What the sum of weights over a set is for a function on its subsets.
SumAt(f, w, s) == IF s = {} THEN 0 ELSE w[Picked(s)] + f[s \ {Picked(s)}]

\* A function that is the fold of w over every subset of S.
IsSumOf(f, w, S) == f = [s \in SUBSET S |-> SumAt(f, w, s)]

\* There is such a function.
LEMMA SumExists ==
    ASSUME NEW S, IsFiniteSet(S), NEW w
    PROVE  \E f : IsSumOf(f, w, S)
<1> DEFINE Sums(f, n) == \A s \in SUBSET S : Cardinality(s) <= n => f[s] = SumAt(f, w, s)
           bad == {n \in 0 .. Cardinality(S) : ~\E f : Sums(f, n)}
<1>1. \A s \in SUBSET S : IsFiniteSet(s) /\ Cardinality(s) \in Nat /\ Cardinality(s) <= Cardinality(S)
  BY FS_Subset, FS_CardinalityType
<1>2. ASSUME bad # {} PROVE FALSE
  <2>1. bad \subseteq Nat
    BY FS_CardinalityType
  <2>2. PICK m \in bad : \A k \in bad : m <= k
    <3> HIDE DEF bad
    <3> QED BY <1>2, <2>1, HasLowest
  <2>3. m \in 0 .. Cardinality(S) /\ Cardinality(S) \in Nat /\ ~\E f : Sums(f, m)
    BY FS_CardinalityType
  <2>4. CASE m = 0
    <3> DEFINE g == [s \in SUBSET S |-> 0]
    <3>1. ASSUME NEW s \in SUBSET S, Cardinality(s) <= 0 PROVE s = {}
      BY <1>1, <3>1, FS_EmptySet
    <3>2. Sums(g, 0)
      BY <3>1 DEF SumAt
    <3> QED BY <2>3, <2>4, <3>2
  <2>5. CASE m # 0
    <3>1. m - 1 \in 0 .. Cardinality(S) /\ ~(m <= m - 1)
      BY <2>3, <2>5
    <3>2. PICK f : Sums(f, m - 1)
      BY <2>2, <3>1
    <3> DEFINE g == [s \in SUBSET S |-> SumAt(f, w, s)]
    <3>3. ASSUME NEW s \in SUBSET S, Cardinality(s) <= m PROVE g[s] = SumAt(g, w, s)
      <4>1. CASE s = {}
        BY <4>1 DEF SumAt
      <4>2. CASE s # {}
        <5> DEFINE x == Picked(s)
                   t == s \ {x}
        <5>1. x \in s
          BY <4>2 DEF Picked
        <5>2. t \in SUBSET S /\ Cardinality(t) = Cardinality(s) - 1
          BY <1>1, <5>1, FS_RemoveElement
        <5>3. Cardinality(t) <= m - 1
          BY <1>1, <2>3, <3>3, <5>2
        <5> HIDE DEF t
        <5>4. g[t] = SumAt(f, w, t) /\ f[t] = SumAt(f, w, t)
          BY <3>2, <5>2, <5>3
        <5>5. g[s] = w[x] + f[t] /\ SumAt(g, w, s) = w[x] + g[t]
          BY <4>2 DEF SumAt, t
        <5> QED BY <5>4, <5>5
      <4> QED BY <4>1, <4>2
    <3>4. Sums(g, m)
      BY <3>3
    <3> QED BY <2>3, <3>4
  <2> QED BY <2>4, <2>5
<1>3. PICK f : Sums(f, Cardinality(S))
  <2>1. Cardinality(S) \in 0 .. Cardinality(S)
    BY FS_CardinalityType
  <2> QED BY <1>2, <2>1
<1> DEFINE g == [s \in SUBSET S |-> f[s]]
<1>4. ASSUME NEW s \in SUBSET S PROVE g[s] = SumAt(g, w, s)
  <2>1. f[s] = SumAt(f, w, s)
    BY <1>1, <1>3
  <2>2. SumAt(g, w, s) = SumAt(f, w, s)
    BY DEF SumAt
  <2> QED BY <2>1, <2>2
<1>5. IsSumOf(g, w, S)
  BY <1>4 DEF IsSumOf
<1> QED BY <1>5

\* What is summed, and that the sum is one in any order.
AreNumbers(w, S) == \A x \in S : w[x] \in Int

AddsUp(f, w, S) ==
    /\ f[{}] = 0
    /\ \A s \in SUBSET S : f[s] \in Int
    /\ \A s \in SUBSET S : \A t \in s : f[s] = w[t] + f[s \ {t}]

\* It sums numbers, and any element may be the one that is taken out of a set.
LEMMA SumTakes ==
    ASSUME NEW S, IsFiniteSet(S), NEW w, AreNumbers(w, S), NEW f, IsSumOf(f, w, S)
    PROVE  AddsUp(f, w, S)
<1>1. \A s \in SUBSET S : f[s] = SumAt(f, w, s)
  BY DEF IsSumOf
<1>2. f[{}] = 0
  BY <1>1 DEF SumAt
<1>3. ASSUME NEW s \in SUBSET S, s # {}
      PROVE  Picked(s) \in s /\ f[s] = w[Picked(s)] + f[s \ {Picked(s)}]
  BY <1>1, <1>3 DEF SumAt, Picked
<1>4. \A s \in SUBSET S : f[s] \in Int
  <2> DEFINE B == {s \in SUBSET S : f[s] \notin Int}
  <2> SUFFICES ASSUME B # {} PROVE FALSE
    OBVIOUS
  <2>1. PICK s \in B : \A x \in s : s \ {x} \notin B
    <3>1. B \subseteq SUBSET S
      OBVIOUS
    <3> HIDE DEF B
    <3> QED BY <3>1, HasMinimal
  <2>2. s \in SUBSET S /\ s # {}
    BY <1>2
  <2>3. Picked(s) \in s /\ f[s] = w[Picked(s)] + f[s \ {Picked(s)}]
    BY <1>3, <2>2
  <2>4. f[s \ {Picked(s)}] \in Int /\ w[Picked(s)] \in Int
    BY <2>1, <2>2, <2>3 DEF AreNumbers
  <2> QED BY <2>3, <2>4
<1>5. \A s \in SUBSET S : \A t \in s : f[s] = w[t] + f[s \ {t}]
  <2> DEFINE B == {s \in SUBSET S : \E t \in s : f[s] # w[t] + f[s \ {t}]}
  <2> SUFFICES ASSUME B # {} PROVE FALSE
    OBVIOUS
  <2>1. PICK s \in B : \A x \in s : s \ {x} \notin B
    <3>1. B \subseteq SUBSET S
      OBVIOUS
    <3> HIDE DEF B
    <3> QED BY <3>1, HasMinimal
  <2>2. PICK t \in s : f[s] # w[t] + f[s \ {t}]
    OBVIOUS
  <2> DEFINE x == Picked(s)
  <2>3. s \in SUBSET S /\ s # {} /\ x \in s /\ f[s] = w[x] + f[s \ {x}]
    BY <1>3
  <2>4. x # t
    BY <2>2, <2>3
  <2> HIDE DEF x
  <2>5. f[s \ {x}] = w[t] + f[(s \ {x}) \ {t}]
    <3>1. s \ {x} \notin B /\ s \ {x} \in SUBSET S /\ t \in s \ {x}
      BY <2>1, <2>2, <2>3, <2>4
    <3> QED BY <3>1
  <2>6. f[s \ {t}] = w[x] + f[(s \ {t}) \ {x}]
    <3>1. s \ {t} \notin B /\ s \ {t} \in SUBSET S /\ x \in s \ {t}
      BY <2>1, <2>2, <2>3, <2>4
    <3> QED BY <3>1
  <2>7. (s \ {x}) \ {t} = (s \ {t}) \ {x}
    OBVIOUS
  <2>8. w[x] \in Int /\ w[t] \in Int /\ f[(s \ {t}) \ {x}] \in Int
    BY <1>4, <2>2, <2>3 DEF AreNumbers
  <2> DEFINE rest == f[(s \ {t}) \ {x}]
  <2>9. f[s \ {x}] = w[t] + rest /\ f[s \ {t}] = w[x] + rest
    BY <2>5, <2>6, <2>7, Zenon
  <2> HIDE DEF B, rest
  <2>10. rest \in Int
    BY <2>8 DEF rest
  <2>11. f[s] = w[x] + (w[t] + rest)
    BY <2>3, <2>9
  <2>12. w[t] + f[s \ {t}] = w[t] + (w[x] + rest)
    BY <2>9
  <2>13. w[t] + (w[x] + rest) = w[x] + (w[t] + rest)
    BY <2>8, <2>10
  <2> QED BY <2>2, <2>11, <2>12, <2>13
<1> QED BY <1>2, <1>4, <1>5 DEF AddsUp

\* What Assembled sums over the places of the bytes.
LEMMA AssembledIsSum ==
    ASSUME NEW bytes, NEW size \in Nat
    PROVE  \E f : /\ IsSumOf(f, [k \in 0 .. (size - 1) |-> bytes[k] * RangeOf(k)], 0 .. (size - 1))
                  /\ Assembled(bytes, size) = f[0 .. (size - 1)]
<1> DEFINE S == 0 .. (size - 1)
           w == [k \in S |-> bytes[k] * RangeOf(k)]
           Iter(f) == [s \in SUBSET S |->
                         IF s = {} THEN 0
                         ELSE LET x == CHOOSE x \in s : TRUE
                              IN  bytes[x] * RangeOf(x) + f[s \ {x}]]
           iter == CHOOSE f : f = Iter(f)
<1>1. Assembled(bytes, size) = iter[S]
  BY DEF Assembled, MapThenSumSet, MapThenFoldSet
<1>2. ASSUME NEW f PROVE Iter(f) = [s \in SUBSET S |-> SumAt(f, w, s)]
  <2>1. ASSUME NEW s \in SUBSET S
        PROVE  Iter(f)[s] = SumAt(f, w, s)
    <3>1. CASE s = {}
      BY <3>1 DEF SumAt
    <3>2. CASE s # {}
      <4>1. Picked(s) \in s /\ Picked(s) \in S
        BY <3>2 DEF Picked
      <4>2. Iter(f)[s] = bytes[Picked(s)] * RangeOf(Picked(s)) + f[s \ {Picked(s)}]
        BY <3>2 DEF Picked
      <4>3. w[Picked(s)] = bytes[Picked(s)] * RangeOf(Picked(s))
        BY <4>1
      <4> QED BY <3>2, <4>2, <4>3 DEF SumAt
    <3> QED BY <3>1, <3>2
  <2> QED BY <2>1
<1>3. PICK g : IsSumOf(g, w, S)
  <2>1. IsFiniteSet(S)
    BY FS_Interval
  <2> HIDE DEF w, S
  <2> QED BY <2>1, SumExists
<1>4. g = Iter(g)
  BY <1>2, <1>3 DEF IsSumOf
<1> HIDE DEF Iter
<1>5. iter = Iter(iter)
  BY <1>4
<1> HIDE DEF iter
<1>6. IsSumOf(iter, w, S)
  BY <1>2, <1>5 DEF IsSumOf
<1> QED BY <1>1, <1>6

\* What Number sums over the bits.
LEMMA NumberIsSum ==
    ASSUME NEW ks, IsFiniteSet(ks)
    PROVE  \E f : IsSumOf(f, [k \in ks |-> Power(k)], ks) /\ Number(ks) = f[ks]
<1> DEFINE w == [k \in ks |-> Power(k)]
           Iter(f) == [s \in SUBSET ks |->
                         IF s = {} THEN 0
                         ELSE LET x == CHOOSE x \in s : TRUE IN 2 ^ x + f[s \ {x}]]
           iter == CHOOSE f : f = Iter(f)
<1>1. Number(ks) = iter[ks]
  BY DEF Number, MapThenSumSet, MapThenFoldSet
<1>2. ASSUME NEW f PROVE Iter(f) = [s \in SUBSET ks |-> SumAt(f, w, s)]
  <2>1. ASSUME NEW s \in SUBSET ks
        PROVE  Iter(f)[s] = SumAt(f, w, s)
    <3>1. CASE s = {}
      BY <3>1 DEF SumAt
    <3>2. CASE s # {}
      <4>1. Picked(s) \in s /\ Picked(s) \in ks
        BY <3>2 DEF Picked
      <4>2. Iter(f)[s] = 2 ^ Picked(s) + f[s \ {Picked(s)}]
        BY <3>2 DEF Picked
      <4>3. w[Picked(s)] = 2 ^ Picked(s)
        BY <4>1 DEF Power
      <4> QED BY <3>2, <4>2, <4>3 DEF SumAt
    <3> QED BY <3>1, <3>2
  <2> QED BY <2>1
<1>3. PICK g : IsSumOf(g, w, ks)
  <2> HIDE DEF w
  <2> QED BY SumExists
<1>4. g = Iter(g)
  BY <1>2, <1>3 DEF IsSumOf
<1> HIDE DEF Iter
<1>5. iter = Iter(iter)
  BY <1>4
<1> HIDE DEF iter
<1>6. IsSumOf(iter, w, ks)
  BY <1>2, <1>5 DEF IsSumOf
<1> QED BY <1>1, <1>6

\* The bits below one make a number below its weight.
LEMMA NumberIs ==
    ASSUME NEW n \in 0 .. Width, NEW ks, ks \subseteq 0 .. (n - 1)
    PROVE  Number(ks) \in 0 .. (Power(n) - 1)
<1>1. n \in Nat /\ Width \in Nat /\ n - 1 \in Int
  BY PowerStep
<1>2. IsFiniteSet(ks)
  <2>1. IsFiniteSet(0 .. (n - 1))
    BY <1>1, FS_Interval
  <2> QED BY <2>1, FS_Subset
<1> DEFINE w == [k \in ks |-> Power(k)]
<1>3. PICK f : IsSumOf(f, w, ks) /\ Number(ks) = f[ks]
  BY <1>2, NumberIsSum
<1>4. \A k \in ks : w[k] \in Int /\ w[k] = Power(k)
  BY <1>1, PowerIs
<1> HIDE DEF w
<1>5. /\ f[{}] = 0 /\ \A s \in SUBSET ks : f[s] \in Int
      /\ \A s \in SUBSET ks : \A t \in s : f[s] = w[t] + f[s \ {t}]
  <2>1. AreNumbers(w, ks)
    BY <1>4 DEF AreNumbers
  <2>2. IsSumOf(f, w, ks)
    BY <1>3
  <2>3. AddsUp(f, w, ks)
    BY <1>2, <2>1, <2>2, SumTakes
  <2> QED BY <2>3 DEF AddsUp
<1> DEFINE Below(m) == \A s \in SUBSET ks : s \subseteq 0 .. (m - 1) => 0 <= f[s] /\ f[s] < Power(m)
           bad == {m \in 0 .. n : ~Below(m)}
<1>6. ASSUME bad # {} PROVE FALSE
  <2>1. bad \subseteq Nat
    BY <1>1
  <2>2. PICK m \in bad : \A j \in bad : m <= j
    <3> HIDE DEF bad
    <3> QED BY <1>6, <2>1, HasLowest
  <2>3. m \in 0 .. n /\ ~Below(m)
    OBVIOUS
  <2>4. CASE m = 0
    <3>1. ASSUME NEW s \in SUBSET ks, s \subseteq 0 .. (0 - 1) PROVE 0 <= f[s] /\ f[s] < Power(0)
      <4>1. s = {}
        BY <3>1
      <4> QED BY <1>5, <4>1, PowerStep
    <3> QED BY <2>3, <2>4, <3>1
  <2>5. CASE m # 0
    <3> DEFINE l == m - 1
    <3>1. l \in 0 .. n /\ l \in 0 .. (Width - 1) /\ l + 1 = m /\ ~(m <= l) /\ l \in 0 .. Width
      BY <1>1, <2>3, <2>5
    <3>2. Below(l)
      BY <2>2, <3>1
    <3>3. Power(m) = 2 * Power(l) /\ Power(l) \in Nat \ {0}
      <4> HIDE DEF l
      <4> QED BY <3>1, PowerStep, PowerIs
    <3>4. ASSUME NEW s \in SUBSET ks, s \subseteq 0 .. (m - 1)
          PROVE  0 <= f[s] /\ f[s] < Power(m)
      <4>1. s \ {l} \in SUBSET ks /\ s \ {l} \subseteq 0 .. (l - 1)
        BY <3>1, <3>4
      <4>2. 0 <= f[s \ {l}] /\ f[s \ {l}] < Power(l) /\ f[s \ {l}] \in Int
        BY <1>5, <3>2, <4>1
      <4>3. CASE l \in s
        <5>1. f[s] = Power(l) + f[s \ {l}]
          BY <1>4, <1>5, <4>3
        <5> HIDE DEF l
        <5> QED BY <3>3, <4>2, <5>1
      <4>4. CASE l \notin s
        <5>1. s \ {l} = s
          BY <4>4
        <5>2. f[s \ {l}] = f[s]
          BY <5>1
        <5> HIDE DEF l
        <5> QED BY <3>3, <4>2, <5>2
      <4> QED BY <4>3, <4>4
    <3> QED BY <2>3, <3>4
  <2> QED BY <2>4, <2>5
<1>7. Below(n)
  BY <1>1, <1>6
<1>8. 0 <= f[ks] /\ f[ks] < Power(n) /\ f[ks] \in Int
  BY <1>5, <1>7
<1> QED BY <1>3, <1>8, PowerIs

-----------------------------------------------------------------------------
(* Bytes.                                                                  *)

\* How many values bytes have: the powers of one number, up to the words.
LEMMA RangesAre ==
    /\ ByteRange \in Nat /\ ByteRange >= 2
    /\ RangeOf(0) = 1 /\ RangeOf(1) = ByteRange /\ RangeOf(2) = ByteRange * ByteRange
    /\ RangeOf(3) = ByteRange * RangeOf(2) /\ RangeOf(4) = ByteRange * RangeOf(3)
    /\ RangeOf(4) = WordRange
    /\ \A k \in 0 .. 4 : RangeOf(k) \in Nat \ {0}
<1> DEFINE R(k) == RangeOf(k)
<1>1. /\ ByteRange \in Nat /\ R(0) = 1 /\ R(4) = WordRange
      /\ \A k \in 0 .. 3 : R(k + 1) = ByteRange * R(k)
  BY BytesAssumption
<1> HIDE DEF R
<1>2. R(1) = ByteRange /\ R(2) = ByteRange * R(1) /\ R(3) = ByteRange * R(2) /\ R(4) = ByteRange * R(3)
  <2>1. R(0 + 1) = ByteRange * R(0) /\ R(1 + 1) = ByteRange * R(1)
        /\ R(2 + 1) = ByteRange * R(2) /\ R(3 + 1) = ByteRange * R(3)
    BY <1>1
  <2> QED BY <1>1, <2>1
<1>3. WordRange \in Nat /\ WordRange >= 16
  BY SignBitIs
<1>4. ByteRange >= 2
  <2>1. CASE ByteRange = 0
    BY <1>1, <1>2, <1>3, <2>1
  <2>2. CASE ByteRange = 1
    BY <1>1, <1>2, <1>3, <2>2
  <2> QED BY <1>1, <2>1, <2>2
<1>5. R(1) \in Nat \ {0} /\ R(2) \in Nat \ {0} /\ R(3) \in Nat \ {0} /\ R(4) \in Nat \ {0}
  <2>1. ASSUME NEW a \in Nat \ {0} PROVE ByteRange * a \in Nat \ {0}
    BY <1>1, <1>4
  <2>2. R(1) \in Nat \ {0}
    BY <1>1, <1>2, <1>4
  <2>3. R(2) \in Nat \ {0}
    BY <1>2, <2>1, <2>2
  <2>4. R(3) \in Nat \ {0}
    BY <1>2, <2>1, <2>3
  <2>5. R(4) \in Nat \ {0}
    BY <1>2, <2>1, <2>4
  <2> QED BY <2>2, <2>3, <2>4, <2>5
<1>6. \A k \in 0 .. 4 : R(k) \in Nat \ {0}
  BY <1>1, <1>5
<1> QED BY <1>1, <1>2, <1>4, <1>6 DEF R

\* One more byte behind a number.
LEMMA OneMoreByte ==
    ASSUME NEW r \in Nat \ {0}, NEW a \in 0 .. (r - 1), NEW b \in 0 .. (ByteRange - 1)
    PROVE  b * r \in Int /\ a + (b * r) \in 0 .. ((ByteRange * r) - 1)
<1>1. ByteRange \in Nat /\ ByteRange >= 2
  BY RangesAre
<1>2. b \in Int /\ r \in Nat /\ ByteRange - 1 \in Int /\ 0 \in Int /\ 0 <= b /\ b <= ByteRange - 1
  BY <1>1
<1>3. b * r \in Int /\ b * r <= (ByteRange - 1) * r /\ 0 * r <= b * r
  BY <1>2, ProductsGrow
<1>4. (ByteRange - 1) * r = (ByteRange * r) - r /\ 0 * r = 0 /\ ByteRange * r \in Int
  BY <1>1
<1> QED BY <1>3, <1>4

\* Bytes make a number of as many bytes: they are its digits.
LEMMA AssembledIs ==
    ASSUME NEW bytes, NEW size \in 1 .. 4, \A k \in 0 .. (size - 1) : bytes[k] \in 0 .. (ByteRange - 1)
    PROVE  /\ Assembled(bytes, size) \in 0 .. (RangeOf(size) - 1)
           /\ size = 4 => Assembled(bytes, 4)
                = ((bytes[0] + (bytes[1] * RangeOf(1))) + (bytes[2] * RangeOf(2))) + (bytes[3] * RangeOf(3))
<1> DEFINE S == 0 .. (size - 1)
           w == [k \in S |-> bytes[k] * RangeOf(k)]
<1>1. PICK f : IsSumOf(f, w, S) /\ Assembled(bytes, size) = f[S]
  <2>1. size \in Nat
    OBVIOUS
  <2> QED BY <2>1, AssembledIsSum
<1>2. \A k \in S : w[k] = bytes[k] * RangeOf(k) /\ w[k] \in Int
  <2>1. ASSUME NEW k \in S PROVE bytes[k] * RangeOf(k) \in Int
    <3>1. bytes[k] \in Int /\ RangeOf(k) \in Nat
      BY RangesAre
    <3> QED BY <3>1, ProductsGrow
  <2> QED BY <2>1
<1>3. IsFiniteSet(S)
  BY FS_Interval
<1> HIDE DEF w
<1>4. /\ f[{}] = 0 /\ \A s \in SUBSET S : f[s] \in Int
      /\ \A s \in SUBSET S : \A t \in s : f[s] = w[t] + f[s \ {t}]
  <2>1. AreNumbers(w, S)
    BY <1>2 DEF AreNumbers
  <2> HIDE DEF S
  <2>2. AddsUp(f, w, S)
    BY <1>1, <1>3, <2>1, SumTakes
  <2> QED BY <2>2 DEF AddsUp
<1> DEFINE sum(n) == f[0 .. (n - 1)]
<1>5. sum(0) = 0
  <2>1. 0 .. (0 - 1) = {}
    OBVIOUS
  <2> QED BY <1>4, <2>1
<1>6. ASSUME NEW n \in 0 .. (size - 1) PROVE sum(n + 1) = sum(n) + (bytes[n] * RangeOf(n)) /\ sum(n) \in Int
  <2>1. 0 .. ((n + 1) - 1) \in SUBSET S /\ n \in 0 .. ((n + 1) - 1) /\ n \in S
    OBVIOUS
  <2>2. (0 .. ((n + 1) - 1)) \ {n} = 0 .. (n - 1) /\ 0 .. (n - 1) \in SUBSET S
    OBVIOUS
  <2>3. sum(n + 1) = w[n] + f[(0 .. ((n + 1) - 1)) \ {n}]
    BY <1>4, <2>1
  <2>4. sum(n + 1) = w[n] + sum(n)
    BY <2>2, <2>3
  <2>5. sum(n) \in Int
    BY <1>4, <2>2
  <2>6. w[n] = bytes[n] * RangeOf(n) /\ w[n] \in Int
    BY <1>2, <2>1
  <2> HIDE DEF sum
  <2> QED BY <2>4, <2>5, <2>6
<1>7. sum(size) = Assembled(bytes, size)
  BY <1>1
<1> HIDE DEF sum, S
<1>8. ASSUME NEW n \in 0 .. (size - 1), sum(n) \in 0 .. (RangeOf(n) - 1)
      PROVE  sum(n + 1) \in 0 .. (RangeOf(n + 1) - 1)
  <2>1. RangeOf(n) \in Nat \ {0} /\ RangeOf(n + 1) = ByteRange * RangeOf(n)
    BY RangesAre, BytesAssumption
  <2>2. bytes[n] \in 0 .. (ByteRange - 1)
    OBVIOUS
  <2>3. sum(n) + (bytes[n] * RangeOf(n)) \in 0 .. ((ByteRange * RangeOf(n)) - 1)
    BY <1>8, <2>1, <2>2, OneMoreByte
  <2> QED BY <1>6, <2>1, <2>3
<1>9. sum(0) \in 0 .. (RangeOf(0) - 1) /\ sum(1) \in 0 .. (RangeOf(1) - 1)
  <2>1. sum(0) \in 0 .. (RangeOf(0) - 1)
    BY <1>5, RangesAre
  <2> QED BY <1>8, <2>1
<1>10. sum(size) \in 0 .. (RangeOf(size) - 1)
  <2>1. CASE size = 1
    BY <1>9, <2>1
  <2>2. size > 1 => sum(2) \in 0 .. (RangeOf(2) - 1)
    BY <1>8, <1>9
  <2>3. size > 2 => sum(3) \in 0 .. (RangeOf(3) - 1)
    BY <1>8, <2>2
  <2>4. size > 3 => sum(4) \in 0 .. (RangeOf(4) - 1)
    BY <1>8, <2>3
  <2> QED BY <2>1, <2>2, <2>3, <2>4
<1>11. CASE size = 4
  <2>1. /\ sum(1) = sum(0) + (bytes[0] * RangeOf(0)) /\ sum(2) = sum(1) + (bytes[1] * RangeOf(1))
        /\ sum(3) = sum(2) + (bytes[2] * RangeOf(2)) /\ sum(4) = sum(3) + (bytes[3] * RangeOf(3))
    BY <1>6, <1>11
  <2>2. bytes[0] * RangeOf(0) = bytes[0] /\ bytes[0] \in Int
    BY <1>11, RangesAre
  <2>3. sum(1) = bytes[0]
    BY <1>5, <2>1, <2>2
  <2> QED BY <1>7, <1>10, <1>11, <2>1, <2>3
<1> QED BY <1>7, <1>10, <1>11

\* A byte of a word.
LEMMA ByteIs ==
    ASSUME NEW x \in Word, NEW k \in 0 .. 3
    PROVE  ByteOf(x, k) \in 0 .. (ByteRange - 1)
<1>1. x \in Int
  BY WordTypes
<1>2. RangeOf(k) \in Nat \ {0} /\ ByteRange \in Nat \ {0}
  BY RangesAre
<1>3. x \div RangeOf(k) \in Int
  BY <1>1, <1>2, Division
<1> QED BY <1>2, <1>3, Division DEF ByteOf

-----------------------------------------------------------------------------
(* The context and its fields.                                             *)

Results == {"ok", "hardFault", "svc", "unsupported"} \cup Thrown

\* A context as TypeOK has it, and an outcome that leaves such a one.
Typed(s) == s \in Context /\ s.pc % 2 = 0
Good(o)  == Typed(o.after) /\ o.result \in Results

Bytes == [Readable -> 0 .. (ByteRange - 1)]

\* The updates of one field.
WithRegisters(s, r) == [s EXCEPT !.r = r]
WithPC(s, pc)       == [s EXCEPT !.pc = pc]
WithFlags(s, flags) == [s EXCEPT !.flags = flags]
WithThumb(s, thumb) == [s EXCEPT !.thumb = thumb]
WithMask(s, mask)   == [s EXCEPT !.primask = mask]
WithMemory(s, m)    == [s EXCEPT !.memory = m]

\* The fields of a context have the types of PinkySimContext.
LEMMA FieldsAre ==
    ASSUME NEW s, Typed(s)
    PROVE  /\ s.r \in [Registers -> Word] /\ s.pc \in Word /\ s.pc % 2 = 0 /\ s.flags \in Flags
           /\ s.thumb \in BOOLEAN /\ s.primask \in BOOLEAN /\ s.memory \in Bytes
  BY DEF Typed, Context, Bytes

\* A context keeps its type when its registers are written,
LEMMA RegistersTyped ==
    ASSUME NEW s, Typed(s), NEW r \in [Registers -> Word]
    PROVE  Typed(WithRegisters(s, r))
  BY DEF Typed, Context, WithRegisters

\* when its program counter becomes an even word,
LEMMA PCTyped ==
    ASSUME NEW s, Typed(s), NEW pc \in Word, pc % 2 = 0
    PROVE  Typed(WithPC(s, pc))
  BY DEF Typed, Context, WithPC

\* when its flags are set,
LEMMA FlagsTyped ==
    ASSUME NEW s, Typed(s), NEW flags \in Flags
    PROVE  Typed(WithFlags(s, flags))
  BY DEF Typed, Context, WithFlags

\* when its state changes,
LEMMA ThumbTyped ==
    ASSUME NEW s, Typed(s), NEW thumb \in BOOLEAN
    PROVE  Typed(WithThumb(s, thumb))
  BY DEF Typed, Context, WithThumb

\* when interrupts are masked,
LEMMA MaskTyped ==
    ASSUME NEW s, Typed(s), NEW mask \in BOOLEAN
    PROVE  Typed(WithMask(s, mask))
  BY DEF Typed, Context, WithMask

\* and when bytes of its memory are written.
LEMMA MemoryTyped ==
    ASSUME NEW s, Typed(s), NEW m \in Bytes
    PROVE  Typed(WithMemory(s, m))
  BY DEF Typed, Context, WithMemory, Bytes

\* A register that is written.
LEMMA SetRegTyped ==
    ASSUME NEW s, Typed(s), NEW reg \in Registers, NEW value \in Word
    PROVE  Typed(SetReg(s, reg, value))
<1>1. SetReg(s, reg, value) = WithRegisters(s, [s.r EXCEPT ![reg] = value])
  BY DEF SetReg, WithRegisters
<1>2. [s.r EXCEPT ![reg] = value] \in [Registers -> Word]
  BY FieldsAre
<1> QED BY <1>1, <1>2, RegistersTyped

\* A register that is read; the program counter is never one that is written.
LEMMA RegistersAre ==
    /\ SP \in Registers /\ LR \in Registers /\ PC \notin Registers
    /\ SP # LR /\ SP # PC /\ LR # PC /\ Lows \subseteq Registers
    /\ SP \notin Lows /\ LR \notin Lows /\ Registers \subseteq 0 .. 14
    /\ \A reg \in Sources : reg \in Registers \/ reg = PC
  BY RegistersAssumption DEF SP, LR, PC, Registers, Lows, Sources

\* Every register that can be read holds a word, the program counter too.
LEMMA GetRegTyped ==
    ASSUME NEW s, Typed(s), NEW reg \in Sources
    PROVE  GetReg(s, reg) \in Word
<1>1. CASE reg = PC
  <2>1. s.pc \in Word
    BY FieldsAre
  <2>2. s.pc + 4 \in Int
    BY <2>1, WordTypes
  <2> QED BY <1>1, <2>2, WrapIs DEF GetReg
<1>2. CASE reg # PC
  BY <1>2, FieldsAre, RegistersAre DEF GetReg
<1> QED BY <1>1, <1>2

\* What an operand may be, over all operations.
AnyOperand == Operands \cup {Reg(PC)}

\* An operand is a word.
LEMMA OperandTyped ==
    ASSUME NEW s, Typed(s), NEW o \in AnyOperand
    PROVE  Operand(s, o) \in Word
<1>1. CASE o \in [register : Registers] \/ o = Reg(PC)
  <2>1. "register" \in DOMAIN o /\ o.register \in Sources
    BY <1>1 DEF Reg, Sources
  <2>2. Operand(s, o) = GetReg(s, o.register)
    BY <2>1 DEF Operand
  <2> QED BY <2>1, <2>2, GetRegTyped
<1>2. CASE o \in [immediate : Word]
  <2>1. "register" \notin DOMAIN o /\ o.immediate \in Word
    BY <1>2
  <2> QED BY <2>1 DEF Operand
<1> QED BY <1>1, <1>2 DEF AnyOperand, Operands

-----------------------------------------------------------------------------
(* How instructions end.                                                   *)

\* The end of a program counter that moves on, or goes to an even target.
LEMMA CompletedIsGood ==
    ASSUME NEW s, Typed(s), NEW target \in Word, target % 2 = 0
    PROVE  Good(Completed(s, target))
<1>1. Completed(s, target) = Outcome("ok", WithPC(s, target))
  BY DEF Completed, WithPC
<1>2. Typed(WithPC(s, target))
  BY PCTyped
<1> QED BY <1>1, <1>2 DEF Good, Outcome, Results

\* Words are even in number.
LEMMA EvenIs ==
    ASSUME NEW x \in Word
    PROVE  /\ Aligned(x, 2) \in Word /\ Aligned(x, 2) % 2 = 0
           /\ x % 2 = 0 => Aligned(x, 2) = x
           /\ x % 2 = 1 => Aligned(x, 2) = x - 1
           /\ x % 2 = 0 => Aligned(x, 2) + 1 \in Word
<1>1. x \in Int /\ 0 <= x /\ x < WordRange /\ WordRange = 2 * SignBit /\ SignBit \in Nat
  BY WordTypes
<1>2. x % 2 \in {0, 1} /\ 0 <= x - (x % 2)
  BY <1>1
<1>3. (x - (x % 2)) % 2 = 0 /\ x - (x % 2) \in 0 .. (WordRange - 1)
  BY <1>1, <1>2
<1>4. x % 2 = 0 => x + 1 < WordRange
  BY <1>1
<1> QED BY <1>1, <1>2, <1>3, <1>4 DEF Aligned, Word

\* The address behind an instruction is even, also where it wraps.
LEMMA BehindIsEven ==
    ASSUME NEW s, Typed(s), NEW size \in {2, 4}
    PROVE  Behind(s, size) \in Word /\ Behind(s, size) % 2 = 0
<1>1. s.pc \in Int /\ 0 <= s.pc /\ s.pc < WordRange /\ s.pc % 2 = 0
  BY FieldsAre, WordTypes
<1>2. WordRange = 2 * SignBit /\ SignBit \in Nat /\ SignBit >= 8 /\ WordRange \in Nat \ {0}
  BY SignBitIs
<1> DEFINE n == s.pc + size
<1>3. n \in Int /\ 0 <= n /\ n < 2 * WordRange /\ n % 2 = 0
  BY <1>1, <1>2
<1> HIDE DEF n
<1>4. n % WordRange = IF n < WordRange THEN n ELSE n - WordRange
  BY <1>2, <1>3, Remainder
<1>5. (n % WordRange) % 2 = 0
  BY <1>2, <1>3, <1>4
<1>6. Wrap(n) \in Word
  BY <1>3, WrapIs
<1> QED BY <1>5, <1>6 DEF Behind, Wrap, n

\* An instruction that completes leaves a context of its type,
LEMMA DoneIsGood ==
    ASSUME NEW s, Typed(s)
    PROVE  Good(Done(s))
  BY BehindIsEven, CompletedIsGood DEF Done

\* and so does one that throws,
LEMMA ThrowsIsGood ==
    ASSUME NEW s, Typed(s), NEW how \in Results
    PROVE  Good(Throws(how, s)) /\ Good(Outcome(how, s))
  BY DEF Good, Throws, Outcome

\* whatever it throws.
LEMMA UnpredictableIsGood ==
    ASSUME NEW s, Typed(s)
    PROVE  Good(Throws("unpredictable", s)) /\ Good(Throws("hardFault", s)) /\ Good(Outcome("hardFault", s))
<1>1. "unpredictable" \in Results /\ "hardFault" \in Results
  BY DEF Results, Thrown
<1> QED BY <1>1, ThrowsIsGood

-----------------------------------------------------------------------------
(* Every operation leaves a context.                                       *)

\* The fields of the encodings.
LEMMA DataFields ==
    ASSUME NEW i \in Instruction
    PROVE  /\ i.op \in SumOps =>
                /\ i.d \in Registers /\ i.n \in Sources /\ i.with \in AnyOperand
                /\ i.op # "cmp" => i.n \in Registers /\ i.with \in Operands
                /\ i.op \in {"adc", "sbc"} => i.with \in [register : Registers]
           /\ i.op \in LogicOps \cup MoveOps =>
                i.d \in Registers /\ i.n \in Registers /\ i.with \in Operands
           /\ i.op \in AddressOps =>
                i.d \in Sources /\ i.n \in Sources /\ i.with \in AnyOperand
           /\ i.op \in ShiftOps =>
                /\ i.d \in Registers /\ i.n \in Registers
                /\ \/ i.with \in [register : Registers]
                   \/ i.with \in [immediate : 0 .. (Width - 1)]
           /\ i.op \in LoadOps \cup StoreOps =>
                i.d \in Registers /\ i.n \in Sources /\ i.with \in AnyOperand
<1>1. \A reg \in Sources : Reg(reg) \in AnyOperand
  BY DEF Sources, AnyOperand, Operands, Reg
<1>2. [register : Sources] \subseteq AnyOperand
  BY DEF Sources, AnyOperand, Operands, Reg
<1>3. Operands \subseteq AnyOperand /\ [immediate : Word] \subseteq Operands
      /\ [register : Registers] \subseteq Operands
  BY DEF AnyOperand, Operands
<1>4. i.op \in SumOps =>
        \/ i \in [op : (SumOps \ {"adc", "sbc", "cmp"}) \cup LogicOps \cup MoveOps,
                  d : Registers, n : Registers, with : Operands]
        \/ i \in [op : {"adc", "sbc"}, d : Registers, n : Registers, with : [register : Registers]]
        \/ i \in [op : {"cmp"}, d : Registers, n : Sources, with : Operands \cup {Reg(PC)}]
  BY DEF Instruction, SumOps, AddressOps, ShiftOps, LogicOps, MoveOps, LoadOps, StoreOps,
         Returned, Thrown
<1>5. i.op \in LogicOps \cup MoveOps =>
        i \in [op : (SumOps \ {"adc", "sbc", "cmp"}) \cup LogicOps \cup MoveOps,
               d : Registers, n : Registers, with : Operands]
  BY DEF Instruction, SumOps, AddressOps, ShiftOps, LogicOps, MoveOps, LoadOps, StoreOps,
         Returned, Thrown
<1>6. i.op \in AddressOps =>
        \/ i \in [op : {"addHigh", "movHigh"}, d : Sources, n : Sources, with : [register : Sources]]
        \/ i \in [op : {"addSP", "subSP", "adr"}, d : Registers, n : Sources, with : [immediate : Word]]
  BY DEF Instruction, SumOps, AddressOps, ShiftOps, LogicOps, MoveOps, LoadOps, StoreOps,
         Returned, Thrown
<1>7. i.op \in ShiftOps =>
        \/ i \in [op : ShiftOps, d : Registers, n : Registers, with : [register : Registers]]
        \/ i \in [op : ShiftOps \ {"ror"}, d : Registers, n : Registers,
                  with : [immediate : 0 .. (Width - 1)]]
  BY DEF Instruction, SumOps, AddressOps, ShiftOps, LogicOps, MoveOps, LoadOps, StoreOps,
         Returned, Thrown
<1>8. i.op \in LoadOps \cup StoreOps =>
        i \in [op : LoadOps \cup StoreOps, d : Registers, n : Sources, with : Operands]
  BY DEF Instruction, SumOps, AddressOps, ShiftOps, LogicOps, MoveOps, LoadOps, StoreOps,
         Returned, Thrown
<1>9. Registers \subseteq Sources
  BY DEF Sources
<1>10. i.op \in SumOps =>
         /\ i.d \in Registers /\ i.n \in Sources /\ i.with \in AnyOperand
         /\ i.op # "cmp" => i.n \in Registers /\ i.with \in Operands
         /\ i.op \in {"adc", "sbc"} => i.with \in [register : Registers]
  <2>1. CASE i \in [op : (SumOps \ {"adc", "sbc", "cmp"}) \cup LogicOps \cup MoveOps,
                    d : Registers, n : Registers, with : Operands]
    BY <1>3, <1>9, <2>1 DEF LogicOps, MoveOps
  <2>2. CASE i \in [op : {"adc", "sbc"}, d : Registers, n : Registers, with : [register : Registers]]
    BY <1>3, <1>9, <2>2
  <2>3. CASE i \in [op : {"cmp"}, d : Registers, n : Sources, with : Operands \cup {Reg(PC)}]
    BY <2>3 DEF AnyOperand
  <2> QED BY <1>4, <2>1, <2>2, <2>3
<1>11. i.op \in LogicOps \cup MoveOps =>
         i.d \in Registers /\ i.n \in Registers /\ i.with \in Operands
  BY <1>5
<1>12. i.op \in AddressOps => i.d \in Sources /\ i.n \in Sources /\ i.with \in AnyOperand
  BY <1>2, <1>3, <1>6, <1>9
<1>13. i.op \in ShiftOps =>
         /\ i.d \in Registers /\ i.n \in Registers
         /\ \/ i.with \in [register : Registers]
            \/ i.with \in [immediate : 0 .. (Width - 1)]
  BY <1>7
<1>14. i.op \in LoadOps \cup StoreOps =>
         i.d \in Registers /\ i.n \in Sources /\ i.with \in AnyOperand
  BY <1>3, <1>8
<1> QED BY <1>10, <1>11, <1>12, <1>13, <1>14

\* A sum is one of two words with a carry.
LEMMA SumIs ==
    ASSUME NEW s, Typed(s), NEW i \in Instruction, i.op \in SumOps
    PROVE  \E x, y \in Word : \E carry \in BOOLEAN : Sum(i, s) = AddWithCarry(x, y, carry)
<1>1. GetReg(s, i.n) \in Word /\ Operand(s, i.with) \in Word
  BY DataFields, GetRegTyped, OperandTyped
<1>2. /\ Not(GetReg(s, i.n)) \in Word /\ Not(Operand(s, i.with)) \in Word /\ 0 \in Word
  BY <1>1, WordTypes, SignBitIs DEF Word
<1>3. s.flags.C \in BOOLEAN
  BY FieldsAre DEF Flags
<1>4. CASE i.op \in {"add", "cmn"}
  BY <1>1, <1>4 DEF Sum
<1>5. CASE i.op \in {"sub", "cmp"}
  BY <1>1, <1>2, <1>5 DEF Sum
<1>6. CASE i.op = "adc"
  BY <1>1, <1>3, <1>6 DEF Sum
<1>7. CASE i.op = "sbc"
  BY <1>1, <1>2, <1>3, <1>7 DEF Sum
<1>8. CASE i.op = "rsb"
  BY <1>1, <1>2, <1>8 DEF Sum
<1> QED BY <1>4, <1>5, <1>6, <1>7, <1>8 DEF SumOps

\* A sum is a word, and the flags it sets are flags.
LEMMA SumIsTyped ==
    ASSUME NEW s, Typed(s), NEW i \in Instruction, i.op \in SumOps
    PROVE  Sum(i, s).result \in Word /\ UpdateNZCV(s.flags, Sum(i, s)) \in Flags
<1>1. PICK x \in Word, y \in Word, carry \in BOOLEAN : Sum(i, s) = AddWithCarry(x, y, carry)
  BY SumIs
<1>2. /\ Sum(i, s).result \in Word /\ Sum(i, s).carryOut \in BOOLEAN
      /\ Sum(i, s).overflow \in BOOLEAN
  BY <1>1, SumTypes
<1>3. s.flags \in Flags
  BY FieldsAre
<1> QED BY <1>2, <1>3, FlagsAreTyped DEF UpdateNZCV

\* Additions and comparisons keep the context's type,
LEMMA AddsIsGood ==
    ASSUME NEW s, Typed(s), NEW i \in Instruction, i.op \in SumOps
    PROVE  Good(Adds(i, s))
<1> DEFINE then == WithFlags(s, UpdateNZCV(s.flags, Sum(i, s)))
<1>1. Typed(then)
  BY SumIsTyped, FlagsTyped
<1>2. Typed(SetReg(then, i.d, Sum(i, s).result))
  BY <1>1, SumIsTyped, DataFields, SetRegTyped
<1>3. \/ Adds(i, s) = Throws("unpredictable", s)
      \/ Adds(i, s) = Done(then)
      \/ Adds(i, s) = Done(SetReg(then, i.d, Sum(i, s).result))
  BY DEF Adds, WithFlags
<1> HIDE DEF then
<1> QED BY <1>1, <1>2, <1>3, DoneIsGood, UnpredictableIsGood

\* sums of addresses too,
LEMMA AddsAddressIsGood ==
    ASSUME NEW s, Typed(s), NEW i \in Instruction, i.op \in AddressOps
    PROVE  Good(AddsAddress(i, s))
<1> DEFINE x == GetReg(s, i.n)
           y == Operand(s, i.with)
           p == GetReg(s, PC)
           q == GetReg(s, SP)
<1>1. x \in Word /\ y \in Word /\ p \in Word /\ q \in Word
  BY DataFields, GetRegTyped, OperandTyped, RegistersAre DEF Sources
<1>2. Address(i, s) \in Word
  <2>1. CASE i.op \in {"addHigh", "addSP"}
    <3>1. Address(i, s) = Wrap(x + y)
      BY <2>1 DEF Address
    <3> HIDE DEF x, y
    <3>2. x + y \in Int
      <4>1. x \in Int /\ y \in Int
        BY <1>1, WordTypes
      <4> QED BY <4>1
    <3> QED BY <3>1, <3>2, WrapIs
  <2>2. CASE i.op = "movHigh"
    BY <1>1, <2>2 DEF Address
  <2>3. CASE i.op = "subSP"
    <3>1. Address(i, s) = AddWithCarry(q, Not(y), TRUE).result
      BY <2>3 DEF Address
    <3> HIDE DEF q, y
    <3>2. Not(y) \in Word
      BY <1>1, WordTypes
    <3>3. q \in Word
      BY <1>1
    <3>4. \A carry \in BOOLEAN : AddWithCarry(q, Not(y), carry).result \in Word
      BY <3>2, <3>3, SumTypes
    <3> QED BY <3>1, <3>4
  <2>4. CASE i.op = "adr"
    <3>1. Address(i, s) = Wrap(Aligned(p, 4) + y)
      BY <2>4 DEF Address
    <3> HIDE DEF p, y
    <3>2. Aligned(p, 4) + y \in Int
      <4>1. p \in Int /\ y \in Int
        BY <1>1, WordTypes
      <4> QED BY <4>1 DEF Aligned
    <3> QED BY <3>1, <3>2, WrapIs
  <2> QED BY <2>1, <2>2, <2>3, <2>4 DEF AddressOps
<1>3. CASE i.d = PC
  <2>1. Good(Completed(s, Aligned(Address(i, s), 2)))
    BY <1>2, EvenIs, CompletedIsGood
  <2> QED BY <1>3, <2>1, UnpredictableIsGood DEF AddsAddress
<1>4. CASE i.d # PC
  <2>1. i.d \in Registers
    BY <1>4, DataFields, RegistersAre
  <2>2. Typed(SetReg(s, i.d, Address(i, s)))
    BY <1>2, <2>1, SetRegTyped
  <2>3. AddsAddress(i, s) = Done(SetReg(s, i.d, Address(i, s)))
    BY <1>4 DEF AddsAddress
  <2> QED BY <2>2, <2>3, DoneIsGood
<1> QED BY <1>3, <1>4

\* How far a shift goes.
LEMMA AmountIs ==
    ASSUME NEW s, Typed(s), NEW i \in Instruction, i.op \in ShiftOps
    PROVE  Amount(i, s) \in Nat
<1>1. CASE i.with \in [register : Registers]
  <2>1. "immediate" \notin DOMAIN i.with /\ i.with.register \in Sources
    BY <1>1 DEF Sources
  <2>2. GetReg(s, i.with.register) \in Word
    BY <2>1, GetRegTyped
  <2>3. GetReg(s, i.with.register) \in Int
    BY <2>2, WordTypes
  <2> HIDE DEF GetReg
  <2>4. GetReg(s, i.with.register) % ShiftRange \in Nat
    BY <2>3, BytesAssumption
  <2> QED BY <2>1, <2>4 DEF Amount
<1>2. CASE i.with \in [immediate : 0 .. (Width - 1)]
  <2>1. "immediate" \in DOMAIN i.with /\ i.with.immediate \in Nat
    BY <1>2, PowerStep
  <2>2. Amount(i, s) = DecodeImmShift(i.op, i.with.immediate)
    BY <2>1 DEF Amount
  <2> QED BY <2>1, <2>2, PowerStep DEF DecodeImmShift
<1> QED BY <1>1, <1>2, DataFields

\* A shift by any amount keeps the context's type.
LEMMA ShiftsIsGood ==
    ASSUME NEW s, Typed(s), NEW i \in Instruction, i.op \in ShiftOps
    PROVE  Good(Shifts(i, s))
<1> DEFINE shifted == Shift_C(GetReg(s, i.n), i.op, Amount(i, s), s.flags.C)
           then    == WithFlags(s, UpdateNZC(s.flags, shifted))
<1>1. /\ GetReg(s, i.n) \in Word /\ i.op \in {"lsl", "lsr", "asr", "ror"} /\ Amount(i, s) \in Nat
      /\ s.flags \in Flags /\ s.flags.C \in BOOLEAN
  BY DataFields, GetRegTyped, AmountIs, FieldsAre DEF ShiftOps, Flags, Sources
<1>2. shifted.result \in Word /\ shifted.carryOut \in BOOLEAN
  BY <1>1, ShiftTypes
<1>3. Shifts(i, s) = Done(SetReg(then, i.d, shifted.result))
  BY DEF Shifts, WithFlags
<1> HIDE DEF shifted
<1>4. UpdateNZC(s.flags, shifted) \in Flags
  BY <1>1, <1>2, FlagsAreTyped DEF UpdateNZC
<1>5. Typed(then)
  BY <1>4, FlagsTyped
<1> HIDE DEF then
<1>6. Typed(SetReg(then, i.d, shifted.result))
  BY <1>2, <1>5, DataFields, SetRegTyped
<1> QED BY <1>3, <1>6, DoneIsGood

\* The numbers of fewer bytes are words.
LEMMA RangesGrow ==
    ASSUME NEW size \in 1 .. 4
    PROVE  /\ RangeOf(size) \in Nat \ {0} /\ RangeOf(size) <= WordRange
           /\ 0 .. (RangeOf(size) - 1) \subseteq Word
<1>1. \A k \in 0 .. 3 : RangeOf(k) \in Nat \ {0} /\ RangeOf(k) <= RangeOf(k + 1)
  <2>1. ASSUME NEW k \in 0 .. 3
        PROVE  RangeOf(k) \in Nat \ {0} /\ RangeOf(k) <= RangeOf(k + 1)
    <3>1. RangeOf(k) \in Nat \ {0} /\ RangeOf(k + 1) = ByteRange * RangeOf(k)
      BY RangesAre, BytesAssumption
    <3>2. 1 * RangeOf(k) <= ByteRange * RangeOf(k) /\ 1 * RangeOf(k) = RangeOf(k)
      BY <3>1, RangesAre, ProductsGrow
    <3> QED BY <3>1, <3>2
  <2> QED BY <2>1
<1>2. /\ RangeOf(1) <= RangeOf(1 + 1) /\ RangeOf(2) <= RangeOf(2 + 1) /\ RangeOf(3) <= RangeOf(3 + 1)
      /\ RangeOf(1) \in Nat \ {0} /\ RangeOf(2) \in Nat \ {0} /\ RangeOf(3) \in Nat \ {0}
      /\ RangeOf(4) \in Nat \ {0} /\ RangeOf(4) = WordRange
  BY <1>1, RangesAre
<1>3. RangeOf(1) <= RangeOf(2) /\ RangeOf(2) <= RangeOf(3) /\ RangeOf(3) <= RangeOf(4)
  BY <1>2
<1>4. RangeOf(size) \in Nat \ {0} /\ RangeOf(size) <= WordRange
  <2>1. CASE size = 1
    BY <1>2, <1>3, <2>1
  <2>2. CASE size = 2
    BY <1>2, <1>3, <2>2
  <2>3. CASE size = 3
    BY <1>2, <1>3, <2>3
  <2>4. CASE size = 4
    BY <1>2, <1>3, <2>4
  <2> QED BY <2>1, <2>2, <2>3, <2>4
<1> QED BY <1>4, SignBitIs DEF Word

\* What a bitwise instruction computes is a word: no bit is above the width.
LEMMA LogicTyped ==
    ASSUME NEW s, Typed(s), NEW i \in Instruction, i.op \in LogicOps
    PROVE  Logic(i, s) \in Word
<1> DEFINE x == GetReg(s, i.n)
           y == Operand(s, i.with)
<1>1. x \in Word /\ y \in Word
  BY DataFields, GetRegTyped, OperandTyped DEF Sources, AnyOperand
<1>2. ASSUME NEW ks, ks \subseteq 0 .. (Width - 1)
      PROVE  Number(ks) \in Word
  <2>1. Width \in 0 .. Width
    BY PowerStep
  <2>2. Number(ks) \in 0 .. (Power(Width) - 1)
    BY <1>2, <2>1, NumberIs
  <2> QED BY <2>2, SignBitIs DEF Word
<1>3. Bits(x) \subseteq 0 .. (Width - 1) /\ Bits(y) \subseteq 0 .. (Width - 1)
  BY DEF Bits
<1>4. CASE i.op \in {"and", "tst"}
  <2>1. Logic(i, s) = Number(Bits(x) \cap Bits(y))
    BY <1>4 DEF Logic
  <2> QED BY <1>2, <1>3, <2>1
<1>5. CASE i.op = "eor"
  <2>1. Logic(i, s) = Number((Bits(x) \cup Bits(y)) \ (Bits(x) \cap Bits(y)))
    BY <1>5 DEF Logic
  <2> QED BY <1>2, <1>3, <2>1
<1>6. CASE i.op = "orr"
  <2>1. Logic(i, s) = Number(Bits(x) \cup Bits(y))
    BY <1>6 DEF Logic
  <2> QED BY <1>2, <1>3, <2>1
<1>7. CASE i.op = "bic"
  <2>1. Logic(i, s) = Number(Bits(x) \ Bits(y))
    BY <1>7 DEF Logic
  <2> QED BY <1>2, <1>3, <2>1
<1>8. CASE i.op \in {"mov", "mvn"}
  <2>1. Logic(i, s) \in {y, Not(y)}
    BY <1>8 DEF Logic
  <2> QED BY <1>1, <2>1, WordTypes
<1>9. CASE i.op = "mul"
  <2>1. Logic(i, s) = Wrap(x * y)
    BY <1>9 DEF Logic
  <2> HIDE DEF x, y
  <2>2. x \in Int /\ y \in Int
    BY <1>1, WordTypes
  <2>3. x * y \in Int
    BY <2>2
  <2> QED BY <2>1, <2>3, WrapIs
<1> QED BY <1>4, <1>5, <1>6, <1>7, <1>8, <1>9 DEF LogicOps

\* Bitwise instructions keep the context's type.
LEMMA DoesLogicIsGood ==
    ASSUME NEW s, Typed(s), NEW i \in Instruction, i.op \in LogicOps
    PROVE  Good(DoesLogic(i, s))
<1> DEFINE value == Logic(i, s)
           then  == WithFlags(s, UpdateNZ(s.flags, value))
<1>1. value \in Word /\ s.flags \in Flags
  BY LogicTyped, FieldsAre
<1>2. \/ DoesLogic(i, s) = Done(then)
      \/ DoesLogic(i, s) = Done(SetReg(then, i.d, value))
  BY DEF DoesLogic, WithFlags
<1> HIDE DEF value
<1>3. Typed(then)
  <2>1. \A c, v \in BOOLEAN : UpdateNZ(s.flags, value) \in Flags
    BY <1>1, FlagsAreTyped
  <2> QED BY <2>1, FlagsTyped
<1> HIDE DEF then
<1>4. Typed(SetReg(then, i.d, value))
  BY <1>1, <1>3, DataFields, SetRegTyped
<1> QED BY <1>2, <1>3, <1>4, DoneIsGood

\* Extended by its sign, a byte or a half-word is a word.
LEMMA SignExtendTyped ==
    ASSUME NEW x \in Int, NEW size \in 1 .. 4
    PROVE  SignExtend(x, size) \in Word
<1> DEFINE r == RangeOf(size)
           low == x % r
<1>1. r \in Nat \ {0} /\ r <= WordRange /\ WordRange \in Nat
  BY RangesGrow, SignBitIs
<1> HIDE DEF r
<1>2. low \in 0 .. (r - 1)
  BY <1>1, Division
<1>3. SignExtend(x, size) = IF 2 * low >= r THEN (WordRange - r) + low ELSE low
  BY DEF SignExtend, r
<1> HIDE DEF low
<1> QED BY <1>1, <1>2, <1>3 DEF Word

\* Reversed, the bytes of a word make a word.
LEMMA ReversedTyped ==
    ASSUME NEW x \in Word
    PROVE  Reversed(x) \in Word /\ ReversedPairs(x) \in Word
<1>1. \A k \in 0 .. 3 : ByteOf(x, k) \in 0 .. (ByteRange - 1)
  BY ByteIs
<1>2. ASSUME NEW bytes, \A k \in 0 .. 3 : bytes[k] \in 0 .. (ByteRange - 1)
      PROVE  Assembled(bytes, 4) \in Word
  <2>1. \A k \in 0 .. (4 - 1) : bytes[k] \in 0 .. (ByteRange - 1)
    BY <1>2
  <2>2. Assembled(bytes, 4) \in 0 .. (RangeOf(4) - 1)
    BY <2>1, AssembledIs
  <2> QED BY <2>2, RangesGrow
<1>3. Reversed(x) \in Word
  <2> DEFINE bytes == [k \in 0 .. 3 |-> ByteOf(x, 3 - k)]
  <2>1. \A k \in 0 .. 3 : bytes[k] \in 0 .. (ByteRange - 1)
    BY <1>1
  <2> HIDE DEF bytes
  <2>2. Assembled(bytes, 4) \in Word
    BY <1>2, <2>1
  <2> QED BY <2>2 DEF Reversed, bytes
<1>4. ReversedPairs(x) \in Word
  <2> DEFINE bytes == [k \in 0 .. 3 |-> ByteOf(x, IF k % 2 = 0 THEN k + 1 ELSE k - 1)]
  <2>1. \A k \in 0 .. 3 : (IF k % 2 = 0 THEN k + 1 ELSE k - 1) \in 0 .. 3
    OBVIOUS
  <2>2. \A k \in 0 .. 3 : bytes[k] \in 0 .. (ByteRange - 1)
    BY <1>1, <2>1
  <2> HIDE DEF bytes
  <2>3. Assembled(bytes, 4) \in Word
    BY <1>2, <2>2
  <2> QED BY <2>3 DEF ReversedPairs, bytes
<1> QED BY <1>3, <1>4

\* Extensions and reversals keep the context's type.
LEMMA MovesIsGood ==
    ASSUME NEW s, Typed(s), NEW i \in Instruction, i.op \in MoveOps
    PROVE  Good(Moves(i, s))
<1> DEFINE x == Operand(s, i.with)
<1>1. x \in Word
  BY DataFields, OperandTyped DEF AnyOperand
<1>2. \E v \in Word : Moves(i, s) = Done(SetReg(s, i.d, v))
  <2>1. \/ Moves(i, s) = Done(SetReg(s, i.d, SignExtend(x, 2)))
        \/ Moves(i, s) = Done(SetReg(s, i.d, SignExtend(x, 1)))
        \/ Moves(i, s) = Done(SetReg(s, i.d, x % RangeOf(2)))
        \/ Moves(i, s) = Done(SetReg(s, i.d, x % RangeOf(1)))
        \/ Moves(i, s) = Done(SetReg(s, i.d, Reversed(x)))
        \/ Moves(i, s) = Done(SetReg(s, i.d, ReversedPairs(x)))
        \/ Moves(i, s) = Done(SetReg(s, i.d, SignExtend(ReversedPairs(x), 2)))
    BY DEF Moves, MoveOps
  <2> HIDE DEF x
  <2>2. x \in Int /\ Reversed(x) \in Word /\ ReversedPairs(x) \in Word /\ ReversedPairs(x) \in Int
    BY <1>1, WordTypes, ReversedTyped
  <2>3. SignExtend(x, 2) \in Word /\ SignExtend(x, 1) \in Word /\ SignExtend(ReversedPairs(x), 2) \in Word
    BY <2>2, SignExtendTyped
  <2>4. x % RangeOf(2) \in Word /\ x % RangeOf(1) \in Word
    <3>1. ASSUME NEW size \in 1 .. 4 PROVE x % RangeOf(size) \in Word
      <4> DEFINE r == RangeOf(size)
      <4>1. r \in Nat \ {0} /\ 0 .. (r - 1) \subseteq Word
        BY RangesGrow
      <4> HIDE DEF r
      <4>2. x % r \in 0 .. (r - 1)
        BY <2>2, <4>1, Division
      <4> QED BY <4>1, <4>2 DEF r
    <3> QED BY <3>1
  <2> QED BY <2>1, <2>2, <2>3, <2>4
<1>3. PICK v \in Word : Moves(i, s) = Done(SetReg(s, i.d, v))
  BY <1>2
<1>4. Typed(SetReg(s, i.d, v))
  BY DataFields, SetRegTyped
<1> QED BY <1>3, <1>4, DoneIsGood

-----------------------------------------------------------------------------
(* Loads and stores.                                                       *)

\* What bytes of memory make is a word.
LEMMA MemReadTyped ==
    ASSUME NEW s, Typed(s), NEW address \in Word, NEW size \in 1 .. 4,
           Allowed(Readable, address, size)
    PROVE  MemRead(s, address, size) \in 0 .. (RangeOf(size) - 1) /\ MemRead(s, address, size) \in Word
<1> DEFINE bytes == [k \in 0 .. (size - 1) |-> s.memory[address + k]]
<1>1. address \in Int /\ size \in Int
  BY WordTypes
<1>2. ASSUME NEW k \in 0 .. (size - 1) PROVE bytes[k] \in 0 .. (ByteRange - 1)
  <2>1. address + k \in address .. (address + size - 1)
    BY <1>1
  <2>2. address + k \in Readable
    BY <2>1 DEF Allowed
  <2> QED BY <2>2, FieldsAre DEF Bytes
<1>3. \A k \in 0 .. (size - 1) : bytes[k] \in 0 .. (ByteRange - 1)
  BY <1>2
<1> HIDE DEF bytes
<1>4. Assembled(bytes, size) \in 0 .. (RangeOf(size) - 1)
  BY <1>3, AssembledIs
<1>5. MemRead(s, address, size) = Assembled(bytes, size)
  BY DEF MemRead, bytes
<1> QED BY <1>4, <1>5, RangesGrow

\* A load or a store is made at a word.
LEMMA AddressTyped ==
    ASSUME NEW s, Typed(s), NEW i \in Instruction, i.op \in LoadOps \cup StoreOps
    PROVE  TransferAddress(i, s) \in Word
<1> DEFINE p == GetReg(s, PC)
           x == GetReg(s, i.n)
           y == Operand(s, i.with)
<1>1. p \in Word /\ x \in Word /\ y \in Word
  BY DataFields, GetRegTyped, OperandTyped DEF Sources
<1>2. TransferAddress(i, s) = Wrap((IF i.n = PC THEN Aligned(p, 4) ELSE x) + y)
  BY DEF TransferAddress
<1> HIDE DEF p, x, y
<1>3. p \in Int /\ x \in Int /\ y \in Int
  BY <1>1, WordTypes
<1>4. (IF i.n = PC THEN Aligned(p, 4) ELSE x) + y \in Int
  BY <1>3 DEF Aligned
<1> QED BY <1>2, <1>4, WrapIs

\* A load or a store is of one, two or four bytes.
LEMMA SizesAre ==
    ASSUME NEW op \in LoadOps \cup StoreOps
    PROVE  SizeOf[op] \in {1, 2, 4} /\ SizeOf[op] \in 1 .. 4
  BY DEF LoadOps, StoreOps, SizeOf

\* Loads keep the context's type, faults included.
LEMMA LoadsIsGood ==
    ASSUME NEW s, Typed(s), NEW i \in Instruction, i.op \in LoadOps
    PROVE  Good(Loads(i, s))
<1> DEFINE address == TransferAddress(i, s)
           size    == SizeOf[i.op]
           value   == MemRead(s, address, size)
<1>1. address \in Word /\ size \in 1 .. 4
  BY AddressTyped, SizesAre
<1>2. \/ Loads(i, s) = Throws("hardFault", s)
      \/ /\ Allowed(Readable, address, size)
         /\ \/ Loads(i, s) = Done(SetReg(s, i.d, SignExtend(value, size)))
            \/ Loads(i, s) = Done(SetReg(s, i.d, value))
  BY DEF Loads
<1> HIDE DEF address, size
<1>3. CASE Allowed(Readable, address, size)
  <2>1. value \in Word /\ value \in Int
    BY <1>1, <1>3, MemReadTyped, WordTypes
  <2> HIDE DEF value
  <2>2. SignExtend(value, size) \in Word
    BY <1>1, <2>1, SignExtendTyped
  <2>3. Typed(SetReg(s, i.d, SignExtend(value, size))) /\ Typed(SetReg(s, i.d, value))
    BY <2>1, <2>2, DataFields, SetRegTyped
  <2> QED BY <1>2, <2>3, DoneIsGood, UnpredictableIsGood
<1> QED BY <1>2, <1>3, UnpredictableIsGood

\* A store writes bytes.
LEMMA MemWriteTyped ==
    ASSUME NEW s, Typed(s), NEW address \in Word, NEW size \in 1 .. 4, NEW value \in Word
    PROVE  Typed(MemWrite(s, address, size, value))
<1> DEFINE m == [a \in Readable |->
                   IF a \in address .. (address + size - 1) THEN ByteOf(value, a - address)
                   ELSE s.memory[a]]
<1>1. address \in Int
  BY WordTypes
<1>2. ASSUME NEW a \in Readable PROVE m[a] \in 0 .. (ByteRange - 1)
  <2>1. CASE a \in address .. (address + size - 1)
    <3>1. a - address \in 0 .. 3
      BY <1>1, <2>1
    <3> QED BY <2>1, <3>1, ByteIs
  <2>2. CASE a \notin address .. (address + size - 1)
    BY <2>2, FieldsAre DEF Bytes
  <2> QED BY <2>1, <2>2
<1>3. m \in Bytes
  BY <1>2 DEF Bytes
<1>4. MemWrite(s, address, size, value) = WithMemory(s, m)
  BY DEF MemWrite, WithMemory
<1> HIDE DEF m
<1> QED BY <1>3, <1>4, MemoryTyped

\* Stores keep the context's type, faults included.
LEMMA StoresIsGood ==
    ASSUME NEW s, Typed(s), NEW i \in Instruction, i.op \in StoreOps
    PROVE  Good(Stores(i, s))
<1> DEFINE then == MemWrite(s, TransferAddress(i, s), SizeOf[i.op], GetReg(s, i.d))
<1>1. Stores(i, s) = Throws("hardFault", s) \/ Stores(i, s) = Done(then)
  BY DEF Stores
<1>2. /\ TransferAddress(i, s) \in Word /\ SizeOf[i.op] \in 1 .. 4
      /\ GetReg(s, i.d) \in Word
  BY AddressTyped, SizesAre, DataFields, GetRegTyped DEF Sources
<1>3. Typed(then)
  BY <1>2, MemWriteTyped
<1> HIDE DEF then
<1> QED BY <1>1, <1>3, DoneIsGood, UnpredictableIsGood

-----------------------------------------------------------------------------
(* Block transfers.                                                        *)

\* Lists of registers are finite.
LEMMA ListsAreFinite ==
    ASSUME NEW list, list \subseteq Sources
    PROVE  /\ IsFiniteSet(list) /\ Cardinality(list) \in Nat
           /\ Span(list) \in Nat /\ list \subseteq Nat
           /\ \A part \in SUBSET list :
                IsFiniteSet(part) /\ Cardinality(part) \in Nat /\ Cardinality(part) <= Cardinality(list)
<1>1. list \subseteq 0 .. 15
  <2>1. \A reg \in Sources : reg \in 0 .. 14 \/ reg = 15
    BY RegistersAre DEF PC
  <2> QED BY <2>1
<1>2. IsFiniteSet(0 .. 15)
  <2>1. 0 \in Int /\ 15 \in Int
    OBVIOUS
  <2> QED BY <2>1, FS_Interval
<1>3. IsFiniteSet(list)
  BY <1>1, <1>2, FS_Subset
<1>4. Cardinality(list) \in Nat
  BY <1>3, FS_CardinalityType
<1>5. \A part \in SUBSET list :
        IsFiniteSet(part) /\ Cardinality(part) \in Nat /\ Cardinality(part) <= Cardinality(list)
  BY <1>3, FS_Subset, FS_CardinalityType
<1> QED BY <1>1, <1>3, <1>4, <1>5 DEF Span

\* The words of a block.
LEMMA WordAtIs ==
    ASSUME NEW list, list \subseteq Sources, NEW base \in Word, NEW reg
    PROVE  /\ WordAt(list, base, reg) \in Word
           /\ Wrap(base + Span(list)) \in Word /\ Wrap(base - Span(list)) \in Word
<1> DEFINE part == {r \in list : r < reg}
<1>1. Cardinality(part) \in Nat
  BY ListsAreFinite
<1>2. WordAt(list, base, reg) = Wrap(base + 4 * Cardinality(part))
  BY DEF WordAt, Span
<1> HIDE DEF part
<1>3. base \in Int /\ Span(list) \in Nat
  BY ListsAreFinite, WordTypes
<1>4. base + 4 * Cardinality(part) \in Int /\ base + Span(list) \in Int /\ base - Span(list) \in Int
  BY <1>1, <1>3
<1> QED BY <1>2, <1>4, WrapIs


\* The fields of the other encodings.
LEMMA BlockFields ==
    ASSUME NEW i \in Instruction
    PROVE  /\ i.op = "push" => i.list \subseteq Registers
           /\ i.op = "pop" => i.list \subseteq Sources /\ SP \notin i.list /\ "n" \notin DOMAIN i
           /\ i.op \in {"stm", "ldm"} =>
                i.n \in Registers /\ i.list \subseteq Registers /\ "n" \in DOMAIN i
           /\ i.op \in {"b", "bl"} => i.offset \in Int
           /\ i.op = "b" => i.cond \in Conditions
           /\ i.op \in {"bx", "blx"} => i.m \in Sources
           /\ i.op = "cps" => i.disable \in BOOLEAN
           /\ i.op = "msr" => i.sysm \in SpecialRegisters /\ i.n \in Sources
           /\ i.op = "mrs" => i.sysm \in SpecialRegisters /\ i.d \in Sources
<1>1. /\ i.op = "push" => i \in [op : {"push"}, list : SUBSET (Lows \cup {LR})]
      /\ i.op = "pop" => i \in [op : {"pop"}, list : SUBSET (Lows \cup {PC})]
      /\ i.op \in {"stm", "ldm"} => i \in [op : {"stm", "ldm"}, n : Lows, list : SUBSET Lows]
  BY DEF Instruction, SumOps, AddressOps, ShiftOps, LogicOps, MoveOps, LoadOps, StoreOps,
         Returned, Thrown
<1>2. /\ i.op = "b" => i \in [op : {"b"}, cond : Conditions, offset : Int]
      /\ i.op = "bl" => i \in [op : {"bl"}, offset : Int]
      /\ i.op \in {"bx", "blx"} => i \in [op : {"bx", "blx"}, m : Sources]
  BY DEF Instruction, SumOps, AddressOps, ShiftOps, LogicOps, MoveOps, LoadOps, StoreOps,
         Returned, Thrown
<1>3. /\ i.op = "cps" => i \in [op : {"cps"}, disable : BOOLEAN]
      /\ i.op = "msr" => i \in [op : {"msr"}, sysm : SpecialRegisters, n : Sources]
      /\ i.op = "mrs" => i \in [op : {"mrs"}, sysm : SpecialRegisters, d : Sources]
  BY DEF Instruction, SumOps, AddressOps, ShiftOps, LogicOps, MoveOps, LoadOps, StoreOps,
         Returned, Thrown
<1>4. /\ Lows \subseteq Registers /\ LR \in Registers /\ Registers \subseteq Sources /\ PC \in Sources
      /\ SP \notin Lows /\ SP # PC
  BY RegistersAre DEF Sources
<1>5. /\ i.op = "push" => i.list \subseteq Registers
      /\ i.op = "pop" => i.list \subseteq Sources /\ SP \notin i.list /\ "n" \notin DOMAIN i
      /\ i.op \in {"stm", "ldm"} =>
           i.n \in Registers /\ i.list \subseteq Registers /\ "n" \in DOMAIN i
  BY <1>1, <1>4
<1>6. /\ i.op \in {"b", "bl"} => i.offset \in Int
      /\ i.op = "b" => i.cond \in Conditions
      /\ i.op \in {"bx", "blx"} => i.m \in Sources
  BY <1>2
<1>7. /\ i.op = "cps" => i.disable \in BOOLEAN
      /\ i.op = "msr" => i.sysm \in SpecialRegisters /\ i.n \in Sources
      /\ i.op = "mrs" => i.sysm \in SpecialRegisters /\ i.d \in Sources
  BY <1>3
<1> QED BY <1>5, <1>6, <1>7

\* What the memory is behind a transfer.
LEMMA StoreAllTyped ==
    ASSUME NEW s, Typed(s), NEW list, list \subseteq Sources, NEW base \in Word
    PROVE  Typed(StoreAll(s, list, base).after) /\ StoreAll(s, list, base).result \in {"ok", "hardFault"}
<1> DEFINE Stored(a) == {reg \in Transferred(list, base, Writable) :
                           a \in WordAt(list, base, reg) .. (WordAt(list, base, reg) + 3)}
           Byte(a, reg) == ByteOf(GetReg(s, reg), a - WordAt(list, base, reg))
           m == [a \in Readable |->
                  IF Stored(a) = {} THEN s.memory[a] ELSE Byte(a, CHOOSE reg \in Stored(a) : TRUE)]
<1>1. ASSUME NEW a \in Readable PROVE m[a] \in 0 .. (ByteRange - 1)
  <2>1. CASE Stored(a) = {}
    BY <2>1, FieldsAre DEF Bytes
  <2>2. CASE Stored(a) # {}
    <3> DEFINE reg == CHOOSE reg \in Stored(a) : TRUE
    <3>1. reg \in Stored(a)
      BY <2>2
    <3>2. m[a] = Byte(a, reg)
      BY <2>2
    <3> HIDE DEF m
    <3>3. reg \in list /\ a \in WordAt(list, base, reg) .. (WordAt(list, base, reg) + 3)
      BY <3>1 DEF Transferred
    <3> HIDE DEF reg
    <3>4. WordAt(list, base, reg) \in Int
      BY WordAtIs, WordTypes
    <3>5. a - WordAt(list, base, reg) \in 0 .. 3
      BY <3>3, <3>4
    <3>6. GetReg(s, reg) \in Word
      BY <3>3, GetRegTyped
    <3> QED BY <3>2, <3>5, <3>6, ByteIs
  <2> QED BY <2>1, <2>2
<1>2. m \in Bytes
  BY <1>1 DEF Bytes
<1>3. StoreAll(s, list, base) = Outcome(Ends(list, base, Writable), WithMemory(s, m))
  BY DEF StoreAll, WithMemory
<1> HIDE DEF m
<1>4. Typed(WithMemory(s, m))
  BY <1>2, MemoryTyped
<1> QED BY <1>3, <1>4 DEF Outcome, Ends

\* A block load, whole or cut short by a fault, loads words.
LEMMA LoadAllTyped ==
    ASSUME NEW s, Typed(s), NEW list, list \subseteq Sources, NEW base \in Word
    PROVE  Typed(LoadAll(s, list, base).after) /\ LoadAll(s, list, base).result \in {"ok", "hardFault"}
<1> DEFINE r == [reg \in Registers |->
                   IF reg \in Transferred(list, base, Readable)
                   THEN MemRead(s, WordAt(list, base, reg), 4) ELSE s.r[reg]]
<1>1. ASSUME NEW reg \in Registers PROVE r[reg] \in Word
  <2>1. CASE reg \in Transferred(list, base, Readable)
    <3>1. reg \in list /\ reg <= reg
      BY <2>1, RegistersAre DEF Transferred
    <3>2. Allowed(Readable, WordAt(list, base, reg), 4)
      BY <2>1, <3>1 DEF Transferred
    <3>3. r[reg] = MemRead(s, WordAt(list, base, reg), 4)
      BY <2>1
    <3> HIDE DEF r
    <3>4. WordAt(list, base, reg) \in Word /\ 4 \in 1 .. 4
      BY WordAtIs
    <3>5. MemRead(s, WordAt(list, base, reg), 4) \in Word
      BY <3>2, <3>4, MemReadTyped
    <3> QED BY <3>3, <3>5
  <2>2. CASE reg \notin Transferred(list, base, Readable)
    BY <2>2, FieldsAre
  <2> QED BY <2>1, <2>2
<1>2. r \in [Registers -> Word]
  BY <1>1
<1>3. LoadAll(s, list, base) = Outcome(Ends(list, base, Readable), WithRegisters(s, r))
  BY DEF LoadAll, WithRegisters
<1> HIDE DEF r
<1>4. Typed(WithRegisters(s, r))
  BY <1>2, RegistersTyped
<1> QED BY <1>3, <1>4 DEF Outcome, Ends

\* A word that a transfer to its end has loaded.
LEMMA LoadedTyped ==
    ASSUME NEW s, Typed(s), NEW list, list \subseteq Sources, NEW base \in Word, NEW reg \in list,
           LoadAll(s, list, base).result = "ok"
    PROVE  MemRead(s, WordAt(list, base, reg), 4) \in Word
<1>1. Transferred(list, base, Readable) = list
  BY DEF LoadAll, Outcome, Ends
<1>2. reg <= reg
  BY ListsAreFinite
<1>3. Allowed(Readable, WordAt(list, base, reg), 4)
  BY <1>1, <1>2 DEF Transferred
<1>4. WordAt(list, base, reg) \in Word /\ 4 \in 1 .. 4
  BY WordAtIs
<1> QED BY <1>3, <1>4, MemReadTyped

\* A branch to a word.
LEMMA BranchesAreGood ==
    ASSUME NEW s, Typed(s)
    PROVE  /\ \A target \in Int : Good(BranchWritePC(s, target))
           /\ \A target \in Word : Good(BxWritePC(s, target))
<1>1. ASSUME NEW target \in Int PROVE Good(BranchWritePC(s, target))
  <2>1. Wrap(target) \in Word
    BY WrapIs
  <2> QED BY <2>1, EvenIs, CompletedIsGood DEF BranchWritePC
<1>2. ASSUME NEW target \in Word PROVE Good(BxWritePC(s, target))
  <2>1. BxWritePC(s, target) = Completed(WithThumb(s, target % 2 = 1), Aligned(target, 2))
    BY DEF BxWritePC, WithThumb
  <2>2. (target % 2 = 1) \in BOOLEAN
    OBVIOUS
  <2>3. Typed(WithThumb(s, target % 2 = 1))
    BY <2>2, ThumbTyped
  <2> QED BY <2>1, <2>3, EvenIs, CompletedIsGood
<1> QED BY <1>1, <1>2

\* PUSH keeps the context's type, whether or not it faults,
LEMMA PushIsGood ==
    ASSUME NEW s, Typed(s), NEW i \in Instruction, i.op = "push"
    PROVE  Good(Push(i, s))
<1> DEFINE base == Wrap(s.r[SP] - Span(i.list))
           t    == StoreAll(s, i.list, base)
<1>1. i.list \subseteq Sources /\ SP \in Registers /\ s.r[SP] \in Word
  BY BlockFields, RegistersAre, FieldsAre DEF Sources
<1>2. base \in Word
  BY <1>1, WordAtIs
<1>3. \/ Push(i, s) = Throws("unpredictable", s)
      \/ Push(i, s) = Throws(t.result, t.after)
      \/ Push(i, s) = Done(SetReg(t.after, SP, base))
  BY DEF Push
<1>4. Typed(t.after) /\ t.result \in Results
  <2> HIDE DEF base
  <2>1. Typed(t.after) /\ t.result \in {"ok", "hardFault"}
    BY <1>1, <1>2, StoreAllTyped
  <2> HIDE DEF t
  <2> QED BY <2>1 DEF Results
<1> HIDE DEF base, t
<1>5. Typed(SetReg(t.after, SP, base))
  BY <1>1, <1>2, <1>4, SetRegTyped
<1> QED BY <1>3, <1>4, <1>5, ThrowsIsGood, DoneIsGood, UnpredictableIsGood

\* and so does POP, which may load the program counter,
LEMMA PopIsGood ==
    ASSUME NEW s, Typed(s), NEW i \in Instruction, i.op = "pop"
    PROVE  Good(Pop(i, s))
<1> DEFINE t      == LoadAll(s, i.list, s.r[SP])
           end    == SetReg(t.after, SP, Wrap(s.r[SP] + Span(i.list)))
           target == MemRead(s, WordAt(i.list, s.r[SP], PC), 4)
<1>1. i.list \subseteq Sources /\ SP \in Registers /\ s.r[SP] \in Word
  BY BlockFields, RegistersAre, FieldsAre
<1>2. Wrap(s.r[SP] + Span(i.list)) \in Word
  BY <1>1, WordAtIs
<1>3. \/ Pop(i, s) = Throws("unpredictable", s)
      \/ Pop(i, s) = Throws(t.result, t.after)
      \/ t.result = "ok" /\ PC \in i.list /\ Pop(i, s) = BxWritePC(end, target)
      \/ Pop(i, s) = Done(end)
  BY DEF Pop
<1>4. Typed(t.after) /\ t.result \in Results
  <2>1. Typed(t.after) /\ t.result \in {"ok", "hardFault"}
    BY <1>1, LoadAllTyped
  <2> HIDE DEF t
  <2> QED BY <2>1 DEF Results
<1>5. ASSUME t.result = "ok", PC \in i.list PROVE target \in Word
  BY <1>1, <1>5, LoadedTyped
<1> HIDE DEF t
<1>6. Typed(end)
  BY <1>1, <1>2, <1>4, SetRegTyped
<1> HIDE DEF target, end
<1> QED BY <1>3, <1>4, <1>5, <1>6, ThrowsIsGood, DoneIsGood, UnpredictableIsGood, BranchesAreGood

\* and STM,
LEMMA StmIsGood ==
    ASSUME NEW s, Typed(s), NEW i \in Instruction, i.op = "stm"
    PROVE  Good(Stm(i, s))
<1> DEFINE base == GetReg(s, i.n)
           t    == StoreAll(s, i.list, base)
           next == Wrap(base + Span(i.list))
<1>1. i.list \subseteq Sources /\ i.n \in Registers /\ base \in Word
  BY BlockFields, GetRegTyped DEF Sources
<1>2. \/ Stm(i, s) = Throws("unpredictable", s)
      \/ Stm(i, s) = Throws(t.result, t.after)
      \/ Stm(i, s) = Done(SetReg(t.after, i.n, next))
  BY DEF Stm
<1> HIDE DEF base
<1>3. next \in Word
  BY <1>1, WordAtIs
<1>4. Typed(t.after) /\ t.result \in Results
  <2>1. Typed(t.after) /\ t.result \in {"ok", "hardFault"}
    BY <1>1, StoreAllTyped
  <2> HIDE DEF t
  <2> QED BY <2>1 DEF Results
<1> HIDE DEF t, next
<1>5. Typed(SetReg(t.after, i.n, next))
  BY <1>1, <1>3, <1>4, SetRegTyped
<1> QED BY <1>2, <1>4, <1>5, ThrowsIsGood, DoneIsGood, UnpredictableIsGood

\* and LDM.
LEMMA LdmIsGood ==
    ASSUME NEW s, Typed(s), NEW i \in Instruction, i.op = "ldm"
    PROVE  Good(Ldm(i, s))
<1> DEFINE base == GetReg(s, i.n)
           t    == LoadAll(s, i.list, base)
           next == Wrap(base + Span(i.list))
<1>1. i.list \subseteq Sources /\ i.n \in Registers /\ base \in Word
  BY BlockFields, GetRegTyped DEF Sources
<1>2. \/ Ldm(i, s) = Throws("unpredictable", s)
      \/ Ldm(i, s) = Throws(t.result, t.after)
      \/ Ldm(i, s) = Done(t.after)
      \/ Ldm(i, s) = Done(SetReg(t.after, i.n, next))
  BY DEF Ldm
<1> HIDE DEF base
<1>3. next \in Word
  BY <1>1, WordAtIs
<1>4. Typed(t.after) /\ t.result \in Results
  <2>1. Typed(t.after) /\ t.result \in {"ok", "hardFault"}
    BY <1>1, LoadAllTyped
  <2> HIDE DEF t
  <2> QED BY <2>1 DEF Results
<1> HIDE DEF t, next
<1>5. Typed(SetReg(t.after, i.n, next))
  BY <1>1, <1>3, <1>4, SetRegTyped
<1> QED BY <1>2, <1>4, <1>5, ThrowsIsGood, DoneIsGood, UnpredictableIsGood

-----------------------------------------------------------------------------
(* Branches and system instructions.                                       *)

\* The return address is the next instruction's with its low bit set.
LEMMA LinkedTyped ==
    ASSUME NEW s, Typed(s), NEW size \in {2, 4}
    PROVE  /\ Typed(Linked(s, size))
           /\ Aligned(Behind(s, size), 2) + 1 = Behind(s, size) + 1
           /\ Behind(s, size) + 1 \in Word
<1>1. Behind(s, size) \in Word /\ Behind(s, size) % 2 = 0
  BY BehindIsEven
<1>2. Aligned(Behind(s, size), 2) = Behind(s, size) /\ Aligned(Behind(s, size), 2) + 1 \in Word
  BY <1>1, EvenIs
<1> QED BY <1>2, RegistersAre, SetRegTyped DEF Linked

\* Branches leave an even program counter, whatever their targets.
LEMMA BranchesIsGood ==
    ASSUME NEW s, Typed(s), NEW i \in Instruction, i.op \in BranchOps
    PROVE  Good(Branches(i, s))
<1> DEFINE p == GetReg(s, PC)
<1>1. p \in Int
  <2>1. p \in Word
    BY GetRegTyped DEF Sources
  <2> QED BY <2>1, WordTypes
<1>2. CASE i.op = "b"
  <2>1. Branches(i, s) = BranchWritePC(s, p + i.offset) \/ Branches(i, s) = Done(s)
    BY <1>2 DEF Branches, Branch
  <2> HIDE DEF p
  <2>2. p + i.offset \in Int
    BY <1>1, <1>2, BlockFields
  <2> QED BY <2>1, <2>2, DoneIsGood, BranchesAreGood
<1>3. CASE i.op = "bl"
  <2>1. Branches(i, s) = BranchWritePC(Linked(s, 4), p + i.offset)
    BY <1>3 DEF Branches, Bl
  <2> HIDE DEF p
  <2>2. p + i.offset \in Int
    BY <1>1, <1>3, BlockFields
  <2> QED BY <2>1, <2>2, LinkedTyped, BranchesAreGood
<1>4. CASE i.op = "bx"
  <2>1. \/ Branches(i, s) = Throws("unpredictable", s)
        \/ Branches(i, s) = BxWritePC(s, GetReg(s, i.m))
    BY <1>4 DEF Branches, BranchExchange
  <2>2. GetReg(s, i.m) \in Word
    BY <1>4, BlockFields, GetRegTyped
  <2> QED BY <2>1, <2>2, BranchesAreGood, UnpredictableIsGood
<1>5. CASE i.op = "blx"
  <2>1. \/ Branches(i, s) = Throws("unpredictable", s)
        \/ Branches(i, s) = BxWritePC(Linked(s, 2), GetReg(s, i.m))
    BY <1>5 DEF Branches, Blx
  <2>2. GetReg(s, i.m) \in Word
    BY <1>5, BlockFields, GetRegTyped
  <2> QED BY <2>1, <2>2, LinkedTyped, BranchesAreGood, UnpredictableIsGood
<1> QED BY <1>2, <1>3, <1>4, <1>5 DEF BranchOps

\* The flags fit the highest four bits of a word.
LEMMA ApsrTyped ==
    ASSUME NEW f \in Flags
    PROVE  Apsr(f) \in Word
<1> DEFINE ks == {k \in 0 .. 3 : <<f.V, f.C, f.Z, f.N>>[k + 1]}
           n  == Number(ks)
<1>1. 4 \in 0 .. Width /\ ks \subseteq 0 .. (4 - 1)
  BY PowerStep
<1>2. n \in 0 .. (Power(4) - 1)
  <2> HIDE DEF ks
  <2> QED BY <1>1, NumberIs
<1>3. Power(4) = 16
  <2>1. /\ Power(0 + 1) = 2 * Power(0) /\ Power(1 + 1) = 2 * Power(1)
        /\ Power(2 + 1) = 2 * Power(2) /\ Power(3 + 1) = 2 * Power(3) /\ Power(0) = 1
    BY PowerStep
  <2>2. Power(1) = 2
    BY <2>1
  <2>3. Power(2) = 4
    BY <2>1, <2>2
  <2>4. Power(3) = 8
    BY <2>1, <2>3
  <2> QED BY <2>1, <2>4
<1>4. SignBit \in Nat /\ WordRange = 2 * SignBit /\ WordRange \in Nat
  BY SignBitIs
<1>5. FlagUnit \in Nat /\ 16 * FlagUnit <= WordRange /\ WordRange >= 16
  BY <1>4, SignBitIs DEF FlagUnit
<1>6. Apsr(f) = FlagUnit * n
  BY DEF Apsr
<1> HIDE DEF n
<1>7. n \in Nat /\ n <= 15
  BY <1>2, <1>3
<1>8. n * FlagUnit <= 15 * FlagUnit /\ FlagUnit * n \in Int /\ FlagUnit * n = n * FlagUnit
  BY <1>5, <1>7, ProductsGrow
<1>9. 0 * FlagUnit <= n * FlagUnit /\ 0 * FlagUnit = 0
  BY <1>5, <1>7, ProductsGrow
<1>10. FlagUnit * n < WordRange
  BY <1>4, <1>5, <1>8
<1> QED BY <1>4, <1>6, <1>8, <1>9, <1>10 DEF Word

\* MSR keeps the context's type: a stack pointer it writes is a word,
LEMMA MsrTyped ==
    ASSUME NEW s, Typed(s), NEW i \in Instruction, i.op = "msr"
    PROVE  Typed(Msr(i, s))
<1> DEFINE value == GetReg(s, i.n)
<1>1. value \in Word /\ value \in Int /\ 0 <= value
  <2>1. value \in Word
    BY BlockFields, GetRegTyped
  <2> HIDE DEF value
  <2> QED BY <2>1, WordTypes
<1>2. CASE i.sysm = "apsr"
  <2>1. Msr(i, s) = WithFlags(s, FlagsOf(value))
    BY <1>2 DEF Msr, WithFlags
  <2>2. FlagsOf(value) \in Flags
    BY DEF FlagsOf, Flags, Bit
  <2> QED BY <2>1, <2>2, FlagsTyped
<1>3. CASE i.sysm = "msp"
  <2>1. Msr(i, s) = SetReg(s, SP, Aligned(value, 4))
    BY <1>3 DEF Msr
  <2> HIDE DEF value
  <2>2. Aligned(value, 4) \in 0 .. value
    BY <1>1 DEF Aligned
  <2>3. Aligned(value, 4) \in Word
    BY <1>1, <2>2, WordTypes DEF Word
  <2> QED BY <2>1, <2>3, RegistersAre, SetRegTyped
<1>4. CASE i.sysm = "primask"
  <2>1. Msr(i, s) = WithMask(s, value % 2 = 1)
    BY <1>4 DEF Msr, WithMask
  <2>2. (value % 2 = 1) \in BOOLEAN
    OBVIOUS
  <2> HIDE DEF value
  <2> QED BY <2>1, <2>2, MaskTyped
<1>5. CASE i.sysm = "other"
  BY <1>5 DEF Msr
<1> QED BY <1>2, <1>3, <1>4, <1>5, BlockFields DEF SpecialRegisters

\* and MRS reads words.
LEMMA MrsTyped ==
    ASSUME NEW s, Typed(s), NEW i \in Instruction, i.op = "mrs", i.d \notin {SP, PC}
    PROVE  Typed(Mrs(i, s))
<1>1. i.d \in Registers
  BY BlockFields, RegistersAre
<1>2. Apsr(s.flags) \in Word /\ s.r[SP] \in Word /\ 0 \in Word /\ 1 \in Word
  BY ApsrTyped, FieldsAre, RegistersAre, SignBitIs DEF Word
<1>3. \E v \in Word : Mrs(i, s) = SetReg(s, i.d, v)
  BY <1>2, BlockFields DEF Mrs, SpecialRegisters
<1> QED BY <1>1, <1>3, SetRegTyped

\* System instructions keep the context's type.
LEMMA SystemIsGood ==
    ASSUME NEW s, Typed(s), NEW i \in Instruction, i.op \in SystemOps
    PROVE  Good(System(i, s))
<1> DEFINE next == Behind(s, IF i.op \in WideOps THEN 4 ELSE 2)
<1>1. next \in Word /\ next % 2 = 0
  BY BehindIsEven
<1>2. DOMAIN Returned = {"hint", "svc", "unassigned", "wide"}
  BY DEF Returned
<1>3. System(i, s) =
        CASE i.op \in {"nop", "barrier"} -> Completed(s, next)
          [] i.op \in DOMAIN Returned -> [Completed(s, next) EXCEPT !.result = Returned[i.op]]
          [] i.op \in Thrown -> Throws(i.op, s)
          [] i.op = "cps" -> Completed([s EXCEPT !.primask = i.disable], next)
          [] i.op = "msr" -> IF i.n \in {SP, PC} THEN Throws("unpredictable", s)
                             ELSE Completed(Msr(i, s), next)
          [] i.op = "mrs" -> IF i.d \in {SP, PC} THEN Throws("unpredictable", s)
                             ELSE Completed(Mrs(i, s), next)
  BY DEF System
<1> HIDE DEF next
<1>4. CASE i.op \in {"nop", "barrier"}
  <2>1. System(i, s) = Completed(s, next)
    BY <1>4, <1>2, <1>3 DEF Thrown
  <2> QED BY <1>1, <2>1, CompletedIsGood
<1>5. CASE i.op \in DOMAIN Returned
  <2>1. System(i, s) = [Completed(s, next) EXCEPT !.result = Returned[i.op]]
    BY <1>5, <1>2, <1>3 DEF Thrown
  <2>2. Returned[i.op] \in Results
    BY <1>5 DEF Returned, Results, Thrown
  <2>3. System(i, s) = Outcome(Returned[i.op], Completed(s, next).after)
    BY <2>1 DEF Completed, Outcome
  <2>4. Good(Completed(s, next))
    BY <1>1, CompletedIsGood
  <2> QED BY <2>2, <2>3, <2>4 DEF Good, Outcome
<1>6. CASE i.op \in Thrown
  <2>1. System(i, s) = Throws(i.op, s)
    BY <1>6, <1>2, <1>3 DEF Thrown
  <2> QED BY <1>6, <2>1, ThrowsIsGood DEF Results
<1>7. CASE i.op = "cps"
  <2>1. System(i, s) = Completed(WithMask(s, i.disable), next)
    BY <1>7, <1>2, <1>3 DEF Thrown, WithMask
  <2>2. Typed(WithMask(s, i.disable))
    BY <1>7, BlockFields, MaskTyped
  <2> QED BY <1>1, <2>1, <2>2, CompletedIsGood
<1>8. CASE i.op = "msr"
  <2>1. System(i, s) = Throws("unpredictable", s) \/ System(i, s) = Completed(Msr(i, s), next)
    BY <1>8, <1>2, <1>3 DEF Thrown
  <2> QED BY <1>1, <1>8, <2>1, MsrTyped, CompletedIsGood, UnpredictableIsGood
<1>9. CASE i.op = "mrs"
  <2>1. \/ System(i, s) = Throws("unpredictable", s)
        \/ i.d \notin {SP, PC} /\ System(i, s) = Completed(Mrs(i, s), next)
    BY <1>9, <1>2, <1>3 DEF Thrown
  <2> QED BY <1>1, <1>9, <2>1, MrsTyped, CompletedIsGood, UnpredictableIsGood
<1> QED BY <1>4, <1>5, <1>6, <1>7, <1>8, <1>9 DEF SystemOps

-----------------------------------------------------------------------------
(* pinkySimStep.                                                           *)

\* Every operation is of one kind.
LEMMA ExecuteIs ==
    ASSUME NEW s, NEW i
    PROVE  /\ i.op \in SumOps => Execute(i, s) = Adds(i, s)
           /\ i.op \in AddressOps => Execute(i, s) = AddsAddress(i, s)
           /\ i.op \in ShiftOps => Execute(i, s) = Shifts(i, s)
           /\ i.op \in LogicOps => Execute(i, s) = DoesLogic(i, s)
           /\ i.op \in MoveOps => Execute(i, s) = Moves(i, s)
           /\ i.op \in LoadOps => Execute(i, s) = Loads(i, s)
           /\ i.op \in StoreOps => Execute(i, s) = Stores(i, s)
           /\ i.op \in BlockOps => Execute(i, s) = TransfersBlock(i, s)
           /\ i.op \in BranchOps => Execute(i, s) = Branches(i, s)
           /\ i.op \in SystemOps => Execute(i, s) = System(i, s)
<1>1. i.op \in SumOps => Execute(i, s) = Adds(i, s)
  BY DEF Execute, SumOps, AddressOps, ShiftOps, LogicOps, MoveOps, LoadOps, StoreOps,
         BlockOps, BranchOps, SystemOps, Returned, Thrown
<1>2. i.op \in AddressOps => Execute(i, s) = AddsAddress(i, s)
  BY DEF Execute, SumOps, AddressOps, ShiftOps, LogicOps, MoveOps, LoadOps, StoreOps,
         BlockOps, BranchOps, SystemOps, Returned, Thrown
<1>3. i.op \in ShiftOps => Execute(i, s) = Shifts(i, s)
  BY DEF Execute, SumOps, AddressOps, ShiftOps, LogicOps, MoveOps, LoadOps, StoreOps,
         BlockOps, BranchOps, SystemOps, Returned, Thrown
<1>4. i.op \in LogicOps => Execute(i, s) = DoesLogic(i, s)
  BY DEF Execute, SumOps, AddressOps, ShiftOps, LogicOps, MoveOps, LoadOps, StoreOps,
         BlockOps, BranchOps, SystemOps, Returned, Thrown
<1>5. i.op \in MoveOps => Execute(i, s) = Moves(i, s)
  BY DEF Execute, SumOps, AddressOps, ShiftOps, LogicOps, MoveOps, LoadOps, StoreOps,
         BlockOps, BranchOps, SystemOps, Returned, Thrown
<1>6. i.op \in LoadOps => Execute(i, s) = Loads(i, s)
  BY DEF Execute, SumOps, AddressOps, ShiftOps, LogicOps, MoveOps, LoadOps, StoreOps,
         BlockOps, BranchOps, SystemOps, Returned, Thrown
<1>7. i.op \in StoreOps => Execute(i, s) = Stores(i, s)
  BY DEF Execute, SumOps, AddressOps, ShiftOps, LogicOps, MoveOps, LoadOps, StoreOps,
         BlockOps, BranchOps, SystemOps, Returned, Thrown
<1>8. i.op \in BlockOps => Execute(i, s) = TransfersBlock(i, s)
  BY DEF Execute, SumOps, AddressOps, ShiftOps, LogicOps, MoveOps, LoadOps, StoreOps,
         BlockOps, BranchOps, SystemOps, Returned, Thrown
<1>9. i.op \in BranchOps => Execute(i, s) = Branches(i, s)
  BY DEF Execute, SumOps, AddressOps, ShiftOps, LogicOps, MoveOps, LoadOps, StoreOps,
         BlockOps, BranchOps, SystemOps, Returned, Thrown
<1>10. i.op \in SystemOps => Execute(i, s) = System(i, s)
  BY DEF Execute, SumOps, AddressOps, ShiftOps, LogicOps, MoveOps, LoadOps, StoreOps,
         BlockOps, BranchOps, SystemOps, Returned, Thrown
<1> QED BY <1>1, <1>2, <1>3, <1>4, <1>5, <1>6, <1>7, <1>8, <1>9, <1>10

\* Every instruction keeps the context's type,
LEMMA ExecuteIsGood ==
    ASSUME NEW s, Typed(s), NEW i \in Instruction
    PROVE  Good(Execute(i, s))
<1>1. CASE i.op \in SumOps
  BY <1>1, ExecuteIs, AddsIsGood
<1>2. CASE i.op \in AddressOps
  BY <1>2, ExecuteIs, AddsAddressIsGood
<1>3. CASE i.op \in ShiftOps
  BY <1>3, ExecuteIs, ShiftsIsGood
<1>4. CASE i.op \in LogicOps
  BY <1>4, ExecuteIs, DoesLogicIsGood
<1>5. CASE i.op \in MoveOps
  BY <1>5, ExecuteIs, MovesIsGood
<1>6. CASE i.op \in LoadOps
  BY <1>6, ExecuteIs, LoadsIsGood
<1>7. CASE i.op \in StoreOps
  BY <1>7, ExecuteIs, StoresIsGood
<1>8. CASE i.op \in BlockOps
  <2>1. \/ i.op = "push" /\ Execute(i, s) = Push(i, s)
        \/ i.op = "pop" /\ Execute(i, s) = Pop(i, s)
        \/ i.op = "stm" /\ Execute(i, s) = Stm(i, s)
        \/ i.op = "ldm" /\ Execute(i, s) = Ldm(i, s)
    BY <1>8, ExecuteIs DEF BlockOps, TransfersBlock
  <2> QED BY <2>1, PushIsGood, PopIsGood, StmIsGood, LdmIsGood
<1>9. CASE i.op \in BranchOps
  BY <1>9, ExecuteIs, BranchesIsGood
<1>10. CASE i.op \in SystemOps
  BY <1>10, ExecuteIs, SystemIsGood
<1>11. i.op \in SumOps \cup AddressOps \cup ShiftOps \cup LogicOps \cup MoveOps \cup LoadOps
                \cup StoreOps \cup BlockOps \cup BranchOps \cup SystemOps
  BY DEF Instruction, SumOps, AddressOps, ShiftOps, LogicOps, MoveOps, LoadOps, StoreOps,
         BlockOps, BranchOps, SystemOps
<1> QED BY <1>1, <1>2, <1>3, <1>4, <1>5, <1>6, <1>7, <1>8, <1>9, <1>10, <1>11

\* and so does a step that does not get to fetch one.
LEMMA StepIsGood ==
    ASSUME NEW s, Typed(s), NEW i \in Instructions
    PROVE  Good(Step(i, s))
<1>1. i \in Instruction
  BY InstructionsAssumption
<1> QED BY <1>1, ExecuteIsGood, UnpredictableIsGood DEF Step

\* The context stays what the types say, its program counter even, for all
\* programs: no instruction, on any path, writes anything else.
THEOREM TypesHold == Spec => []TypeOK
<1>1. TypeOK <=> Typed(context) /\ result \in Results
  BY DEF TypeOK, Typed, Results
<1>2. Init => TypeOK
  BY <1>1, ContextsAssumption DEF Init, Typed, Results
<1>3. TypeOK /\ [Next]_vars => TypeOK'
  <2> SUFFICES ASSUME TypeOK, [Next]_vars PROVE Typed(context') /\ result' \in Results
    BY DEF TypeOK, Typed, Results
  <2>1. Typed(context) /\ result \in Results
    BY <1>1
  <2>2. CASE CopyContextFromBuffer
    <3>1. PICK s \in InitialContexts : context' = WithMask(s, context.primask)
      BY <2>2 DEF CopyContextFromBuffer, WithMask
    <3>2. Typed(s) /\ context.primask \in BOOLEAN
      BY <2>1, FieldsAre, ContextsAssumption DEF Typed
    <3> QED BY <2>2, <3>1, <3>2, MaskTyped DEF CopyContextFromBuffer, Results
  <2>3. ASSUME NEW i \in Instructions, Executes(i)
        PROVE  Typed(context') /\ result' \in Results
    <3>1. Good(Step(i, context))
      BY <2>1, StepIsGood
    <3> QED BY <2>3, <3>1 DEF Executes, Good
  <2>4. CASE ProcessData
    BY <2>3, <2>4 DEF ProcessData
  <2>5. CASE TransferOne
    BY <2>3, <2>5 DEF TransferOne
  <2>6. CASE TransferMany
    BY <2>3, <2>6 DEF TransferMany
  <2>7. CASE TakeBranch
    BY <2>3, <2>7 DEF TakeBranch
  <2>8. CASE DoSystem
    BY <2>3, <2>8 DEF DoSystem
  <2>9. CASE UNCHANGED vars
    BY <2>1, <2>9 DEF vars
  <2> QED BY <2>2, <2>4, <2>5, <2>6, <2>7, <2>8, <2>9 DEF Next
<1> QED BY <1>2, <1>3, PTL DEF Spec

-----------------------------------------------------------------------------
(* What the flags are for.                                                 *)

\* A comparison that is defined sets the flags of a difference and moves on.
LEMMA ComparisonIs ==
    ASSUME NEW s, Typed(s), NEW i \in Instruction, i.op = "cmp", Execute(i, s).result = "ok"
    PROVE  Execute(i, s).after =
             WithPC(WithFlags(s, UpdateNZCV(s.flags,
                      AddWithCarry(GetReg(s, i.n), Not(Operand(s, i.with)), TRUE))), Behind(s, 2))
<1> DEFINE sum  == AddWithCarry(GetReg(s, i.n), Not(Operand(s, i.with)), TRUE)
           then == WithFlags(s, UpdateNZCV(s.flags, sum))
<1>1. Execute(i, s) = Adds(i, s)
  BY ExecuteIs DEF SumOps
<1>2. Sum(i, s) = sum
  BY DEF Sum
<1>3. Adds(i, s) = Throws("unpredictable", s) \/ Adds(i, s) = Done(then)
  BY <1>2 DEF Adds, WithFlags
<1> HIDE DEF then
<1>4. Adds(i, s) = Done(then)
  <2>1. Throws("unpredictable", s).result # "ok"
    BY DEF Throws, Outcome
  <2> QED BY <1>1, <1>3, <2>1
<1>5. then.pc = s.pc
  BY DEF WithFlags, then
<1>6. Done(then) = Completed(then, Behind(s, 2))
  BY <1>5 DEF Done, Behind
<1>7. Completed(then, Behind(s, 2)).after = WithPC(then, Behind(s, 2))
  BY DEF Completed, Outcome, WithPC
<1> QED BY <1>1, <1>4, <1>6, <1>7 DEF then, sum

\* Comparisons decide: the branch behind one is taken by the order of the words.
LEMMA TypesDecide == TypeOK => ComparisonsDecide
<1> SUFFICES ASSUME TypeOK, NEW i \in Instructions, NEW cond \in Comparisons,
                    i.op = "cmp", Execute(i, context).result = "ok"
             PROVE  Branch([cond |-> cond, offset |-> 0], Execute(i, context).after).after.pc
                      = IF Compared(cond, GetReg(context, i.n), Operand(context, i.with))
                        THEN Wrap(Execute(i, context).after.pc + 4)
                        ELSE Behind(Execute(i, context).after, 2)
  BY DEF ComparisonsDecide
<1> DEFINE x     == GetReg(context, i.n)
           y     == Operand(context, i.with)
           flags == UpdateNZCV(context.flags, AddWithCarry(x, Not(y), TRUE))
           t     == Execute(i, context).after
           b     == [cond |-> cond, offset |-> 0]
<1>1. Typed(context) /\ i \in Instruction /\ i.op \in SumOps
  BY InstructionsAssumption DEF TypeOK, Typed, SumOps
<1>2. x \in Word /\ y \in Word /\ context.flags \in Flags
  BY <1>1, DataFields, GetRegTyped, OperandTyped, FieldsAre
<1>3. t = WithPC(WithFlags(context, flags), Behind(context, 2))
  BY <1>1, ComparisonIs
<1>4. Typed(t)
  BY <1>1, ExecuteIsGood DEF Good
<1>5. t.flags = flags
  <2> HIDE DEF flags, t
  <2>1. context \in Context
    BY <1>1 DEF Typed
  <2> QED BY <1>3, <2>1 DEF WithPC, WithFlags, Context
<1>6. ConditionPassed(cond, flags) <=> Compared(cond, x, y)
  <2> HIDE DEF x, y
  <2> QED BY <1>2, ConditionsCompare
<1>7. cond # "AL"
  BY DEF Comparisons
<1>8. b.cond = cond /\ b.offset = 0
  OBVIOUS
<1> HIDE DEF t, flags, x, y, b
<1>9. GetReg(t, PC) = Wrap(t.pc + 4)
  BY DEF GetReg
<1>10. Wrap(t.pc + 4) \in Word /\ Wrap(t.pc + 4) % 2 = 0
  BY <1>4, BehindIsEven DEF Behind
<1>11. CASE Compared(cond, x, y)
  <2> DEFINE target == Wrap(t.pc + 4)
  <2>1. Branch(b, t) = BranchWritePC(t, target + 0)
    BY <1>5, <1>6, <1>8, <1>9, <1>11 DEF Branch
  <2>2. target \in Word /\ target % 2 = 0
    BY <1>10
  <2> HIDE DEF target
  <2>3. target + 0 = target /\ Wrap(target) = target
    <3>1. target \in Int /\ 0 <= target /\ target < WordRange /\ WordRange \in Nat \ {0}
      BY <2>2, WordTypes
    <3> QED BY <3>1 DEF Wrap
  <2>4. Aligned(target, 2) = target
    BY <2>2, EvenIs
  <2>5. Branch(b, t) = Outcome("ok", WithPC(t, target))
    BY <2>1, <2>3, <2>4 DEF BranchWritePC, Completed, WithPC
  <2>6. Branch(b, t).after.pc = target
    <3>1. t \in Context
      BY <1>4 DEF Typed
    <3> QED BY <2>5, <3>1 DEF Outcome, WithPC, Context
  <2> QED BY <1>11, <2>6 DEF target, b, t, x, y
<1>12. CASE ~Compared(cond, x, y)
  <2>1. Branch(b, t) = Outcome("ok", WithPC(t, Behind(t, 2)))
    BY <1>5, <1>6, <1>7, <1>8, <1>12 DEF Branch, Done, Completed, WithPC
  <2>2. Branch(b, t).after.pc = Behind(t, 2)
    <3>1. t \in Context
      BY <1>4 DEF Typed
    <3> QED BY <2>1, <3>1 DEF Outcome, WithPC, Context
  <2> QED BY <1>12, <2>2 DEF b, t, x, y
<1> QED BY <1>11, <1>12

\* What an addition or a subtraction with carry leaves.
LEMMA CarryingIs ==
    ASSUME NEW s, Typed(s), NEW i \in Instruction, i.op \in {"adc", "sbc"}
    PROVE  LET y     == GetReg(s, i.with.register)
               sum   == AddWithCarry(GetReg(s, i.n), IF i.op = "adc" THEN y ELSE Not(y), s.flags.C)
               after == Execute(i, s).after
           IN  /\ after.r[i.d] = sum.result
               /\ after.flags.C = sum.carryOut /\ after.flags.V = sum.overflow
<1> DEFINE y    == GetReg(s, i.with.register)
           sum  == AddWithCarry(GetReg(s, i.n), IF i.op = "adc" THEN y ELSE Not(y), s.flags.C)
           then == WithFlags(s, UpdateNZCV(s.flags, sum))
           end  == SetReg(then, i.d, sum.result)
<1>1. /\ i.op \in SumOps /\ i.d \in Registers /\ i.n \in Registers
      /\ i.with \in [register : Registers]
  BY DataFields DEF SumOps
<1>2. Execute(i, s) = Adds(i, s)
  BY <1>1, ExecuteIs
<1>3. i.n # PC /\ i.with # Reg(PC)
  BY <1>1, RegistersAre DEF Reg
<1>4. Operand(s, i.with) = y
  BY <1>1 DEF Operand
<1>5. Sum(i, s) = sum
  BY <1>4 DEF Sum
<1>6. i.op \notin {"cmp", "cmn"}
  OBVIOUS
<1>7. Adds(i, s) = Done(end)
  BY <1>3, <1>5, <1>6 DEF Adds, WithFlags
<1>8. sum.result \in Word /\ UpdateNZCV(s.flags, sum) \in Flags
  BY <1>1, <1>5, SumIsTyped
<1>9. s.flags \in Flags
  BY FieldsAre
<1>10. /\ UpdateNZCV(s.flags, sum).C = sum.carryOut
       /\ UpdateNZCV(s.flags, sum).V = sum.overflow
  <2> HIDE DEF sum
  <2> QED BY <1>9 DEF UpdateNZCV, UpdateNZ, Flags
<1> HIDE DEF sum, then, end
<1>11. Typed(then) /\ then.flags = UpdateNZCV(s.flags, sum)
  <2>1. Typed(then)
    BY <1>8, FlagsTyped DEF then
  <2>2. s \in Context
    BY DEF Typed
  <2> QED BY <2>1, <2>2 DEF then, WithFlags, Context
<1>12. then \in Context /\ then.r \in [Registers -> Word]
  BY <1>11, FieldsAre DEF Typed
<1>13. end.r[i.d] = sum.result /\ end.flags = then.flags
  BY <1>1, <1>12 DEF end, SetReg, Context
<1>14. Adds(i, s).after.r = end.r /\ Adds(i, s).after.flags = end.flags
  <2>1. end \in Context
    BY <1>1, <1>8, <1>11, SetRegTyped DEF end, Typed
  <2> QED BY <1>7, <2>1 DEF Done, Completed, Outcome, Context
<1> QED BY <1>2, <1>10, <1>11, <1>13, <1>14 DEF sum

\* Words add as the halves of longer ones.
LEMMA TypesAdd == TypeOK => DoubleWordsAdd
<1> SUFFICES ASSUME TypeOK, NEW i \in Instructions, NEW xl \in Word, NEW yl \in Word,
                    i.op \in {"adc", "sbc"}
             PROVE  LET adding == i.op = "adc"
                        yh     == GetReg(context, i.with.register)
                        low    == AddWithCarry(xl, IF adding THEN yl ELSE Not(yl), ~adding)
                        after  == Execute(i, [context EXCEPT !.flags = UpdateNZCV(@, low)]).after
                        high   == [result |-> after.r[i.d], carryOut |-> after.flags.C,
                                   overflow |-> after.flags.V]
                    IN  IF adding THEN IsDoubleSum(GetReg(context, i.n), xl, yh, yl, FALSE, high, low)
                        ELSE IsDoubleSum(GetReg(context, i.n), xl, Not(yh), Not(yl), TRUE, high, low)
  BY DEF DoubleWordsAdd
<1> DEFINE adding == i.op = "adc"
           xh     == GetReg(context, i.n)
           yh     == GetReg(context, i.with.register)
           low    == AddWithCarry(xl, IF adding THEN yl ELSE Not(yl), ~adding)
           s      == WithFlags(context, UpdateNZCV(context.flags, low))
           after  == Execute(i, s).after
           high   == [result |-> after.r[i.d], carryOut |-> after.flags.C,
                      overflow |-> after.flags.V]
           sum    == AddWithCarry(xh, IF adding THEN yh ELSE Not(yh), low.carryOut)
<1>1. Typed(context) /\ i \in Instruction /\ i.op \in SumOps
  BY InstructionsAssumption DEF TypeOK, Typed, SumOps
<1>2. i.n \in Registers /\ i.with \in [register : Registers] /\ i.with.register \in Registers
  BY <1>1, DataFields
<1>3. xh \in Word /\ yh \in Word /\ Not(yh) \in Word /\ Not(yl) \in Word
  BY <1>1, <1>2, GetRegTyped, WordTypes DEF Sources
<1>4. low.result \in Word /\ low.carryOut \in BOOLEAN /\ low.overflow \in BOOLEAN
  <2>1. \A carry \in BOOLEAN : \A y \in Word :
          /\ AddWithCarry(xl, y, carry).result \in Word
          /\ AddWithCarry(xl, y, carry).carryOut \in BOOLEAN
          /\ AddWithCarry(xl, y, carry).overflow \in BOOLEAN
    BY SumTypes
  <2>2. (~adding) \in BOOLEAN /\ (IF adding THEN yl ELSE Not(yl)) \in Word
    BY <1>3
  <2> HIDE DEF adding
  <2> QED BY <2>1, <2>2
<1>5. context.flags \in Flags /\ context \in Context
  BY <1>1, FieldsAre DEF Typed
<1>6. UpdateNZCV(context.flags, low) \in Flags /\ UpdateNZCV(context.flags, low).C = low.carryOut
  <2> HIDE DEF low
  <2>1. UpdateNZCV(context.flags, low) \in Flags
    BY <1>4, <1>5, FlagsAreTyped DEF UpdateNZCV
  <2> QED BY <1>5, <2>1 DEF UpdateNZCV, UpdateNZ, Flags
<1>7. Typed(s) /\ s.flags.C = low.carryOut /\ s.r = context.r
  <2> HIDE DEF low
  <2>1. Typed(s)
    BY <1>1, <1>6, FlagsTyped
  <2> QED BY <1>5, <1>6, <2>1 DEF WithFlags, Context
<1>8. GetReg(s, i.n) = xh /\ GetReg(s, i.with.register) = yh
  <2> HIDE DEF s
  <2> QED BY <1>2, <1>7, RegistersAre DEF GetReg
<1>9. /\ after.r[i.d] = sum.result /\ after.flags.C = sum.carryOut /\ after.flags.V = sum.overflow
  <2> HIDE DEF s, low, xh, yh
  <2> QED BY <1>1, <1>7, <1>8, CarryingIs
<1> HIDE DEF s, after
<1>10. high = sum
  <2>1. sum = [result |-> sum.result, carryOut |-> sum.carryOut, overflow |-> sum.overflow]
    <3> HIDE DEF xh, yh, low
    <3> QED BY DEF AddWithCarry
  <2> HIDE DEF sum
  <2> QED BY <1>9, <2>1
<1>11. CASE adding
  <2>1. low = AddWithCarry(xl, yl, FALSE) /\ sum = AddWithCarry(xh, yh, low.carryOut)
    BY <1>11
  <2> HIDE DEF xh, yh, low, sum, high
  <2>2. \A carry \in BOOLEAN : IsDoubleSum(xh, xl, yh, yl, carry,
          AddWithCarry(xh, yh, AddWithCarry(xl, yl, carry).carryOut), AddWithCarry(xl, yl, carry))
    BY <1>3, HalvesAdd
  <2>3. IsDoubleSum(xh, xl, yh, yl, FALSE, high, low)
    BY <1>10, <2>1, <2>2
  <2> QED BY <1>11, <2>3 DEF xh, yh, low, high, after, s, WithFlags
<1>12. CASE ~adding
  <2>1. low = AddWithCarry(xl, Not(yl), TRUE) /\ sum = AddWithCarry(xh, Not(yh), low.carryOut)
    BY <1>12
  <2> HIDE DEF xh, yh, low, sum, high
  <2>2. \A carry \in BOOLEAN : IsDoubleSum(xh, xl, Not(yh), Not(yl), carry,
          AddWithCarry(xh, Not(yh), AddWithCarry(xl, Not(yl), carry).carryOut),
          AddWithCarry(xl, Not(yl), carry))
    BY <1>3, HalvesAdd
  <2>3. IsDoubleSum(xh, xl, Not(yh), Not(yl), TRUE, high, low)
    BY <1>10, <2>1, <2>2
  <2> QED BY <1>12, <2>3 DEF xh, yh, low, high, after, s, WithFlags
<1> QED BY <1>11, <1>12

\* What a shift leaves.
LEMMA ShiftingIs ==
    ASSUME NEW s, Typed(s), NEW i \in Instruction, i.op \in ShiftOps
    PROVE  LET shifted == Shift_C(GetReg(s, i.n), i.op, Amount(i, s), s.flags.C)
               after   == Execute(i, s).after
           IN  /\ shifted.result \in Word /\ shifted.carryOut \in BOOLEAN
               /\ after.r[i.d] = shifted.result /\ after.flags.C = shifted.carryOut
<1> DEFINE shifted == Shift_C(GetReg(s, i.n), i.op, Amount(i, s), s.flags.C)
           then    == WithFlags(s, UpdateNZC(s.flags, shifted))
           end     == SetReg(then, i.d, shifted.result)
<1>1. /\ GetReg(s, i.n) \in Word /\ i.op \in {"lsl", "lsr", "asr", "ror"} /\ Amount(i, s) \in Nat
      /\ s.flags \in Flags /\ s.flags.C \in BOOLEAN /\ i.d \in Registers
  BY DataFields, GetRegTyped, AmountIs, FieldsAre DEF ShiftOps, Flags, Sources
<1>2. shifted.result \in Word /\ shifted.carryOut \in BOOLEAN
  BY <1>1, ShiftTypes
<1>3. Execute(i, s) = Done(end)
  BY ExecuteIs DEF Shifts, WithFlags
<1> HIDE DEF shifted
<1>4. UpdateNZC(s.flags, shifted) \in Flags /\ UpdateNZC(s.flags, shifted).C = shifted.carryOut
  <2>1. UpdateNZC(s.flags, shifted) \in Flags
    BY <1>1, <1>2, FlagsAreTyped DEF UpdateNZC
  <2> QED BY <1>1, <2>1 DEF UpdateNZC, UpdateNZ, Flags
<1> HIDE DEF then, end
<1>5. Typed(then) /\ then.flags = UpdateNZC(s.flags, shifted)
  <2>1. Typed(then)
    BY <1>4, FlagsTyped DEF then
  <2>2. s \in Context
    BY DEF Typed
  <2> QED BY <2>1, <2>2 DEF then, WithFlags, Context
<1>6. then \in Context /\ then.r \in [Registers -> Word]
  BY <1>5, FieldsAre DEF Typed
<1>7. end.r[i.d] = shifted.result /\ end.flags = then.flags
  BY <1>1, <1>6 DEF end, SetReg, Context
<1>8. Done(end).after.r = end.r /\ Done(end).after.flags = end.flags
  <2>1. end \in Context
    BY <1>1, <1>2, <1>5, SetRegTyped DEF end, Typed
  <2> QED BY <2>1 DEF Done, Completed, Outcome, Context
<1> QED BY <1>2, <1>3, <1>4, <1>5, <1>7, <1>8 DEF shifted

\* A shift is made place by place.
LEMMA TypesShift == TypeOK => ShiftsAreRepeated
<1> SUFFICES ASSUME TypeOK, NEW i \in Instructions, i.op \in ShiftOps
             PROVE  [result   |-> Execute(i, context).after.r[i.d],
                     carryOut |-> Execute(i, context).after.flags.C]
                      = Repeated(i.op, GetReg(context, i.n), context.flags.C, Amount(i, context))
  BY DEF ShiftsAreRepeated
<1> DEFINE x       == GetReg(context, i.n)
           n       == Amount(i, context)
           after   == Execute(i, context).after
           shifted == Shift_C(x, i.op, n, context.flags.C)
<1>1. Typed(context) /\ i \in Instruction
  BY InstructionsAssumption DEF TypeOK, Typed
<1>2. /\ x \in Word /\ i.op \in {"lsl", "lsr", "asr", "ror"} /\ n \in Nat
      /\ context.flags.C \in BOOLEAN
  BY <1>1, DataFields, GetRegTyped, AmountIs, FieldsAre DEF ShiftOps, Flags, Sources
<1>3. after.r[i.d] = shifted.result /\ after.flags.C = shifted.carryOut
  BY <1>1, ShiftingIs
<1> HIDE DEF x, n, after
<1>4. shifted = [result |-> shifted.result, carryOut |-> shifted.carryOut]
  <2>1. CASE n = 0
    BY <2>1 DEF Shift_C
  <2>2. CASE n # 0
    <3>1. \/ shifted = LSL_C(x, n) \/ shifted = LSR_C(x, n)
          \/ shifted = ASR_C(x, n) \/ shifted = ROR_C(x, n)
      BY <1>2, <2>2 DEF Shift_C
    <3> QED BY <3>1 DEF LSL_C, LSR_C, ASR_C, ROR_C
  <2> QED BY <2>1, <2>2
<1>5. shifted = Repeated(i.op, x, context.flags.C, n)
  BY <1>2, ShiftsRepeat
<1> HIDE DEF shifted
<1> QED BY <1>3, <1>4, <1>5 DEF x, n, after

\* For all programs: a branch behind a comparison is taken by the order of the
\* two words, as unsigned and as signed numbers.
THEOREM BranchesDecide == Spec => []ComparisonsDecide
<1>1. TypeOK => ComparisonsDecide
  BY TypesDecide
<1> QED BY <1>1, TypesHold, PTL

\* For all programs: sums and differences of words make those of longer numbers.
THEOREM WordsAdd == Spec => []DoubleWordsAdd
<1>1. TypeOK => DoubleWordsAdd
  BY TypesAdd
<1> QED BY <1>1, TypesHold, PTL

\* For all programs: a shift instruction makes as many shifts by one place as its
\* operand says, by nothing, by the width and by more.
THEOREM ShiftsMatch == Spec => []ShiftsAreRepeated
<1>1. TypeOK => ShiftsAreRepeated
  BY TypesShift
<1> QED BY <1>1, TypesHold, PTL

-----------------------------------------------------------------------------
(* A transfer that faults is one that can be repeated.                     *)

\* The registers that are stored over a byte, and what the memory becomes.
Storing(list, base, a) ==
    {reg \in Transferred(list, base, Writable) :
       a \in WordAt(list, base, reg) .. (WordAt(list, base, reg) + 3)}
Stored(s, list, base) ==
    [a \in Readable |->
       IF Storing(list, base, a) = {} THEN s.memory[a]
       ELSE ByteOf(GetReg(s, CHOOSE reg \in Storing(list, base, a) : TRUE),
                   a - WordAt(list, base, CHOOSE reg \in Storing(list, base, a) : TRUE))]

\* What the registers become.
Loaded(s, list, base) ==
    [reg \in Registers |->
       IF reg \in Transferred(list, base, Readable)
       THEN MemRead(s, WordAt(list, base, reg), 4) ELSE s.r[reg]]

\* A transfer writes the memory or the registers, and nothing else.
LEMMA TransfersAre ==
    ASSUME NEW s, NEW list, NEW base
    PROVE  /\ StoreAll(s, list, base)
                = Outcome(Ends(list, base, Writable), WithMemory(s, Stored(s, list, base)))
           /\ LoadAll(s, list, base)
                = Outcome(Ends(list, base, Readable), WithRegisters(s, Loaded(s, list, base)))
<1>1. StoreAll(s, list, base)
        = Outcome(Ends(list, base, Writable), WithMemory(s, Stored(s, list, base)))
  BY DEF StoreAll, WithMemory, Stored, Storing
<1>2. LoadAll(s, list, base)
        = Outcome(Ends(list, base, Readable), WithRegisters(s, Loaded(s, list, base)))
  BY DEF LoadAll, WithRegisters, Loaded
<1> QED BY <1>1, <1>2

\* What a block store makes of the memory are bytes.
LEMMA StoredTyped ==
    ASSUME NEW s, Typed(s), NEW list, list \subseteq Sources, NEW base \in Word
    PROVE  Stored(s, list, base) \in Bytes /\ Typed(WithMemory(s, Stored(s, list, base)))
<1>1. Typed(WithMemory(s, Stored(s, list, base)))
  BY StoreAllTyped, TransfersAre DEF Outcome
<1>2. WithMemory(s, Stored(s, list, base)).memory = Stored(s, list, base)
  BY DEF WithMemory, Typed, Context
<1> QED BY <1>1, <1>2, FieldsAre

\* What a block load makes of the registers are words.
LEMMA LoadedIsTyped ==
    ASSUME NEW s, Typed(s), NEW list, list \subseteq Sources, NEW base \in Word
    PROVE  Loaded(s, list, base) \in [Registers -> Word]
           /\ Typed(WithRegisters(s, Loaded(s, list, base)))
<1>1. Typed(WithRegisters(s, Loaded(s, list, base)))
  BY LoadAllTyped, TransfersAre DEF Outcome
<1>2. WithRegisters(s, Loaded(s, list, base)).r = Loaded(s, list, base)
  BY DEF WithRegisters, Typed, Context
<1> QED BY <1>1, <1>2, FieldsAre

\* A context with the registers and the memory of another one.
Back(t, s) == [t EXCEPT !.r = s.r, !.memory = s.memory]

\* The fields that an update leaves alone.
LEMMA UpdatesAre ==
    ASSUME NEW s, Typed(s), NEW m, NEW r
    PROVE  /\ WithMemory(s, m).r = s.r /\ WithMemory(s, m).pc = s.pc
           /\ WithMemory(s, m).flags = s.flags /\ WithMemory(s, m).thumb = s.thumb
           /\ WithMemory(s, m).primask = s.primask /\ WithMemory(s, m).memory = m
           /\ WithRegisters(s, r).r = r /\ WithRegisters(s, r).pc = s.pc
           /\ WithRegisters(s, r).flags = s.flags /\ WithRegisters(s, r).thumb = s.thumb
           /\ WithRegisters(s, r).primask = s.primask /\ WithRegisters(s, r).memory = s.memory
           /\ WithMemory(WithMemory(s, m), m) = WithMemory(s, m)
           /\ WithRegisters(WithRegisters(s, r), r) = WithRegisters(s, r)
           /\ Back(WithMemory(s, m), s) = s
           /\ Back(WithRegisters(s, r), s) = s
           /\ Back(s, s) = s
<1>1. s \in Context
  BY DEF Typed
<1>2. /\ WithMemory(s, m).r = s.r /\ WithMemory(s, m).pc = s.pc
      /\ WithMemory(s, m).flags = s.flags /\ WithMemory(s, m).thumb = s.thumb
      /\ WithMemory(s, m).primask = s.primask /\ WithMemory(s, m).memory = m
  BY <1>1 DEF WithMemory, Context
<1>3. /\ WithRegisters(s, r).r = r /\ WithRegisters(s, r).pc = s.pc
      /\ WithRegisters(s, r).flags = s.flags /\ WithRegisters(s, r).thumb = s.thumb
      /\ WithRegisters(s, r).primask = s.primask /\ WithRegisters(s, r).memory = s.memory
  BY <1>1 DEF WithRegisters, Context
<1>4. /\ WithMemory(WithMemory(s, m), m) = WithMemory(s, m)
      /\ WithRegisters(WithRegisters(s, r), r) = WithRegisters(s, r)
  BY <1>1 DEF WithMemory, WithRegisters, Context
<1>5. /\ Back(WithMemory(s, m), s) = s
      /\ Back(WithRegisters(s, r), s) = s
      /\ Back(s, s) = s
  BY <1>1 DEF WithMemory, WithRegisters, Context, Back
<1> QED BY <1>2, <1>3, <1>4, <1>5

\* Done again from where it left off, a transfer does the same.
LEMMA StoresAgain ==
    ASSUME NEW s, Typed(s), NEW list, list \subseteq Sources, NEW base \in Word
    PROVE  StoreAll(StoreAll(s, list, base).after, list, base) = StoreAll(s, list, base)
<1> DEFINE m == Stored(s, list, base)
           t == WithMemory(s, m)
<1>1. Typed(t) /\ t.r = s.r /\ t.pc = s.pc /\ t.memory = m
  <2>1. Typed(t)
    BY StoredTyped
  <2> HIDE DEF m
  <2> QED BY <2>1, UpdatesAre
<1>2. WithMemory(t, m) = t
  BY UpdatesAre
<1> HIDE DEF t
<1>3. ASSUME NEW reg PROVE GetReg(t, reg) = GetReg(s, reg)
  BY <1>1 DEF GetReg
<1>4. Stored(t, list, base) = m
  <2>1. ASSUME NEW a \in Readable
        PROVE  (IF Storing(list, base, a) = {} THEN t.memory[a]
                ELSE ByteOf(GetReg(t, CHOOSE reg \in Storing(list, base, a) : TRUE),
                            a - WordAt(list, base, CHOOSE reg \in Storing(list, base, a) : TRUE)))
               = m[a]
    <3> DEFINE reg == CHOOSE reg \in Storing(list, base, a) : TRUE
    <3>1. m[a] = IF Storing(list, base, a) = {} THEN s.memory[a]
                 ELSE ByteOf(GetReg(s, reg), a - WordAt(list, base, reg))
      BY DEF Stored
    <3>2. GetReg(t, reg) = GetReg(s, reg)
      BY <1>3
    <3> HIDE DEF reg, m
    <3>3. (IF Storing(list, base, a) = {} THEN t.memory[a]
           ELSE ByteOf(GetReg(t, reg), a - WordAt(list, base, reg))) = m[a]
      BY <1>1, <3>1, <3>2
    <3> QED BY <3>3 DEF reg
  <2>2. m = [a \in Readable |-> m[a]]
    BY DEF Stored
  <2> HIDE DEF m
  <2>3. Stored(t, list, base) = [a \in Readable |-> m[a]]
    BY <2>1 DEF Stored
  <2> QED BY <2>2, <2>3
<1>5. StoreAll(s, list, base) = Outcome(Ends(list, base, Writable), t)
  BY TransfersAre DEF t
<1>6. StoreAll(t, list, base) = Outcome(Ends(list, base, Writable), t)
  BY <1>2, <1>4, TransfersAre
<1> QED BY <1>5, <1>6 DEF Outcome

\* Loaded again, the registers become the same.
LEMMA LoadsAgain ==
    ASSUME NEW s, Typed(s), NEW list, list \subseteq Sources, NEW base \in Word
    PROVE  LoadAll(LoadAll(s, list, base).after, list, base) = LoadAll(s, list, base)
<1> DEFINE r == Loaded(s, list, base)
           t == WithRegisters(s, r)
<1>1. Typed(t) /\ t.r = r /\ t.memory = s.memory
  <2>1. Typed(t)
    BY LoadedIsTyped
  <2> HIDE DEF r
  <2> QED BY <2>1, UpdatesAre
<1>2. WithRegisters(t, r) = t
  BY UpdatesAre
<1> HIDE DEF t
<1>3. ASSUME NEW a PROVE MemRead(t, a, 4) = MemRead(s, a, 4)
  BY <1>1 DEF MemRead
<1>4. Loaded(t, list, base) = r
  <2>1. ASSUME NEW reg \in Registers
        PROVE  (IF reg \in Transferred(list, base, Readable)
                THEN MemRead(t, WordAt(list, base, reg), 4) ELSE t.r[reg]) = r[reg]
    <3>1. r[reg] = IF reg \in Transferred(list, base, Readable)
                   THEN MemRead(s, WordAt(list, base, reg), 4) ELSE s.r[reg]
      BY DEF Loaded
    <3> HIDE DEF r
    <3> QED BY <1>1, <1>3, <3>1
  <2>2. r = [reg \in Registers |-> r[reg]]
    BY DEF Loaded
  <2> HIDE DEF r
  <2>3. Loaded(t, list, base) = [reg \in Registers |-> r[reg]]
    BY <2>1 DEF Loaded
  <2> QED BY <2>2, <2>3
<1>5. LoadAll(s, list, base) = Outcome(Ends(list, base, Readable), t)
  BY TransfersAre DEF t
<1>6. LoadAll(t, list, base) = Outcome(Ends(list, base, Readable), t)
  BY <1>2, <1>4, TransfersAre
<1> QED BY <1>5, <1>6 DEF Outcome

\* What a fault may leave: the registers of the list with other values, and the
\* memory, but everything else as it was.
Kept(t, s, list) ==
    /\ Typed(t) /\ t.pc = s.pc /\ t.thumb = s.thumb
    /\ \A reg \in Registers \ list : t.r[reg] = s.r[reg]
    /\ Back(t, s) = s

\* A block transfer leaves alone what is not in its list.
LEMMA TransfersKeep ==
    ASSUME NEW s, Typed(s), NEW list, list \subseteq Sources, NEW base \in Word
    PROVE  /\ Kept(s, s, list) /\ Kept(s, s, {})
           /\ Kept(StoreAll(s, list, base).after, s, {}) /\ StoreAll(s, list, base).after.r = s.r
           /\ Kept(LoadAll(s, list, base).after, s, list)
<1> DEFINE m == Stored(s, list, base)
           r == Loaded(s, list, base)
<1>1. StoreAll(s, list, base).after = WithMemory(s, m) /\ LoadAll(s, list, base).after = WithRegisters(s, r)
  BY TransfersAre DEF Outcome
<1>2. Typed(WithMemory(s, m)) /\ Typed(WithRegisters(s, r))
  BY StoredTyped, LoadedIsTyped
<1>3. ASSUME NEW reg \in Registers \ list PROVE r[reg] = s.r[reg]
  BY <1>3 DEF Loaded, Transferred
<1> HIDE DEF m, r
<1>4. /\ WithMemory(s, m).r = s.r /\ WithMemory(s, m).pc = s.pc /\ WithMemory(s, m).thumb = s.thumb
      /\ Back(WithMemory(s, m), s) = s
      /\ WithRegisters(s, r).r = r /\ WithRegisters(s, r).pc = s.pc
      /\ WithRegisters(s, r).thumb = s.thumb
      /\ Back(WithRegisters(s, r), s) = s
      /\ Back(s, s) = s
  BY UpdatesAre
<1>5. Kept(s, s, list) /\ Kept(s, s, {})
  BY <1>4 DEF Kept
<1>6. Kept(WithMemory(s, m), s, {})
  BY <1>2, <1>4 DEF Kept
<1>7. Kept(WithRegisters(s, r), s, list)
  BY <1>2, <1>3, <1>4 DEF Kept
<1> QED BY <1>1, <1>4, <1>5, <1>6, <1>7

\* An instruction that transfers no block faults before it does anything.
Clean(o, s) == o.result = "hardFault" => o = Outcome("hardFault", s)

\* An instruction that ends in any of these ways has not half-done anything.
LEMMA EndsAreClean ==
    ASSUME NEW s, NEW t, NEW target
    PROVE  /\ Clean(Done(t), s) /\ Clean(Completed(t, target), s)
           /\ Clean(Throws("unpredictable", s), s) /\ Clean(Throws("hardFault", s), s)
           /\ Clean(BranchWritePC(t, target), s) /\ Clean(BxWritePC(t, target), s)
<1>1. ASSUME NEW u, NEW x PROVE Clean(Completed(u, x), s)
  BY DEF Clean, Completed, Outcome
<1>2. Clean(Throws("unpredictable", s), s) /\ Clean(Throws("hardFault", s), s)
  BY DEF Clean, Throws, Outcome
<1>3. Clean(Done(t), s) /\ Clean(BranchWritePC(t, target), s) /\ Clean(BxWritePC(t, target), s)
  BY <1>1 DEF Done, BranchWritePC, BxWritePC
<1> QED BY <1>1, <1>2, <1>3

\* System instructions do nothing by halves.
LEMMA SystemIsClean ==
    ASSUME NEW s, NEW i, i.op \in SystemOps
    PROVE  Clean(System(i, s), s)
<1> DEFINE next == Behind(s, IF i.op \in WideOps THEN 4 ELSE 2)
<1>1. DOMAIN Returned = {"hint", "svc", "unassigned", "wide"}
  BY DEF Returned
<1>2. System(i, s) =
        CASE i.op \in {"nop", "barrier"} -> Completed(s, next)
          [] i.op \in DOMAIN Returned -> [Completed(s, next) EXCEPT !.result = Returned[i.op]]
          [] i.op \in Thrown -> Throws(i.op, s)
          [] i.op = "cps" -> Completed([s EXCEPT !.primask = i.disable], next)
          [] i.op = "msr" -> IF i.n \in {SP, PC} THEN Throws("unpredictable", s)
                             ELSE Completed(Msr(i, s), next)
          [] i.op = "mrs" -> IF i.d \in {SP, PC} THEN Throws("unpredictable", s)
                             ELSE Completed(Mrs(i, s), next)
  BY DEF System
<1> HIDE DEF next
<1>3. CASE i.op \in {"nop", "barrier"}
  BY <1>1, <1>2, <1>3, EndsAreClean DEF Thrown
<1>4. CASE i.op \in DOMAIN Returned
  <2>1. System(i, s) = [Completed(s, next) EXCEPT !.result = Returned[i.op]]
    BY <1>1, <1>2, <1>4 DEF Thrown
  <2>2. System(i, s).result = Returned[i.op]
    BY <2>1 DEF Completed, Outcome
  <2>3. Returned[i.op] # "hardFault"
    BY <1>1, <1>4 DEF Returned
  <2> QED BY <2>2, <2>3 DEF Clean
<1>5. CASE i.op \in Thrown
  <2>1. System(i, s) = Throws(i.op, s)
    BY <1>1, <1>2, <1>5 DEF Thrown
  <2> QED BY <1>5, <2>1 DEF Clean, Throws, Outcome, Thrown
<1>6. CASE i.op \in {"cps", "msr", "mrs"}
  <2>1. \/ System(i, s) = Completed([s EXCEPT !.primask = i.disable], next)
        \/ System(i, s) = Throws("unpredictable", s)
        \/ System(i, s) = Completed(Msr(i, s), next)
        \/ System(i, s) = Completed(Mrs(i, s), next)
    BY <1>1, <1>2, <1>6 DEF Thrown
  <2> QED BY <2>1, EndsAreClean
<1> QED BY <1>3, <1>4, <1>5, <1>6 DEF SystemOps

\* Nor does any instruction but a block transfer.
LEMMA OthersAreClean ==
    ASSUME NEW s, NEW i \in Instruction, i.op \notin BlockOps
    PROVE  Clean(Execute(i, s), s)
<1>1. CASE i.op \in SumOps
  <2>1. \/ Adds(i, s) = Throws("unpredictable", s)
        \/ \E t : Adds(i, s) = Done(t)
    BY DEF Adds
  <2> QED BY <1>1, <2>1, ExecuteIs, EndsAreClean
<1>2. CASE i.op \in AddressOps
  <2>1. \/ AddsAddress(i, s) = Throws("unpredictable", s)
        \/ \E t : AddsAddress(i, s) = Done(t)
        \/ AddsAddress(i, s) = Completed(s, Aligned(Address(i, s), 2))
    BY DEF AddsAddress
  <2> QED BY <1>2, <2>1, ExecuteIs, EndsAreClean
<1>3. CASE i.op \in ShiftOps \cup LogicOps \cup MoveOps
  <2>1. \E t : Shifts(i, s) = Done(t)
    BY DEF Shifts
  <2>2. \E t : DoesLogic(i, s) = Done(t)
    BY DEF DoesLogic
  <2>3. \E t : Moves(i, s) = Done(t)
    BY DEF Moves
  <2> QED BY <1>3, <2>1, <2>2, <2>3, ExecuteIs, EndsAreClean
<1>4. CASE i.op \in LoadOps \cup StoreOps
  <2>1. Loads(i, s) = Throws("hardFault", s) \/ \E t : Loads(i, s) = Done(t)
    BY DEF Loads
  <2>2. Stores(i, s) = Throws("hardFault", s) \/ \E t : Stores(i, s) = Done(t)
    BY DEF Stores
  <2> QED BY <1>4, <2>1, <2>2, ExecuteIs, EndsAreClean
<1>5. CASE i.op \in BranchOps
  <2>1. \/ Branches(i, s) = Throws("unpredictable", s)
        \/ \E t : Branches(i, s) = Done(t)
        \/ \E t, target : Branches(i, s) = BranchWritePC(t, target)
        \/ \E t, target : Branches(i, s) = BxWritePC(t, target)
    BY <1>5 DEF BranchOps, Branches, Branch, Bl, BranchExchange, Blx
  <2> QED BY <1>5, <2>1, ExecuteIs, EndsAreClean
<1>6. CASE i.op \in SystemOps
  BY <1>6, ExecuteIs, SystemIsClean
<1>7. i.op \in SumOps \cup AddressOps \cup ShiftOps \cup LogicOps \cup MoveOps \cup LoadOps
               \cup StoreOps \cup BlockOps \cup BranchOps \cup SystemOps
  BY DEF Instruction, SumOps, AddressOps, ShiftOps, LogicOps, MoveOps, LoadOps, StoreOps,
         BlockOps, BranchOps, SystemOps
<1> QED BY <1>1, <1>2, <1>3, <1>4, <1>5, <1>6, <1>7

\* A fault that left the context kept is met again.
Retried(i, s, list) ==
    LET o == Execute(i, s)
    IN  Kept(o.after, s, list) /\ Execute(i, o.after) = o

\* A PUSH that faults can be executed again,
LEMMA PushIsRetried ==
    ASSUME NEW s, Typed(s), NEW i \in Instruction, i.op = "push",
           Execute(i, s).result = "hardFault"
    PROVE  Retried(i, s, {})
<1> DEFINE base == Wrap(s.r[SP] - Span(i.list))
           t    == StoreAll(s, i.list, base)
<1>1. i.list \subseteq Sources /\ SP \in Registers /\ s.r[SP] \in Word
  BY BlockFields, RegistersAre, FieldsAre DEF Sources
<1>2. base \in Word
  BY <1>1, WordAtIs
<1>3. \A u : Execute(i, u) = Push(i, u)
  BY ExecuteIs DEF BlockOps, TransfersBlock
<1>4. \/ Push(i, s) = Throws("unpredictable", s)
      \/ i.list # {} /\ t.result # "ok" /\ Push(i, s) = Throws(t.result, t.after)
      \/ Push(i, s) = Done(SetReg(t.after, SP, base))
  BY DEF Push
<1>5. i.list # {} /\ t.result # "ok" /\ Push(i, s) = Throws(t.result, t.after)
  <2>1. /\ Throws("unpredictable", s).result # "hardFault"
        /\ Done(SetReg(t.after, SP, base)).result # "hardFault"
    BY DEF Throws, Done, Completed, Outcome
  <2> HIDE DEF t, base
  <2> QED BY <1>3, <1>4, <2>1
<1>6. Kept(t.after, s, {}) /\ t.after.r = s.r /\ StoreAll(t.after, i.list, base) = t
  <2> HIDE DEF base
  <2> QED BY <1>1, <1>2, TransfersKeep, StoresAgain
<1>7. Push(i, t.after) = Throws(t.result, t.after)
  <2>1. base = Wrap(t.after.r[SP] - Span(i.list))
    <3> HIDE DEF t
    <3> QED BY <1>6
  <2> HIDE DEF base, t
  <2> QED BY <1>5, <1>6, <2>1 DEF Push
<1>8. Push(i, s).after = t.after
  <2> HIDE DEF t
  <2> QED BY <1>5 DEF Throws, Outcome
<1> HIDE DEF t
<1> QED BY <1>3, <1>5, <1>6, <1>7, <1>8 DEF Retried

\* and an STM,
LEMMA StmIsRetried ==
    ASSUME NEW s, Typed(s), NEW i \in Instruction, i.op = "stm",
           Execute(i, s).result = "hardFault"
    PROVE  Retried(i, s, {})
<1> DEFINE base == GetReg(s, i.n)
           t    == StoreAll(s, i.list, base)
           bad  == i.list = {} \/ (i.n \in i.list /\ \E reg \in i.list : reg < i.n)
<1>1. i.list \subseteq Sources /\ i.n \in Registers /\ base \in Word
  BY BlockFields, GetRegTyped DEF Sources
<1>2. \A u : Execute(i, u) = Stm(i, u)
  BY ExecuteIs DEF BlockOps, TransfersBlock
<1>3. \A u : LET v == StoreAll(u, i.list, GetReg(u, i.n))
             IN  Stm(i, u) = IF bad THEN Throws("unpredictable", u)
                             ELSE IF v.result # "ok" THEN Throws(v.result, v.after)
                             ELSE Done(SetReg(v.after, i.n, Wrap(GetReg(u, i.n) + Span(i.list))))
  BY DEF Stm
<1> HIDE DEF bad
<1>4. \/ Stm(i, s) = Throws("unpredictable", s)
      \/ ~bad /\ t.result # "ok" /\ Stm(i, s) = Throws(t.result, t.after)
      \/ Stm(i, s) = Done(SetReg(t.after, i.n, Wrap(base + Span(i.list))))
  BY <1>3
<1>5. ~bad /\ t.result # "ok" /\ Stm(i, s) = Throws(t.result, t.after)
  <2>1. /\ Throws("unpredictable", s).result # "hardFault"
        /\ Done(SetReg(t.after, i.n, Wrap(base + Span(i.list)))).result # "hardFault"
    BY DEF Throws, Done, Completed, Outcome
  <2> HIDE DEF t, base
  <2> QED BY <1>2, <1>4, <2>1
<1>6. Kept(t.after, s, {}) /\ t.after.r = s.r /\ StoreAll(t.after, i.list, base) = t
  <2> HIDE DEF base
  <2> QED BY <1>1, TransfersKeep, StoresAgain
<1>7. GetReg(t.after, i.n) = base
  <2>1. i.n # PC
    BY <1>1, RegistersAre
  <2> HIDE DEF t
  <2> QED BY <1>6, <2>1 DEF GetReg
<1>8. Stm(i, t.after) = Throws(t.result, t.after)
  <2> HIDE DEF base, t
  <2> QED BY <1>3, <1>5, <1>6, <1>7
<1>9. Stm(i, s).after = t.after
  <2> HIDE DEF t
  <2> QED BY <1>5 DEF Throws, Outcome
<1> HIDE DEF t
<1> QED BY <1>2, <1>5, <1>6, <1>8, <1>9 DEF Retried

\* and a POP,
LEMMA PopIsRetried ==
    ASSUME NEW s, Typed(s), NEW i \in Instruction, i.op = "pop",
           Execute(i, s).result = "hardFault"
    PROVE  Retried(i, s, i.list \ {SP})
<1> DEFINE base == s.r[SP]
           t    == LoadAll(s, i.list, base)
           end  == SetReg(t.after, SP, Wrap(base + Span(i.list)))
<1>1. i.list \subseteq Sources /\ SP \in Registers /\ base \in Word /\ SP \notin i.list
  BY BlockFields, RegistersAre, FieldsAre
<1>2. \A u : Execute(i, u) = Pop(i, u)
  BY ExecuteIs DEF BlockOps, TransfersBlock
<1>3. \/ Pop(i, s) = Throws("unpredictable", s)
      \/ i.list # {} /\ t.result # "ok" /\ Pop(i, s) = Throws(t.result, t.after)
      \/ Pop(i, s) = BxWritePC(end, MemRead(s, WordAt(i.list, base, PC), 4))
      \/ Pop(i, s) = Done(end)
  BY DEF Pop
<1>4. i.list # {} /\ t.result # "ok" /\ Pop(i, s) = Throws(t.result, t.after)
  <2>1. /\ Throws("unpredictable", s).result # "hardFault" /\ Done(end).result # "hardFault"
        /\ BxWritePC(end, MemRead(s, WordAt(i.list, base, PC), 4)).result # "hardFault"
    <3> HIDE DEF end
    <3> QED BY DEF Throws, Done, BxWritePC, Completed, Outcome
  <2> HIDE DEF t, base, end
  <2> QED BY <1>2, <1>3, <2>1
<1>5. Kept(t.after, s, i.list) /\ LoadAll(t.after, i.list, base) = t
  <2> HIDE DEF base
  <2> QED BY <1>1, TransfersKeep, LoadsAgain
<1>6. t.after.r[SP] = base
  <2> HIDE DEF t
  <2> QED BY <1>1, <1>5 DEF Kept
<1>7. Pop(i, t.after) = Throws(t.result, t.after)
  <2> HIDE DEF base, t
  <2> QED BY <1>4, <1>5, <1>6 DEF Pop
<1>8. Pop(i, s).after = t.after
  <2> HIDE DEF t
  <2> QED BY <1>4 DEF Throws, Outcome
<1>9. i.list \ {SP} = i.list
  BY <1>1
<1> HIDE DEF t
<1> QED BY <1>2, <1>4, <1>5, <1>7, <1>8, <1>9 DEF Retried

\* and an LDM that does not load its own base.
LEMMA LdmIsRetried ==
    ASSUME NEW s, Typed(s), NEW i \in Instruction, i.op = "ldm", i.n \notin i.list,
           Execute(i, s).result = "hardFault"
    PROVE  Retried(i, s, i.list \ {i.n})
<1> DEFINE base == GetReg(s, i.n)
           t    == LoadAll(s, i.list, base)
           end  == SetReg(t.after, i.n, Wrap(base + Span(i.list)))
<1>1. i.list \subseteq Sources /\ i.n \in Registers /\ base \in Word
  BY BlockFields, GetRegTyped DEF Sources
<1>2. \A u : Execute(i, u) = Ldm(i, u)
  BY ExecuteIs DEF BlockOps, TransfersBlock
<1>3. \/ Ldm(i, s) = Throws("unpredictable", s)
      \/ i.list # {} /\ t.result # "ok" /\ Ldm(i, s) = Throws(t.result, t.after)
      \/ Ldm(i, s) = Done(t.after)
      \/ Ldm(i, s) = Done(end)
  BY DEF Ldm
<1>4. i.list # {} /\ t.result # "ok" /\ Ldm(i, s) = Throws(t.result, t.after)
  <2>1. /\ Throws("unpredictable", s).result # "hardFault" /\ Done(end).result # "hardFault"
        /\ Done(t.after).result # "hardFault"
    <3> HIDE DEF end, t
    <3> QED BY DEF Throws, Done, Completed, Outcome
  <2> HIDE DEF t, base, end
  <2> QED BY <1>2, <1>3, <2>1
<1>5. Kept(t.after, s, i.list) /\ LoadAll(t.after, i.list, base) = t
  <2> HIDE DEF base
  <2> QED BY <1>1, TransfersKeep, LoadsAgain
<1>6. GetReg(t.after, i.n) = base
  <2>1. i.n # PC
    BY <1>1, RegistersAre
  <2> HIDE DEF t
  <2> QED BY <1>1, <1>5, <2>1 DEF Kept, GetReg
<1>7. Ldm(i, t.after) = Throws(t.result, t.after)
  <2> HIDE DEF base, t
  <2> QED BY <1>4, <1>5, <1>6 DEF Ldm
<1>8. Ldm(i, s).after = t.after
  <2> HIDE DEF t
  <2> QED BY <1>4 DEF Throws, Outcome
<1>9. i.list \ {i.n} = i.list
  OBVIOUS
<1> HIDE DEF t
<1> QED BY <1>2, <1>4, <1>5, <1>7, <1>8, <1>9 DEF Retried

\* Faults can be retried, as long as no base was loaded.
LEMMA TypesRetry == TypeOK => FaultsCanBeRetried
<1> DEFINE s       == context
           base(i) == IF "n" \in DOMAIN i THEN i.n ELSE SP
           list(i) == IF i.op \in {"ldm", "pop"} THEN i.list \ {base(i)} ELSE {}
<1> SUFFICES ASSUME TypeOK, NEW i \in Instructions, Step(i, s).result = "hardFault",
                    ~(i.op = "ldm" /\ i.n \in i.list)
             PROVE  /\ \A reg \in Registers \ list(i) : Step(i, s).after.r[reg] = s.r[reg]
                    /\ [Step(i, s).after EXCEPT !.r = s.r, !.memory = s.memory] = s
                    /\ Step(i, Step(i, s).after) = Step(i, s)
  BY DEF FaultsCanBeRetried
<1>1. Typed(s) /\ i \in Instruction
  BY InstructionsAssumption DEF TypeOK, Typed
<1>2. Kept(Step(i, s).after, s, list(i)) /\ Step(i, Step(i, s).after) = Step(i, s)
  <2> HIDE DEF s
  <2>1. Kept(s, s, {}) /\ \A l : l \subseteq Sources => Kept(s, s, l)
    <3>1. Back(s, s) = s
      BY <1>1, UpdatesAre
    <3> QED BY <1>1, <3>1 DEF Kept
  <2>2. list(i) \subseteq Sources
    BY <1>1, BlockFields DEF Sources
  <2>3. CASE Step(i, s) = Outcome("hardFault", s)
    <3>1. Step(i, s).after = s
      BY <2>3 DEF Outcome
    <3> QED BY <2>1, <2>2, <3>1
  <2>4. CASE s.thumb /\ Fetches(i, s) /\ Step(i, s) = Execute(i, s) /\ i.op \notin BlockOps
    <3>1. Step(i, s) = Outcome("hardFault", s)
      BY <1>1, <2>4, OthersAreClean DEF Clean
    <3> QED BY <2>3, <3>1
  <2>5. CASE s.thumb /\ Fetches(i, s) /\ Step(i, s) = Execute(i, s) /\ i.op \in BlockOps
    <3>1. Retried(i, s, list(i))
      <4>1. CASE i.op = "push"
        <5>1. list(i) = {}
          BY <4>1
        <5> HIDE DEF list
        <5> QED BY <1>1, <2>5, <4>1, <5>1, PushIsRetried
      <4>2. CASE i.op = "stm"
        <5>1. list(i) = {}
          BY <4>2
        <5> HIDE DEF list
        <5> QED BY <1>1, <2>5, <4>2, <5>1, StmIsRetried
      <4>3. CASE i.op = "pop"
        <5>1. list(i) = i.list \ {SP}
          BY <1>1, <4>3, BlockFields
        <5> HIDE DEF list
        <5> QED BY <1>1, <2>5, <4>3, <5>1, PopIsRetried
      <4>4. CASE i.op = "ldm"
        <5>1. list(i) = i.list \ {i.n}
          BY <1>1, <4>4, BlockFields
        <5> HIDE DEF list
        <5> QED BY <1>1, <2>5, <4>4, <5>1, LdmIsRetried
      <4> QED BY <2>5, <4>1, <4>2, <4>3, <4>4 DEF BlockOps
    <3> DEFINE t == Execute(i, s).after
    <3>2. Kept(t, s, list(i)) /\ Execute(i, t) = Execute(i, s)
      BY <3>1 DEF Retried
    <3> HIDE DEF t, list
    <3>3. t.thumb /\ Fetches(i, t)
      BY <2>5, <3>2 DEF Kept, Fetches
    <3>4. Step(i, t) = Execute(i, t)
      BY <3>3 DEF Step
    <3> QED BY <2>5, <3>2, <3>4 DEF t
  <2> QED BY <2>3, <2>4, <2>5 DEF Step
<1>3. Back(Step(i, s).after, s) = [Step(i, s).after EXCEPT !.r = s.r, !.memory = s.memory]
  BY DEF Back
<1> HIDE DEF s, list
<1> QED BY <1>2, <1>3 DEF Kept

\* For all programs: a block transfer that faults can be executed again.
THEOREM FaultsAreRetried == Spec => []FaultsCanBeRetried
<1>1. TypeOK => FaultsCanBeRetried
  BY TypesRetry
<1> QED BY <1>1, TypesHold, PTL

-----------------------------------------------------------------------------
(* The words of a block come back.                                         *)

\* A word is made of its bytes.  Behind so many of them, x is the rest: the
\* numbers of the lower bytes, and of those above them.
LEMMA DigitsAre ==
    ASSUME NEW x \in Word
    PROVE  x = ((ByteOf(x, 0) + ByteOf(x, 1) * RangeOf(1)) + ByteOf(x, 2) * RangeOf(2))
                 + ByteOf(x, 3) * RangeOf(3)
<1> DEFINE q(k) == x \div RangeOf(k)
           l(k) == x % RangeOf(k)
<1>1. x \in Int /\ 0 <= x /\ x < WordRange
  BY WordTypes
<1>2. ASSUME NEW k \in 0 .. 3
      PROVE  l(k + 1) = l(k) + ByteOf(x, k) * RangeOf(k)
  <2> DEFINE r == RangeOf(k)
             R == RangeOf(k + 1)
             h == q(k) \div ByteRange
             b == q(k) % ByteRange
  <2>1. /\ r \in Nat \ {0} /\ R \in Nat \ {0} /\ ByteRange \in Nat \ {0} /\ R = ByteRange * r
    <3>1. k \in 0 .. 4 /\ k + 1 \in 0 .. 4
      OBVIOUS
    <3> QED BY <3>1, RangesAre, BytesAssumption
  <2>2. q(k) \in Int /\ l(k) \in 0 .. (r - 1) /\ x = r * q(k) + l(k)
    <3> HIDE DEF r
    <3> QED BY <1>1, <2>1, Division DEF r
  <2>3. h \in Int /\ b \in 0 .. (ByteRange - 1) /\ q(k) = ByteRange * h + b
    <3> DEFINE y == q(k)
    <3>1. y \in Int
      BY <2>2
    <3> HIDE DEF y
    <3>2. y \div ByteRange \in Int /\ y % ByteRange \in 0 .. (ByteRange - 1)
          /\ y = ByteRange * (y \div ByteRange) + (y % ByteRange)
      BY <2>1, <3>1, Division
    <3> QED BY <3>2 DEF y
  <2>4. ByteOf(x, k) = b
    BY DEF ByteOf
  <2> HIDE DEF r, R, h, b, q
  <2> DEFINE c == l(k)
             d == q(k)
  <2>5. c \in Int /\ 0 <= c /\ c <= r - 1 /\ x = r * d + c /\ d = ByteRange * h + b
    BY <2>1, <2>2, <2>3
  <2> HIDE DEF c, d, l
  <2>6. b \in Int /\ 0 <= b /\ b <= ByteRange - 1
    BY <2>1, <2>3
  <2>7. b * r <= (ByteRange - 1) * r /\ b * r \in Int /\ 0 * r <= b * r /\ 0 * r = 0
    <3>1. ByteRange - 1 \in Int /\ r \in Nat /\ 0 \in Int
      BY <2>1
    <3> QED BY <2>6, <3>1, ProductsGrow
  <2>8. (ByteRange - 1) * r = R - r
    BY <2>1
  <2>9. c + b * r \in 0 .. (R - 1)
    BY <2>1, <2>5, <2>7, <2>8
  <2>10. x = R * h + (c + b * r)
    <3>1. x = r * (ByteRange * h + b) + c
      BY <2>5
    <3>2. r * (ByteRange * h + b) = (ByteRange * r) * h + b * r
      BY <2>1, <2>3, <2>6
    <3> QED BY <2>1, <2>3, <2>5, <2>7, <3>1, <3>2
  <2>11. x % R = c + b * r
    <3> DEFINE low == c + b * r
    <3>1. low \in 0 .. (R - 1) /\ x = R * h + low
      BY <2>9, <2>10
    <3> HIDE DEF low
    <3>2. x \in Int /\ R \in Nat \ {0} /\ h \in Int
      BY <1>1, <2>1, <2>3
    <3>3. x \div R = h /\ x % R = low
      BY ONLY <3>1, <3>2, Division
    <3> QED BY <3>3 DEF low
  <2> QED BY <2>4, <2>11 DEF c, l, r, R
<1>3. l(0) = 0
  <2>1. RangeOf(0) = 1
    BY RangesAre
  <2> QED BY <1>1, <2>1
<1>4. l(4) = x
  <2>1. RangeOf(4) = WordRange /\ WordRange \in Nat \ {0}
    BY RangesAre, WordTypes
  <2> QED BY <1>1, <2>1
<1> DEFINE t(k) == ByteOf(x, k) * RangeOf(k)
<1>5. /\ l(0 + 1) = l(0) + t(0) /\ l(1 + 1) = l(1) + t(1)
      /\ l(2 + 1) = l(2) + t(2) /\ l(3 + 1) = l(3) + t(3)
  BY <1>2
<1>6. t(0) = ByteOf(x, 0) /\ ByteOf(x, 0) \in Int
  <2>1. RangeOf(0) = 1
    BY RangesAre
  <2>2. ByteOf(x, 0) \in Int
    BY ByteIs, RangesAre
  <2> QED BY <2>1, <2>2
<1> HIDE DEF l, t
<1>7. l(1) = ByteOf(x, 0)
  BY <1>3, <1>5, <1>6
<1>8. x = ((ByteOf(x, 0) + t(1)) + t(2)) + t(3)
  BY <1>4, <1>5, <1>7
<1> QED BY <1>8 DEF t

\* The bytes of a word, read where they were written.
LEMMA WordIsRead ==
    ASSUME NEW s, NEW address \in Int, NEW x \in Word,
           \A k \in 0 .. 3 : s.memory[address + k] = ByteOf(x, k)
    PROVE  MemRead(s, address, 4) = x
<1> DEFINE bytes == [k \in 0 .. (4 - 1) |-> s.memory[address + k]]
<1>1. \A k \in 0 .. (4 - 1) : bytes[k] = ByteOf(x, k)
  OBVIOUS
<1>2. \A k \in 0 .. (4 - 1) : bytes[k] \in 0 .. (ByteRange - 1)
  BY <1>1, ByteIs
<1>3. MemRead(s, address, 4) = Assembled(bytes, 4)
  BY DEF MemRead
<1> HIDE DEF bytes
<1>4. Assembled(bytes, 4)
        = ((bytes[0] + (bytes[1] * RangeOf(1))) + (bytes[2] * RangeOf(2))) + (bytes[3] * RangeOf(3))
  BY <1>2, AssembledIs
<1>5. bytes[0] = ByteOf(x, 0) /\ bytes[1] = ByteOf(x, 1) /\ bytes[2] = ByteOf(x, 2)
      /\ bytes[3] = ByteOf(x, 3)
  BY <1>1
<1> QED BY <1>3, <1>4, <1>5, DigitsAre

\* The ranks of two registers in a list differ.
LEMMA RanksDiffer ==
    ASSUME NEW list, list \subseteq Sources, NEW p \in list, NEW q \in list, p < q
    PROVE  LET rank(reg) == Cardinality({r \in list : r < reg})
           IN  /\ rank(p) \in Nat /\ rank(q) \in Nat /\ Cardinality(list) \in Nat
               /\ rank(p) + 1 <= rank(q) /\ rank(q) + 1 <= Cardinality(list)
<1> DEFINE below(reg) == {r \in list : r < reg}
<1>1. /\ IsFiniteSet(list) /\ list \subseteq Nat /\ Cardinality(list) \in Nat
      /\ \A part \in SUBSET list : IsFiniteSet(part) /\ Cardinality(part) \in Nat
  BY ListsAreFinite
<1>2. ASSUME NEW reg \in list, NEW whole \in SUBSET list, below(reg) \cup {reg} \subseteq whole
      PROVE  Cardinality(below(reg)) + 1 <= Cardinality(whole)
  <2>1. reg \notin below(reg) /\ below(reg) \in SUBSET list
    BY <1>1
  <2> HIDE DEF below
  <2>2. IsFiniteSet(below(reg)) /\ IsFiniteSet(whole)
    BY <1>1, <2>1
  <2>3. Cardinality(below(reg) \cup {reg}) = Cardinality(below(reg)) + 1
    BY <2>1, <2>2, FS_AddElement
  <2>4. Cardinality(below(reg) \cup {reg}) <= Cardinality(whole)
    BY <1>2, <2>2, FS_Subset
  <2> QED BY <2>3, <2>4
<1>3. below(p) \cup {p} \subseteq below(q) /\ below(q) \cup {q} \subseteq list
  <2>1. p \in Nat /\ q \in Nat /\ \A r \in list : r \in Nat
    BY <1>1
  <2>2. \A r \in list : r < p => r < q
    BY <2>1
  <2> QED BY <2>2
<1>4. below(p) \in SUBSET list /\ below(q) \in SUBSET list
  OBVIOUS
<1> HIDE DEF below
<1>5. /\ Cardinality(below(p)) + 1 <= Cardinality(below(q))
      /\ Cardinality(below(q)) + 1 <= Cardinality(list)
  BY <1>2, <1>3, <1>4
<1>6. Cardinality(below(p)) \in Nat /\ Cardinality(below(q)) \in Nat
  BY <1>1, <1>4
<1> QED BY <1>1, <1>5, <1>6 DEF below

\* Two words of a block lie apart, also where it wraps.
LEMMA WordsAreApart ==
    ASSUME NEW list, list \subseteq Sources, 4 * Cardinality(list) <= WordRange,
           NEW base \in Word, NEW p \in list, NEW q \in list, p < q
    PROVE  WordAt(list, base, p) # WordAt(list, base, q)
<1> DEFINE c == Cardinality({r \in list : r < p})
           d == Cardinality({r \in list : r < q})
           n == Cardinality(list)
<1>1. c \in Nat /\ d \in Nat /\ n \in Nat /\ c + 1 <= d /\ d + 1 <= n
  BY RanksDiffer
<1>2. WordAt(list, base, p) = Wrap(base + 4 * c) /\ WordAt(list, base, q) = Wrap(base + 4 * d)
  BY DEF WordAt, Span
<1>3. 4 * n <= WordRange
  OBVIOUS
<1> HIDE DEF c, d, n
<1>4. base \in Int /\ 0 <= base /\ base < WordRange /\ WordRange \in Nat \ {0}
  BY WordTypes
<1> DEFINE x == base + 4 * c
           y == base + 4 * d
<1>5. x \in Int /\ y \in Int /\ 0 <= x /\ x < y /\ y < x + WordRange /\ y < 2 * WordRange
  BY <1>1, <1>3, <1>4
<1> HIDE DEF x, y
<1>6. /\ x % WordRange = IF x < WordRange THEN x ELSE x - WordRange
      /\ y % WordRange = IF y < WordRange THEN y ELSE y - WordRange
  <2>1. x < 2 * WordRange /\ 0 <= y
    BY <1>4, <1>5
  <2> QED BY <1>4, <1>5, <2>1, Remainder
<1>7. x % WordRange # y % WordRange
  BY <1>4, <1>5, <1>6
<1> QED BY <1>2, <1>7 DEF Wrap, x, y

\* No byte of a block that can be written belongs to two of its words.
LEMMA WordsAreDisjoint ==
    ASSUME NEW list, list \subseteq Sources, 4 * Cardinality(list) <= WordRange,
           NEW base \in Word, NEW p \in list, NEW q \in list, NEW a,
           Allowed(Writable, WordAt(list, base, p), 4), Allowed(Writable, WordAt(list, base, q), 4),
           a \in WordAt(list, base, p) .. (WordAt(list, base, p) + 3),
           a \in WordAt(list, base, q) .. (WordAt(list, base, q) + 3)
    PROVE  p = q
<1> DEFINE v == WordAt(list, base, p)
           w == WordAt(list, base, q)
<1>1. v \in Int /\ w \in Int
  BY WordAtIs, WordTypes
<1>2. v % 4 = 0 /\ w % 4 = 0
  BY DEF Allowed
<1>3. a \in v .. (v + 3) /\ a \in w .. (w + 3)
  OBVIOUS
<1>4. p \in Nat /\ q \in Nat
  BY ListsAreFinite
<1>5. p # q => v # w
  <2>1. p < q => v # w
    BY WordsAreApart
  <2>2. q < p => w # v
    BY WordsAreApart
  <2> QED BY <1>4, <2>1, <2>2
<1> HIDE DEF v, w
<1>6. v = w
  BY <1>1, <1>2, <1>3
<1> QED BY <1>5, <1>6

\* The words that a block was stored as.
LEMMA StoredIsThere ==
    ASSUME NEW s, Typed(s), NEW list, list \subseteq Registers, NEW base \in Word, NEW reg \in list,
           Ends(list, base, Writable) = "ok"
    PROVE  /\ Allowed(Readable, WordAt(list, base, reg), 4)
           /\ \A k \in 0 .. 3 : Stored(s, list, base)[WordAt(list, base, reg) + k]
                                  = ByteOf(s.r[reg], k)
<1> DEFINE w == WordAt(list, base, reg)
<1>1. list \subseteq Sources /\ reg # PC
  BY RegistersAre DEF Sources
<1>2. Transferred(list, base, Writable) = list
  BY DEF Ends
<1>3. \A q \in list : Allowed(Writable, WordAt(list, base, q), 4)
  <2>1. \A q \in list : q <= q
    BY <1>1, ListsAreFinite
  <2> QED BY <1>2, <2>1 DEF Transferred
<1>4. 4 * Cardinality(list) <= WordRange
  <2>1. Registers \subseteq Sources
    BY DEF Sources
  <2>2. IsFiniteSet(Registers) /\ Cardinality(Registers) \in Nat
    BY <2>1, ListsAreFinite
  <2>3. Cardinality(list) <= Cardinality(Registers) /\ Cardinality(list) \in Nat
    BY <2>2, FS_Subset, FS_CardinalityType
  <2>4. 4 * Cardinality(Registers) <= WordRange /\ WordRange \in Nat
    BY RegistersAssumption, WordTypes
  <2> QED BY <2>2, <2>3, <2>4
<1>5. w \in Int
  BY <1>1, WordAtIs, WordTypes
<1>6. Allowed(Readable, w, 4)
  BY <1>3, MemoryAssumption DEF Allowed
<1>7. ASSUME NEW k \in 0 .. 3
      PROVE  Stored(s, list, base)[w + k] = ByteOf(s.r[reg], k)
  <2> DEFINE a == w + k
  <2>1. a \in w .. (w + 3) /\ a \in w .. (w + 4 - 1) /\ a - w = k
    BY <1>5
  <2>2. a \in Readable
    BY <1>6, <2>1 DEF Allowed
  <2>3. Storing(list, base, a) = {reg}
    <3>1. reg \in Storing(list, base, a)
      BY <1>2, <2>1 DEF Storing
    <3>2. ASSUME NEW q \in Storing(list, base, a) PROVE q = reg
      <4>1. q \in list /\ a \in WordAt(list, base, q) .. (WordAt(list, base, q) + 3)
        BY DEF Storing, Transferred
      <4> HIDE DEF a
      <4> QED BY <1>1, <1>3, <1>4, <2>1, <4>1, WordsAreDisjoint
    <3> QED BY <3>1, <3>2
  <2> HIDE DEF a, w
  <2>4. (CHOOSE q \in Storing(list, base, a) : TRUE) = reg
    BY <2>3
  <2>5. Stored(s, list, base)[a] = ByteOf(GetReg(s, reg), a - WordAt(list, base, reg))
    BY <2>2, <2>3, <2>4 DEF Stored
  <2>6. GetReg(s, reg) = s.r[reg]
    BY <1>1 DEF GetReg
  <2> QED BY <2>1, <2>5, <2>6 DEF a, w
<1> QED BY <1>6, <1>7

\* The words that are pushed from the link register are those popped into the
\* program counter.
LEMMA WordsAreTheSame ==
    ASSUME NEW saved, saved \subseteq Lows, NEW base
    PROVE  LET pushed == saved \cup {LR}
               popped == saved \cup {PC}
           IN  /\ \A reg \in saved : WordAt(popped, base, reg) = WordAt(pushed, base, reg)
               /\ WordAt(popped, base, PC) = WordAt(pushed, base, LR)
               /\ Span(popped) = Span(pushed)
<1> DEFINE pushed == saved \cup {LR}
           popped == saved \cup {PC}
<1>1. /\ LR = 14 /\ PC = 15 /\ \A reg \in saved : reg \in Int /\ 0 <= reg /\ reg <= 7
      /\ saved \subseteq Sources /\ LR \notin saved /\ PC \notin saved
  <2>1. saved \subseteq 0 .. 7 /\ saved \subseteq Registers /\ Registers \subseteq Sources
    BY RegistersAre DEF Lows, Sources
  <2> QED BY <2>1 DEF LR, PC
<1>2. ASSUME NEW reg \in saved PROVE {r \in popped : r < reg} = {r \in pushed : r < reg}
  BY <1>1
<1>3. {r \in popped : r < PC} = saved /\ {r \in pushed : r < LR} = saved
  BY <1>1
<1>4. IsFiniteSet(saved) /\ Cardinality(saved) \in Nat
  BY <1>1, ListsAreFinite
<1>5. Cardinality(popped) = Cardinality(saved) + 1 /\ Cardinality(pushed) = Cardinality(saved) + 1
  BY <1>1, <1>4, FS_AddElement
<1> HIDE DEF pushed, popped
<1>6. \A reg \in saved : WordAt(popped, base, reg) = WordAt(pushed, base, reg)
  BY <1>2 DEF WordAt
<1>7. WordAt(popped, base, PC) = WordAt(pushed, base, LR)
  BY <1>3 DEF WordAt
<1>8. Span(popped) = Span(pushed)
  BY <1>5 DEF Span
<1> QED BY <1>6, <1>7, <1>8 DEF pushed, popped

\* The stack pointer comes back.
LEMMA BlocksEnd ==
    ASSUME NEW list, list \subseteq Sources, NEW x \in Word
    PROVE  Wrap(Wrap(x - Span(list)) + Span(list)) = x
<1> DEFINE n == Span(list)
           w == WordRange
<1>1. n \in Nat /\ x \in Int /\ 0 <= x /\ x < w /\ w \in Nat \ {0}
  BY ListsAreFinite, WordTypes
<1> HIDE DEF n, w
<1> DEFINE d == x - n
<1>2. d \in Int
  BY <1>1
<1>3. d \div w \in Int /\ d % w \in 0 .. (w - 1) /\ d = w * (d \div w) + (d % w)
  <2> HIDE DEF d
  <2> QED BY ONLY <1>1, <1>2, Division
<1> DEFINE q == d \div w
           r == d % w
           m == r + n
<1>4. q \in Int /\ 0 - q \in Int /\ r \in Int /\ m \in Int /\ d = w * q + r
  <2>1. q \in Int /\ r \in 0 .. (w - 1) /\ d = w * q + r
    BY <1>3
  <2> HIDE DEF q, r
  <2> QED BY <1>1, <2>1
<1> HIDE DEF q, r
<1>5. m = w * (0 - q) + x
  <2>1. w * (0 - q) = 0 - w * q
    BY <1>1, <1>4
  <2>2. w * q \in Int
    BY <1>1, <1>4
  <2> HIDE DEF w
  <2> QED BY <1>1, <1>4, <2>1, <2>2
<1>6. x \in 0 .. (w - 1)
  BY <1>1
<1> DEFINE e == 0 - q
<1>7. e \in Int /\ m = w * e + x /\ m \in Int
  BY <1>4, <1>5
<1> HIDE DEF m, e
<1>8. Wrap(m) = x
  BY <1>6, <1>7, MultipleIsLost DEF w
<1> QED BY <1>8 DEF Wrap, m, r, d, n, w

\* What a push that ends leaves.
LEMMA PushIs ==
    ASSUME NEW s, Typed(s), NEW list, list \subseteq Registers,
           Push([list |-> list], s).result = "ok"
    PROVE  LET base  == Wrap(s.r[SP] - Span(list))
               after == Push([list |-> list], s).after
           IN  /\ base \in Word /\ Ends(list, base, Writable) = "ok" /\ Typed(after)
               /\ after.r = [s.r EXCEPT ![SP] = base] /\ after.memory = Stored(s, list, base)
<1> DEFINE base == Wrap(s.r[SP] - Span(list))
           t    == StoreAll(s, list, base)
           u    == WithMemory(s, Stored(s, list, base))
           v    == SetReg(u, SP, base)
           i    == [list |-> list]
<1>1. list \subseteq Sources /\ SP \in Registers /\ s.r[SP] \in Word
  BY RegistersAre, FieldsAre DEF Sources
<1>2. base \in Word
  BY <1>1, WordAtIs
<1>3. \/ Push(i, s) = Throws("unpredictable", s)
      \/ t.result # "ok" /\ Push(i, s) = Throws(t.result, t.after)
      \/ t.result = "ok" /\ Push(i, s) = Done(SetReg(t.after, SP, base))
  BY DEF Push
<1>4. t.result = "ok" /\ Push(i, s) = Done(SetReg(t.after, SP, base))
  <2>1. Throws("unpredictable", s).result # "ok" /\ Throws(t.result, t.after).result = t.result
    BY DEF Throws, Outcome
  <2> HIDE DEF t, base
  <2> QED BY <1>3, <2>1
<1> HIDE DEF base
<1>5. t.result = Ends(list, base, Writable) /\ t.after = u
  BY TransfersAre DEF Outcome
<1>6. Typed(u) /\ u.r = s.r /\ u.memory = Stored(s, list, base)
  <2>1. Typed(u)
    BY <1>1, <1>2, StoredTyped
  <2> DEFINE m == Stored(s, list, base)
  <2> HIDE DEF m
  <2>2. WithMemory(s, m).r = s.r /\ WithMemory(s, m).memory = m
    BY UpdatesAre
  <2> QED BY <2>1, <2>2 DEF m
<1>7. Typed(v)
  <2> HIDE DEF u
  <2> QED BY <1>1, <1>2, <1>6, SetRegTyped
<1>8. v.r = [s.r EXCEPT ![SP] = base] /\ v.memory = Stored(s, list, base)
  <2> HIDE DEF u
  <2>1. u \in Context
    BY <1>6 DEF Typed
  <2> QED BY <1>1, <1>6, <2>1 DEF SetReg, Context
<1> HIDE DEF t, u, v
<1>9. Push(i, s) = Done(v)
  BY <1>4, <1>5 DEF v
<1>10. Done(v).after.r = v.r /\ Done(v).after.memory = v.memory /\ Typed(Done(v).after)
  <2>1. Typed(Done(v).after)
    BY <1>7, DoneIsGood DEF Good
  <2>2. v \in Context
    BY <1>7 DEF Typed
  <2> QED BY <2>1, <2>2 DEF Done, Completed, Outcome, Context
<1> QED BY <1>2, <1>4, <1>5, <1>8, <1>9, <1>10 DEF base

\* What a pop into the program counter that ends leaves.
LEMMA PopIs ==
    ASSUME NEW s, Typed(s), NEW list, list \subseteq Sources, PC \in list, SP \notin list,
           Ends(list, s.r[SP], Readable) = "ok"
    PROVE  LET base   == s.r[SP]
               target == MemRead(s, WordAt(list, base, PC), 4)
               o      == Pop([list |-> list], s)
           IN  /\ o.result = "ok"
               /\ o.after.thumb = (target % 2 = 1) /\ o.after.pc = Aligned(target, 2)
               /\ o.after.r[SP] = Wrap(base + Span(list))
               /\ \A reg \in list \ {PC} : o.after.r[reg] = MemRead(s, WordAt(list, base, reg), 4)
<1> DEFINE base   == s.r[SP]
           target == MemRead(s, WordAt(list, base, PC), 4)
           t      == LoadAll(s, list, base)
           u      == WithRegisters(s, Loaded(s, list, base))
           sp     == Wrap(base + Span(list))
           v      == SetReg(u, SP, sp)
           i      == [list |-> list]
<1>1. SP \in Registers /\ base \in Word
  BY RegistersAre, FieldsAre
<1> HIDE DEF base
<1>2. sp \in Word
  BY <1>1, WordAtIs
<1>3. t.result = "ok" /\ t.after = u
  BY TransfersAre DEF Outcome, base
<1>4. Typed(u) /\ u.r = Loaded(s, list, base)
  <2>1. Typed(u)
    BY <1>1, LoadedIsTyped
  <2> DEFINE r == Loaded(s, list, base)
  <2> HIDE DEF r
  <2>2. WithRegisters(s, r).r = r
    BY UpdatesAre
  <2> QED BY <2>1, <2>2 DEF r
<1> HIDE DEF t, u, sp
<1>5. Typed(v) /\ v.r = [Loaded(s, list, base) EXCEPT ![SP] = sp]
  <2>1. Typed(v)
    BY <1>1, <1>2, <1>4, SetRegTyped
  <2>2. u \in Context
    BY <1>4 DEF Typed
  <2> QED BY <1>4, <2>1, <2>2 DEF SetReg, Context
<1>6. Pop(i, s) = BxWritePC(v, target)
  <2>1. Pop(i, s) = BxWritePC(SetReg(t.after, SP, sp), target)
    BY <1>3 DEF Pop, t, sp, base
  <2> QED BY <1>3, <2>1
<1> HIDE DEF target, v
<1>7. /\ BxWritePC(v, target).result = "ok"
      /\ BxWritePC(v, target).after.thumb = (target % 2 = 1)
      /\ BxWritePC(v, target).after.pc = Aligned(target, 2)
      /\ BxWritePC(v, target).after.r = v.r
  <2>1. v \in Context
    BY <1>5 DEF Typed
  <2> QED BY <2>1 DEF BxWritePC, Completed, Outcome, Context
<1>8. v.r[SP] = sp
  BY <1>1, <1>5 DEF Loaded
<1>9. ASSUME NEW reg \in list \ {PC}
      PROVE  v.r[reg] = MemRead(s, WordAt(list, base, reg), 4)
  <2>1. reg \in Registers /\ reg # SP
    BY RegistersAre
  <2>2. v.r[reg] = Loaded(s, list, base)[reg]
    BY <1>5, <2>1 DEF Loaded
  <2>3. reg \in Transferred(list, base, Readable)
    BY DEF Ends, base
  <2> QED BY <2>1, <2>2, <2>3 DEF Loaded
<1> QED BY <1>6, <1>7, <1>8, <1>9 DEF target, base, sp

\* What a call leaves in the registers: the address behind it, with the low bit
\* set.
LEMMA CallIs ==
    ASSUME NEW s, Typed(s), NEW i \in Instruction, i.op \in {"bl", "blx"},
           Execute(i, s).result = "ok"
    PROVE  LET size  == IF i.op = "bl" THEN 4 ELSE 2
               after == Execute(i, s).after
           IN  Typed(after) /\ after.r[LR] = Behind(s, size) + 1
<1> DEFINE size == IF i.op = "bl" THEN 4 ELSE 2
           u    == Linked(s, size)
<1>1. Execute(i, s) = Branches(i, s) /\ Typed(Execute(i, s).after)
  BY ExecuteIs, ExecuteIsGood DEF BranchOps, Good
<1>2. Typed(u) /\ u.r[LR] = Behind(s, size) + 1
  <2>1. size \in {2, 4}
    OBVIOUS
  <2> HIDE DEF size
  <2>2. Typed(u) /\ Aligned(Behind(s, size), 2) + 1 = Behind(s, size) + 1
    BY <2>1, LinkedTyped
  <2>3. s \in Context /\ LR \in Registers
    BY RegistersAre DEF Typed
  <2>4. u.r[LR] = Aligned(Behind(s, size), 2) + 1
    BY <2>3 DEF Linked, SetReg, Context
  <2> QED BY <2>2, <2>4
<1>3. \/ i.op = "bl" /\ Branches(i, s) = BranchWritePC(u, GetReg(s, PC) + i.offset)
      \/ i.op = "blx" /\ Branches(i, s) = Throws("unpredictable", s)
      \/ i.op = "blx" /\ Branches(i, s) = BxWritePC(u, GetReg(s, i.m))
  BY DEF Branches, Bl, Blx
<1>4. Throws("unpredictable", s).result # "ok"
  BY DEF Throws, Outcome
<1> HIDE DEF u, size
<1>5. ASSUME NEW target
      PROVE  BranchWritePC(u, target).after.r = u.r /\ BxWritePC(u, target).after.r = u.r
  <2>1. u \in Context
    BY <1>2 DEF Typed
  <2> QED BY <2>1 DEF BranchWritePC, BxWritePC, Completed, Outcome, Context
<1>6. Execute(i, s).after.r = u.r
  BY <1>1, <1>3, <1>4, <1>5
<1> QED BY <1>1, <1>2, <1>6 DEF size

\* What Clobbered is.
LEMMA ClobberedIs ==
    ASSUME NEW s, Typed(s)
    PROVE  Typed(Clobbered(s)) /\ Clobbered(s).r[SP] = s.r[SP] /\ Clobbered(s).memory = s.memory
<1> DEFINE r == [reg \in Registers |-> IF reg = SP THEN s.r[SP] ELSE 0]
<1>1. r \in [Registers -> Word] /\ r[SP] = s.r[SP]
  <2>1. 0 \in Word
    BY SignBitIs DEF Word
  <2> QED BY <2>1, FieldsAre, RegistersAre
<1>2. Clobbered(s) = WithRegisters(s, r)
  BY DEF Clobbered, WithRegisters
<1> HIDE DEF r
<1>3. WithRegisters(s, r).r = r /\ WithRegisters(s, r).memory = s.memory
  BY UpdatesAre
<1> QED BY <1>1, <1>2, <1>3, RegistersTyped

\* Calls return behind themselves.
LEMMA TypesReturn == TypeOK => CallsReturn
<1> DEFINE c(call)     == Step(call, context)
           pushed(l)   == [list |-> l \cup {LR}]
           popped(l)   == [list |-> l \cup {PC}]
           p(call, l)  == Push(pushed(l), c(call).after)
           e(call, l)  == Pop(popped(l), Clobbered(p(call, l).after))
<1> SUFFICES ASSUME TypeOK, NEW call \in Instructions, NEW saved \in SUBSET Lows,
                    call.op \in {"bl", "blx"}, c(call).result = "ok", p(call, saved).result = "ok"
             PROVE  /\ e(call, saved).result = "ok" /\ e(call, saved).after.thumb
                    /\ e(call, saved).after.pc = Behind(context, IF call.op = "bl" THEN 4 ELSE 2)
                    /\ \A reg \in saved \cup {SP} :
                         e(call, saved).after.r[reg] = c(call).after.r[reg]
  BY DEF CallsReturn
<1> DEFINE called == c(call).after
           list   == saved \cup {LR}
           plist  == saved \cup {PC}
           base   == Wrap(called.r[SP] - Span(list))
           after  == p(call, saved).after
           d      == Clobbered(after)
           behind == Behind(context, IF call.op = "bl" THEN 4 ELSE 2)
           mem    == Stored(called, list, base)
<1>1. Typed(context) /\ call \in Instruction
  BY InstructionsAssumption DEF TypeOK, Typed
<1>2. Typed(called) /\ called.r[LR] = behind + 1
  <2>1. Step(call, context) = Execute(call, context)
    BY DEF Step, Outcome
  <2> QED BY <1>1, <2>1, CallIs
<1>3. /\ list \subseteq Registers /\ list \subseteq Sources /\ plist \subseteq Sources
      /\ SP \notin plist /\ PC \in plist /\ LR \in list /\ SP \in Registers
      /\ saved = plist \ {PC} /\ SP \notin list /\ saved \subseteq list
  BY RegistersAre DEF Sources
<1>4. /\ base \in Word /\ Ends(list, base, Writable) = "ok" /\ Typed(after)
      /\ after.r = [called.r EXCEPT ![SP] = base] /\ after.memory = mem
  <2>1. Push([list |-> list], called).result = "ok" /\ after = Push([list |-> list], called).after
    OBVIOUS
  <2> HIDE DEF called, list, after
  <2> QED BY <1>2, <1>3, <2>1, PushIs
<1>5. Typed(d) /\ d.r[SP] = base /\ d.memory = mem
  <2>1. Typed(d) /\ d.r[SP] = after.r[SP] /\ d.memory = after.memory
    BY <1>4, ClobberedIs
  <2>2. SP \in DOMAIN called.r
    BY <1>2, <1>3, FieldsAre
  <2> HIDE DEF called, after, d, base, mem
  <2> QED BY <1>4, <2>1, <2>2
<1>6. /\ \A reg \in saved : WordAt(plist, base, reg) = WordAt(list, base, reg)
      /\ WordAt(plist, base, PC) = WordAt(list, base, LR)
      /\ Span(plist) = Span(list)
  <2> HIDE DEF base
  <2> QED BY WordsAreTheSame
<1>7. called.r \in [Registers -> Word]
  <2> HIDE DEF called
  <2> QED BY <1>2, FieldsAre
<1>8. e(call, saved) = Pop([list |-> plist], d)
  OBVIOUS
<1> HIDE DEF called, list, plist, base, after, d, behind, mem
<1>9. ASSUME NEW reg \in list
      PROVE  /\ Allowed(Readable, WordAt(list, base, reg), 4)
             /\ MemRead(d, WordAt(list, base, reg), 4) = called.r[reg]
  <2> DEFINE w == WordAt(list, base, reg)
  <2>1. /\ Allowed(Readable, w, 4)
        /\ \A k \in 0 .. 3 : mem[w + k] = ByteOf(called.r[reg], k)
    BY <1>2, <1>3, <1>4, StoredIsThere DEF mem
  <2>2. w \in Int /\ called.r[reg] \in Word
    BY <1>3, <1>4, <1>7, WordAtIs, WordTypes
  <2> HIDE DEF w
  <2>3. \A k \in 0 .. 3 : d.memory[w + k] = ByteOf(called.r[reg], k)
    BY <1>5, <2>1
  <2>4. MemRead(d, w, 4) = called.r[reg]
    BY <2>2, <2>3, WordIsRead
  <2> QED BY <2>1, <2>4 DEF w
<1>10. Ends(plist, base, Readable) = "ok"
  <2>1. \A reg \in plist : Allowed(Readable, WordAt(plist, base, reg), 4)
    <3>1. \A reg \in plist : reg \in saved \/ reg = PC
      BY <1>3
    <3> QED BY <1>3, <1>6, <1>9, <3>1
  <2>2. Transferred(plist, base, Readable) = plist
    BY <2>1 DEF Transferred
  <2> QED BY <2>2 DEF Ends
<1>11. /\ e(call, saved).result = "ok"
       /\ e(call, saved).after.thumb = ((behind + 1) % 2 = 1)
       /\ e(call, saved).after.pc = Aligned(behind + 1, 2)
       /\ e(call, saved).after.r[SP] = Wrap(base + Span(list))
       /\ \A reg \in saved : e(call, saved).after.r[reg] = called.r[reg]
  <2>1. MemRead(d, WordAt(plist, base, PC), 4) = behind + 1
    BY <1>2, <1>3, <1>6, <1>9
  <2>2. \A reg \in saved : MemRead(d, WordAt(plist, base, reg), 4) = called.r[reg]
    BY <1>3, <1>6, <1>9
  <2> DEFINE o == Pop([list |-> plist], d)
  <2>3. /\ o.result = "ok"
        /\ o.after.thumb = (MemRead(d, WordAt(plist, d.r[SP], PC), 4) % 2 = 1)
        /\ o.after.pc = Aligned(MemRead(d, WordAt(plist, d.r[SP], PC), 4), 2)
        /\ o.after.r[SP] = Wrap(d.r[SP] + Span(plist))
        /\ \A reg \in plist \ {PC} : o.after.r[reg] = MemRead(d, WordAt(plist, d.r[SP], reg), 4)
    BY <1>3, <1>5, <1>10, PopIs
  <2> HIDE DEF o, e
  <2>4. e(call, saved) = o
    BY <1>8 DEF o
  <2> QED BY <1>3, <1>5, <1>6, <2>1, <2>2, <2>3, <2>4
<1>12. behind \in Int /\ behind % 2 = 0
  <2>1. behind \in Word /\ behind % 2 = 0
    BY <1>1, BehindIsEven DEF behind
  <2> QED BY <2>1, WordTypes
<1>13. (behind + 1) % 2 = 1 /\ Aligned(behind + 1, 2) = behind
  BY <1>12 DEF Aligned
<1>14. Wrap(base + Span(list)) = called.r[SP]
  <2>1. called.r[SP] \in Word
    BY <1>3, <1>7
  <2> QED BY <1>3, <2>1, BlocksEnd DEF base
<1> HIDE DEF e
<1>15. /\ e(call, saved).result = "ok" /\ e(call, saved).after.thumb
       /\ e(call, saved).after.pc = behind
  BY <1>11, <1>13
<1>16. \A reg \in saved \cup {SP} : e(call, saved).after.r[reg] = called.r[reg]
  BY <1>11, <1>14
<1> QED BY <1>15, <1>16 DEF behind, called

\* For all programs: calls return, with the stack and the saved registers.
THEOREM CallsComeBack == Spec => []CallsReturn
<1>1. TypeOK => CallsReturn
  BY TypesReturn
<1> QED BY <1>1, TypesHold, PTL
=============================================================================
