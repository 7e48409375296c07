--------------------------- MODULE MemorySimProofs ---------------------------
(***************************************************************************)
(* The safety of MemorySim for every address space, every set of regions   *)
(* and images, and arrays of any length.                                   *)
(*                                                                         *)
(* The invariant is a conjunction over the regions, so that an action is   *)
(* handled by what it does to one region (RegionInv) and by how the list   *)
(* is rebuilt from it (RegionsInv).                                        *)
(***************************************************************************)
EXTENDS MemorySim, WellFoundedInduction, SequenceTheorems, FiniteSetTheorems, TLAPS

-----------------------------------------------------------------------------
(* What the operators of WatchpointArray return and preserve, for arrays   *)
(* of any length and an address space of any size.                         *)

\* A search ends at the first element that passes the test, or is 0.
LEMMA SelectFirst ==
    ASSUME NEW I, I \subseteq Nat, I # {}
    PROVE  Min(I) \in I /\ \A j \in I : Min(I) <= j
<1>1. PICK m \in I : \A j \in I : m <= j
  <2>1. IsWellFoundedOn(OpToRel(<, Nat), Nat)
    BY NatLessThanWellFounded
  <2>2. PICK m \in I : \A j \in I : ~(<<j, m>> \in OpToRel(<, Nat))
    BY <2>1, WFMin
  <2>3. ASSUME NEW j \in I
        PROVE  m <= j
    <3>1. <<j, m>> \notin {ss \in Nat \X Nat : ss[1] < ss[2]}
      BY <2>2 DEF OpToRel
    <3>2. j \in Nat /\ m \in Nat
      OBVIOUS
    <3>3. QED
      BY <3>1, <3>2
  <2>4. QED
    BY <2>3
<1>2. QED
  BY <1>1 DEF Min

\* findMatchingOrHigherWatchpoint returns the first place where the lookup
\* stops, or the end of the array.
LEMMA LookupIndexProperties ==
    ASSUME NEW S, NEW array \in Seq(S), NEW key
    PROVE  LET i == LookupIndex(array, key)
           IN  /\ i \in 1 .. (Len(array) + 1)
               /\ \A j \in 1 .. (i - 1) : ~StopsLookup(key, array[j])
               /\ i <= Len(array) => StopsLookup(key, array[i])
<1> DEFINE I == {i \in 1 .. Len(array) : StopsLookup(key, array[i])}
           i == LookupIndex(array, key)
<1>0. Len(array) \in Nat
  OBVIOUS
<1>1. i = IF (IF I # {} THEN Min(I) ELSE 0) = 0 THEN Len(array) + 1
          ELSE IF I # {} THEN Min(I) ELSE 0
  BY DEF LookupIndex, SelectInSeq
<1>2. CASE I = {}
  <2>1. i = Len(array) + 1
    BY <1>1, <1>2
  <2>2. QED
    BY <1>0, <1>2, <2>1
<1>3. CASE I # {}
  <2>1. Min(I) \in I /\ \A j \in I : Min(I) <= j
    <3>1. I \subseteq Nat
      OBVIOUS
    <3> HIDE DEF I
    <3>2. QED
      BY <1>3, <3>1, SelectFirst
  <2>2. i = Min(I)
    BY <1>0, <1>1, <1>3, <2>1
  <2>3. /\ i \in 1 .. Len(array) /\ StopsLookup(key, array[i])
        /\ \A j \in 1 .. Len(array) : StopsLookup(key, array[j]) => i <= j
    BY <2>1, <2>2
  <2> HIDE DEF i
  <2>4. QED
    BY <1>0, <2>3 DEF i
<1>4. QED
  BY <1>2, <1>3

LEMMA InsertedProperties ==
    ASSUME NEW S, NEW array \in Seq(S), NEW key \in S
    PROVE  LET i == LookupIndex(array, key)
           IN  /\ Inserted(array, key) \in Seq(S)
               /\ Len(Inserted(array, key)) = Len(array) + 1
               /\ \A j \in 1 .. (Len(array) + 1) :
                     Inserted(array, key)[j] = IF j < i THEN array[j]
                                               ELSE IF j = i THEN key ELSE array[j - 1]
<1> DEFINE i == LookupIndex(array, key)
           front == SubSeq(array, 1, i - 1)
           back  == SubSeq(array, i, Len(array))
           head  == front \o <<key>>
<1>1. i \in 1 .. (Len(array) + 1) /\ Len(array) \in Nat
  BY LookupIndexProperties
<1> HIDE DEF i
<1>2. /\ front \in Seq(S) /\ Len(front) = i - 1
      /\ \A j \in 1 .. (i - 1) : front[j] = array[j]
  BY <1>1
<1>3. /\ back \in Seq(S) /\ Len(back) = Len(array) - i + 1
      /\ \A j \in 1 .. (Len(array) - i + 1) : back[j] = array[i + j - 1]
  BY <1>1
<1>4. <<key>> \in Seq(S) /\ Len(<<key>>) = 1 /\ <<key>>[1] = key
  OBVIOUS
<1> HIDE DEF front, back
<1>5. /\ head \in Seq(S) /\ Len(head) = i
      /\ \A j \in 1 .. i : head[j] = IF j < i THEN array[j] ELSE key
  BY <1>1, <1>2, <1>4, ConcatProperties
<1>6. Inserted(array, key) = head \o back
  BY DEF Inserted, InsertAt, front, back, i
<1> HIDE DEF head
<1>7. /\ Inserted(array, key) \in Seq(S)
      /\ Len(Inserted(array, key)) = Len(array) + 1
      /\ \A j \in 1 .. (Len(array) + 1) :
            Inserted(array, key)[j] = IF j <= i THEN head[j] ELSE back[j - i]
  <2>1. /\ head \o back \in Seq(S)
        /\ Len(head \o back) = Len(head) + Len(back)
        /\ \A j \in 1 .. (Len(head) + Len(back)) :
              (head \o back)[j] = IF j <= Len(head) THEN head[j] ELSE back[j - Len(head)]
    BY <1>3, <1>5, ConcatProperties
  <2>2. Len(head) + Len(back) = Len(array) + 1
    BY <1>1, <1>3, <1>5
  <2>3. QED
    BY <1>5, <1>6, <2>1, <2>2
<1>8. ASSUME NEW j \in 1 .. (Len(array) + 1)
      PROVE  Inserted(array, key)[j] = IF j < i THEN array[j]
                                       ELSE IF j = i THEN key ELSE array[j - 1]
  <2>1. CASE j <= i
    BY <1>1, <1>5, <1>7, <2>1
  <2>2. CASE j > i
    <3>1. j - i \in 1 .. (Len(array) - i + 1) /\ i + (j - i) - 1 = j - 1
      BY <1>1, <2>2
    <3>2. QED
      BY <1>1, <1>3, <1>7, <2>2, <3>1
  <2>3. QED
    BY <1>1, <2>1, <2>2
<1>9. QED
  BY <1>7, <1>8 DEF i

\* memmove over the entry at i closes the gap and keeps the order of the rest.
LEMMA RemoveAtProperties ==
    ASSUME NEW S, NEW array \in Seq(S), NEW i \in 1 .. Len(array)
    PROVE  /\ RemoveAt(array, i) \in Seq(S)
           /\ Len(RemoveAt(array, i)) = Len(array) - 1
           /\ \A j \in 1 .. (Len(array) - 1) :
                 RemoveAt(array, i)[j] = IF j < i THEN array[j] ELSE array[j + 1]
<1> DEFINE front == SubSeq(array, 1, i - 1)
           back  == SubSeq(array, i + 1, Len(array))
<1>1. Len(array) \in Nat
  OBVIOUS
<1>2. /\ front \in Seq(S) /\ Len(front) = i - 1
      /\ \A j \in 1 .. (i - 1) : front[j] = array[j]
  BY <1>1
<1>3. /\ back \in Seq(S) /\ Len(back) = Len(array) - i
      /\ \A j \in 1 .. (Len(array) - i) : back[j] = array[i + j]
  BY <1>1
<1>4. RemoveAt(array, i) = front \o back
  BY DEF RemoveAt
<1> HIDE DEF front, back
<1>5. /\ front \o back \in Seq(S)
      /\ Len(front \o back) = Len(front) + Len(back)
      /\ \A j \in 1 .. (Len(front) + Len(back)) :
            (front \o back)[j] = IF j <= Len(front) THEN front[j] ELSE back[j - Len(front)]
  BY <1>2, <1>3, ConcatProperties
<1>6. Len(front) + Len(back) = Len(array) - 1
  BY <1>1, <1>2, <1>3
<1>7. ASSUME NEW j \in 1 .. (Len(array) - 1)
      PROVE  RemoveAt(array, i)[j] = IF j < i THEN array[j] ELSE array[j + 1]
  <2>1. CASE j < i
    BY <1>1, <1>2, <1>4, <1>5, <1>6, <2>1
  <2>2. CASE j >= i
    <3>1. /\ j - (i - 1) \in 1 .. (Len(array) - i)
          /\ i + (j - (i - 1)) = j + 1
      BY <1>1, <2>2
    <3>2. RemoveAt(array, i)[j] = back[j - (i - 1)]
      BY <1>1, <1>2, <1>4, <1>5, <1>6, <2>2
    <3>3. QED
      BY <1>1, <1>3, <2>2, <3>1, <3>2
  <2>3. QED
    BY <1>1, <2>1, <2>2
<1>8. QED
  BY <1>4, <1>5, <1>6, <1>7

\* Addresses are integers.
LEMMA ArrayElements ==
    ASSUME NEW array \in Seq(Watchpoint)
    PROVE  /\ Len(array) \in Nat
           /\ \A j \in 1 .. Len(array) :
                /\ array[j] \in Watchpoint
                /\ array[j].type \in WatchpointType
                /\ array[j].start \in Int
                /\ array[j].end \in Int
<1>1. Len(array) \in Nat
  OBVIOUS
<1>2. Address \subseteq Int
  BY AddressSpaceAssumption DEF Address
<1>3. ASSUME NEW j \in 1 .. Len(array)
      PROVE  array[j] \in Watchpoint
  BY ElementOfSeq
<1>4. QED
  BY <1>1, <1>2, <1>3 DEF Watchpoint

\* An insertion keeps an array sorted.
LEMMA InsertedSorted ==
    ASSUME NEW array \in Seq(Watchpoint), NEW key \in Watchpoint, IsSortedByStart(array)
    PROVE  IsSortedByStart(Inserted(array, key))
<1> DEFINE i == LookupIndex(array, key)
           longer == Inserted(array, key)
<1>1. /\ i \in 1 .. (Len(array) + 1)
      /\ \A j \in 1 .. (i - 1) : ~StopsLookup(key, array[j])
      /\ i <= Len(array) => StopsLookup(key, array[i])
  BY LookupIndexProperties
<1>2. /\ Len(longer) = Len(array) + 1
      /\ \A j \in 1 .. (Len(array) + 1) :
            longer[j] = IF j < i THEN array[j] ELSE IF j = i THEN key ELSE array[j - 1]
  BY InsertedProperties
<1>3. /\ Len(array) \in Nat /\ key.start \in Int
      /\ \A j \in 1 .. Len(array) : array[j] \in Watchpoint /\ array[j].start \in Int
  <2>1. key.start \in Int
    BY AddressSpaceAssumption DEF Watchpoint, Address
  <2>2. QED
    BY <2>1, ArrayElements
<1> HIDE DEF i, longer
<1>4. \A j \in 1 .. (i - 1) : array[j].start <= key.start
  BY <1>1, <1>3 DEF StopsLookup
<1>5. \A j \in i .. Len(array) : key.start <= array[j].start
  <2> SUFFICES ASSUME NEW j \in i .. Len(array)
               PROVE  key.start <= array[j].start
    OBVIOUS
  <2>1. key.start <= array[i].start
    BY <1>1, <1>3 DEF StopsLookup
  <2>2. array[i].start <= array[j].start
    BY <1>1, <1>3 DEF IsSortedByStart
  <2>3. i \in 1 .. Len(array) /\ j \in 1 .. Len(array)
    BY <1>1, <1>3
  <2>4. QED
    BY <1>3, <2>1, <2>2, <2>3
<1>6. SUFFICES ASSUME NEW j \in 1 .. Len(longer), NEW k \in 1 .. Len(longer), j < k
               PROVE  longer[j].start <= longer[k].start
  BY DEF IsSortedByStart, longer
<1>7. CASE j < i /\ k < i
  BY <1>1, <1>2, <1>3, <1>6, <1>7 DEF IsSortedByStart
<1>8. CASE j < i /\ k = i
  BY <1>1, <1>2, <1>3, <1>4, <1>6, <1>8
<1>9. CASE j < i /\ k > i
  <2>1. longer[j] = array[j] /\ longer[k] = array[k - 1]
    BY <1>1, <1>2, <1>3, <1>6, <1>9
  <2>2. j \in 1 .. Len(array) /\ k - 1 \in 1 .. Len(array) /\ j < k - 1
    BY <1>1, <1>2, <1>3, <1>6, <1>9
  <2>3. QED
    BY <2>1, <2>2 DEF IsSortedByStart
<1>10. CASE j = i /\ k > i
  BY <1>1, <1>2, <1>3, <1>5, <1>6, <1>10
<1>11. CASE j > i /\ k > i
  <2>1. longer[j] = array[j - 1] /\ longer[k] = array[k - 1]
    BY <1>1, <1>2, <1>3, <1>6, <1>11
  <2>2. j - 1 \in 1 .. Len(array) /\ k - 1 \in 1 .. Len(array) /\ j - 1 < k - 1
    BY <1>1, <1>2, <1>3, <1>6, <1>11
  <2>3. QED
    BY <2>1, <2>2 DEF IsSortedByStart
<1>12. QED
  BY <1>1, <1>2, <1>3, <1>6, <1>7, <1>8, <1>9, <1>10, <1>11

\* In a sorted array the lookup cannot stop before an entry that equals the
\* key: a key that is not found is not in the array.
LEMMA NotFoundMeansAbsent ==
    ASSUME NEW array \in Seq(Watchpoint), NEW key \in Watchpoint,
           IsSortedByStart(array), ~IsFound(array, key)
    PROVE  \A j \in 1 .. Len(array) : array[j] # key
<1> DEFINE i == LookupIndex(array, key)
<1>1. /\ i \in 1 .. (Len(array) + 1)
      /\ \A j \in 1 .. (i - 1) : ~StopsLookup(key, array[j])
      /\ i <= Len(array) => StopsLookup(key, array[i]) /\ array[i] # key
  BY LookupIndexProperties DEF IsFound
<1> HIDE DEF i
<1>2. SUFFICES ASSUME NEW j \in 1 .. Len(array), array[j] = key
               PROVE  FALSE
  OBVIOUS
<1>3. Len(array) \in Nat /\ \A k \in 1 .. Len(array) : array[k].start \in Int
  BY ArrayElements
<1>4. i <= j
  BY <1>1, <1>2, <1>3 DEF StopsLookup
<1>5. i \in 1 .. Len(array) /\ key.start < array[i].start /\ i # j
  BY <1>1, <1>2, <1>3, <1>4 DEF StopsLookup
<1>6. array[i].start <= array[j].start
  BY <1>3, <1>4, <1>5 DEF IsSortedByStart
<1>7. QED
  BY <1>2, <1>3, <1>5, <1>6

\* Setting an entry that the lookup did not find brings in no duplicate.
LEMMA InsertedHasNoDuplicates ==
    ASSUME NEW array \in Seq(Watchpoint), NEW key \in Watchpoint,
           IsSortedByStart(array), HasNoDuplicates(array), ~IsFound(array, key)
    PROVE  HasNoDuplicates(Inserted(array, key))
<1> DEFINE i == LookupIndex(array, key)
           longer == Inserted(array, key)
           old(j) == IF j < i THEN j ELSE j - 1
<1>1. i \in 1 .. (Len(array) + 1) /\ Len(array) \in Nat
  BY LookupIndexProperties
<1>2. /\ Len(longer) = Len(array) + 1
      /\ \A j \in 1 .. (Len(array) + 1) :
            longer[j] = IF j < i THEN array[j] ELSE IF j = i THEN key ELSE array[j - 1]
  BY InsertedProperties
<1>3. \A j \in 1 .. Len(array) : array[j] # key
  BY NotFoundMeansAbsent
<1> HIDE DEF i, longer
<1>4. SUFFICES ASSUME NEW j \in 1 .. Len(longer), NEW k \in 1 .. Len(longer), j # k
               PROVE  longer[j] # longer[k]
  BY DEF HasNoDuplicates, longer
<1>5. ASSUME NEW m \in 1 .. Len(longer), m # i
      PROVE  old(m) \in 1 .. Len(array) /\ longer[m] = array[old(m)]
  BY <1>1, <1>2, <1>5
<1>6. CASE j = i
  BY <1>1, <1>2, <1>3, <1>4, <1>5, <1>6
<1>7. CASE k = i
  BY <1>1, <1>2, <1>3, <1>4, <1>5, <1>7
<1>8. CASE j # i /\ k # i
  <2>1. old(j) # old(k)
    BY <1>1, <1>2, <1>4, <1>8
  <2>2. QED
    BY <1>5, <1>8, <2>1 DEF HasNoDuplicates
<1>9. QED
  BY <1>6, <1>7, <1>8

\* A removal keeps an array sorted and free of duplicates.
LEMMA ClearedKeepsOrder ==
    ASSUME NEW array \in Seq(Watchpoint), NEW key, IsSortedByStart(array), HasNoDuplicates(array)
    PROVE  /\ Cleared(array, key) \in Seq(Watchpoint)
           /\ Len(Cleared(array, key)) <= Len(array)
           /\ \A j \in 1 .. Len(Cleared(array, key)) :
                 \E k \in 1 .. Len(array) : Cleared(array, key)[j] = array[k]
           /\ IsSortedByStart(Cleared(array, key))
           /\ HasNoDuplicates(Cleared(array, key))
<1> DEFINE i == LookupIndex(array, key)
           rest == Cleared(array, key)
           old(j) == IF j < i THEN j ELSE j + 1
<1>1. Len(array) \in Nat
  OBVIOUS
<1>2. CASE ~IsFound(array, key)
  <2>1. rest = array
    BY <1>2 DEF Cleared
  <2>2. QED
    BY <1>1, <2>1
<1>3. CASE IsFound(array, key)
  <2>1. rest = RemoveAt(array, i)
    BY <1>3 DEF Cleared
  <2>2. i \in 1 .. Len(array)
    BY <1>1, <1>3, LookupIndexProperties DEF IsFound
  <2> HIDE DEF i, rest
  <2>3. /\ rest \in Seq(Watchpoint)
        /\ Len(rest) = Len(array) - 1
        /\ \A j \in 1 .. (Len(array) - 1) :
              rest[j] = IF j < i THEN array[j] ELSE array[j + 1]
    BY <2>1, <2>2, RemoveAtProperties
  <2>4. \A j \in 1 .. Len(rest) : old(j) \in 1 .. Len(array) /\ rest[j] = array[old(j)]
    BY <1>1, <2>2, <2>3
  <2>5. \A j, k \in 1 .. Len(rest) : j < k => old(j) < old(k)
    BY <1>1, <2>2, <2>3
  <2>6. \A j, k \in 1 .. Len(rest) : j # k => old(j) # old(k)
    BY <1>1, <2>2, <2>3
  <2> HIDE DEF old
  <2>7. IsSortedByStart(rest)
    BY <2>4, <2>5 DEF IsSortedByStart
  <2>8. HasNoDuplicates(rest)
    BY <2>4, <2>6 DEF HasNoDuplicates
  <2>9. Len(rest) <= Len(array)
    BY <1>1, <2>3
  <2>10. QED
    BY <2>3, <2>4, <2>7, <2>8, <2>9 DEF rest
<1>4. QED
  BY <1>2, <1>3

-----------------------------------------------------------------------------
(* The array as a set of entries.                                           *)

\* The elements of a sequence are what its indices lead to.
LEMMA ElementsAreIndexed ==
    ASSUME NEW S, NEW array \in Seq(S)
    PROVE  \A x : x \in ToSet(array) <=> \E j \in 1 .. Len(array) : x = array[j]
  BY DEF ToSet

\* An insertion adds the key and keeps the other entries.
LEMMA InsertedElements ==
    ASSUME NEW array \in Seq(Watchpoint), NEW key \in Watchpoint
    PROVE  ToSet(Inserted(array, key)) = ToSet(array) \cup {key}
<1> DEFINE i == LookupIndex(array, key)
           longer == Inserted(array, key)
<1>1. i \in 1 .. (Len(array) + 1) /\ Len(array) \in Nat
  BY LookupIndexProperties
<1>2. /\ longer \in Seq(Watchpoint)
      /\ Len(longer) = Len(array) + 1
      /\ \A j \in 1 .. (Len(array) + 1) :
            longer[j] = IF j < i THEN array[j] ELSE IF j = i THEN key ELSE array[j - 1]
  BY InsertedProperties
<1> HIDE DEF i, longer
<1>3. ASSUME NEW j \in 1 .. Len(array)
      PROVE  \E k \in 1 .. (Len(array) + 1) : longer[k] = array[j]
  <2>1. CASE j < i
    BY <1>1, <1>2, <2>1
  <2>2. CASE j >= i
    <3>1. j + 1 \in 1 .. (Len(array) + 1) /\ ~(j + 1 < i) /\ j + 1 # i /\ (j + 1) - 1 = j
      BY <1>1, <2>2
    <3>2. QED
      BY <1>2, <3>1
  <2>3. QED
    BY <1>1, <2>1, <2>2
<1>4. ASSUME NEW k \in 1 .. (Len(array) + 1), k # i
      PROVE  \E j \in 1 .. Len(array) : longer[k] = array[j]
  <2>1. CASE k < i
    BY <1>1, <1>2, <2>1
  <2>2. CASE k > i
    <3>1. k - 1 \in 1 .. Len(array)
      BY <1>1, <2>2
    <3>2. QED
      BY <1>1, <1>2, <2>2, <3>1
  <2>3. QED
    BY <1>1, <1>4, <2>1, <2>2
<1>5. longer[i] = key
  BY <1>1, <1>2
<1>6. \A x : (\E k \in 1 .. Len(longer) : x = longer[k])
              <=> (\E j \in 1 .. Len(array) : x = array[j]) \/ x = key
  BY <1>1, <1>2, <1>3, <1>4, <1>5
<1>7. \A x : x \in ToSet(longer) <=> x \in ToSet(array) \/ x = key
  BY <1>2, <1>6, ElementsAreIndexed
<1>8. QED
  BY <1>7 DEF longer

\* A removal takes the key away, all of it, and keeps the other entries.
LEMMA ClearedElements ==
    ASSUME NEW array \in Seq(Watchpoint), NEW key \in Watchpoint,
           IsSortedByStart(array), HasNoDuplicates(array)
    PROVE  ToSet(Cleared(array, key)) = ToSet(array) \ {key}
<1> DEFINE i == LookupIndex(array, key)
           rest == Cleared(array, key)
<1>1. Len(array) \in Nat
  OBVIOUS
<1>2. CASE ~IsFound(array, key)
  BY <1>2, NotFoundMeansAbsent DEF Cleared, ToSet
<1>3. CASE IsFound(array, key)
  <2>1. rest = RemoveAt(array, i)
    BY <1>3 DEF Cleared
  <2>2. i \in 1 .. Len(array) /\ array[i] = key
    BY <1>1, <1>3, LookupIndexProperties DEF IsFound
  <2> HIDE DEF i, rest
  <2>3. /\ rest \in Seq(Watchpoint)
        /\ Len(rest) = Len(array) - 1
        /\ \A j \in 1 .. (Len(array) - 1) :
              rest[j] = IF j < i THEN array[j] ELSE array[j + 1]
    BY <2>1, <2>2, RemoveAtProperties
  <2>4. ASSUME NEW j \in 1 .. (Len(array) - 1)
        PROVE  \E k \in 1 .. Len(array) : k # i /\ rest[j] = array[k]
    <3>1. CASE j < i
      BY <1>1, <2>2, <2>3, <3>1
    <3>2. CASE j >= i
      <4>1. j + 1 \in 1 .. Len(array) /\ j + 1 # i
        BY <1>1, <2>2, <3>2
      <4>2. QED
        BY <1>1, <2>2, <2>3, <3>2, <4>1
    <3>3. QED
      BY <2>2, <3>1, <3>2
  <2>5. ASSUME NEW k \in 1 .. Len(array), k # i
        PROVE  \E j \in 1 .. (Len(array) - 1) : rest[j] = array[k]
    <3>1. CASE k < i
      BY <1>1, <2>2, <2>3, <3>1
    <3>2. CASE k > i
      <4>1. k - 1 \in 1 .. (Len(array) - 1) /\ ~(k - 1 < i) /\ (k - 1) + 1 = k
        BY <1>1, <2>2, <3>2
      <4>2. QED
        BY <2>3, <4>1
    <3>3. QED
      BY <1>1, <2>2, <2>5, <3>1, <3>2
  <2>6. \A k \in 1 .. Len(array) : array[k] = key <=> k = i
    BY <2>2 DEF HasNoDuplicates
  <2>7. \A x : (\E j \in 1 .. Len(rest) : x = rest[j])
                <=> (\E k \in 1 .. Len(array) : x = array[k]) /\ x # key
    <3>1. Len(rest) = Len(array) - 1
      BY <2>3
    <3> SUFFICES ASSUME NEW x
                 PROVE  (\E j \in 1 .. (Len(array) - 1) : x = rest[j])
                          <=> (\E k \in 1 .. Len(array) : x = array[k] /\ k # i)
      BY <2>6, <3>1
    <3>2. QED
      BY <2>4, <2>5
  <2>8. \A x : x \in ToSet(rest) <=> x \in ToSet(array) /\ x # key
    <3>1. \A x : x \in ToSet(rest) <=> \E j \in 1 .. Len(rest) : x = rest[j]
      BY <2>3, ElementsAreIndexed
    <3>2. \A x : x \in ToSet(array) <=> \E k \in 1 .. Len(array) : x = array[k]
      BY ElementsAreIndexed
    <3>3. QED
      BY <2>7, <3>1, <3>2
  <2>9. QED
    BY <2>8 DEF rest
<1>4. QED
  BY <1>2, <1>3

-----------------------------------------------------------------------------
(* The scan of an access.                                                   *)

\* The scan stops at the first entry that breaks it or that lets it end early.
LEMMA ScanStopProperties ==
    ASSUME NEW array \in Seq(Watchpoint), NEW address, NEW n, NEW access
    PROVE  LET i == ScanStop(array, address, n, access)
           IN  /\ i \in 1 .. (Len(array) + 1)
               /\ \A j \in 1 .. (i - 1) : /\ ~BreaksScan(array[j], address, n, access)
                                         /\ ~EndsScan(array[j], address, n, access)
               /\ i <= Len(array) => \/ BreaksScan(array[i], address, n, access)
                                    \/ EndsScan(array[i], address, n, access)
<1> DEFINE Stops(entry) == BreaksScan(entry, address, n, access) \/ EndsScan(entry, address, n, access)
           I == {i \in 1 .. Len(array) : Stops(array[i])}
           i == ScanStop(array, address, n, access)
<1>0. Len(array) \in Nat
  OBVIOUS
<1>1. i = IF (IF I # {} THEN Min(I) ELSE 0) = 0 THEN Len(array) + 1
          ELSE IF I # {} THEN Min(I) ELSE 0
  BY DEF ScanStop, SelectInSeq
<1> HIDE DEF Stops
<1>2. CASE I = {}
  <2>1. i = Len(array) + 1
    BY <1>1, <1>2
  <2>2. \A j \in 1 .. Len(array) : ~Stops(array[j])
    BY <1>2
  <2> HIDE DEF i
  <2>3. QED
    BY <1>0, <2>1, <2>2 DEF Stops, i
<1>3. CASE I # {}
  <2>1. Min(I) \in I /\ \A j \in I : Min(I) <= j
    <3>1. I \subseteq Nat
      OBVIOUS
    <3> HIDE DEF I
    <3>2. QED
      BY <1>3, <3>1, SelectFirst
  <2>2. i = Min(I)
    BY <1>0, <1>1, <1>3, <2>1
  <2>3. /\ i \in 1 .. Len(array) /\ Stops(array[i])
        /\ \A j \in 1 .. Len(array) : Stops(array[j]) => i <= j
    BY <2>1, <2>2
  <2> HIDE DEF i
  <2>4. \A j \in 1 .. (i - 1) : ~Stops(array[j])
    BY <1>0, <2>3
  <2>5. QED
    BY <1>0, <2>3, <2>4 DEF Stops, i
<1>4. QED
  BY <1>2, <1>3

\* Sortedness is what makes the early exit of checkForBreakWatchPoint sound:
\* all the entries behind it start above the access.
THEOREM SortedScanIsExact ==
    ASSUME NEW array \in Seq(Watchpoint), IsSortedByStart(array),
           NEW address \in Address, NEW n, NEW access
    PROVE  ScanIsExact(array, address, n, access)
<1> DEFINE i == ScanStop(array, address, n, access)
<1>1. /\ i \in 1 .. (Len(array) + 1)
      /\ \A j \in 1 .. (i - 1) : /\ ~BreaksScan(array[j], address, n, access)
                                /\ ~EndsScan(array[j], address, n, access)
      /\ i <= Len(array) => \/ BreaksScan(array[i], address, n, access)
                           \/ EndsScan(array[i], address, n, access)
  BY ScanStopProperties
<1>2. Len(array) \in Nat /\ address \in Int /\ \A j \in 1 .. Len(array) : array[j].start \in Int
  BY ArrayElements, AddressSpaceAssumption DEF Address
<1>3. ASSUME i <= Len(array), ~BreaksScan(array[i], address, n, access)
      PROVE  \A j \in i .. Len(array) : ~AccessInRange(array[j], address, n)
  <2> SUFFICES ASSUME NEW j \in i .. Len(array)
               PROVE  ~AccessInRange(array[j], address, n)
    OBVIOUS
  <2>1. array[i].start > address
    BY <1>1, <1>3 DEF EndsScan
  <2>2. i \in 1 .. Len(array) /\ j \in 1 .. Len(array)
    BY <1>1, <1>2, <1>3
  <2>3. array[i].start <= array[j].start
    BY <1>1, <1>2, <2>2 DEF IsSortedByStart
  <2>4. QED
    BY <1>2, <2>1, <2>2, <2>3 DEF AccessInRange
<1> HIDE DEF i
<1>4. ScanBreaks(array, address, n, access)
        <=> \E j \in 1 .. Len(array) : BreaksScan(array[j], address, n, access)
  <2>1. ScanBreaks(array, address, n, access)
          <=> i <= Len(array) /\ BreaksScan(array[i], address, n, access)
    BY DEF ScanBreaks, i
  <2>2. ASSUME NEW j \in 1 .. Len(array), BreaksScan(array[j], address, n, access)
        PROVE  i <= Len(array) /\ BreaksScan(array[i], address, n, access)
    <3>1. i <= j
      BY <1>1, <1>2, <2>2
    <3>2. AccessInRange(array[j], address, n)
      BY <2>2 DEF BreaksScan
    <3>3. QED
      BY <1>1, <1>2, <1>3, <3>1, <3>2
  <2>3. i <= Len(array) => i \in 1 .. Len(array)
    BY <1>1, <1>2
  <2>4. QED
    BY <2>1, <2>2, <2>3
<1>5. ASSUME ~ScanBreaks(array, address, n, access)
      PROVE  ScanHits(array, address, n, access)
               = {j \in 1 .. Len(array) : HitsScan(array[j], address, n, access)}
  <2>1. ScanHits(array, address, n, access)
          = {j \in 1 .. (i - 1) : HitsScan(array[j], address, n, access)}
    BY DEF ScanHits, i
  <2>2. 1 .. (i - 1) \subseteq 1 .. Len(array)
    BY <1>1, <1>2
  <2>3. ASSUME NEW j \in 1 .. Len(array), HitsScan(array[j], address, n, access)
        PROVE  j \in 1 .. (i - 1)
    <3>1. AccessInRange(array[j], address, n)
      BY <2>3 DEF HitsScan
    <3>2. i <= Len(array) => ~BreaksScan(array[i], address, n, access)
      BY <1>5 DEF ScanBreaks, i
    <3>3. QED
      BY <1>1, <1>2, <1>3, <3>1, <3>2
  <2>4. QED
    BY <2>1, <2>2, <2>3
<1>6. QED
  BY <1>4, <1>5 DEF ScanIsExact

-----------------------------------------------------------------------------
(* The invariant, region by region.                                        *)

EntryFits(region, entry) ==
    \E size \in 0 .. region.size :
        /\ entry = WatchpointFor(entry.start, size, entry.type)
        /\ Encloses(region, entry.start, size)

RegionInv(region) ==
    /\ region \in Region
    /\ Len(region.data) = region.size
    /\ Len(region.readCounts) \in {0, region.size \div 2}
    /\ IsSortedByStart(region.watchpoints)
    /\ HasNoDuplicates(region.watchpoints)
    /\ Len(region.watchpoints) <= region.watchpointAlloc
    /\ \A j \in 1 .. Len(region.watchpoints) : EntryFits(region, region.watchpoints[j])

RegionsInv(list) ==
    /\ list \in Seq(Region)
    /\ \A i \in 1 .. Len(list) : RegionInv(list[i])

IInv ==
    /\ RegionsInv(regions)
    /\ watchpointEncountered \in Nat
    /\ reply.exception \in Exception

-----------------------------------------------------------------------------
(* Types of the constants and of the parts of a region.                     *)

\* A remainder is below its modulus.
LEMMA RemainderRange ==
    ASSUME NEW x \in Nat, NEW m \in Nat \ {0}
    PROVE  x % m \in 0 .. (m - 1)
  OBVIOUS

\* What the assumptions on the constants say of addresses and sizes.
LEMMA ConstantTypes ==
    /\ AddressSpace \in Nat \ {0}
    /\ Address \subseteq Nat
    /\ RegionSizes \subseteq Nat
    /\ \A flash \in FlashImages :
         /\ flash[1] \in Nat
         /\ flash[2] \in Address
         /\ RamBase(flash[2]) \in Address
<1>1. AddressSpace \in Nat \ {0} /\ Address \subseteq Nat
  BY AddressSpaceAssumption DEF Address
<1>2. ASSUME NEW flash \in FlashImages
      PROVE  /\ flash[1] \in Nat
             /\ flash[2] \in Address
             /\ RamBase(flash[2]) \in Address
             /\ flash[2] - RamBase(flash[2]) \in Nat
  <2>1. flash[1] \in Nat /\ flash[2] \in Address
    BY MemoryAssumption
  <2>2. flash[2] \in Nat /\ RamAlignment \in Nat \ {0}
    BY <1>1, <2>1, MemoryAssumption
  <2>3. flash[2] % RamAlignment \in Nat /\ flash[2] % RamAlignment <= flash[2]
    BY <2>2
  <2>4. RamBase(flash[2]) \in 0 .. flash[2] /\ flash[2] - RamBase(flash[2]) \in Nat
    BY <2>2, <2>3 DEF RamBase
  <2>5. QED
    BY <2>1, <2>2, <2>4, AddressSpaceAssumption DEF Address
<1>3. \A shape \in RegionShapes : shape[2] \in Nat
  BY MemoryAssumption
<1>4. QED
  BY <1>1, <1>2, <1>3 DEF RegionSizes

\* The fields of a region that satisfies the invariant.
LEMMA RegionFields ==
    ASSUME NEW region, RegionInv(region)
    PROVE  /\ region.base \in Nat
           /\ region.base \in Address
           /\ region.size \in Nat
           /\ region.size \in RegionSizes
           /\ region.readOnly \in BOOLEAN
           /\ region.data \in Seq(ByteValues)
           /\ region.readCounts \in Seq(ReadCount)
           /\ region.watchpoints \in Seq(Watchpoint)
           /\ region.watchpointAlloc \in Nat
  BY ConstantTypes DEF RegionInv, Region

-----------------------------------------------------------------------------
(* What the operations do to one region.                                    *)

\* A new region is well formed.
LEMMA NewRegionInv ==
    ASSUME NEW base \in Address, NEW size \in RegionSizes
    PROVE  RegionInv(NewRegion(base, size))
<1> DEFINE region == NewRegion(base, size)
<1>1. size \in Nat /\ 0 \in ByteValues
  BY ConstantTypes, MemoryAssumption
<1>2. region.data \in Seq(ByteValues) /\ Len(region.data) = size
  BY <1>1 DEF NewRegion
<1>3. /\ region.readCounts = << >> /\ region.watchpoints = << >>
      /\ region.base = base /\ region.size = size /\ region.watchpointAlloc = 0
  BY DEF NewRegion
<1>4. /\ << >> \in Seq(ReadCount) /\ << >> \in Seq(Watchpoint) /\ Len(<< >>) = 0
  OBVIOUS
<1>5. region \in Region
  BY <1>2, <1>4 DEF NewRegion, Region
<1>6. IsSortedByStart(region.watchpoints) /\ HasNoDuplicates(region.watchpoints)
  BY <1>3, <1>4 DEF IsSortedByStart, HasNoDuplicates
<1> HIDE DEF region
<1>7. QED
  BY <1>1, <1>2, <1>3, <1>4, <1>5, <1>6 DEF RegionInv, region

\* Changing the bytes, the read counts or the protection leaves the array of
\* entries as it is.
LEMMA SameWatchpoints ==
    ASSUME NEW region, RegionInv(region), NEW other \in Region,
           other.base = region.base, other.size = region.size,
           other.watchpoints = region.watchpoints,
           other.watchpointAlloc = region.watchpointAlloc,
           Len(other.data) = other.size,
           Len(other.readCounts) \in {0, other.size \div 2}
    PROVE  RegionInv(other)
  BY DEF RegionInv, EntryFits, Encloses

\* Marking a region read-only, with or without read counts, keeps it well formed.
LEMMA ReadOnlyInv ==
    ASSUME NEW region, RegionInv(region)
    PROVE  RegionInv(MarkedReadOnly(region)) /\ RegionInv(WithReadCounts(region))
<1> DEFINE counts == [k \in 1 .. (region.size \div 2) |-> 0]
<1>1. region \in Region /\ Len(region.data) = region.size
      /\ Len(region.readCounts) \in {0, region.size \div 2}
  BY DEF RegionInv
<1>2. RegionInv(MarkedReadOnly(region))
  <2>1. MarkedReadOnly(region) \in Region
    BY <1>1 DEF MarkedReadOnly, Region
  <2>2. QED
    BY <1>1, <2>1, SameWatchpoints DEF MarkedReadOnly, Region
<1>3. RegionInv(WithReadCounts(region))
  <2>1. region.size \div 2 \in Nat /\ 0 \in ReadCount
    BY RegionFields, MemoryAssumption DEF ReadCount
  <2>2. counts \in Seq(ReadCount) /\ Len(counts) = region.size \div 2
    BY <2>1
  <2> HIDE DEF counts
  <2>3. WithReadCounts(region) = [[region EXCEPT !.readOnly = TRUE] EXCEPT !.readCounts = counts]
    BY DEF WithReadCounts, MarkedReadOnly, counts
  <2>4. WithReadCounts(region) \in Region
    BY <1>1, <2>2, <2>3 DEF Region
  <2>5. QED
    BY <1>1, <2>2, <2>3, <2>4, SameWatchpoints DEF Region
<1>4. QED
  BY <1>2, <1>3

\* So does counting a read,
LEMMA CountedReadInv ==
    ASSUME NEW region, RegionInv(region), NEW address, NEW n
    PROVE  RegionInv(CountedRead(region, address, n))
<1> DEFINE place == HalfWord(region, address)
           count == (region.readCounts[place] + 1) % ReadCountModulus
           counts == [region.readCounts EXCEPT ![place] = count]
<1>1. region \in Region /\ Len(region.data) = region.size
      /\ Len(region.readCounts) \in {0, region.size \div 2}
      /\ region.readCounts \in Seq(ReadCount)
  BY RegionFields DEF RegionInv
<1>2. CASE n = 2 /\ place \in DOMAIN region.readCounts
  <2>1. region.readCounts[place] \in Nat
    BY <1>1, <1>2, MemoryAssumption DEF ReadCount
  <2>2. count \in ReadCount
    BY <2>1, MemoryAssumption DEF ReadCount
  <2> HIDE DEF count, place
  <2>3. counts \in Seq(ReadCount) /\ Len(counts) = Len(region.readCounts)
    BY <1>1, <1>2, <2>2, ExceptSeq
  <2>4. CountedRead(region, address, n) = [region EXCEPT !.readCounts = counts]
    BY <1>1, <1>2 DEF CountedRead, Region, count, place
  <2> HIDE DEF counts
  <2>5. CountedRead(region, address, n) \in Region
    BY <1>1, <2>3, <2>4 DEF Region
  <2>6. QED
    BY <1>1, <2>3, <2>4, <2>5, SameWatchpoints DEF Region
<1>3. CASE ~(n = 2 /\ place \in DOMAIN region.readCounts)
  BY <1>3 DEF CountedRead
<1>4. QED
  BY <1>2, <1>3

\* Replacing the bytes by others of the same number.
LEMMA DataInv ==
    ASSUME NEW region, RegionInv(region), NEW data \in Seq(ByteValues),
           Len(data) = Len(region.data)
    PROVE  RegionInv([region EXCEPT !.data = data])
<1>1. region \in Region /\ Len(region.data) = region.size
      /\ Len(region.readCounts) \in {0, region.size \div 2}
  BY DEF RegionInv
<1>2. [region EXCEPT !.data = data] \in Region
  BY <1>1 DEF Region
<1>3. QED
  BY <1>1, <1>2, SameWatchpoints DEF Region

\* and so does storing bytes.
LEMMA WithBytesInv ==
    ASSUME NEW region, RegionInv(region), NEW address, NEW bytes \in Seq(ByteValues)
    PROVE  RegionInv(WithBytes(region, address, bytes))
<1> DEFINE place(k) == k - (address - region.base)
           byte(k) == IF place(k) \in DOMAIN bytes THEN bytes[place(k)] ELSE region.data[k]
           data == [k \in DOMAIN region.data |-> byte(k)]
<1>1. region.data \in Seq(ByteValues) /\ region \in Region
  BY RegionFields DEF RegionInv
<1>2. \A k \in DOMAIN region.data : byte(k) \in ByteValues
  BY <1>1
<1>3. WithBytes(region, address, bytes) = [region EXCEPT !.data = data]
  BY <1>1 DEF WithBytes, Region
<1> HIDE DEF byte
<1>4. data \in Seq(ByteValues) /\ Len(data) = Len(region.data)
  BY <1>1, <1>2
<1> HIDE DEF data
<1>5. QED
  BY <1>3, <1>4, DataInv

\* setWatchpoint of a range that the region holds.
LEMMA SetInv ==
    ASSUME NEW region, RegionInv(region),
           NEW address \in Address, NEW size \in Nat, NEW type \in WatchpointType,
           Encloses(region, address, size),
           ~IsFound(region.watchpoints, WatchpointFor(address, size, type))
    PROVE  RegionInv(WithWatchpoint(region, WatchpointFor(address, size, type)))
<1> DEFINE key == WatchpointFor(address, size, type)
           needed == Len(region.watchpoints) + 1
           alloc == IF needed > region.watchpointAlloc THEN needed ELSE region.watchpointAlloc
           array == Inserted(region.watchpoints, key)
           other == [region EXCEPT !.watchpoints = array, !.watchpointAlloc = alloc]
           i == LookupIndex(region.watchpoints, key)
<1>1. /\ region \in Region
      /\ region.watchpoints \in Seq(Watchpoint)
      /\ region.base \in Nat /\ region.size \in Nat
  BY RegionFields DEF RegionInv
<1>2. key \in Watchpoint
  <2>1. address \in Nat /\ AddressSpace \in Nat \ {0}
    BY ConstantTypes
  <2>2. (address + size) % AddressSpace \in Address
    <3> DEFINE sum == address + size
    <3>1. sum \in Nat
      BY <2>1
    <3> HIDE DEF sum
    <3>2. sum % AddressSpace \in Address
      BY <3>1, AddressSpaceAssumption, RemainderRange DEF Address
    <3>3. QED
      BY <3>2 DEF sum
  <2>3. QED
    BY <2>2 DEF WatchpointFor, Watchpoint
<1>3. IsSortedByStart(region.watchpoints) /\ HasNoDuplicates(region.watchpoints)
  BY DEF RegionInv
<1>4. IsSortedByStart(array) /\ HasNoDuplicates(array)
  BY <1>1, <1>2, <1>3, InsertedSorted, InsertedHasNoDuplicates
<1>5. /\ array \in Seq(Watchpoint)
      /\ Len(array) = Len(region.watchpoints) + 1
      /\ \A j \in 1 .. (Len(region.watchpoints) + 1) :
            array[j] = IF j < i THEN region.watchpoints[j]
                       ELSE IF j = i THEN key ELSE region.watchpoints[j - 1]
      /\ i \in 1 .. (Len(region.watchpoints) + 1)
  <2> HIDE DEF key
  <2>1. i \in 1 .. (Len(region.watchpoints) + 1)
    BY <1>1, LookupIndexProperties
  <2>2. QED
    BY <1>1, <1>2, <2>1, InsertedProperties
<1>6. EntryFits(region, key)
  <2>1. address \in Nat
    BY ConstantTypes
  <2>2. size \in 0 .. region.size
    BY <1>1, <2>1 DEF Encloses
  <2>3. key = WatchpointFor(key.start, size, key.type) /\ key.start = address
    BY DEF WatchpointFor
  <2>4. QED
    BY <2>2, <2>3 DEF EntryFits
<1>a. alloc \in Nat /\ alloc >= Len(region.watchpoints) + 1
  BY RegionFields
<1> HIDE DEF key, array, i, alloc
<1>7. other \in Region
  BY <1>1, <1>5, <1>a DEF Region
<1>8. /\ other.watchpoints = array /\ other.watchpointAlloc = alloc
      /\ other.base = region.base /\ other.size = region.size
      /\ other.data = region.data /\ other.readCounts = region.readCounts
  BY <1>1 DEF Region
<1>9. \A j \in 1 .. Len(array) : EntryFits(region, array[j])
  <2> SUFFICES ASSUME NEW j \in 1 .. Len(array)
               PROVE  EntryFits(region, array[j])
    OBVIOUS
  <2>1. Len(region.watchpoints) \in Nat
        /\ \A k \in 1 .. Len(region.watchpoints) : EntryFits(region, region.watchpoints[k])
    BY <1>1 DEF RegionInv
  <2>2. CASE j < i
    BY <1>5, <2>1, <2>2
  <2>3. CASE j = i
    BY <1>5, <1>6, <2>1, <2>3
  <2>4. CASE j > i
    <3>1. j - 1 \in 1 .. Len(region.watchpoints) /\ array[j] = region.watchpoints[j - 1]
      BY <1>5, <2>1, <2>4
    <3>2. QED
      BY <2>1, <3>1
  <2>5. QED
    BY <1>5, <2>1, <2>2, <2>3, <2>4
<1> HIDE DEF other
<1>10. \A j \in 1 .. Len(other.watchpoints) : EntryFits(other, other.watchpoints[j])
  BY <1>8, <1>9 DEF EntryFits, Encloses
<1>11. RegionInv(other)
  BY <1>4, <1>5, <1>7, <1>8, <1>10, <1>a DEF RegionInv
<1>12. other = WithWatchpoint(region, key)
  BY <1>1 DEF WithWatchpoint, other, array, alloc, Region
<1>13. QED
  BY <1>11, <1>12 DEF key

\* Clearing an entry keeps a region well formed.
LEMMA ClearInv ==
    ASSUME NEW region, RegionInv(region), NEW key
    PROVE  RegionInv(WithoutWatchpoint(region, key))
<1> DEFINE array == Cleared(region.watchpoints, key)
           other == [region EXCEPT !.watchpoints = array]
<1>1. /\ region \in Region
      /\ region.watchpoints \in Seq(Watchpoint)
      /\ IsSortedByStart(region.watchpoints) /\ HasNoDuplicates(region.watchpoints)
      /\ region.watchpointAlloc \in Nat
      /\ Len(region.watchpoints) <= region.watchpointAlloc
  BY RegionFields DEF RegionInv
<1>2. /\ array \in Seq(Watchpoint)
      /\ Len(array) <= Len(region.watchpoints)
      /\ \A j \in 1 .. Len(array) :
            \E k \in 1 .. Len(region.watchpoints) : array[j] = region.watchpoints[k]
      /\ IsSortedByStart(array) /\ HasNoDuplicates(array)
  BY <1>1, ClearedKeepsOrder
<1> HIDE DEF array
<1>3. other \in Region
  BY <1>1, <1>2 DEF Region
<1>4. /\ other.watchpoints = array /\ other.watchpointAlloc = region.watchpointAlloc
      /\ other.base = region.base /\ other.size = region.size
      /\ other.data = region.data /\ other.readCounts = region.readCounts
  BY <1>1 DEF Region
<1>5. Len(array) <= region.watchpointAlloc
  BY <1>1, <1>2
<1> HIDE DEF other
<1>6. \A j \in 1 .. Len(other.watchpoints) : EntryFits(other, other.watchpoints[j])
  BY <1>2, <1>4 DEF RegionInv, EntryFits, Encloses
<1>7. RegionInv(other)
  BY <1>2, <1>3, <1>4, <1>5, <1>6 DEF RegionInv
<1>8. QED
  BY <1>7 DEF WithoutWatchpoint, other, array

-----------------------------------------------------------------------------
(* What the operations do to the list of regions.                           *)

\* findMatchingRegion returns a region of the list that holds the bytes.
LEMMA RegionInProperties ==
    ASSUME NEW list \in Seq(Region), NEW address, NEW size, RegionIn(list, address, size) # 0
    PROVE  /\ RegionIn(list, address, size) \in 1 .. Len(list)
           /\ Encloses(list[RegionIn(list, address, size)], address, size)
<1> DEFINE I == {i \in 1 .. Len(list) : Encloses(list[i], address, size)}
<1>1. RegionIn(list, address, size) = IF I # {} THEN Min(I) ELSE 0
  BY DEF RegionIn, SelectInSeq
<1>2. I # {} /\ I \subseteq Nat
  BY <1>1
<1>3. RegionIn(list, address, size) = Min(I)
  BY <1>1, <1>2
<1> HIDE DEF I
<1>4. RegionIn(list, address, size) \in I
  BY <1>2, <1>3, SelectFirst
<1>5. QED
  BY <1>4 DEF I

\* A well-formed list grows by a well-formed region,
LEMMA AppendInv ==
    ASSUME NEW list, RegionsInv(list), NEW region, RegionInv(region)
    PROVE  RegionsInv(Append(list, region))
<1>1. list \in Seq(Region) /\ region \in Region /\ Len(list) \in Nat
  BY DEF RegionsInv, RegionInv
<1>2. /\ Append(list, region) \in Seq(Region)
      /\ Len(Append(list, region)) = Len(list) + 1
      /\ \A i \in 1 .. Len(list) : Append(list, region)[i] = list[i]
      /\ Append(list, region)[Len(list) + 1] = region
  BY <1>1, AppendProperties
<1>3. \A i \in 1 .. (Len(list) + 1) : i \in 1 .. Len(list) \/ i = Len(list) + 1
  BY <1>1
<1>4. QED
  BY <1>2, <1>3 DEF RegionsInv

\* stays well formed when one of its regions is replaced by such a one,
LEMMA ReplaceInv ==
    ASSUME NEW list, RegionsInv(list), NEW i \in 1 .. Len(list), NEW region, RegionInv(region)
    PROVE  RegionsInv([list EXCEPT ![i] = region])
<1>1. list \in Seq(Region) /\ region \in Region
  BY DEF RegionsInv, RegionInv
<1>2. /\ [list EXCEPT ![i] = region] \in Seq(Region)
      /\ Len([list EXCEPT ![i] = region]) = Len(list)
      /\ \A j \in 1 .. Len(list) :
            [list EXCEPT ![i] = region][j] = IF j = i THEN region ELSE list[j]
  BY <1>1, ExceptSeq
<1>3. QED
  BY <1>2 DEF RegionsInv

\* and when its last region is removed.
LEMMA FrontInv ==
    ASSUME NEW list, RegionsInv(list), Len(list) > 0
    PROVE  RegionsInv(Front(list))
<1>1. list \in Seq(Region) /\ Len(list) \in Nat
  BY DEF RegionsInv
<1>2. /\ Front(list) \in Seq(Region) /\ Len(Front(list)) = Len(list) - 1
      /\ \A i \in 1 .. (Len(list) - 1) : Front(list)[i] = list[i]
  <2> DEFINE last == Len(list) - 1
  <2>1. last \in Nat /\ \A i \in 1 .. last : i \in 1 .. Len(list) /\ list[i] \in Region
    BY <1>1
  <2>2. Front(list) = SubSeq(list, 1, last)
    BY DEF Front
  <2> HIDE DEF last
  <2>3. Front(list) = [i \in 1 .. last |-> list[i]]
    BY <1>1, <2>1, <2>2
  <2>4. Front(list) \in Seq(Region) /\ Len(Front(list)) = last
    BY <2>1, <2>3
  <2>5. QED
    BY <2>3, <2>4 DEF last
<1>3. QED
  BY <1>1, <1>2 DEF RegionsInv

\* findMatchingRegion does not fail when some region holds the bytes.
LEMMA RegionInFinds ==
    ASSUME NEW list \in Seq(Region), NEW address, NEW size,
           NEW i \in 1 .. Len(list), Encloses(list[i], address, size)
    PROVE  RegionIn(list, address, size) # 0
<1> DEFINE I == {k \in 1 .. Len(list) : Encloses(list[k], address, size)}
<1>1. RegionIn(list, address, size) = IF I # {} THEN Min(I) ELSE 0
  BY DEF RegionIn, SelectInSeq
<1>2. i \in I /\ I \subseteq Nat /\ 0 \notin I
  OBVIOUS
<1> HIDE DEF I
<1>3. QED
  BY <1>1, <1>2, SelectFirst

\* Loading an image changes bytes and nothing else.
LEMMA LoadedInv ==
    ASSUME NEW list, RegionsInv(list), NEW image \in Seq(ByteValues)
    PROVE  /\ RegionsInv(Loaded(list, image))
           /\ Len(Loaded(list, image)) = Len(list)
           /\ \A i \in 1 .. Len(list) :
                 /\ Loaded(list, image)[i].base = list[i].base
                 /\ Loaded(list, image)[i].size = list[i].size
<1> DEFINE stored(i, k) == k \in LoadableBytes(list, Len(image)) /\ UnitRegion(list, Len(image), k) = i
           byte(i, j) == IF stored(i, list[i].base + j - 1) THEN image[list[i].base + j - 1 + 1] ELSE list[i].data[j]
           data(i) == [j \in DOMAIN list[i].data |-> byte(i, j)]
           new(i) == [list[i] EXCEPT !.data = data(i)]
<1>1. list \in Seq(Region) /\ Len(list) \in Nat /\ Len(image) \in Nat
  BY DEF RegionsInv
<1>2. ASSUME NEW i \in 1 .. Len(list)
      PROVE  /\ RegionInv(new(i)) /\ new(i).base = list[i].base /\ new(i).size = list[i].size
             /\ Loaded(list, image)[i] = new(i)
  <2>1. RegionInv(list[i]) /\ list[i] \in Region /\ list[i].base \in Nat
        /\ list[i].data \in Seq(ByteValues)
    BY RegionFields DEF RegionsInv, RegionInv
  <2>2. ASSUME NEW j \in DOMAIN list[i].data
        PROVE  byte(i, j) \in ByteValues
    <3> DEFINE k == list[i].base + j - 1
    <3>1. list[i].data[j] \in ByteValues
      BY <2>1
    <3>2. ASSUME stored(i, k)
          PROVE  image[k + 1] \in ByteValues
      <4>1. k \in 0 .. (Len(image) - 1)
        BY <3>2 DEF LoadableBytes
      <4> HIDE DEF k
      <4>2. k + 1 \in 1 .. Len(image)
        BY <4>1, <1>1
      <4>3. QED
        BY <4>2
    <3> HIDE DEF stored
    <3>3. QED
      BY <3>1, <3>2
  <2> HIDE DEF stored
  <2>3. Loaded(list, image)[i] = new(i)
    BY <1>1, <2>2 DEF Loaded, stored
  <2> HIDE DEF byte
  <2>4. data(i) \in Seq(ByteValues) /\ Len(data(i)) = Len(list[i].data)
    <3>1. \A j \in DOMAIN list[i].data : byte(i, j) \in ByteValues
      BY <2>2
    <3>2. DOMAIN list[i].data = 1 .. Len(list[i].data) /\ Len(list[i].data) \in Nat
      BY <2>1
    <3>3. QED
      BY <3>1, <3>2
  <2> HIDE DEF data
  <2>5. new(i).base = list[i].base /\ new(i).size = list[i].size
    BY <2>1 DEF Region
  <2>6. QED
    BY <2>1, <2>3, <2>4, <2>5, DataInv
<1>3. Loaded(list, image) \in Seq(Region) /\ Len(Loaded(list, image)) = Len(list)
  <2>1. \A i \in 1 .. Len(list) : new(i) \in Region
    BY <1>2 DEF RegionInv
  <2>2. DOMAIN Loaded(list, image) = 1 .. Len(list)
    BY <1>1 DEF Loaded
  <2> HIDE DEF new
  <2>3. Loaded(list, image) = [i \in 1 .. Len(list) |-> new(i)]
    BY <1>1, <1>2, <2>2 DEF Loaded
  <2>4. QED
    BY <1>1, <2>1, <2>3
<1> HIDE DEF new
<1>4. QED
  BY <1>2, <1>3 DEF RegionsInv

-----------------------------------------------------------------------------
(* The actions.                                                             *)

\* The list after a region that a lookup found was replaced.
LEMMA ReplaceFoundInv ==
    ASSUME NEW list, RegionsInv(list), NEW address, NEW size, NEW region,
           RegionIn(list, address, size) # 0,
           RegionInv(list[RegionIn(list, address, size)]) => RegionInv(region)
    PROVE  RegionsInv([list EXCEPT ![RegionIn(list, address, size)] = region])
<1>1. list \in Seq(Region)
  BY DEF RegionsInv
<1>2. RegionIn(list, address, size) \in 1 .. Len(list)
  BY <1>1, RegionInProperties
<1>3. RegionInv(list[RegionIn(list, address, size)])
  BY <1>2 DEF RegionsInv
<1>4. QED
  BY <1>2, <1>3, ReplaceInv

\* The hits of one scan are finite in number.
LEMMA HitsAreCounted ==
    ASSUME watchpointEncountered \in Nat, NEW array \in Seq(Watchpoint),
           NEW address, NEW n, NEW access, CountHits(array, address, n, access)
    PROVE  watchpointEncountered' \in Nat
<1> DEFINE stop == ScanStop(array, address, n, access) - 1
           hits == ScanHits(array, address, n, access)
<1>1. stop \in Int
  <2>1. ScanStop(array, address, n, access) \in 1 .. (Len(array) + 1)
    BY ScanStopProperties
  <2>2. QED
    BY <2>1
<1>2. hits \subseteq 1 .. stop
  BY DEF ScanHits
<1> HIDE DEF stop, hits
<1>3. IsFiniteSet(hits)
  <2>1. IsFiniteSet(1 .. stop)
    BY <1>1, FS_Interval
  <2>2. QED
    BY <1>2, <2>1, FS_Subset
<1>4. Cardinality(hits) \in Nat
  BY <1>3, FS_CardinalityType
<1>5. QED
  BY <1>4 DEF CountHits, hits

\* Creating a region keeps the invariant.
LEMMA CreateRegionInv ==
    ASSUME RegionsInv(regions), NEW shape \in RegionShapes, CreateRegion(shape[1], shape[2])
    PROVE  RegionsInv(regions')
<1>1. shape[1] \in Address /\ shape[2] \in RegionSizes
  BY MemoryAssumption DEF RegionSizes
<1>2. RegionInv(NewRegion(shape[1], shape[2]))
  BY <1>1, NewRegionInv
<1>3. RegionsInv(Append(regions, NewRegion(shape[1], shape[2])))
  BY <1>2, AppendInv
<1>4. QED
  BY <1>3 DEF CreateRegion

\* Making a region read-only keeps the invariant.
LEMMA MakeRegionReadOnlyInv ==
    ASSUME RegionsInv(regions), NEW base, MakeRegionReadOnly(base)
    PROVE  RegionsInv(regions')
<1> DEFINE i == RegionIn(regions, base, 1)
<1>1. CASE i # 0
  <2>1. RegionsInv([regions EXCEPT ![i] = WithReadCounts(regions[i])])
    BY <1>1, ReadOnlyInv, ReplaceFoundInv
  <2>2. RegionsInv([regions EXCEPT ![i] = MarkedReadOnly(regions[i])])
    BY <1>1, ReadOnlyInv, ReplaceFoundInv
  <2>3. QED
    BY <1>1, <2>1, <2>2 DEF MakeRegionReadOnly, RegionOf
<1>2. CASE i = 0
  BY <1>2 DEF MakeRegionReadOnly, RegionOf
<1>3. QED
  BY <1>1, <1>2

\* An image is a sequence of bytes.
LEMMA ImageType ==
    ASSUME NEW flash \in FlashImages, NEW image \in Bytes(flash[1])
    PROVE  image \in Seq(ByteValues) /\ Len(image) = flash[1] /\ flash[1] \in Nat
  BY ConstantTypes DEF Bytes

\* Every list that CreateRegionsFromFlashImage builds.
LEMMA CreateFromImageInv ==
    ASSUME RegionsInv(regions), NEW flash \in FlashImages, NEW image \in Bytes(flash[1]),
           CreateRegionsFromFlashImage(image, flash[2])
    PROVE  RegionsInv(regions') /\ (regions = << >> /\ reply'.exception # "none" => regions' = << >>)
<1> DEFINE new       == NewRegion(FlashBase, Len(image))
           withFlash == Loaded(Append(regions, new), image)
           i         == RegionIn(withFlash, FlashBase, 1)
           ram       == NewRegion(RamBase(flash[2]), flash[2] - RamBase(flash[2]))
           marked    == [withFlash EXCEPT ![i] = MarkedReadOnly(withFlash[i])]
           counted   == [withFlash EXCEPT ![i] = WithReadCounts(withFlash[i])]
<1>1. image \in Seq(ByteValues) /\ Len(image) \in RegionSizes /\ Len(image) \in Nat
  BY ImageType DEF RegionSizes
<1>2. RegionInv(new) /\ new.base = 0 /\ new.size = Len(image)
  <2>1. FlashBase \in Address
    BY ConstantTypes, AddressSpaceAssumption DEF FlashBase, Address
  <2>2. QED
    BY <1>1, <2>1, NewRegionInv DEF NewRegion, FlashBase
<1>3. RegionInv(ram)
  <2>1. RamBase(flash[2]) \in Address /\ flash[2] - RamBase(flash[2]) \in RegionSizes
    BY ConstantTypes DEF RegionSizes
  <2>2. QED
    BY <2>1, NewRegionInv
<1> HIDE DEF new, ram
<1>4. /\ RegionsInv(Append(regions, new))
      /\ Len(Append(regions, new)) = Len(regions) + 1
      /\ Append(regions, new)[Len(regions) + 1] = new
      /\ Len(regions) \in Nat
  BY <1>2, AppendInv, AppendProperties DEF RegionsInv, RegionInv
<1>5. /\ RegionsInv(withFlash)
      /\ Len(withFlash) = Len(regions) + 1
      /\ withFlash[Len(regions) + 1].base = 0
      /\ withFlash[Len(regions) + 1].size = Len(image)
  <2> DEFINE longer == Append(regions, new)
  <2>1. Len(regions) + 1 \in 1 .. Len(longer)
    BY <1>4
  <2> HIDE DEF longer
  <2>2. /\ RegionsInv(withFlash) /\ Len(withFlash) = Len(longer)
        /\ withFlash[Len(regions) + 1].base = longer[Len(regions) + 1].base
        /\ withFlash[Len(regions) + 1].size = longer[Len(regions) + 1].size
    BY <1>1, <1>4, <2>1, LoadedInv DEF longer
  <2>3. QED
    BY <1>2, <1>4, <2>2 DEF longer
<1> HIDE DEF withFlash
<1>6. CASE Len(image) >= 4
  <2>1. i # 0
    <3>1. Encloses(withFlash[Len(regions) + 1], FlashBase, 1)
      BY <1>1, <1>5, <1>6 DEF Encloses, FlashBase
    <3>2. withFlash \in Seq(Region) /\ Len(regions) + 1 \in 1 .. Len(withFlash)
      BY <1>4, <1>5 DEF RegionsInv
    <3>3. QED
      BY <3>1, <3>2, RegionInFinds
  <2>2. RegionsInv(marked) /\ RegionsInv(counted)
    BY <1>5, <2>1, ReadOnlyInv, ReplaceFoundInv
  <2>3. Len(marked) = Len(regions) + 1 /\ Len(counted) = Len(regions) + 1
    BY <1>4, <1>5 DEF RegionsInv
  <2> HIDE DEF marked, counted
  <2>4. RegionsInv(Front(marked)) /\ RegionsInv(Front(counted))
    BY <1>4, <2>2, <2>3, FrontInv
  <2>5. RegionsInv(Append(counted, ram))
    BY <1>3, <2>2, AppendInv
  <2>6. ASSUME regions = << >>
        PROVE  Front(marked) = << >> /\ Front(counted) = << >>
    <3>1. Len(marked) = 1 /\ Len(counted) = 1
      BY <2>3, <2>6
    <3>2. QED
      BY <3>1 DEF Front
  <2>7. \/ /\ regions' = Append(counted, ram) /\ reply' = Answer(<< >>)
        \/ regions' \in {regions, Front(marked), Front(counted)}
    BY <1>6 DEF CreateRegionsFromFlashImage, WithoutLastRegion, Returns, withFlash, marked, counted, i, new, ram
  <2>8. RegionsInv(regions')
    BY <2>4, <2>5, <2>7
  <2>9. regions = << >> => \/ reply' = Answer(<< >>)
                           \/ regions' = << >>
    BY <2>6, <2>7
  <2>10. QED
    BY <2>8, <2>9 DEF Answer
<1>7. CASE Len(image) < 4
  BY <1>1, <1>7 DEF CreateRegionsFromFlashImage
<1>8. QED
  BY <1>1, <1>6, <1>7

\* Setting an entry keeps the invariant.
LEMMA SetWatchpointInv ==
    ASSUME RegionsInv(regions), NEW address \in Address, NEW size \in WatchSizes,
           NEW type \in WatchTypes, SetWatchpoint(address, size, type)
    PROVE  RegionsInv(regions')
<1> DEFINE i   == RegionIn(regions, address, size)
           key == WatchpointFor(address, size, type)
           new == WithWatchpoint(regions[i], key)
<1>1. CASE i # 0 /\ ~IsFound(regions[i].watchpoints, key)
  <2>1. size \in Nat /\ type \in WatchpointType
    BY MemoryAssumption
  <2>2. regions \in Seq(Region) /\ i \in 1 .. Len(regions) /\ Encloses(regions[i], address, size)
    BY <1>1, RegionInProperties DEF RegionsInv
  <2>3. RegionInv(regions[i])
    BY <2>2 DEF RegionsInv
  <2>4. RegionInv(new)
    BY <1>1, <2>1, <2>2, <2>3, SetInv
  <2> HIDE DEF new
  <2>5. RegionsInv([regions EXCEPT ![i] = new])
    BY <2>2, <2>4, ReplaceInv
  <2>6. regions' = regions \/ regions' = [regions EXCEPT ![i] = new]
    BY DEF SetWatchpoint, RegionOf, new
  <2>7. QED
    BY <2>5, <2>6
<1>2. CASE ~(i # 0 /\ ~IsFound(regions[i].watchpoints, key))
  BY <1>2 DEF SetWatchpoint, RegionOf
<1>3. QED
  BY <1>1, <1>2

\* Clearing an entry keeps the invariant.
LEMMA ClearWatchpointInv ==
    ASSUME RegionsInv(regions), NEW address, NEW size, NEW type,
           ClearWatchpoint(address, size, type)
    PROVE  RegionsInv(regions')
<1> DEFINE i   == RegionIn(regions, address, size)
           new == WithoutWatchpoint(regions[i], WatchpointFor(address, size, type))
<1>1. i # 0 => RegionsInv([regions EXCEPT ![i] = new])
  BY ClearInv, ReplaceFoundInv
<1>2. regions' = regions \/ (i # 0 /\ regions' = [regions EXCEPT ![i] = new])
  BY DEF ClearWatchpoint, RegionOf
<1>3. QED
  BY <1>1, <1>2

\* Reading keeps the invariant.
LEMMA ReadInv ==
    ASSUME RegionsInv(regions), watchpointEncountered \in Nat, NEW address, NEW n,
           Read(address, n) \/ MapForRead(address, n)
    PROVE  RegionsInv(regions') /\ watchpointEncountered' \in Nat
<1> DEFINE i   == RegionIn(regions, address, n)
           new == CountedRead(regions[i], address, n)
<1>1. i # 0 => RegionsInv([regions EXCEPT ![i] = new])
  BY CountedReadInv, ReplaceFoundInv
<1>2. regions' = regions \/ (i # 0 /\ regions' = [regions EXCEPT ![i] = new])
  BY DEF Read, MapForRead, RegionOf
<1>3. \/ watchpointEncountered' = watchpointEncountered
      \/ i # 0 /\ CountHits(regions[i].watchpoints, address, n, "read")
  BY DEF Read, MapForRead, RegionOf
<1>4. i # 0 /\ CountHits(regions[i].watchpoints, address, n, "read")
      => watchpointEncountered' \in Nat
  BY HitsAreCounted, RegionInProperties, RegionFields DEF RegionsInv
<1>5. QED
  BY <1>1, <1>2, <1>3, <1>4

\* Writing keeps the invariant.
LEMMA WriteInv ==
    ASSUME RegionsInv(regions), watchpointEncountered \in Nat, NEW address, NEW n,
           NEW bytes \in Seq(ByteValues),
           Write(address, bytes) \/ MapForWrite(address, n, bytes)
    PROVE  RegionsInv(regions') /\ watchpointEncountered' \in Nat
<1>1. CASE Write(address, bytes)
  <2> DEFINE i   == RegionIn(regions, address, Len(bytes))
             new == WithBytes(regions[i], address, bytes)
  <2>1. i # 0 => RegionsInv([regions EXCEPT ![i] = new])
    BY WithBytesInv, ReplaceFoundInv
  <2>2. \/ regions' = regions /\ watchpointEncountered' = watchpointEncountered
        \/ /\ i # 0
           /\ regions' = [regions EXCEPT ![i] = new]
           /\ CountHits(regions[i].watchpoints, address, Len(bytes), "write")
    BY <1>1 DEF Write, RegionOf, NotWritable
  <2>3. i # 0 /\ CountHits(regions[i].watchpoints, address, Len(bytes), "write")
        => watchpointEncountered' \in Nat
    BY HitsAreCounted, RegionInProperties, RegionFields DEF RegionsInv
  <2>4. QED
    BY <2>1, <2>2, <2>3
<1>2. CASE MapForWrite(address, n, bytes)
  <2> DEFINE i   == RegionIn(regions, address, n)
             new == WithBytes(regions[i], address, bytes)
  <2>1. i # 0 => RegionsInv([regions EXCEPT ![i] = new])
    BY WithBytesInv, ReplaceFoundInv
  <2>2. \/ regions' = regions /\ watchpointEncountered' = watchpointEncountered
        \/ /\ i # 0
           /\ regions' = [regions EXCEPT ![i] = new]
           /\ watchpointEncountered' = watchpointEncountered
    BY <1>2 DEF MapForWrite, RegionOf, NotWritable
  <2>3. QED
    BY <2>1, <2>2
<1>3. QED
  BY <1>1, <1>2

\* Loading an image keeps the invariant.
LEMMA LoadInv ==
    ASSUME RegionsInv(regions), NEW flash \in FlashImages, NEW image \in Bytes(flash[1]),
           LoadFromFlashImage(image)
    PROVE  RegionsInv(regions')
<1>1. RegionsInv(Loaded(regions, image))
  BY ImageType, LoadedInv
<1>2. QED
  BY <1>1 DEF LoadFromFlashImage

\* An empty list is well formed.
LEMMA EmptyInv == RegionsInv(<< >>)
  BY DEF RegionsInv

\* Every reply names one of the outcomes, whatever the action.
LEMMA ReplyType ==
    ASSUME Next
    PROVE  reply'.exception \in Exception
<1>1. ASSUME NEW value, Returns(value)
      PROVE  reply'.exception \in Exception
  BY <1>1 DEF Returns, Answer, Exception
<1>2. ASSUME NEW exception \in Exception, Throws(exception)
      PROVE  reply'.exception \in Exception
  BY <1>2 DEF Throws, Failure
<1>3. {"busError", "hardwareBreakpoint", "outOfMemory", "bufferOverrun", "accessViolation"}
        \subseteq Exception
  BY DEF Exception
<1>4. (\E value : Returns(value)) \/ (\E exception \in Exception : Throws(exception))
  BY <1>3 DEF Next, Reinitialise, Uninit, CreateRegion, MakeRegionReadOnly,
              LoadFromFlashImage, CreateRegionsFromFlashImage, SetWatchpoint,
              ClearWatchpoint, WasWatchpointEncountered, Read, Write, MapForRead,
              MapForWrite, GetFlashReadCount
<1>5. QED
  BY <1>1, <1>2, <1>4

\* The invariant holds initially,
LEMMA InitInv == Init => IInv
  BY EmptyInv DEF Init, IInv, Answer, Exception

\* and every step keeps it.
LEMMA StepInv == IInv /\ [Next]_vars => IInv'
<1> SUFFICES ASSUME IInv, Next
             PROVE  RegionsInv(regions') /\ watchpointEncountered' \in Nat
  <2>1. ASSUME UNCHANGED vars, IInv
        PROVE  IInv'
    BY <2>1 DEF IInv, vars
  <2>2. QED
    BY <2>1, ReplyType DEF IInv
<1>0. RegionsInv(regions) /\ watchpointEncountered \in Nat
  BY DEF IInv
<1>1. ASSUME Reinitialise \/ Uninit
      PROVE  RegionsInv(regions') /\ watchpointEncountered' \in Nat
  BY <1>0, <1>1, EmptyInv DEF Reinitialise, Uninit
<1>2. ASSUME NEW shape \in RegionShapes,
             CreateRegion(shape[1], shape[2]) \/ MakeRegionReadOnly(shape[1])
      PROVE  RegionsInv(regions') /\ watchpointEncountered' \in Nat
  <2>1. RegionsInv(regions')
    BY <1>0, <1>2, CreateRegionInv, MakeRegionReadOnlyInv
  <2>2. QED
    BY <1>0, <1>2, <2>1 DEF CreateRegion, MakeRegionReadOnly
<1>3. ASSUME NEW flash \in FlashImages, NEW image \in Bytes(flash[1]),
             LoadFromFlashImage(image) \/ CreateRegionsFromFlashImage(image, flash[2])
      PROVE  RegionsInv(regions') /\ watchpointEncountered' \in Nat
  <2>1. RegionsInv(regions')
    BY <1>0, <1>3, LoadInv, CreateFromImageInv
  <2>2. QED
    BY <1>0, <1>3, <2>1 DEF LoadFromFlashImage, CreateRegionsFromFlashImage
<1>4. ASSUME NEW address \in Address, NEW size \in WatchSizes, NEW type \in WatchTypes,
             SetWatchpoint(address, size, type) \/ ClearWatchpoint(address, size, type)
      PROVE  RegionsInv(regions') /\ watchpointEncountered' \in Nat
  <2>1. RegionsInv(regions')
    BY <1>0, <1>4, SetWatchpointInv, ClearWatchpointInv
  <2>2. QED
    BY <1>0, <1>4, <2>1 DEF SetWatchpoint, ClearWatchpoint
<1>5. ASSUME NEW address, NEW n, Read(address, n) \/ MapForRead(address, n)
      PROVE  RegionsInv(regions') /\ watchpointEncountered' \in Nat
  BY <1>0, <1>5, ReadInv
<1>6. ASSUME NEW address, NEW n, NEW m \in Nat, NEW bytes \in Bytes(m),
             Write(address, bytes) \/ MapForWrite(address, n, bytes)
      PROVE  RegionsInv(regions') /\ watchpointEncountered' \in Nat
  <2>1. bytes \in Seq(ByteValues)
    BY <1>6 DEF Bytes
  <2>2. QED
    BY <1>0, <1>6, <2>1, WriteInv
<1>7. ASSUME WasWatchpointEncountered \/ \E address \in Address : GetFlashReadCount(address)
      PROVE  RegionsInv(regions') /\ watchpointEncountered' \in Nat
  <2>1. /\ regions' = regions
        /\ watchpointEncountered' = 0 \/ watchpointEncountered' = watchpointEncountered
    BY <1>7 DEF WasWatchpointEncountered, GetFlashReadCount
  <2>2. QED
    BY <1>0, <2>1
<1>8. AccessSizes \subseteq Nat /\ \A n \in AccessSizes : 0 .. n \subseteq Nat
  <2>1. AccessSizes \subseteq Nat
    BY MemoryAssumption
  <2>2. QED
    BY <2>1
<1>9. QED
  BY <1>1, <1>2, <1>3, <1>4, <1>5, <1>6, <1>7, <1>8 DEF Next

\* In every reachable state each region satisfies RegionInv.
THEOREM Invariant == Spec => []IInv
  BY InitInv, StepInv, PTL DEF Spec

-----------------------------------------------------------------------------
(* The properties.                                                          *)

\* Type correctness of MemorySim.c's state: a region keeps the shape it was
\* allocated with under every mixture of calls.
THEOREM TypeCorrect == Spec => []TypeOK
<1>1. IInv => TypeOK
  BY DEF IInv, RegionsInv, RegionInv, TypeOK
<1>2. QED
  BY <1>1, Invariant, PTL

\* The early exit of checkForBreakWatchPoint always finds the order it relies
\* on: setWatchpoint and clearWatchpoint keep every array sorted.
THEOREM SortedArrays == Spec => []ArraysSorted
<1>1. IInv => ArraysSorted
  BY DEF IInv, RegionsInv, RegionInv, ArraysSorted
<1>2. QED
  BY <1>1, Invariant, PTL

\* Whatever is set again or cleared twice, an entry is never held twice.
THEOREM SingleEntries == Spec => []ArraysHaveNoDuplicates
<1>1. IInv => ArraysHaveNoDuplicates
  BY DEF IInv, RegionsInv, RegionInv, ArraysHaveNoDuplicates
<1>2. QED
  BY <1>1, Invariant, PTL

\* growWatchpointArrayIfNeeded always leaves room for the entry that
\* setWatchpoint moves into the array.
THEOREM AllocationsSuffice == Spec => []ArraysFitAllocation
<1>1. IInv => ArraysFitAllocation
  BY DEF IInv, RegionsInv, RegionInv, ArraysFitAllocation
<1>2. QED
  BY <1>1, Invariant, PTL

\* findMatchingRegion files every breakpoint and watchpoint with a region
\* that holds all of its bytes.
THEOREM EntriesPlaced == Spec => []EntriesInTheirRegion
<1>1. IInv => EntriesInTheirRegion
  <2> SUFFICES ASSUME IInv, NEW i \in DOMAIN regions, NEW j \in DOMAIN regions[i].watchpoints
               PROVE  EntryFits(regions[i], regions[i].watchpoints[j])
    BY DEF EntriesInTheirRegion, EntryFits
  <2>1. RegionInv(regions[i])
    BY DEF IInv, RegionsInv
  <2>2. j \in 1 .. Len(regions[i].watchpoints)
    BY <2>1, RegionFields
  <2>3. QED
    BY <2>1, <2>2 DEF RegionInv
<1>2. QED
  BY <1>1, Invariant, PTL

\* checkForBreakWatchPoint misses nothing and reports nothing twice, in every
\* reachable state and for every access, sizes the simulator never uses
\* included.
THEOREM ExactScans == Spec => []ScansAreExact
<1>1. IInv => ScansAreExact
  <2> SUFFICES ASSUME IInv, NEW i \in DOMAIN regions, NEW address \in Address,
                      NEW n \in AccessSizes, NEW access \in AccessType
               PROVE  ScanIsExact(regions[i].watchpoints, address, n, access)
    BY DEF ScansAreExact
  <2>1. RegionInv(regions[i])
    BY DEF IInv, RegionsInv
  <2>2. regions[i].watchpoints \in Seq(Watchpoint) /\ IsSortedByStart(regions[i].watchpoints)
    BY <2>1, RegionFields DEF RegionInv
  <2>3. QED
    BY <2>2, SortedScanIsExact
<1>2. QED
  BY <1>1, Invariant, PTL

\* getDataPointer and MemorySim_GetFlashReadCount index pReadCounts inside the
\* array that allocateReadCountArray made, at odd sizes and offsets too.
THEOREM CountsInBounds == Spec => []CountedReadsInBounds
<1>1. IInv => CountedReadsInBounds
  <2> SUFFICES ASSUME IInv, NEW i \in DOMAIN regions, NEW address \in Address,
                      regions[i].readCounts # << >>, Encloses(regions[i], address, 2)
               PROVE  HalfWord(regions[i], address) \in DOMAIN regions[i].readCounts
    BY DEF CountedReadsInBounds
  <2>1. RegionInv(regions[i])
    BY DEF IInv, RegionsInv
  <2>2. /\ regions[i].base \in Nat /\ regions[i].size \in Nat
        /\ regions[i].readCounts \in Seq(ReadCount)
        /\ Len(regions[i].readCounts) \in {0, regions[i].size \div 2}
    BY <2>1, RegionFields DEF RegionInv
  <2>3. Len(regions[i].readCounts) = regions[i].size \div 2
    BY <2>2, EmptySeq
  <2>4. address \in Nat
    BY ConstantTypes
  <2>5. HalfWord(regions[i], address) \in 1 .. (regions[i].size \div 2)
    BY <2>2, <2>4 DEF Encloses, HalfWord
  <2>6. QED
    BY <2>2, <2>3, <2>5
<1>2. QED
  BY <1>1, Invariant, PTL

\* MemorySim_CreateRegionsFromFlashImage and every other call: one that throws
\* while the memory has no region leaves it without a region.
THEOREM AllOrNothing == Spec => FailureLeavesNoRegion
<1>1. IInv /\ [Next]_vars => [regions = << >> /\ reply'.exception # "none" => regions' = << >>]_vars
  <2> SUFFICES ASSUME IInv, Next, regions = << >>, reply'.exception # "none"
               PROVE  regions' = << >>
    OBVIOUS
  <2>1. RegionsInv(regions)
    BY DEF IInv
  <2>2. \A address, size : RegionOf(address, size) = 0
    BY DEF RegionOf, RegionIn, SelectInSeq
  <2>3. \A image : Loaded(regions, image) = << >>
    BY DEF Loaded
  <2>4. ASSUME NEW flash \in FlashImages, NEW image \in Bytes(flash[1]),
               CreateRegionsFromFlashImage(image, flash[2])
        PROVE  regions' = << >>
    BY <2>1, <2>4, CreateFromImageInv
  <2>5. ASSUME NEW shape \in RegionShapes,
               CreateRegion(shape[1], shape[2]) \/ MakeRegionReadOnly(shape[1])
        PROVE  regions' = << >>
    BY <2>2, <2>5 DEF CreateRegion, MakeRegionReadOnly, Returns, Answer
  <2>6. ASSUME Reinitialise \/ Uninit \/ WasWatchpointEncountered
               \/ \E address \in Address : GetFlashReadCount(address)
        PROVE  regions' = << >>
    BY <2>6 DEF Reinitialise, Uninit, WasWatchpointEncountered, GetFlashReadCount
  <2>7. ASSUME NEW address, NEW size, NEW type,
               SetWatchpoint(address, size, type) \/ ClearWatchpoint(address, size, type)
        PROVE  regions' = << >>
    BY <2>2, <2>7 DEF SetWatchpoint, ClearWatchpoint
  <2>8. ASSUME NEW address, NEW n, NEW bytes,
               \/ Read(address, n) \/ Write(address, bytes)
               \/ MapForRead(address, n) \/ MapForWrite(address, n, bytes)
        PROVE  regions' = << >>
    BY <2>2, <2>8 DEF Read, Write, MapForRead, MapForWrite, NotWritable
  <2>9. ASSUME NEW image, LoadFromFlashImage(image)
        PROVE  regions' = << >>
    BY <2>3, <2>9 DEF LoadFromFlashImage
  <2>10. QED
    BY <2>4, <2>5, <2>6, <2>7, <2>8, <2>9 DEF Next
<1>2. QED
  BY <1>1, Invariant, PTL DEF Spec, FailureLeavesNoRegion
=============================================================================
