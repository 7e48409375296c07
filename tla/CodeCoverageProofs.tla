------------------------- MODULE CodeCoverageProofs -------------------------
(***************************************************************************)
(* What the coverage tells, for dumps, programs and sources of any kind:   *)
(* the rows that are kept of a dump are those of the functions that the    *)
(* linker kept, in order, and each line of a source has the lowest count   *)
(* of the rows about it.                                                   *)
(***************************************************************************)
EXTENDS PinkySimMainProofs

-----------------------------------------------------------------------------
(* The files of a dump's rows.                                             *)

\* The last unit among the first lines of a dump.
IsLastUnit(d, u, n) ==
    /\ u \in 1 .. n /\ d[u].kind = "unit"
    /\ \A v \in u + 1 .. n : d[v].kind # "unit"

\* The file that the first lines of a dump name last, if they name any.
Names(d, n, file) ==
    \/ file = "" /\ \A u \in 1 .. n : d[u].kind # "unit"
    \/ \E u : IsLastUnit(d, u, n) /\ file = d[u].file

\* A dump, and its rows.
IsDump(d) ==
    /\ d = [n \in 1 .. Len(d) |-> d[n]] /\ Len(d) \in Nat
    /\ \A n \in 1 .. Len(d) : IsText(d[n])
Rows(d) == {RowAt(d, m) : m \in RowsOf(d)}

\* A row has the file of the unit in front of it.
LEMMA RowIs ==
    ASSUME NEW d, NEW n \in Nat, NEW u, IsLastUnit(d, u, n - 1)
    PROVE  RowAt(d, n) = [d[n] EXCEPT !.file = d[u].file]
<1> DEFINE P(v) == d[v].kind = "unit" /\ \A w \in v + 1 .. n - 1 : d[w].kind # "unit"
           unit == CHOOSE v \in 1 .. n - 1 : P(v)
<1>1. u \in 1 .. n - 1 /\ P(u)
  BY DEF IsLastUnit
<1>2. unit \in 1 .. n - 1 /\ P(unit)
  BY <1>1
<1>3. RowAt(d, n) = [d[n] EXCEPT !.file = d[unit].file]
  BY DEF RowAt
<1> HIDE DEF unit
<1>4. unit = u
  <2>1. ~(unit < u)
    BY <1>1, <1>2
  <2>2. ~(u < unit)
    BY <1>1, <1>2
  <2>3. QED
    BY <1>1, <1>2, <2>1, <2>2
<1>5. QED
  BY <1>3, <1>4

\* A line is a row of the dump when a file is named in front of it.
LEMMA RowsAre ==
    ASSUME NEW d, IsDump(d), NEW n \in 0 .. Len(d) - 1, NEW file, Names(d, n, file)
    PROVE  /\ n + 1 \in RowsOf(d) <=> d[n + 1].kind = "row" /\ file # ""
           /\ n + 1 \in RowsOf(d) => RowAt(d, n + 1) = [d[n + 1] EXCEPT !.file = file]
           /\ Names(d, n + 1, IF d[n + 1].kind = "unit" THEN d[n + 1].file ELSE file)
<1>1. n \in Nat /\ n + 1 \in Nat /\ n + 1 \in DOMAIN d /\ (n + 1) - 1 = n
  BY DEF IsDump
<1>2. \A u \in 1 .. n : d[u].kind = "unit" => d[u].file # ""
  <2>1. \A text : IsText(text) => (text.kind = "unit" => text.file # "")
    BY DEF IsText
  <2>2. \A u \in 1 .. n : u \in 1 .. Len(d)
    BY DEF IsDump
  <2>3. QED
    BY <2>1, <2>2 DEF IsDump
<1>3. file # "" <=> \E u \in 1 .. n : d[u].kind = "unit"
  BY <1>2 DEF Names, IsLastUnit
<1>4. n + 1 \in RowsOf(d) <=> d[n + 1].kind = "row" /\ file # ""
  BY <1>1, <1>3 DEF RowsOf
<1>5. n + 1 \in RowsOf(d) => RowAt(d, n + 1) = [d[n + 1] EXCEPT !.file = file]
  <2>1. n + 1 \in RowsOf(d) => \E u : IsLastUnit(d, u, n) /\ file = d[u].file
    BY <1>3, <1>4 DEF Names
  <2>2. ASSUME NEW u, IsLastUnit(d, u, n), file = d[u].file
        PROVE  RowAt(d, n + 1) = [d[n + 1] EXCEPT !.file = file]
    <3>1. IsLastUnit(d, u, (n + 1) - 1)
      BY <1>1, <2>2
    <3>2. QED
      BY <1>1, <2>2, <3>1, RowIs
  <2>3. QED
    BY <2>1, <2>2
<1>6. Names(d, n + 1, IF d[n + 1].kind = "unit" THEN d[n + 1].file ELSE file)
  <2>1. CASE d[n + 1].kind = "unit"
    <3>1. IsLastUnit(d, n + 1, n + 1)
      BY <1>1, <2>1 DEF IsLastUnit
    <3>2. QED
      BY <2>1, <3>1 DEF Names
  <2>2. CASE d[n + 1].kind # "unit"
    <3>1. \A u \in 1 .. n + 1 : u \in 1 .. n \/ u = n + 1
      BY <1>1
    <3>2. \A u : IsLastUnit(d, u, n) => IsLastUnit(d, u, n + 1)
      BY <1>1, <2>2 DEF IsLastUnit
    <3>3. QED
      BY <2>2, <3>1, <3>2 DEF Names
  <2>3. QED
    BY <2>1, <2>2
<1>7. QED
  BY <1>4, <1>5, <1>6


-----------------------------------------------------------------------------
(* The functions that the linker discarded.                                *)

\* Whether a line is behind the beginning of a discarded function depends on the
\* blank line in front of it, if there is one, and else on the line before.
LEMMA Discarding ==
    ASSUME NEW d, NEW m \in Nat \ {0}
    PROVE  InDiscarded(d, m + 1) <=> IF IsBlank(d, m) THEN Discards(d, m) ELSE InDiscarded(d, m)
<1>1. 1 .. (m + 1) - 1 = (1 .. m - 1) \cup {m}
  OBVIOUS
<1>2. Discards(d, m) => IsBlank(d, m)
  BY DEF Discards
<1>3. ASSUME NEW b \in 1 .. m - 1
      PROVE  (\A other \in b + 1 .. (m + 1) - 1 : ~IsBlank(d, other)) <=>
             (~IsBlank(d, m) /\ \A other \in b + 1 .. m - 1 : ~IsBlank(d, other))
  <2>1. b + 1 .. (m + 1) - 1 = (b + 1 .. m - 1) \cup {m}
    OBVIOUS
  <2>2. QED
    BY <2>1
<1>4. \A other \in m + 1 .. (m + 1) - 1 : ~IsBlank(d, other)
  OBVIOUS
<1> DEFINE EndsAt(b, n) == \A other \in b + 1 .. n - 1 : ~IsBlank(d, other)
<1>5. /\ InDiscarded(d, m + 1) <=> \E b \in 1 .. (m + 1) - 1 : Discards(d, b) /\ EndsAt(b, m + 1)
      /\ InDiscarded(d, m) <=> \E b \in 1 .. m - 1 : Discards(d, b) /\ EndsAt(b, m)
  BY DEF InDiscarded
<1>6. EndsAt(m, m + 1) /\ \A b \in 1 .. m - 1 : EndsAt(b, m + 1) <=> ~IsBlank(d, m) /\ EndsAt(b, m)
  BY <1>3, <1>4
<1> HIDE DEF EndsAt
<1>7. InDiscarded(d, m + 1) <=>
        Discards(d, m) \/ \E b \in 1 .. m - 1 : Discards(d, b) /\ ~IsBlank(d, m) /\ EndsAt(b, m)
  BY <1>1, <1>5, <1>6
<1>8. QED
  BY <1>2, <1>5, <1>7

\* Whether a row is live is known when the next line is read.
LEMMA LiveIs ==
    ASSUME NEW d, IsDump(d), NEW n \in RowsOf(d)
    PROVE  /\ n \in 1 .. Len(d)
           /\ n < Len(d) => (IsLive(d, n) <=> IF d[n + 1].kind = "blank" THEN d[n].address # 0
                                              ELSE ~InDiscarded(d, n + 1))
           /\ n = Len(d) => (IsLive(d, n) <=> d[n].address # 0 /\ ~InDiscarded(d, n + 1))
<1>1. n \in 1 .. Len(d) /\ n \in Nat \ {0} /\ d[n].kind = "row" /\ Len(d) \in Nat
  BY DEF IsDump, RowsOf
<1>2. ~IsBlank(d, n)
  BY <1>1 DEF IsBlank
<1>3. InDiscarded(d, n + 1) <=> InDiscarded(d, n)
  BY <1>1, <1>2, Discarding
<1>4. n < Len(d) => (IsBlank(d, n + 1) <=> d[n + 1].kind = "blank")
  BY <1>1 DEF IsBlank
<1>5. n = Len(d) => IsBlank(d, n + 1)
  BY <1>1 DEF IsBlank
<1>6. n < Len(d) => n # Len(d)
  BY <1>1
<1>7. QED
  BY <1>1, <1>3, <1>4, <1>5, <1>6 DEF IsLive

-----------------------------------------------------------------------------
(* The rows that are kept, counted.                                        *)

\* How often a row is in a list, and among the live ones in front of a line.
CountOf(list, row) == Cardinality({k \in DOMAIN list : list[k] = row})
LiveBefore(d, n, row) == Cardinality({m \in RowsOf(d) : m < n /\ RowAt(d, m) = row /\ IsLive(d, m)})

\* A list has each row as often as it is live in front of a line.
HasLive(d, n, list) ==
    /\ IsList(list) /\ \A k \in DOMAIN list : list[k] \in Rows(d)
    /\ \A row : CountOf(list, row) = LiveBefore(d, n, row)

\* A row that is appended counts once more.
LEMMA AppendCounts ==
    ASSUME NEW list, IsList(list), NEW last, NEW row
    PROVE  CountOf(Append(list, last), row) = IF last = row THEN CountOf(list, row) + 1
                                              ELSE CountOf(list, row)
<1> DEFINE longer == Append(list, last)
           S == {k \in DOMAIN list : list[k] = row}
           T == {k \in DOMAIN longer : longer[k] = row}
<1>1. DOMAIN list = 1 .. Len(list) /\ Len(list) \in Nat
  BY ListPlaces
<1>2. /\ DOMAIN longer = 1 .. Len(list) + 1 /\ \A k \in 1 .. Len(list) : longer[k] = list[k]
      /\ longer[Len(list) + 1] = last
  BY AppendedList
<1> HIDE DEF longer
<1>3. IsFiniteSet(S)
  <2>1. IsFiniteSet(1 .. Len(list))
    BY <1>1, FS_Interval
  <2>2. S \in SUBSET (1 .. Len(list))
    BY <1>1
  <2>3. QED
    BY <2>1, <2>2, FS_Subset
<1>4. DOMAIN longer = DOMAIN list \cup {Len(list) + 1} /\ Len(list) + 1 \notin S
  BY <1>1, <1>2
<1>5. CASE last = row
  <2>1. T = S \cup {Len(list) + 1}
    BY <1>1, <1>2, <1>4, <1>5
  <2>2. Cardinality(T) = Cardinality(S) + 1
    BY <1>3, <1>4, <2>1, FS_AddElement
  <2>3. QED
    BY <1>5, <2>2 DEF CountOf, longer
<1>6. CASE last # row
  <2>1. T = S
    BY <1>1, <1>2, <1>4, <1>6
  <2>2. QED
    BY <1>6, <2>1 DEF CountOf, longer
<1>7. QED
  BY <1>5, <1>6

\* A live row counts from the line behind it on.
LEMMA LiveCounts ==
    ASSUME NEW d, IsDump(d), NEW n \in 0 .. Len(d), NEW row
    PROVE  LiveBefore(d, n + 1, row) =
               IF n \in RowsOf(d) /\ RowAt(d, n) = row /\ IsLive(d, n)
               THEN LiveBefore(d, n, row) + 1 ELSE LiveBefore(d, n, row)
<1> DEFINE P(m) == RowAt(d, m) = row /\ IsLive(d, m)
           S == {m \in RowsOf(d) : m < n /\ P(m)}
           T == {m \in RowsOf(d) : m < n + 1 /\ P(m)}
<1>1. Len(d) \in Nat /\ RowsOf(d) \subseteq 1 .. Len(d)
  BY DEF IsDump, RowsOf
<1> HIDE DEF P
<1>2. IsFiniteSet(S)
  <2>1. IsFiniteSet(1 .. Len(d))
    BY <1>1, FS_Interval
  <2>2. S \in SUBSET (1 .. Len(d))
    BY <1>1
  <2>3. QED
    BY <2>1, <2>2, FS_Subset
<1>3. \A m \in RowsOf(d) : m < n + 1 <=> m < n \/ m = n
  BY <1>1
<1>4. n \notin S
  BY <1>1
<1>5. CASE n \in RowsOf(d) /\ P(n)
  <2>1. T = S \cup {n}
    BY <1>1, <1>3, <1>5
  <2>2. Cardinality(T) = Cardinality(S) + 1
    BY <1>2, <1>4, <2>1, FS_AddElement
  <2>3. QED
    BY <1>5, <2>2 DEF LiveBefore, P
<1>6. CASE ~(n \in RowsOf(d) /\ P(n))
  <2>1. T = S
    BY <1>3, <1>6
  <2>2. QED
    BY <1>6, <2>1 DEF LiveBefore, P
<1>7. QED
  BY <1>5, <1>6

\* The list goes on with the row of a line if that is live.
LEMMA LiveIsKept ==
    ASSUME NEW d, IsDump(d), NEW n \in 0 .. Len(d), NEW list, HasLive(d, n, list)
    PROVE  /\ n \in RowsOf(d) /\ IsLive(d, n) => HasLive(d, n + 1, Append(list, RowAt(d, n)))
           /\ ~(n \in RowsOf(d) /\ IsLive(d, n)) => HasLive(d, n + 1, list)
<1>1. IsList(list) /\ DOMAIN list = 1 .. Len(list) /\ Len(list) \in Nat
  BY ListPlaces DEF HasLive
<1>2. ASSUME n \in RowsOf(d), IsLive(d, n)
      PROVE  HasLive(d, n + 1, Append(list, RowAt(d, n)))
  <2> DEFINE last == RowAt(d, n)
             longer == Append(list, last)
  <2>1. last \in Rows(d)
    BY <1>2 DEF Rows
  <2>2. /\ IsList(longer) /\ DOMAIN longer = 1 .. Len(list) + 1
        /\ \A k \in 1 .. Len(list) : longer[k] = list[k]
        /\ longer[Len(list) + 1] = last
    <3> HIDE DEF last
    <3>1. QED
      BY <1>1, AppendedList
  <2>3. ASSUME NEW row
        PROVE  CountOf(longer, row) = LiveBefore(d, n + 1, row)
    <3>1. CountOf(list, row) = LiveBefore(d, n, row)
      BY DEF HasLive
    <3>2. LiveBefore(d, n + 1, row) = IF last = row THEN LiveBefore(d, n, row) + 1 ELSE LiveBefore(d, n, row)
      BY <1>2, LiveCounts
    <3> HIDE DEF last
    <3>3. CountOf(longer, row) = IF last = row THEN CountOf(list, row) + 1 ELSE CountOf(list, row)
      BY <1>1, AppendCounts
    <3>4. QED
      BY <3>1, <3>2, <3>3
  <2> HIDE DEF longer, last
  <2>4. \A k \in DOMAIN longer : longer[k] \in Rows(d)
    <3>1. \A k \in 1 .. Len(list) : list[k] \in Rows(d)
      BY <1>1 DEF HasLive
    <3>2. \A k \in DOMAIN longer : k \in 1 .. Len(list) \/ k = Len(list) + 1
      BY <1>1, <2>2
    <3>3. QED
      BY <2>1, <2>2, <3>1, <3>2
  <2>5. HasLive(d, n + 1, longer)
    BY <2>2, <2>3, <2>4 DEF HasLive
  <2>6. QED
    BY <2>5 DEF longer, last
<1>3. ASSUME ~(n \in RowsOf(d) /\ IsLive(d, n))
      PROVE  HasLive(d, n + 1, list)
  <2>1. \A row : LiveBefore(d, n + 1, row) = LiveBefore(d, n, row)
    BY <1>3, LiveCounts
  <2>2. QED
    BY <2>1 DEF HasLive
<1>4. QED
  BY <1>2, <1>3


-----------------------------------------------------------------------------
(* The parser, line by line.                                               *)

\* What a line does to the fields of the parser: whether the function is a
\* discarded one, and whether the row in front of the line is kept.
DiscardsAt(state, text) ==
    IF text.kind = "blank" THEN state.didLastLineContainAddress /\ state.last.address = 0
    ELSE state.isDiscardedFunction
KeepsAt(state, text) == ~DiscardsAt(state, text) /\ state.didLastLineContainAddress

IsNextParse(state, text, next) ==
    /\ next.read = state.read + 1
    /\ next.kept = IF KeepsAt(state, text) THEN Append(state.kept, state.last) ELSE state.kept
    /\ next.isDiscardedFunction <=> DiscardsAt(state, text)
    /\ next.file = IF text.kind = "unit" THEN text.file ELSE state.file
    /\ next.didLastLineContainAddress <=> text.kind = "row" /\ state.file # ""
    /\ next.didLastLineContainAddress => next.last = [text EXCEPT !.file = state.file]
    /\ text.kind = "blank" =>
         next.wasDiscarding = IF KeepsAt(state, text) THEN state.isDiscardedFunction ELSE FALSE

LEMMA ParseLineIs ==
    ASSUME NEW state, IsParse(state), NEW text
    PROVE  IsNextParse(state, text, ParseLine(state, text))
<1> DEFINE blank    == IF text.kind = "blank" THEN AtBlank(state) ELSE state
           counted  == CountLast(blank)
           taken    == Take(counted, text)
           next     == ParseLine(state, text)
           discards == DiscardsAt(state, text)
           keeps    == KeepsAt(state, text)
<1>1. /\ IsParse(blank) /\ blank.isDiscardedFunction = discards
      /\ blank.read = state.read /\ blank.kept = state.kept /\ blank.last = state.last
      /\ blank.file = state.file
      /\ blank.didLastLineContainAddress = state.didLastLineContainAddress
      /\ text.kind = "blank" => blank.wasDiscarding = state.isDiscardedFunction
  BY DEF IsParse, AtBlank, DiscardsAt
<1>1a. keeps <=> ~discards /\ state.didLastLineContainAddress
  BY DEF KeepsAt
<1> HIDE DEF blank, discards, keeps
<1>2. IsList(Append(blank.kept, blank.last))
  BY <1>1, AppendedList DEF IsParse
<1>3. /\ IsParse(counted) /\ counted.read = state.read /\ counted.file = state.file
      /\ counted.kept = (IF keeps THEN Append(state.kept, state.last) ELSE state.kept)
      /\ counted.isDiscardedFunction = discards /\ counted.didLastLineContainAddress = FALSE
      /\ text.kind = "blank" =>
           counted.wasDiscarding = IF keeps THEN state.isDiscardedFunction ELSE FALSE
  <2>1. CASE keeps
    <3>1. counted = [blank EXCEPT !.kept = Append(blank.kept, blank.last), !.didLastLineContainAddress = FALSE]
      BY <1>1, <1>1a, <2>1 DEF CountLast
    <3>2. QED
      BY <1>1, <1>2, <2>1, <3>1 DEF IsParse
  <2>2. CASE ~keeps
    <3>1. counted = [blank EXCEPT !.wasDiscarding = FALSE, !.didLastLineContainAddress = FALSE]
      BY <1>1, <1>1a, <2>2 DEF CountLast
    <3>2. QED
      BY <1>1, <2>2, <3>1 DEF IsParse
  <2>3. QED
    BY <2>1, <2>2
<1> HIDE DEF counted
<1>4. /\ IsParse(taken) /\ taken.read = state.read /\ taken.kept = counted.kept
      /\ taken.isDiscardedFunction = discards
      /\ taken.file = (IF text.kind = "unit" THEN text.file ELSE state.file)
      /\ taken.didLastLineContainAddress = (text.kind = "row" /\ state.file # "")
      /\ taken.didLastLineContainAddress => taken.last = [text EXCEPT !.file = state.file]
      /\ text.kind = "blank" => taken.wasDiscarding = counted.wasDiscarding
  <2>1. CASE text.kind = "unit"
    <3>1. taken = [counted EXCEPT !.file = text.file]
      BY <2>1 DEF Take
    <3>2. QED
      BY <1>3, <2>1, <3>1 DEF IsParse
  <2>2. CASE text.kind = "row" /\ state.file # ""
    <3>1. taken = [counted EXCEPT !.last = [text EXCEPT !.file = state.file],
                                  !.didLastLineContainAddress = TRUE, !.wasDiscarding = FALSE]
      BY <1>3, <2>2 DEF Take
    <3>2. QED
      BY <1>3, <2>2, <3>1 DEF IsParse
  <2>3. CASE text.kind # "unit" /\ ~(text.kind = "row" /\ state.file # "")
    <3>1. taken = counted
      BY <1>3, <2>3 DEF Take
    <3>2. QED
      BY <1>3, <2>3, <3>1
  <2>4. QED
    BY <2>1, <2>2, <2>3
<1> HIDE DEF taken
<1>5. next = [taken EXCEPT !.read = @ + 1]
  BY DEF ParseLine, taken, counted, blank
<1> HIDE DEF next
<1>6. /\ next.read = taken.read + 1 /\ next.kept = taken.kept
      /\ next.isDiscardedFunction = taken.isDiscardedFunction /\ next.file = taken.file
      /\ next.didLastLineContainAddress = taken.didLastLineContainAddress
      /\ next.last = taken.last /\ next.wasDiscarding = taken.wasDiscarding
  BY <1>4, <1>5 DEF IsParse
<1>7. IsNextParse(state, text, next)
  BY <1>3, <1>4, <1>6 DEF IsNextParse, keeps, discards
<1>8. QED
  BY <1>7 DEF next

\* What the parser knows of the lines it has read: the file named last, whether
\* the last one is a row, and whether the function it is in was discarded.
Parsed(d, state) ==
    /\ IsParse(state) /\ state.read \in 0 .. Len(d)
    /\ Names(d, state.read, state.file)
    /\ state.didLastLineContainAddress <=> state.read \in RowsOf(d)
    /\ state.read \in RowsOf(d) => state.last = RowAt(d, state.read)
    /\ state.isDiscardedFunction <=> InDiscarded(d, state.read + 1)
    /\ HasLive(d, state.read, state.kept)

\* At first nothing is read.
LEMMA ParseBegins ==
    ASSUME NEW d, IsDump(d)
    PROVE  Parsed(d, ParseStart)
<1>1. /\ IsParse(ParseStart) /\ ParseStart.read = 0 /\ ParseStart.kept = << >> /\ ParseStart.file = ""
      /\ ParseStart.didLastLineContainAddress = FALSE /\ ParseStart.isDiscardedFunction = FALSE
  BY EmptySeq DEF ParseStart, IsParse, IsList
<1>2. 0 \in 0 .. Len(d) /\ 0 \notin RowsOf(d)
  BY DEF IsDump, RowsOf
<1>3. Names(d, 0, "")
  BY DEF Names
<1>4. ~InDiscarded(d, 0 + 1)
  BY DEF InDiscarded
<1>5. HasLive(d, 0, << >>)
  <2>1. IsList(<< >>) /\ DOMAIN << >> = {}
    BY EmptySeq DEF IsList
  <2>2. ASSUME NEW row
        PROVE  CountOf(<< >>, row) = LiveBefore(d, 0, row)
    <3>1. {k \in DOMAIN << >> : << >>[k] = row} = {}
      BY <2>1
    <3>2. {m \in RowsOf(d) : m < 0 /\ RowAt(d, m) = row /\ IsLive(d, m)} = {}
      BY DEF RowsOf, IsDump
    <3>3. QED
      BY <3>1, <3>2 DEF CountOf, LiveBefore
  <2>3. QED
    BY <2>1, <2>2 DEF HasLive
<1> DEFINE state == ParseStart
<1> HIDE DEF state
<1>6. state.read \in 0 .. Len(d) /\ Names(d, state.read, state.file) /\ IsParse(state)
  BY <1>1, <1>2, <1>3 DEF state
<1>7. state.didLastLineContainAddress <=> state.read \in RowsOf(d)
  BY <1>1, <1>2 DEF state
<1>8. state.isDiscardedFunction <=> InDiscarded(d, state.read + 1)
  BY <1>1, <1>4 DEF state
<1>9. state.read \notin RowsOf(d) /\ HasLive(d, state.read, state.kept)
  BY <1>1, <1>2, <1>5 DEF state
<1>10. Parsed(d, state)
  BY <1>6, <1>7, <1>8, <1>9 DEF Parsed
<1>11. QED
  BY <1>10 DEF state

\* The address of a row is that of its line.
LEMMA AddressIs ==
    ASSUME NEW d, IsDump(d), NEW n \in RowsOf(d)
    PROVE  RowAt(d, n).address = d[n].address /\ RowAt(d, n).line = d[n].line
<1>1. n \in 1 .. Len(d)
  BY DEF RowsOf, IsDump
<1>2. IsText(d[n])
  BY <1>1 DEF IsDump
<1>3. d[n] = [kind |-> d[n].kind, file |-> d[n].file, line |-> d[n].line, address |-> d[n].address]
  BY <1>2 DEF IsText
<1> HIDE DEF IsDump
<1>4. QED
  BY <1>3 DEF RowAt


\* What is known of the lines that are read stays known with one more.
LEMMA ParseGoesOn ==
    ASSUME NEW d, IsDump(d), NEW state, Parsed(d, state), state.read < Len(d)
    PROVE  Parsed(d, ParseLine(state, d[state.read + 1]))
<1> DEFINE n        == state.read
           text     == d[n + 1]
           next     == ParseLine(state, text)
           discards == DiscardsAt(state, text)
           keeps    == KeepsAt(state, text)
<1>1. n \in 0 .. Len(d) - 1 /\ Len(d) \in Nat /\ n \in 0 .. Len(d) /\ n \in Nat
  BY DEF Parsed, IsDump
<1>2. /\ next.read = n + 1
      /\ next.kept = (IF keeps THEN Append(state.kept, state.last) ELSE state.kept)
      /\ next.isDiscardedFunction <=> discards
      /\ next.file = (IF text.kind = "unit" THEN text.file ELSE state.file)
      /\ next.didLastLineContainAddress <=> text.kind = "row" /\ state.file # ""
      /\ next.didLastLineContainAddress => next.last = [text EXCEPT !.file = state.file]
  <2>1. IsParse(state)
    BY DEF Parsed
  <2>2. IsNextParse(state, text, next)
    BY <2>1, ParseLineIs
  <2> HIDE DEF next, text
  <2>3. QED
    BY <2>2 DEF IsNextParse
<1>3. IsParse(next)
  <2>1. IsParse(state)
    BY DEF Parsed
  <2>2. QED
    BY <2>1, ParsedLine
<1>4. Names(d, n, state.file) /\ HasLive(d, n, state.kept)
  BY DEF Parsed
<1>5. /\ n + 1 \in RowsOf(d) <=> text.kind = "row" /\ state.file # ""
      /\ n + 1 \in RowsOf(d) => RowAt(d, n + 1) = [text EXCEPT !.file = state.file]
      /\ Names(d, n + 1, IF text.kind = "unit" THEN text.file ELSE state.file)
  BY <1>1, <1>4, RowsAre
<1>6. n \in RowsOf(d) => state.last = RowAt(d, n) /\ RowAt(d, n).address = d[n].address
  BY AddressIs DEF Parsed
<1>7. /\ state.didLastLineContainAddress <=> n \in RowsOf(d)
      /\ state.isDiscardedFunction <=> InDiscarded(d, n + 1)
  BY DEF Parsed
<1>8. discards <=> InDiscarded(d, (n + 1) + 1)
  <2>1. IsBlank(d, n + 1) <=> text.kind = "blank"
    BY <1>1 DEF IsBlank
  <2>2. Discards(d, n + 1) <=> IsBlank(d, n + 1) /\ n \in RowsOf(d) /\ d[n].address = 0
    <3>1. (n + 1) - 1 = n
      BY <1>1
    <3>2. QED
      BY <3>1 DEF Discards
  <2>3. n + 1 \in Nat \ {0}
    BY <1>1
  <2>4. InDiscarded(d, (n + 1) + 1) <=> IF IsBlank(d, n + 1) THEN Discards(d, n + 1) ELSE InDiscarded(d, n + 1)
    BY <2>3, Discarding
  <2>5. QED
    BY <1>6, <1>7, <2>1, <2>2, <2>4 DEF DiscardsAt
<1>9. keeps <=> n \in RowsOf(d) /\ IsLive(d, n)
  <2>1. n \in RowsOf(d) => (IsLive(d, n) <=> IF text.kind = "blank" THEN d[n].address # 0
                                             ELSE ~InDiscarded(d, n + 1))
    BY <1>1, LiveIs
  <2>2. QED
    BY <1>6, <1>7, <2>1 DEF KeepsAt, DiscardsAt
<1> HIDE DEF keeps, discards, next, text
<1>10. HasLive(d, n + 1, next.kept)
  <2>1. /\ n \in RowsOf(d) /\ IsLive(d, n) => HasLive(d, n + 1, Append(state.kept, RowAt(d, n)))
        /\ ~(n \in RowsOf(d) /\ IsLive(d, n)) => HasLive(d, n + 1, state.kept)
    BY <1>1, <1>4, LiveIsKept
  <2>2. QED
    BY <1>2, <1>6, <1>9, <2>1
<1>11. next.didLastLineContainAddress <=> next.read \in RowsOf(d)
  BY <1>2, <1>5
<1>12. next.read \in RowsOf(d) => next.last = RowAt(d, next.read)
  BY <1>2, <1>5, <1>11
<1>13. next.isDiscardedFunction <=> InDiscarded(d, next.read + 1)
  BY <1>2, <1>8
<1>14. next.read \in 0 .. Len(d) /\ Names(d, next.read, next.file) /\ HasLive(d, next.read, next.kept)
  <2>1. n + 1 \in 0 .. Len(d)
    BY <1>1
  <2>2. QED
    BY <1>2, <1>5, <1>10, <2>1, Zenon
<1>15. Parsed(d, next)
  BY <1>3, <1>11, <1>12, <1>13, <1>14 DEF Parsed
<1>16. QED
  BY <1>15 DEF next, text

\* What was appended last is taken back.
LEMMA FrontOfAppended ==
    ASSUME NEW list, IsList(list), NEW last
    PROVE  Front(Append(list, last)) = list
<1> DEFINE longer == Append(list, last)
<1>1. PICK S : list \in Seq(S)
  BY DEF IsList
<1> DEFINE T == S \cup {last}
<1>2. list \in Seq(T) /\ last \in T
  BY <1>1
<1> HIDE DEF T
<1>3. longer \in Seq(T) /\ Len(longer) = Len(list) + 1 /\ \A k \in 1 .. Len(list) : longer[k] = list[k]
  BY <1>2
<1> HIDE DEF longer
<1>4. Front(longer) = SubSeq(longer, 1, Len(longer) - 1)
  BY DEF Front
<1>5. Len(list) \in Nat /\ Len(longer) - 1 = Len(list)
  BY <1>2, <1>3
<1>6. Front(longer) = [k \in 1 .. Len(list) |-> longer[k]]
  BY <1>3, <1>4, <1>5
<1>7. list = [k \in 1 .. Len(list) |-> list[k]]
  BY <1>2
<1>8. Front(longer) = list
  BY <1>3, <1>6, <1>7
<1>9. QED
  BY <1>8 DEF longer

\* At the end of the dump the parser has kept the live rows.
LEMMA ParseEndIs ==
    ASSUME NEW d, IsDump(d), NEW state, Parsed(d, state), state.read = Len(d)
    PROVE  HasLive(d, Len(d) + 1, ParseEnd(state))
<1> DEFINE n     == Len(d)
           next  == ParseLine(state, Blank)
           keeps == KeepsAt(state, Blank)
<1>1. n \in 0 .. Len(d) /\ Len(d) \in Nat /\ IsParse(state) /\ IsList(state.kept)
  BY DEF Parsed, IsDump, IsParse
<1>2. /\ next.kept = (IF keeps THEN Append(state.kept, state.last) ELSE state.kept)
      /\ next.wasDiscarding = (IF keeps THEN state.isDiscardedFunction ELSE FALSE)
      /\ keeps <=> state.didLastLineContainAddress /\ state.last.address # 0
  <2> DEFINE text == Blank
  <2>1. text.kind = "blank"
    BY DEF Blank
  <2> HIDE DEF text
  <2>2. IsNextParse(state, text, ParseLine(state, text))
    BY <1>1, ParseLineIs
  <2>3. /\ ParseLine(state, text).kept = (IF KeepsAt(state, text) THEN Append(state.kept, state.last) ELSE state.kept)
        /\ ParseLine(state, text).wasDiscarding = (IF KeepsAt(state, text) THEN state.isDiscardedFunction ELSE FALSE)
    BY <2>1, <2>2 DEF IsNextParse
  <2>4. KeepsAt(state, text) <=> state.didLastLineContainAddress /\ state.last.address # 0
    BY <2>1 DEF KeepsAt, DiscardsAt
  <2>5. QED
    BY <2>3, <2>4, Zenon DEF text
<1>3. n \in RowsOf(d) => state.last = RowAt(d, n) /\ RowAt(d, n).address = d[n].address
  BY AddressIs DEF Parsed
<1>4. /\ state.didLastLineContainAddress <=> n \in RowsOf(d)
      /\ state.isDiscardedFunction <=> InDiscarded(d, n + 1)
      /\ HasLive(d, n, state.kept)
  BY DEF Parsed
<1>5. n \in RowsOf(d) => (IsLive(d, n) <=> d[n].address # 0 /\ ~InDiscarded(d, n + 1))
  BY LiveIs
<1>6. ParseEnd(state) = IF next.wasDiscarding THEN Front(next.kept) ELSE next.kept
  BY DEF ParseEnd
<1>7. keeps /\ ~state.isDiscardedFunction <=> n \in RowsOf(d) /\ IsLive(d, n)
  BY <1>2, <1>3, <1>4, <1>5
<1> HIDE DEF keeps, next
<1>8. ParseEnd(state) = IF keeps /\ ~state.isDiscardedFunction THEN Append(state.kept, state.last)
                        ELSE state.kept
  <2>1. Front(Append(state.kept, state.last)) = state.kept
    BY <1>1, FrontOfAppended
  <2>2. QED
    BY <1>2, <1>6, <2>1
<1>9. /\ n \in RowsOf(d) /\ IsLive(d, n) => HasLive(d, n + 1, Append(state.kept, RowAt(d, n)))
      /\ ~(n \in RowsOf(d) /\ IsLive(d, n)) => HasLive(d, n + 1, state.kept)
  BY <1>1, <1>4, LiveIsKept
<1>10. QED
  BY <1>3, <1>7, <1>8, <1>9


-----------------------------------------------------------------------------
(* The order of the rows.                                                  *)

\* The place of a file in strcmp's order, and the rows that can be compared.
Rank(file) == CHOOSE k \in DOMAIN Files : Files[k] = file
IsRow(row) == row.file \in Range(Files) /\ row.line \in Nat
AreRows(rows) == IsList(rows) /\ \A k \in DOMAIN rows : IsRow(rows[k])

\* No two files have the same place.
LEMMA RankIs ==
    ASSUME NEW file \in Range(Files)
    PROVE  Rank(file) \in Nat /\ Files[Rank(file)] = file
<1>1. DOMAIN Files \subseteq Nat
  <2>1. Files \in Seq(STRING \ {""})
    BY FilesAssumption, Zenon
  <2> DEFINE S == STRING \ {""}
  <2> HIDE DEF S
  <2>2. Files \in Seq(S)
    BY <2>1 DEF S
  <2>3. QED
    BY <2>2
<1>2. \E k \in DOMAIN Files : Files[k] = file
  BY DEF Range
<1>3. Rank(file) \in DOMAIN Files /\ Files[Rank(file)] = file
  BY <1>2 DEF Rank
<1>4. QED
  BY <1>1, <1>3

\* Rows compare by the places of their files, then by their lines.
LEMMA CompareIs ==
    ASSUME NEW row, NEW other
    PROVE  CompareLines(Files, row, other) <=>
               \/ Rank(row.file) < Rank(other.file)
               \/ row.file = other.file /\ row.line < other.line
BY DEF CompareLines, Rank

\* One row comes before another when it is lower, or as low and earlier.
IsBefore(rows, k, n) ==
    \/ CompareLines(Files, rows[k], rows[n])
    \/ ~CompareLines(Files, rows[n], rows[k]) /\ k < n
Befores(rows, n) == {k \in DOMAIN rows : IsBefore(rows, k, n)}
Place(rows, n) == 1 + Cardinality(Befores(rows, n))

\* The order is a strict and a total one.
LEMMA BeforeIsAnOrder ==
    ASSUME NEW rows, AreRows(rows), NEW j \in DOMAIN rows, NEW k \in DOMAIN rows, NEW n \in DOMAIN rows
    PROVE  /\ ~IsBefore(rows, n, n)
           /\ k # n => IsBefore(rows, k, n) \/ IsBefore(rows, n, k)
           /\ IsBefore(rows, j, k) /\ IsBefore(rows, k, n) => IsBefore(rows, j, n)
<1>1. j \in Nat /\ k \in Nat /\ n \in Nat
  BY ListPlaces DEF AreRows
<1> DEFINE rank(m) == Rank(rows[m].file)
           line(m) == rows[m].line
           Less(m, o) == rank(m) < rank(o) \/ (rank(m) = rank(o) /\ line(m) < line(o))
<1>2. \A m \in DOMAIN rows : IsRow(rows[m])
  BY DEF AreRows
<1>3. \A m \in DOMAIN rows : rank(m) \in Nat /\ line(m) \in Nat
  BY <1>2, RankIs DEF IsRow
<1>4. \A m, o \in DOMAIN rows : CompareLines(Files, rows[m], rows[o]) <=> Less(m, o)
  <2>1. \A m, o \in DOMAIN rows : rank(m) = rank(o) <=> rows[m].file = rows[o].file
    BY <1>2, RankIs DEF IsRow
  <2>2. SUFFICES ASSUME NEW m \in DOMAIN rows, NEW o \in DOMAIN rows
                 PROVE  CompareLines(Files, rows[m], rows[o]) <=> Less(m, o)
    OBVIOUS
  <2>3. CompareLines(Files, rows[m], rows[o]) <=>
          rank(m) < rank(o) \/ (rows[m].file = rows[o].file /\ line(m) < line(o))
    BY CompareIs
  <2>4. QED
    BY <2>1, <2>3, Zenon
<1>5. \A m, o \in DOMAIN rows : IsBefore(rows, m, o) <=> Less(m, o) \/ (~Less(o, m) /\ m < o)
  BY <1>4 DEF IsBefore
<1> HIDE DEF rank, line
<1>6. ~IsBefore(rows, n, n)
  BY <1>1, <1>3, <1>5
<1>7. k # n => IsBefore(rows, k, n) \/ IsBefore(rows, n, k)
  BY <1>1, <1>3, <1>5
<1>8. IsBefore(rows, j, k) /\ IsBefore(rows, k, n) => IsBefore(rows, j, n)
  <2>1. /\ IsBefore(rows, j, k) <=> Less(j, k) \/ (~Less(k, j) /\ j < k)
        /\ IsBefore(rows, k, n) <=> Less(k, n) \/ (~Less(n, k) /\ k < n)
        /\ IsBefore(rows, j, n) <=> Less(j, n) \/ (~Less(n, j) /\ j < n)
    BY <1>5
  <2>2. /\ rank(j) \in Nat /\ rank(k) \in Nat /\ rank(n) \in Nat
        /\ line(j) \in Nat /\ line(k) \in Nat /\ line(n) \in Nat
    BY <1>3
  <2>3. QED
    BY <1>1, <2>1, <2>2
<1>9. QED
  BY <1>6, <1>7, <1>8

\* Places grow with the order, and each row has one in the list.
LEMMA PlacesGrow ==
    ASSUME NEW rows, AreRows(rows), NEW n \in DOMAIN rows
    PROVE  /\ Place(rows, n) \in DOMAIN rows
           /\ \A k \in DOMAIN rows : IsBefore(rows, k, n) => Place(rows, k) < Place(rows, n)
<1> DEFINE L == Len(rows)
<1>1. DOMAIN rows = 1 .. L /\ L \in Nat
  BY ListPlaces DEF AreRows
<1>2. IsFiniteSet(1 .. L) /\ Cardinality(1 .. L) = L
  <2>1. IsFiniteSet(1 .. L) /\ Cardinality(1 .. L) = IF 1 > L THEN 0 ELSE L - 1 + 1
    BY <1>1, FS_Interval
  <2>2. QED
    BY <1>1, <2>1
<1> HIDE DEF L
<1>3. ASSUME NEW m \in DOMAIN rows
      PROVE  /\ IsFiniteSet(Befores(rows, m)) /\ Cardinality(Befores(rows, m)) \in Nat
             /\ IsFiniteSet(Befores(rows, m) \cup {m}) /\ Befores(rows, m) \cup {m} \subseteq 1 .. L
             /\ Cardinality(Befores(rows, m) \cup {m}) = Cardinality(Befores(rows, m)) + 1
  <2>1. Befores(rows, m) \in SUBSET (1 .. L) /\ m \in 1 .. L
    BY <1>1 DEF Befores
  <2>2. m \notin Befores(rows, m)
    BY BeforeIsAnOrder DEF Befores
  <2>3. IsFiniteSet(Befores(rows, m))
    BY <1>2, <2>1, FS_Subset
  <2>4. QED
    BY <2>1, <2>2, <2>3, FS_CardinalityType, FS_AddElement
<1>4. Place(rows, n) \in DOMAIN rows
  <2>1. Cardinality(Befores(rows, n) \cup {n}) <= L
    BY <1>2, <1>3, FS_Subset
  <2>2. Cardinality(Befores(rows, n)) \in Nat /\ Cardinality(Befores(rows, n)) + 1 <= L
    BY <1>3, <2>1
  <2>3. 1 + Cardinality(Befores(rows, n)) \in 1 .. L
    BY <1>1, <2>2
  <2>4. QED
    BY <1>1, <2>3 DEF Place
<1>5. ASSUME NEW k \in DOMAIN rows, IsBefore(rows, k, n)
      PROVE  Place(rows, k) < Place(rows, n)
  <2>1. Befores(rows, k) \cup {k} \subseteq Befores(rows, n)
    BY <1>5, BeforeIsAnOrder DEF Befores
  <2>2. Cardinality(Befores(rows, k) \cup {k}) <= Cardinality(Befores(rows, n))
    BY <1>3, <2>1, FS_Subset
  <2>3. Cardinality(Befores(rows, k)) + 1 <= Cardinality(Befores(rows, n))
    BY <1>3, <2>2
  <2>4. Cardinality(Befores(rows, k)) \in Nat /\ Cardinality(Befores(rows, n)) \in Nat
    BY <1>3
  <2>5. 1 + Cardinality(Befores(rows, k)) < 1 + Cardinality(Befores(rows, n))
    BY <2>3, <2>4
  <2>6. QED
    BY <2>5 DEF Place
<1>6. QED
  BY <1>4, <1>5

\* A list in the order of its rows has each of them at its place.
Puts(rows, p) == CHOOSE n \in DOMAIN rows : Place(rows, n) = p

LEMMA PutsIs ==
    ASSUME NEW rows, AreRows(rows)
    PROVE  /\ \A p \in DOMAIN rows : Puts(rows, p) \in DOMAIN rows /\ Place(rows, Puts(rows, p)) = p
           /\ \A n \in DOMAIN rows : Puts(rows, Place(rows, n)) = n
<1> DEFINE D == DOMAIN rows
           place == [n \in D |-> Place(rows, n)]
<1>1. IsFiniteSet(D)
  <2>1. D = 1 .. Len(rows) /\ Len(rows) \in Nat
    BY ListPlaces DEF AreRows
  <2>2. QED
    BY <2>1, FS_Interval
<1>2. \A n \in D : Place(rows, n) \in D /\ Place(rows, n) \in Nat
  <2>1. D \subseteq Nat
    BY ListPlaces DEF AreRows
  <2>2. QED
    BY <2>1, PlacesGrow
<1>3. \A k, n \in D : Place(rows, k) = Place(rows, n) => k = n
  <2>1. SUFFICES ASSUME NEW k \in D, NEW n \in D, k # n
                 PROVE  Place(rows, k) # Place(rows, n)
    OBVIOUS
  <2>2. IsBefore(rows, k, n) \/ IsBefore(rows, n, k)
    BY <2>1, BeforeIsAnOrder
  <2>3. Place(rows, k) < Place(rows, n) \/ Place(rows, n) < Place(rows, k)
    BY <2>1, <2>2, PlacesGrow
  <2>4. QED
    BY <1>2, <2>1, <2>3
<1>4. place \in Injection(D, D)
  BY <1>2, <1>3 DEF Injection, IsInjective
<1>5. place \in Surjection(D, D)
  <2> HIDE DEF D, place
  <2>1. QED
    BY <1>1, <1>4, FS_Injection
<1>6. \A p \in D : \E n \in D : Place(rows, n) = p
  BY <1>5 DEF Surjection
<1>7. \A p \in D : Puts(rows, p) \in D /\ Place(rows, Puts(rows, p)) = p
  BY <1>6 DEF Puts
<1>8. QED
  BY <1>2, <1>3, <1>7

\* Sorting puts the rows into their places: none is lost and none is lower than
\* one in front of it.
LEMMA SortedIs ==
    ASSUME NEW rows, AreRows(rows)
    PROVE  LET sorted == Sorted(Files, rows)
           IN  /\ DOMAIN sorted = DOMAIN rows
               /\ \A p \in DOMAIN rows : sorted[p] = rows[Puts(rows, p)]
               /\ \A p, q \in DOMAIN rows : p < q => ~CompareLines(Files, sorted[q], sorted[p])
<1> DEFINE sorted == Sorted(Files, rows)
<1>1. sorted = [p \in DOMAIN rows |-> rows[Puts(rows, p)]]
  BY DEF Sorted, Puts, Place, Befores, IsBefore
<1> HIDE DEF sorted
<1>2. ASSUME NEW p \in DOMAIN rows, NEW q \in DOMAIN rows, p < q, CompareLines(Files, sorted[q], sorted[p])
      PROVE  FALSE
  <2>1. /\ Puts(rows, p) \in DOMAIN rows /\ Place(rows, Puts(rows, p)) = p
        /\ Puts(rows, q) \in DOMAIN rows /\ Place(rows, Puts(rows, q)) = q
    BY PutsIs
  <2>2. IsBefore(rows, Puts(rows, q), Puts(rows, p))
    BY <1>1, <1>2 DEF IsBefore
  <2>3. q < p
    BY <2>1, <2>2, PlacesGrow
  <2>4. p \in Nat /\ q \in Nat
    BY ListPlaces DEF AreRows
  <2>5. QED
    BY <1>2, <2>3, <2>4
<1>3. QED
  BY <1>1, <1>2 DEF sorted


\* A row of a dump names one of the files.
LEMMA RowsNameFiles ==
    ASSUME NEW d, IsDump(d), NEW m \in RowsOf(d)
    PROVE  IsRow(RowAt(d, m))
<1>1. /\ m \in 1 .. Len(d) /\ m \in Nat /\ Len(d) \in Nat
      /\ \E u \in 1 .. m - 1 : d[u].kind = "unit"
  BY DEF RowsOf, IsDump
<1> DEFINE IsUnit(u) == u \in 1 .. m - 1 /\ d[u].kind = "unit"
           S == {k \in Nat : \E u \in 1 .. m - 1 : IsUnit(u) /\ k = m - u}
<1>2. \E u : IsLastUnit(d, u, m - 1)
  <2>1. S \subseteq Nat /\ S # {}
    <3>1. PICK u \in 1 .. m - 1 : IsUnit(u)
      BY <1>1
    <3>2. m - u \in Nat
      BY <1>1
    <3>3. m - u \in S
      BY <3>1, <3>2
    <3>4. QED
      BY <3>3
  <2>2. PICK low \in S : \A k \in S : low <= k
    <3> HIDE DEF S
    <3>1. QED
      BY <2>1, HasLowest
  <2>3. PICK u \in 1 .. m - 1 : IsUnit(u) /\ low = m - u
    BY <2>2
  <2>4. ASSUME NEW v \in u + 1 .. m - 1, d[v].kind = "unit"
        PROVE  FALSE
    <3>1. v \in 1 .. m - 1 /\ m - v \in Nat
      BY <1>1
    <3>2. m - v \in S
      BY <2>4, <3>1
    <3>3. m - u <= m - v
      BY <2>2, <2>3, <3>2
    <3>4. QED
      BY <1>1, <3>3
  <2>5. QED
    BY <2>3, <2>4 DEF IsLastUnit
<1>3. PICK u : IsLastUnit(d, u, m - 1)
  BY <1>2
<1>4. RowAt(d, m) = [d[m] EXCEPT !.file = d[u].file]
  BY <1>1, <1>3, RowIs
<1>5. u \in 1 .. Len(d) /\ d[u].kind = "unit"
  BY <1>1, <1>3 DEF IsLastUnit
<1>6. IsText(d[m]) /\ IsText(d[u])
  BY <1>1, <1>5 DEF IsDump
<1> HIDE DEF IsDump
<1>7. d[u].file \in Range(Files)
  <2>1. \A text : IsText(text) /\ text.kind = "unit" => text.file \in Range(Files)
    BY DEF IsText
  <2>2. QED
    BY <1>5, <1>6, <2>1
<1>8. /\ d[m] = [kind |-> d[m].kind, file |-> d[m].file, line |-> d[m].line, address |-> d[m].address]
      /\ d[m].line \in Nat
  BY <1>6 DEF IsText
<1>9. QED
  BY <1>4, <1>7, <1>8 DEF IsRow

\* Rows in their order have none in front of a lower one.
InOrder(table) == \A p, q \in DOMAIN table : p < q => ~CompareLines(Files, table[q], table[p])

\* Sorted, each row is there as often as before.
LEMMA SortedCounts ==
    ASSUME NEW rows, AreRows(rows), NEW row
    PROVE  CountOf(Sorted(Files, rows), row) = CountOf(rows, row)
<1> DEFINE sorted == Sorted(Files, rows)
           D == DOMAIN rows
           S == {p \in D : sorted[p] = row}
           T == {n \in D : rows[n] = row}
           puts == [p \in S |-> Puts(rows, p)]
<1>1. DOMAIN sorted = D /\ \A p \in D : sorted[p] = rows[Puts(rows, p)]
  BY SortedIs
<1>2. /\ \A p \in D : Puts(rows, p) \in D /\ Place(rows, Puts(rows, p)) = p
      /\ \A n \in D : Puts(rows, Place(rows, n)) = n /\ Place(rows, n) \in D
  BY PutsIs, PlacesGrow
<1> HIDE DEF sorted
<1>3. IsFiniteSet(S)
  <2>1. D = 1 .. Len(rows) /\ Len(rows) \in Nat
    BY ListPlaces DEF AreRows
  <2>2. IsFiniteSet(D)
    BY <2>1, FS_Interval
  <2>3. QED
    BY <2>2, FS_Subset
<1>4. puts \in Bijection(S, T)
  <2>1. \A p \in S : Puts(rows, p) \in T
    BY <1>1, <1>2
  <2>2. \A p, q \in S : Puts(rows, p) = Puts(rows, q) => p = q
    BY <1>2
  <2>3. \A n \in T : Place(rows, n) \in S /\ Puts(rows, Place(rows, n)) = n
    BY <1>1, <1>2
  <2> HIDE DEF S, T
  <2>4. puts \in Injection(S, T)
    BY <2>1, <2>2 DEF Injection, IsInjective
  <2>5. puts \in Surjection(S, T)
    BY <2>1, <2>3 DEF Surjection
  <2>6. QED
    BY <2>4, <2>5 DEF Bijection
<1>5. Cardinality(T) = Cardinality(S)
  <2> HIDE DEF S, T, puts
  <2>1. ExistsBijection(S, T)
    BY <1>4 DEF ExistsBijection
  <2>2. QED
    BY <1>3, <2>1, FS_Bijection
<1>6. QED
  BY <1>1, <1>5 DEF CountOf, sorted

\* The live rows are the same when they are sorted, and they are in order.
LEMMA SortedIsLive ==
    ASSUME NEW d, IsDump(d), NEW n, NEW rows, HasLive(d, n, rows), IsList(Sorted(Files, rows))
    PROVE  HasLive(d, n, Sorted(Files, rows)) /\ InOrder(Sorted(Files, rows))
<1>1. AreRows(rows)
  BY RowsNameFiles DEF AreRows, HasLive, Rows
<1> DEFINE sorted == Sorted(Files, rows)
<1>2. /\ DOMAIN sorted = DOMAIN rows
      /\ \A p \in DOMAIN rows : sorted[p] = rows[Puts(rows, p)] /\ Puts(rows, p) \in DOMAIN rows
      /\ \A p, q \in DOMAIN rows : p < q => ~CompareLines(Files, sorted[q], sorted[p])
  BY <1>1, SortedIs, PutsIs
<1>3. \A row : CountOf(sorted, row) = LiveBefore(d, n, row)
  BY <1>1, SortedCounts DEF HasLive
<1> HIDE DEF sorted
<1>4. \A p \in DOMAIN sorted : sorted[p] \in Rows(d)
  BY <1>2 DEF HasLive
<1>5. HasLive(d, n, sorted)
  BY <1>3, <1>4 DEF HasLive, sorted
<1>6. QED
  BY <1>2, <1>5 DEF InOrder, sorted


-----------------------------------------------------------------------------
(* The rows that are kept, in every state.                                 *)

\* The parser knows of the lines it has read, and the table has the live rows.
KeptInv ==
    /\ IsDump(dump) /\ Parsed(dump, parse)
    /\ elf # NoLines => HasLive(dump, Len(dump) + 1, elf) /\ InOrder(elf)

\* The program and the monitor leave the dump and the coverage alone.
LEMMA MainKeepsDump ==
    ASSUME MainStep
    PROVE  dump' = dump /\ sources' = sources /\ UNCHANGED coverage /\ program' = program
BY DEF MainStep, BeginMain, SocketCommInit, CreateSocket, BindAndListen, EndSocketInit, CatchSocket,
       Mri4SimInit, CopyCommandLineArgumentsToStack, EndCopy, CatchArguments,
       BreakOnStart, ShouldInterruptRun, PinkySimStep, IsExitSemihost, EnteringDebugger, BeginPacket,
       SendPacketChar, ReceiveFails, ReceiveAcknowledge, ReceiveCommand, SkipHardcodedBreakpoint,
       AdvanceProgramCounter, EndMain, CatchMain, UninitMain, KeepsFiles, Stopped, inputs, reads,
       thread, InstructionIsRead, ProgramReads

\* The coverage leaves the host's files and the options alone.
LEMMA CoverageReads ==
    ASSUME CoverageStep
    PROVE  UNCHANGED <<options, inputs>>
BY DEF CoverageStep, Covers, RunCodeCoverageIfRequested, CodeCoverageRun, InitPrivateData,
     ParseElf, ElfLinesParse, OpenPipe, AllocateElfLines, ParseElfLine, SortElfLines,
     CatchElfLines, EndParseElf, CatchParse, OpenSummary, WalkEnds, WalkSourceFile, OpenSource,
     ReadSource, OpenDest, WriteLine, EndOfSource, UninitAfterWalk, EndRun, CatchRun,
     RethrowRun, EndCoverage, CatchCoverage

\* The dump, the sources and the program stay what they are.
LEMMA SessionStays ==
    ASSUME [Next]_vars
    PROVE  dump' = dump /\ sources' = sources /\ program' = program
<1>1. CASE MainStep
  BY <1>1, MainKeepsDump
<1>2. CASE CommandLineStep /\ UNCHANGED <<socket, semihost, inputs, coverage, thread>>
  BY <1>2 DEF inputs, thread
<1>3. CASE SemihostStep /\ UNCHANGED <<dump, sources, coverage, thread>>
  BY <1>3 DEF inputs, thread
<1>4. CASE CoverageStep /\ UNCHANGED <<socket, semihost, thread>>
  BY <1>4, CoverageReads DEF inputs, thread
<1>5. CASE GdbSide
  BY <1>5 DEF GdbSide, inputs, thread
<1>6. CASE UNCHANGED vars
  BY <1>6 DEF vars, inputs, thread
<1>7. QED
  BY <1>1, <1>2, <1>3, <1>4, <1>5, <1>6 DEF Next, Process

\* What the steps of the coverage do to the parser and to its table.
LEMMA TableChanges ==
    ASSUME CoverageStep
    PROVE  /\ \/ parse' = parse \/ parse' = ParseStart
              \/ parse.read < Len(dump) /\ parse' = ParseLine(parse, dump[parse.read + 1])
           /\ \/ elf' = elf \/ elf' = NoLines
              \/ parse.read = Len(dump) /\ elf' = Sorted(Files, ParseEnd(parse))
BY DEF CoverageStep, Covers, Keeps, coverage, RunCodeCoverageIfRequested, CodeCoverageRun,
     InitPrivateData, ParseElf, ElfLinesParse, OpenPipe, AllocateElfLines, ParseElfLine, SortElfLines,
     CatchElfLines, EndParseElf, CatchParse, OpenSummary, WalkEnds, WalkSourceFile, OpenSource,
     ReadSource, OpenDest, WriteLine, EndOfSource, UninitAfterWalk, EndRun, CatchRun,
     RethrowRun, EndCoverage, CatchCoverage

\* What each session finds.
LEMMA SessionsAre ==
    ASSUME NEW s \in Sessions
    PROVE  /\ IsDump(s.dump) /\ s.sources \in [Range(Files) -> Nat]
           /\ IsList(s.program) /\ Len(s.program) \in Nat \ {0}
           /\ s.program[Len(s.program)].kind = "exit"
           /\ \A k \in DOMAIN s.program : ReadsMemory(s.program[k])
<1>1. /\ s.program \in Seq(Range(s.program)) \ {<< >>} /\ Last(s.program).kind = "exit"
      /\ \A k \in DOMAIN s.program : ReadsMemory(s.program[k])
      /\ s.dump \in Seq(Range(s.dump)) /\ \A n \in DOMAIN s.dump : IsText(s.dump[n])
      /\ s.sources \in [Range(Files) -> Nat]
  BY SessionsAssumption, Zenon
<1>2. /\ s.dump = [n \in 1 .. Len(s.dump) |-> s.dump[n]] /\ Len(s.dump) \in Nat
      /\ DOMAIN s.dump = 1 .. Len(s.dump)
  <2> DEFINE d == s.dump
             S == Range(d)
  <2> HIDE DEF d, S
  <2>1. d \in Seq(S)
    BY <1>1 DEF d, S
  <2>2. d = [n \in 1 .. Len(d) |-> d[n]] /\ Len(d) \in Nat /\ DOMAIN d = 1 .. Len(d)
    BY <2>1
  <2>3. QED
    BY <2>2 DEF d
<1>3. IsDump(s.dump)
  BY <1>1, <1>2 DEF IsDump
<1>4. IsList(s.program) /\ Len(s.program) \in Nat \ {0}
  <2> DEFINE p == s.program
             S == Range(p)
  <2> HIDE DEF p, S
  <2>1. p \in Seq(S) /\ p # << >>
    BY <1>1 DEF p, S
  <2>2. Len(p) \in Nat \ {0}
    BY <2>1
  <2>3. QED
    BY <2>1, <2>2 DEF p, IsList
<1>5. s.program[Len(s.program)].kind = "exit"
  BY <1>1 DEF Last
<1>6. QED
  BY <1>1, <1>3, <1>4, <1>5

\* At first nothing is read of the dump.
LEMMA KeptInit == Init => KeptInv
<1> SUFFICES ASSUME Init
             PROVE  KeptInv
  OBVIOUS
<1>1. PICK s \in Sessions : dump = s.dump
  BY DEF Init
<1>2. IsDump(dump)
  BY <1>1, SessionsAre
<1>3. parse = ParseStart /\ elf = NoLines
  BY DEF Init
<1>4. QED
  BY <1>2, <1>3, ParseBegins DEF KeptInv

\* Every step keeps what is known of the rows.
LEMMA KeptNext == KeptInv /\ [Next]_vars => KeptInv'
<1> SUFFICES ASSUME KeptInv, [Next]_vars
             PROVE  KeptInv'
  OBVIOUS
<1>1. dump' = dump
  BY SessionStays
<1>2. IsDump(dump) /\ Parsed(dump, parse)
  BY DEF KeptInv
<1> DEFINE Kept(table) == table # NoLines => HasLive(dump, Len(dump) + 1, table) /\ InOrder(table)
<1>3. Kept(elf)
  BY DEF KeptInv
<1>4. CASE CoverageStep
  <2>1. Parsed(dump, parse')
    <3>1. parse.read < Len(dump) => Parsed(dump, ParseLine(parse, dump[parse.read + 1]))
      BY <1>2, ParseGoesOn
    <3>2. Parsed(dump, ParseStart)
      BY <1>2, ParseBegins
    <3>3. QED
      BY <1>2, <1>4, <3>1, <3>2, TableChanges, Zenon
  <2>2. Kept(elf')
    <3>1. ASSUME parse.read = Len(dump)
          PROVE  Kept(Sorted(Files, ParseEnd(parse)))
      <4> DEFINE rows == ParseEnd(parse)
      <4>1. IsParse(parse) /\ HasLive(dump, Len(dump) + 1, rows)
        BY <1>2, <3>1, ParseEndIs DEF Parsed
      <4>2. IsList(Sorted(Files, rows))
        BY <4>1, SortedTable DEF IsTable
      <4> HIDE DEF rows
      <4>3. HasLive(dump, Len(dump) + 1, Sorted(Files, rows)) /\ InOrder(Sorted(Files, rows))
        BY <1>2, <4>1, <4>2, SortedIsLive
      <4>4. QED
        BY <4>3 DEF rows
    <3>2. Kept(NoLines)
      OBVIOUS
    <3> HIDE DEF Kept
    <3>3. QED
      BY <1>3, <1>4, <3>1, <3>2, TableChanges, Zenon
  <2>3. QED
    BY <1>1, <1>2, <2>1, <2>2 DEF KeptInv
<1>5. CASE ~CoverageStep
  <2>1. parse' = parse /\ elf' = elf
    BY <1>5, MainKeepsDump DEF Next, Process, GdbSide, vars, coverage
  <2>2. QED
    BY <1>1, <1>2, <1>3, <2>1 DEF KeptInv
<1>6. QED
  BY <1>4, <1>5

\* The rows that are kept of the dump are those of the functions that the linker
\* kept, each as often as it is there, whatever the order of the dump's lines;
\* a table that could not be read is never walked.
THEOREM RowsAreLive == Spec => []KeptLinesAreLive
<1>1. ExitInv /\ KeptInv => KeptLinesAreLive
  <2> SUFFICES ASSUME ExitInv, KeptInv
               PROVE  KeptLinesAreLive
    OBVIOUS
  <2>1. at = "walk" => elf # NoLines
    BY CoverageKnows DEF Walked, WalkInv, IsTable
  <2>2. ASSUME elf # NoLines, NEW row
        PROVE  Cardinality({k \in DOMAIN elf : elf[k] = row}) =
               Cardinality({n \in RowsOf(dump) : RowAt(dump, n) = row /\ IsLive(dump, n)})
    <3>1. CountOf(elf, row) = LiveBefore(dump, Len(dump) + 1, row)
      BY <2>2 DEF KeptInv, HasLive
    <3>2. \A n \in RowsOf(dump) : n < Len(dump) + 1
      BY DEF RowsOf, KeptInv, IsDump
    <3>3. {n \in RowsOf(dump) : n < Len(dump) + 1 /\ RowAt(dump, n) = row /\ IsLive(dump, n)} =
          {n \in RowsOf(dump) : RowAt(dump, n) = row /\ IsLive(dump, n)}
      BY <3>2
    <3>4. QED
      BY <3>1, <3>3 DEF CountOf, LiveBefore
  <2>3. QED
    BY <2>1, <2>2 DEF KeptLinesAreLive
<1>2. Init => ExitInv /\ KeptInv
  BY ExitInit, KeptInit
<1>3. Inv /\ ExitInv /\ KeptInv /\ [Next]_vars => ExitInv' /\ KeptInv'
  BY ExitNext, KeptNext
<1>4. QED
  BY <1>1, <1>2, <1>3, ProcessIsTracked, PTL DEF Spec


-----------------------------------------------------------------------------
(* The reads of the flash.                                                 *)

\* A call of the host is served where the program is at one, and only GDB's
\* answer to one, or its command at a breakpoint, steps over an instruction:
\* the program does not go on behind its exit.
CallPlaces == {"semihost", "writeConsole", "readFromFile"}
TellPlaces == {"packet", "send", "acknowledge", "command"}
IdlePlaces == RunningPlaces \ TellPlaces

CallsInv ==
    /\ IsList(program) /\ done \in 0 .. Len(program) - 1 /\ program[Len(program)].kind = "exit"
    /\ at \in IdlePlaces => request = FALSE
    /\ at \in TellPlaces /\ request => Current.kind = "call"
    /\ at \in CallPlaces => Current.kind = "call"
    /\ at = "advance" => Current.kind \in {"call", "bkpt"}

\* The instruction stays, and whether GDB is to answer.
Stays == request' = request /\ done' = done /\ program' = program

\* The steps that serve no call and stay at their instruction.
LEMMA IdleStep ==
    ASSUME CallsInv, at \in IdlePlaces, at' \notin CallPlaces \cup {"advance"},
           Stays
    PROVE  CallsInv'
BY DEF CallsInv, Current, Stays

\* The steps that tell GDB of a stop, or ask it to answer a call.
LEMMA TellStep ==
    ASSUME CallsInv, at \in TellPlaces, at' \in TellPlaces \cup EndPlaces \cup {"catchMain"},
           Stays
    PROVE  CallsInv'
<1>1. at' \notin CallPlaces \cup IdlePlaces /\ at' # "advance"
  BY DEF TellPlaces, CallPlaces, IdlePlaces, EndPlaces, RunningPlaces, RunPlaces, SetupPlaces, CopyPlaces,
     BeforePlaces, ParsePlaces, ImagePlaces, LoadPlaces, SocketPlaces
<1>2. QED
  BY <1>1 DEF CallsInv, Current, Stays

\* When the program is over, nothing is served.
LEMMA OverStep ==
    ASSUME CallsInv, at' \notin RunningPlaces, done' = done, program' = program
    PROVE  CallsInv'
<1>1. at' \notin CallPlaces \cup IdlePlaces \cup TellPlaces /\ at' # "advance"
  BY DEF TellPlaces, CallPlaces, IdlePlaces, RunningPlaces, RunPlaces
<1>2. QED
  BY <1>1 DEF CallsInv, Current

\* Behind an instruction that is not the exit there is another.
LEMMA InstructionDone ==
    ASSUME CallsInv, at \in IdlePlaces, at' = "run", Current.kind # "exit", request' = request,
           done' = done + 1, program' = program
    PROVE  CallsInv'
<1>1. Len(program) \in Nat /\ done \in 0 .. Len(program) - 1 /\ done + 1 # Len(program)
  BY ListPlaces DEF CallsInv, Current
<1>2. done' \in 0 .. Len(program') - 1
  BY <1>1
<1>3. at' \notin CallPlaces \cup TellPlaces
  BY DEF CallPlaces, TellPlaces
<1>4. QED
  BY <1>2, <1>3 DEF CallsInv

\* The places where no GDB is talked to, and those where the program is over.
LEMMA WhereItIdles ==
    /\ {"main", "listen", "createSocket", "bind", "listening", "catchSocket", "mri4simInit",
         "copyArguments", "copied", "catchArguments", "run", "step", "isExit", "exception",
         "semihost", "writeConsole", "readFromFile", "resume", "advance"} \subseteq IdlePlaces
    /\ SetupPlaces \subseteq IdlePlaces
    /\ {"catchMain", "uninit", "exited", "ran"} \cap RunningPlaces = {}
    /\ SetupPlaces \cap CallPlaces = {} /\ "advance" \notin SetupPlaces
BY DEF TellPlaces, IdlePlaces, RunningPlaces, RunPlaces, CopyPlaces, SetupPlaces, BeforePlaces,
       ParsePlaces, ImagePlaces, LoadPlaces, SocketPlaces, CallPlaces

USE DEF At, Goes, Rethrow, Fails, Works, Acquire, Release, TriedAndFailed, TriedAndPassed, noException

\* main and the run loop keep to it.
LEMMA MainCalls ==
    ASSUME ProcessInv, CallsInv, MainStep
    PROVE  CallsInv'
<1>1. CASE BeginMain
  <2>1. at = "main" /\ at' \in {"commandLine"} /\ Stays
    BY <1>1 DEF Stays, BeginMain, KeepsFiles, semihost, thread, Try
  <2>2. QED
    BY <2>1, IdleStep, WhereItIdles DEF CallPlaces
<1>2. CASE SocketCommInit
  <2>1. at = "listen" /\ at' \in {"createSocket"} /\ Stays
    BY <1>2 DEF Stays, SocketCommInit, KeepsFiles, semihost, thread, Try
  <2>2. QED
    BY <2>1, IdleStep, WhereItIdles DEF CallPlaces
<1>3. CASE CreateSocket
  <2>1. at = "createSocket" /\ at' \in {"bind", "catchSocket"} /\ Stays
    BY <1>3, Leaves, Unwinding DEF Stays, CreateSocket, KeepsFiles, semihost, thread, Unwinds,
       SocketPlaces
  <2>2. QED
    BY <2>1, IdleStep, WhereItIdles DEF CallPlaces
<1>4. CASE BindAndListen
  <2>1. at = "bind" /\ at' \in {"listening", "catchSocket"} /\ Stays
    BY <1>4, Leaves, Unwinding DEF Stays, BindAndListen, KeepsFiles, semihost, thread, Unwinds,
       SocketPlaces
  <2>2. QED
    BY <2>1, IdleStep, WhereItIdles DEF CallPlaces
<1>5. CASE EndSocketInit
  <2>1. at = "listening" /\ at' \in {"mri4simInit", "catchSocket"} /\ Stays
    BY <1>5, Leaves, Unwinding DEF Stays, EndSocketInit, KeepsFiles, semihost, Unwinds, SocketPlaces
  <2>2. QED
    BY <2>1, IdleStep, WhereItIdles DEF CallPlaces
<1>6. CASE CatchSocket
  <2>1. at = "catchSocket" /\ at' \in {"catchMain"} /\ Stays
    BY <1>6, Leaves, Unwinding DEF Stays, CatchSocket, KeepsFiles, semihost, thread, Unwinds,
       BeforePlaces
  <2>2. QED
    BY <2>1, IdleStep, WhereItIdles DEF CallPlaces
<1>7. CASE Mri4SimInit
  <2>1. at = "mri4simInit" /\ at' \in {"copyArguments", "catchMain"} /\ Stays
    BY <1>7, Leaves, Unwinding DEF Stays, Mri4SimInit, KeepsFiles, semihost, thread, Try, Unwinds,
       RunPlaces
  <2>2. QED
    BY <2>1, IdleStep, WhereItIdles DEF CallPlaces
<1>8. CASE CopyCommandLineArgumentsToStack
  <2>1. at = "copyArguments" /\ at' \in {"copied", "catchArguments"} /\ Stays
    BY <1>8, Leaves, Unwinding DEF Stays, CopyCommandLineArgumentsToStack, KeepsFiles, semihost,
       thread, Unwinds, CopyPlaces
  <2>2. QED
    BY <2>1, IdleStep, WhereItIdles DEF CallPlaces
<1>9. CASE EndCopy
  <2>1. at = "copied" /\ at' \in {"run", "catchArguments"} /\ Stays
    BY <1>9, Leaves, Unwinding DEF Stays, EndCopy, KeepsFiles, semihost, Unwinds, CopyPlaces
  <2>2. QED
    BY <2>1, IdleStep, WhereItIdles DEF CallPlaces
<1>10. CASE CatchArguments
  <2>1. at = "catchArguments" /\ at' \in {"catchMain"} /\ Stays
    BY <1>10, Leaves, Unwinding DEF Stays, CatchArguments, KeepsFiles, semihost, thread, Unwinds,
       RunPlaces
  <2>2. QED
    BY <2>1, IdleStep, WhereItIdles DEF CallPlaces
<1>11. CASE BreakOnStart
  <2>1. at = "run" /\ at' \in {"exception"} /\ Stays
    BY <1>11 DEF Stays, BreakOnStart, KeepsFiles, semihost
  <2>2. QED
    BY <2>1, IdleStep, WhereItIdles DEF CallPlaces
<1>12. CASE ShouldInterruptRun
  <2>1. at = "run" /\ at' \in {"step", "exception", "catchMain"} /\ Stays
    BY <1>12, Leaves, Unwinding DEF Stays, ShouldInterruptRun, KeepsFiles, semihost,
       IsGdbConnectedFails, Unwinds, RunPlaces
  <2>2. QED
    BY <2>1, IdleStep, WhereItIdles DEF CallPlaces
<1>13. CASE PinkySimStep
  <2>1. at = "step" /\ request' = request /\ program' = program
    BY <1>13 DEF PinkySimStep, semihost
  <2>2. \/ at' = "isExit" /\ done' = done
        \/ at' = "run" /\ done' = done + 1 /\ Current.kind # "exit"
    BY <1>13 DEF PinkySimStep, Breaks
  <2>3. at \in IdlePlaces
    BY <2>1, WhereItIdles
  <2>4. CASE at' = "isExit" /\ done' = done
    BY <2>1, <2>3, <2>4, IdleStep DEF CallPlaces, Stays
  <2>5. CASE at' = "run" /\ done' = done + 1 /\ Current.kind # "exit"
    BY <2>1, <2>3, <2>5, InstructionDone
  <2>6. QED
    BY <2>2, <2>4, <2>5
<1>14. CASE IsExitSemihost
  <2>1. at = "isExit" /\ at' \in {"ran", "exception"} /\ Stays
    BY <1>14 DEF Stays, IsExitSemihost, KeepsFiles, semihost
  <2>2. QED
    BY <2>1, IdleStep, WhereItIdles DEF CallPlaces
<1>15. CASE EnteringDebugger
  <2>1. /\ at = "exception" /\ Stays
        /\ \/ at' = "packet" \/ (at' = "semihost" /\ Current.kind = "call")
    BY <1>15 DEF EnteringDebugger, Stopped, Stays
  <2>2. at \in IdlePlaces
    BY <2>1, WhereItIdles
  <2>3. CASE at' = "packet"
    BY <2>1, <2>2, <2>3, IdleStep DEF CallPlaces
  <2>4. CASE at' = "semihost" /\ Current.kind = "call"
    <3>1. at' # "advance" /\ at' \notin TellPlaces /\ Current' = Current
      BY <2>1, <2>4 DEF TellPlaces, Current, Stays
    <3>2. QED
      BY <2>1, <2>2, <2>4, <3>1 DEF CallsInv, Stays
  <2>5. QED
    BY <2>1, <2>3, <2>4
<1>16. CASE BeginPacket
  <2>1. at = "packet" /\ at' = "send" /\ Stays
    BY <1>16 DEF BeginPacket, Stopped, semihost, Stays
  <2>2. QED
    BY <2>1, TellStep DEF TellPlaces
<1>17. CASE SendPacketChar
  <2>1. at = "send" /\ at' \in {"send", "acknowledge", "catchMain", "brokenPipe"} /\ Stays
    BY <1>17, Leaves, Unwinding DEF SendPacketChar, Stopped, semihost, Stays, Unwinds, RunPlaces
  <2>2. QED
    BY <2>1, TellStep DEF TellPlaces, EndPlaces
<1>18. CASE ReceiveFails
  <2>1. at \in {"acknowledge", "command"} /\ at' = "catchMain" /\ Stays
    BY <1>18, Leaves, Unwinding DEF ReceiveFails, Stopped, semihost, Stays, Unwinds, RunPlaces
  <2>2. QED
    BY <2>1, TellStep DEF TellPlaces
<1>19. CASE ReceiveAcknowledge
  <2>1. at = "acknowledge" /\ at' \in {"command", "packet"} /\ Stays
    BY <1>19 DEF ReceiveAcknowledge, Stopped, semihost, Stays
  <2>2. QED
    BY <2>1, TellStep DEF TellPlaces
<1>20. CASE ReceiveCommand
  <2>1. /\ at = "command" /\ at \in TellPlaces /\ program' = program /\ done' = done
        /\ \/ request /\ request' = FALSE /\ at' = "advance"
           \/ request' = request /\ ~request /\ at' = "resume"
           \/ request' = request /\ at' \in {"command", "packet"}
    BY <1>20 DEF ReceiveCommand, Stopped, TellPlaces
  <2>2. Current' = Current
    BY <2>1 DEF Current
  <2>3. CASE request /\ request' = FALSE /\ at' = "advance"
    <3>1. Current.kind = "call" /\ at' \notin CallPlaces \cup TellPlaces
      BY <2>1, <2>3 DEF CallsInv, CallPlaces, TellPlaces
    <3>2. QED
      BY <2>1, <2>2, <2>3, <3>1 DEF CallsInv
  <2>4. CASE request' = request /\ ~request /\ at' = "resume"
    <3>1. at' # "advance" /\ at' \notin CallPlaces \cup TellPlaces
      BY <2>4 DEF CallPlaces, TellPlaces
    <3>2. QED
      BY <2>1, <2>2, <2>4, <3>1 DEF CallsInv
  <2>5. CASE request' = request /\ at' \in {"command", "packet"}
    BY <2>1, <2>5, TellStep DEF TellPlaces, Stays
  <2>6. QED
    BY <2>1, <2>3, <2>4, <2>5
<1>21. CASE SkipHardcodedBreakpoint
  <2>1. /\ at = "resume" /\ Stays
        /\ \/ at' = "run" \/ (at' = "advance" /\ Current.kind = "bkpt")
    BY <1>21 DEF SkipHardcodedBreakpoint, Stopped, semihost, Stays
  <2>2. at \in IdlePlaces
    BY <2>1, WhereItIdles
  <2>3. CASE at' = "run"
    BY <2>1, <2>2, <2>3, IdleStep DEF CallPlaces
  <2>4. CASE at' = "advance" /\ Current.kind = "bkpt"
    <3>1. Current' = Current /\ at' \notin CallPlaces \cup TellPlaces
      BY <2>1, <2>4 DEF Current, CallPlaces, TellPlaces, Stays
    <3>2. QED
      BY <2>1, <2>2, <2>4, <3>1 DEF CallsInv, Stays
  <2>5. QED
    BY <2>1, <2>3, <2>4
<1>22. CASE AdvanceProgramCounter
  <2>1. /\ at = "advance" /\ at' = "run" /\ done' = done + 1
        /\ request' = request /\ program' = program
    BY <1>22 DEF AdvanceProgramCounter
  <2>2. Current.kind # "exit" /\ at \in IdlePlaces
    BY <2>1, WhereItIdles DEF CallsInv
  <2>3. QED
    BY <2>1, <2>2, InstructionDone
<1>23. CASE EndMain
  <2>1. at' \in {"uninit", "catchMain"} /\ done' = done /\ program' = program
    BY <1>23, Leaves, Unwinding DEF EndMain, thread, Unwinds, RanPlaces
  <2>2. QED
    BY <2>1, OverStep, WhereItIdles
<1>24. CASE CatchMain
  <2>1. at' = "uninit" /\ done' = done /\ program' = program
    BY <1>24 DEF CatchMain
  <2>2. QED
    BY <2>1, OverStep, WhereItIdles
<1>25. CASE UninitMain
  <2>1. at' = "exited" /\ done' = done /\ program' = program
    BY <1>25 DEF UninitMain, thread
  <2>2. QED
    BY <2>1, OverStep, WhereItIdles
<1>26. QED
  BY <1>1, <1>2, <1>3, <1>4, <1>5, <1>6, <1>7, <1>8, <1>9, <1>10, <1>11, <1>12, <1>13, <1>14, <1>15,
     <1>16, <1>17, <1>18, <1>19, <1>20, <1>21, <1>22, <1>23, <1>24, <1>25 DEF MainStep


\* A call of the host is asked of GDB, or leads on to the next instruction.
Served ==
    /\ at \in CallPlaces
    /\ \/ at' \in {"advance", "writeConsole", "readFromFile", "catchMain"} /\ request' = request
       \/ at' = "packet"

\* Every call of the host is served where the program is at one.
LEMMA CallsAreServed ==
    ASSUME ProcessInv, SemihostStep
    PROVE  Served
<1>1. CASE HandleWriteRequest
  BY <1>1 DEF Served, CallPlaces, HandleWriteRequest, Serves, HostAnswers
<1>2. CASE WriteToConsole
  BY <1>2, Leaves, Unwinding DEF Served, CallPlaces, WriteToConsole, AsksGdb, IsGdbConnectedFails, Unwinds,
     RunPlaces
<1>3. CASE HandleReadRequest
  BY <1>3, Leaves, Unwinding DEF Served, CallPlaces, HandleReadRequest, Serves, AsksGdb, IsGdbConnectedFails, Unwinds,
     RunPlaces
<1>4. CASE ReadFromFile
  BY <1>4 DEF Served, CallPlaces, ReadFromFile, Serves, HostAnswers
<1>5. CASE HandleOpenRequest
  BY <1>5 DEF Served, CallPlaces, HandleOpenRequest, Serves, HostAnswers
<1>6. CASE HandleUnlinkRequest
  BY <1>6 DEF Served, CallPlaces, HandleUnlinkRequest, Serves, HostAnswers
<1>7. CASE HandleRenameRequest
  BY <1>7 DEF Served, CallPlaces, HandleRenameRequest, Serves, HostAnswers
<1>8. CASE HandleFStatRequest
  BY <1>8 DEF Served, CallPlaces, HandleFStatRequest, Serves, HostAnswers
<1>9. CASE HandleStatRequest
  BY <1>9 DEF Served, CallPlaces, HandleStatRequest, Serves, HostAnswers
<1>10. CASE HandleLSeekRequest
  BY <1>10 DEF Served, CallPlaces, HandleLSeekRequest, Serves, HostAnswersAtOnce
<1>11. CASE HandleCloseRequest
  BY <1>11 DEF Served, CallPlaces, HandleCloseRequest, Serves, HostAnswersAtOnce
<1>12. QED
  BY <1>1, <1>2, <1>3, <1>4, <1>5, <1>6, <1>7, <1>8, <1>9, <1>10, <1>11 DEF SemihostStep

\* Where a call is served, it stays the program's instruction.
LEMMA SemihostCalls ==
    ASSUME ProcessInv, CallsInv, SemihostStep, UNCHANGED thread
    PROVE  CallsInv'
<1>1. Served
  BY CallsAreServed
<1>2. program' = program /\ done' = done /\ Current' = Current
  BY DEF thread, Current
<1>3. Current.kind = "call" /\ request = FALSE
  <2>1. CallPlaces \subseteq IdlePlaces
    BY WhereItIdles DEF CallPlaces
  <2>2. QED
    BY <1>1, <2>1 DEF CallsInv, Served
<1>4. CASE at' \in {"advance", "writeConsole", "readFromFile", "catchMain"} /\ request' = request
  <2>1. at' \notin TellPlaces
    BY <1>4 DEF TellPlaces
  <2>2. QED
    BY <1>2, <1>3, <1>4, <2>1 DEF CallsInv
<1>5. CASE at' = "packet"
  <2>1. at' \notin CallPlaces \cup IdlePlaces /\ at' # "advance"
    BY <1>5 DEF CallPlaces, IdlePlaces, TellPlaces
  <2>2. QED
    BY <1>2, <1>3, <2>1 DEF CallsInv
<1>6. QED
  BY <1>1, <1>4, <1>5 DEF Served

\* The coverage begins when the program has come to its exit.
LEMMA CoverageIsOver ==
    ASSUME ExitInv, CoverageStep
    PROVE  stop = "exit"
<1>1. at \in {"ran", "codeCoverageRun", "initPrivateData", "catchParse", "parseElf", "elfLinesParse",
               "openPipe", "allocateElfLines", "readElf", "catchElfLines", "parsedElf", "openSummary",
               "walk", "lines"} \cup SourcePlaces \cup DonePlaces \cup FailedPlaces
  BY DEF CoverageStep, Covers, RunCodeCoverageIfRequested, CodeCoverageRun, InitPrivateData,
     ParseElf, ElfLinesParse, OpenPipe, AllocateElfLines, ParseElfLine, SortElfLines,
     CatchElfLines, EndParseElf, CatchParse, OpenSummary, WalkEnds, WalkSourceFile, OpenSource,
     ReadSource, OpenDest, WriteLine, EndOfSource, UninitAfterWalk, EndRun, CatchRun,
     RethrowRun, EndCoverage, CatchCoverage, SourcePlaces, DonePlaces, FailedPlaces
<1>2. QED
  BY <1>1, CoverageKnows DEF HasExited, IsCovering, Untold, Unread

\* Where the process and the program stay, so does what is known of the calls.
LEMMA CallsRest ==
    ASSUME CallsInv, at' = at, Stays
    PROVE  CallsInv'
BY DEF CallsInv, Current, Stays

\* At first the program is at its first instruction, and it ends with its exit.
LEMMA CallsInit == Init => CallsInv
<1> SUFFICES ASSUME Init
             PROVE  CallsInv
  OBVIOUS
<1>1. PICK s \in Sessions : program = s.program
  BY DEF Init
<1>2. IsList(program) /\ Len(program) \in Nat \ {0} /\ program[Len(program)].kind = "exit"
  BY <1>1, SessionsAre
<1>3. at = "main" /\ request = FALSE /\ done = 0
  BY DEF Init
<1>4. at \notin TellPlaces \cup CallPlaces
  BY <1>3 DEF TellPlaces, CallPlaces
<1>5. QED
  BY <1>2, <1>3, <1>4 DEF CallsInv

\* Every step keeps what is known of the calls.
LEMMA CallsNext == Inv /\ ExitInv /\ CallsInv /\ [Next]_vars => CallsInv'
<1> SUFFICES ASSUME Inv, ExitInv, CallsInv, [Next]_vars
             PROVE  CallsInv'
  OBVIOUS
<1>1. ProcessInv /\ ExitInv'
  BY ExitNext DEF Inv
<1>2. CASE MainStep
  BY <1>1, <1>2, MainCalls
<1>3. CASE CommandLineStep /\ UNCHANGED <<socket, semihost, inputs, coverage, thread>>
  <2>1. at \in SetupPlaces /\ at' \in SetupPlaces \cup {"catchMain"}
    BY <1>1, <1>3, CommandLineIsSetup, CommandLineGoes
  <2>2. at \in IdlePlaces /\ at' \notin CallPlaces \cup {"advance"}
    BY <2>1, WhereItIdles DEF CallPlaces
  <2>3. Stays
    BY <1>3 DEF semihost, thread, Stays
  <2>4. QED
    BY <2>2, <2>3, IdleStep
<1>4. CASE SemihostStep /\ UNCHANGED <<dump, sources, coverage, thread>>
  BY <1>1, <1>4, SemihostCalls
<1>5. CASE CoverageStep /\ UNCHANGED <<socket, semihost, thread>>
  <2>1. stop' = "exit" /\ done' = done /\ program' = program
    BY <1>5, CoverageIsOver DEF thread
  <2>2. at' \notin RunningPlaces
    BY <1>1, <2>1 DEF ExitInv, IsRunning, IsTold, Succeeds, RunningPlaces, SourcePlaces, DonePlaces,
       FailedPlaces, EndPlaces, SetupPlaces, RunPlaces, CopyPlaces, BeforePlaces, ParsePlaces,
       ImagePlaces, LoadPlaces, SocketPlaces
  <2>3. QED
    BY <2>1, <2>2, OverStep
<1>6. CASE GdbSide
  <2>1. at' = at /\ Stays
    BY <1>6 DEF GdbSide, semihost, thread, Stays
  <2>2. QED
    BY <2>1, CallsRest
<1>7. CASE UNCHANGED vars
  <2>1. at' = at /\ Stays
    BY <1>7 DEF vars, semihost, thread, Stays
  <2>2. QED
    BY <2>1, CallsRest
<1>8. QED
  BY <1>2, <1>3, <1>4, <1>5, <1>6, <1>7 DEF Next, Process

\* The half-words that have been read for sure: the program is behind them, or
\* GDB or the host has looked at them.
DoneHalfWords ==
    {program[k].address : k \in 1 .. done} \cup (UNION {LoadedBy(program[k]) : k \in 1 .. done}) \cup looked

\* A half-word that has a counter has been counted.
HasCounted(address) == IsCounted(address) => ReadsOf(CellOf(address)) > 0

\* What is counted was read, and what was read for sure is counted, from when
\* the memory is set up until it is released.
CountsInv ==
    /\ \A k \in DOMAIN program : ReadsMemory(program[k])
    /\ \A cell \in DOMAIN readCounts : readCounts[cell] \in Nat
    /\ at \in SetupPlaces => DOMAIN readCounts = {} /\ looked = {} /\ done = 0
    /\ at # "exited" =>
         /\ \A cell \in DOMAIN readCounts : readCounts[cell] > 0 => cell \in CellsRead
         /\ \A address \in DoneHalfWords : HasCounted(address)
         /\ stop = "exit" => HasCounted(Current.address)

\* Reads count for the half-words they are of, and for no others.
LEMMA CountedReads ==
    ASSUME \A cell \in DOMAIN readCounts : readCounts[cell] \in Nat,
           NEW accesses, IsFiniteSet(DOMAIN accesses), CountReads(accesses)
    PROVE  /\ \A cell \in DOMAIN readCounts' : readCounts'[cell] \in Nat
           /\ \A cell : ReadsOf(cell) > 0 => ReadsOf(cell)' > 0
           /\ \A n \in HalfWords(accesses) : \A cell :
                IsCounted(accesses[n].address) /\ cell = CellOf(accesses[n].address) => ReadsOf(cell)' > 0
           /\ \A cell \in DOMAIN readCounts' : readCounts'[cell] > 0 =>
                \/ cell \in DOMAIN readCounts /\ readCounts[cell] > 0
                \/ \E n \in HalfWords(accesses) :
                     IsCounted(accesses[n].address) /\ cell = CellOf(accesses[n].address)
<1> DEFINE counted == {n \in DOMAIN accesses : Counts(accesses, n)}
           of(cell) == {n \in counted : CellOf(accesses[n].address) = cell}
           cells == DOMAIN readCounts \cup {CellOf(accesses[n].address) : n \in counted}
<1>1. readCounts' = [cell \in cells |-> ReadsOf(cell) + Cardinality(of(cell))]
  BY DEF CountReads
<1>2. \A n : n \in counted <=> n \in HalfWords(accesses) /\ IsCounted(accesses[n].address)
  BY DEF Counts, HalfWords
<1>3. \A cell : ReadsOf(cell) \in Nat
  BY DEF ReadsOf
<1>4. ASSUME NEW cell
      PROVE  /\ Cardinality(of(cell)) \in Nat
             /\ Cardinality(of(cell)) > 0 <=> of(cell) # {}
  <2> DEFINE S == of(cell)
  <2>1. S \subseteq DOMAIN accesses
    OBVIOUS
  <2> HIDE DEF S
  <2>2. IsFiniteSet(S)
    BY <2>1, FS_Subset
  <2>3. Cardinality(S) \in Nat /\ (Cardinality(S) = 0 <=> S = {})
    BY <2>2, FS_CardinalityType, FS_EmptySet
  <2>4. QED
    BY <2>3 DEF S
<1>5. ASSUME NEW cell, cell \notin cells
      PROVE  ReadsOf(cell) = 0
  BY <1>5 DEF ReadsOf
<1>6. ASSUME NEW cell, NEW n \in counted, cell = CellOf(accesses[n].address)
      PROVE  of(cell) # {} /\ cell \in cells
  BY <1>6
<1>7. ASSUME NEW cell, of(cell) # {}
      PROVE  \E n \in counted : cell = CellOf(accesses[n].address)
  BY <1>7
<1> HIDE DEF of, cells, counted
<1>8. DOMAIN readCounts' = cells
  BY <1>1
<1>9. \A cell \in cells : readCounts'[cell] = ReadsOf(cell) + Cardinality(of(cell))
  BY <1>1
<1>10. \A cell : ReadsOf(cell)' = IF cell \in cells THEN readCounts'[cell] ELSE 0
  BY <1>8 DEF ReadsOf
<1>11. \A cell \in cells : readCounts'[cell] \in Nat /\ readCounts'[cell] >= ReadsOf(cell)
  BY <1>3, <1>4, <1>9
<1>12. \A cell : ReadsOf(cell) > 0 => ReadsOf(cell)' > 0
  BY <1>3, <1>5, <1>10, <1>11
<1>13. ASSUME NEW n \in HalfWords(accesses), NEW cell, IsCounted(accesses[n].address),
              cell = CellOf(accesses[n].address)
       PROVE  ReadsOf(cell)' > 0
  <2>1. of(cell) # {} /\ cell \in cells
    BY <1>2, <1>6, <1>13
  <2>2. QED
    BY <1>3, <1>4, <1>9, <1>10, <2>1
<1>14. ASSUME NEW cell \in cells, readCounts'[cell] > 0
       PROVE  \/ cell \in DOMAIN readCounts /\ readCounts[cell] > 0
              \/ \E n \in HalfWords(accesses) :
                   IsCounted(accesses[n].address) /\ cell = CellOf(accesses[n].address)
  <2>1. ReadsOf(cell) > 0 \/ of(cell) # {}
    BY <1>3, <1>4, <1>9, <1>14
  <2>2. CASE ReadsOf(cell) > 0
    BY <2>2 DEF ReadsOf
  <2>3. CASE of(cell) # {}
    BY <1>2, <1>7, <2>3
  <2>4. QED
    BY <2>1, <2>2, <2>3
<1>15. QED
  BY <1>8, <1>11, <1>12, <1>13, <1>14

\* The half-words of some reads.
ReadBy(accesses) == {accesses[n].address : n \in HalfWords(accesses)}

\* A step that reads: what it counts it has read, and what the program is
\* behind now it has read before, or reads.
LEMMA CountsStep ==
    ASSUME CountsInv, NEW accesses, IsFiniteSet(DOMAIN accesses), CountReads(accesses),
           regions' = regions, program' = program, at # "exited", at' \notin SetupPlaces,
           HalfWordsRead \cup ReadBy(accesses) \subseteq HalfWordsRead',
           DoneHalfWords' \subseteq DoneHalfWords \cup ReadBy(accesses),
           stop' = "exit" => \/ stop = "exit" /\ done' = done
                             \/ program[done' + 1].address \in ReadBy(accesses)
    PROVE  CountsInv'
<1>1. \A address : CellOf(address)' = CellOf(address) /\ IsCounted(address)' = IsCounted(address)
  BY DEF CellOf, IsCounted, IsMapped, RegionOf
<1>2. /\ \A cell \in DOMAIN readCounts : readCounts[cell] \in Nat
      /\ \A cell \in DOMAIN readCounts : readCounts[cell] > 0 => cell \in CellsRead
      /\ \A address \in DoneHalfWords : HasCounted(address)
      /\ stop = "exit" => HasCounted(Current.address)
  BY DEF CountsInv
<1>3. /\ \A cell \in DOMAIN readCounts' : readCounts'[cell] \in Nat
      /\ \A cell : ReadsOf(cell) > 0 => ReadsOf(cell)' > 0
      /\ \A n \in HalfWords(accesses) : \A cell :
           IsCounted(accesses[n].address) /\ cell = CellOf(accesses[n].address) => ReadsOf(cell)' > 0
      /\ \A cell \in DOMAIN readCounts' : readCounts'[cell] > 0 =>
           \/ cell \in DOMAIN readCounts /\ readCounts[cell] > 0
           \/ \E n \in HalfWords(accesses) :
                IsCounted(accesses[n].address) /\ cell = CellOf(accesses[n].address)
  BY <1>2, CountedReads
<1>4. \A address : HasCounted(address) => HasCounted(address)'
  BY <1>1, <1>3 DEF HasCounted
<1>5. \A address \in ReadBy(accesses) : HasCounted(address)'
  BY <1>1, <1>3 DEF HasCounted, ReadBy
<1>6. \A address \in HalfWordsRead' : IsCounted(address) => CellOf(address) \in CellsRead'
  BY <1>1 DEF CellsRead
<1>7. CellsRead \subseteq CellsRead'
  BY <1>6 DEF CellsRead
<1>8. \A cell \in DOMAIN readCounts' : readCounts'[cell] > 0 => cell \in CellsRead'
  <2>1. SUFFICES ASSUME NEW cell \in DOMAIN readCounts', readCounts'[cell] > 0
                 PROVE  cell \in CellsRead'
    OBVIOUS
  <2>2. CASE cell \in DOMAIN readCounts /\ readCounts[cell] > 0
    BY <1>2, <1>7, <2>2
  <2>3. CASE \E n \in HalfWords(accesses) :
                IsCounted(accesses[n].address) /\ cell = CellOf(accesses[n].address)
    BY <1>6, <2>3 DEF ReadBy
  <2>4. QED
    BY <1>3, <2>1, <2>2, <2>3
<1>9. \A address \in DoneHalfWords' : HasCounted(address)'
  BY <1>2, <1>4, <1>5
<1>10. stop' = "exit" => HasCounted(Current.address)'
  <2>1. SUFFICES ASSUME stop' = "exit"
                 PROVE  HasCounted(Current.address)'
    OBVIOUS
  <2> DEFINE next == program[done' + 1].address
  <2>2. Current'.address = next
    BY DEF Current
  <2>3. CASE stop = "exit" /\ done' = done
    <3>1. Current' = Current
      BY <2>3 DEF Current
    <3>2. HasCounted(Current.address)
      BY <1>2, <2>3
    <3> DEFINE here == Current.address
    <3>3. here' = here /\ HasCounted(here)
      BY <3>1, <3>2
    <3>4. HasCounted(here)'
      BY <1>1, <1>3, <3>2, <3>1 DEF HasCounted
    <3>5. QED
      BY <3>4
  <2>4. CASE next \in ReadBy(accesses)
    BY <1>1, <1>3, <2>2, <2>4 DEF HasCounted, ReadBy
  <2>5. QED
    BY <2>1, <2>3, <2>4
<1>11. QED
  BY <1>3, <1>8, <1>9, <1>10 DEF CountsInv, Current

\* Nothing is read.
LEMMA CountsRest ==
    ASSUME CountsInv, UNCHANGED reads, program' = program, done' = done,
           regions' = regions \/ at' = "exited", stop' = stop \/ stop' # "exit",
           at' \in SetupPlaces => at \in SetupPlaces, at = "exited" => at' = "exited"
    PROVE  CountsInv'
<1>1. readCounts' = readCounts /\ looked' = looked
  BY DEF reads
<1>2. DoneHalfWords' = DoneHalfWords /\ HalfWordsRead' = HalfWordsRead
  BY <1>1 DEF DoneHalfWords, HalfWordsRead, Fetched
<1>3. CASE at' = "exited"
  BY <1>1, <1>3, ExitIsNoSetup DEF CountsInv
<1>4. CASE at' # "exited" /\ regions' = regions
  <2>1. \A address : CellOf(address)' = CellOf(address) /\ IsCounted(address)' = IsCounted(address)
    BY <1>4 DEF CellOf, IsCounted, IsMapped, RegionOf
  <2>2. /\ \A address : HasCounted(address)' = HasCounted(address)
        /\ CellsRead' = CellsRead
    BY <1>1, <1>2, <2>1 DEF HasCounted, ReadsOf, CellsRead
  <2>3. at # "exited"
    BY <1>4
  <2>4. stop' = "exit" => HasCounted(program[done + 1].address)'
    BY <2>2, <2>3 DEF CountsInv, Current
  <2>5. QED
    BY <1>1, <1>2, <1>4, <2>2, <2>3, <2>4 DEF CountsInv, Current
<1>5. QED
  BY <1>3, <1>4

\* While the memory is set up, nothing is read.
LEMMA SetupCounts ==
    ASSUME CountsInv, at \in SetupPlaces, UNCHANGED reads, program' = program, done' = done, stop' # "exit"
    PROVE  CountsInv'
<1>1. readCounts' = readCounts /\ looked' = looked
  BY DEF reads
<1>2. DOMAIN readCounts = {} /\ looked = {} /\ done = 0
  BY DEF CountsInv
<1>3. DoneHalfWords' = {}
  BY <1>1, <1>2 DEF DoneHalfWords
<1>4. QED
  BY <1>1, <1>2, <1>3 DEF CountsInv

\* The half-words of a step of the program: the instruction's and its loads'.
LEMMA StepIsRead ==
    ASSUME ReadsMemory(Current)
    PROVE  /\ IsFiniteSet(DOMAIN StepReads)
           /\ ReadBy(StepReads) = {Current.address} \cup LoadedBy(Current)
<1> DEFINE fetch == Access(Current.address, 2)
           loads == Current.reads
           all   == <<fetch>> \o loads
           S     == [address : Nat, size : Nat] \cup {fetch}
<1>0. [address : Nat, size : Nat] \subseteq S /\ fetch \in S
  OBVIOUS
<1>1. loads \in Seq(S) /\ <<fetch>> \in Seq(S) /\ StepReads = all
  <2>1. StepReads = all
    BY Zenon DEF StepReads
  <2> DEFINE A == [address : Nat, size : Nat]
  <2>2. loads \in Seq(A) /\ A \subseteq S
    BY <1>0 DEF ReadsMemory
  <2> HIDE DEF S, fetch, loads, A
  <2>3. loads \in Seq(S)
    BY <2>2
  <2>4. <<fetch>> \in Seq(S)
    BY <1>0
  <2>5. QED
    BY <2>1, <2>3, <2>4
<1>2. fetch.size = 2 /\ fetch.address = Current.address
  BY DEF Access
<1> HIDE DEF loads, fetch, S
<1>3. /\ Len(loads) \in Nat /\ DOMAIN loads = 1 .. Len(loads)
      /\ DOMAIN all = 1 .. Len(loads) + 1 /\ all[1] = fetch
      /\ \A n \in DOMAIN loads : all[n + 1] = loads[n]
  BY <1>1
<1> HIDE DEF all
<1>4. IsFiniteSet(DOMAIN all)
  BY <1>3, FS_Interval
<1>5. \A n \in DOMAIN all : n = 1 \/ (n - 1 \in DOMAIN loads /\ all[n] = loads[n - 1])
  <2>1. \A n \in DOMAIN all : n = 1 \/ n - 1 \in DOMAIN loads
    BY <1>3
  <2>2. \A n \in DOMAIN all : n - 1 \in DOMAIN loads => all[(n - 1) + 1] = loads[n - 1]
    BY <1>3
  <2>3. \A n \in DOMAIN all : (n - 1) + 1 = n
    BY <1>3
  <2>4. QED
    BY <2>1, <2>2, <2>3
<1>6. ReadBy(all) \subseteq {Current.address} \cup LoadedBy(Current)
  BY <1>2, <1>3, <1>5 DEF ReadBy, HalfWords, LoadedBy, loads
<1>7. Current.address \in ReadBy(all)
  BY <1>2, <1>3 DEF ReadBy, HalfWords
<1>8. ASSUME NEW n \in HalfWords(loads)
      PROVE  loads[n].address \in ReadBy(all)
  <2>1. n \in DOMAIN loads /\ loads[n].size = 2
    BY DEF HalfWords
  <2>2. n + 1 \in DOMAIN all /\ all[n + 1] = loads[n]
    BY <1>3, <2>1
  <2>3. QED
    BY <2>1, <2>2 DEF ReadBy, HalfWords
<1>9. QED
  BY <1>1, <1>4, <1>6, <1>7, <1>8 DEF LoadedBy, loads

\* What is read of the flash in a step of main: nothing, the instruction, what it
\* reads itself, or what GDB looks at.
Fetches ==
    /\ \E times \in {1, 2} : InstructionIsRead(times)
    /\ done' = done \/ (done' = done + 1 /\ stop' = stop /\ at = "advance")
Looked ==
    /\ \E n \in Nat : \E accesses : DOMAIN accesses = 1 .. n /\ LooksAt(accesses)
    /\ done' = done /\ stop' = stop
RunReads ==
    \/ /\ UNCHANGED reads /\ done' = done /\ (stop' = stop \/ stop' # "exit")
       /\ regions' = regions \/ at' = "exited"
    \/ at \in RunPlaces /\ regions' = regions /\ (Fetches \/ PinkySimStep \/ Looked)

LEMMA MainReads == MainStep => RunReads
<1>1. ASSUME PinkySimStep \/ IsExitSemihost \/ EnteringDebugger \/ SkipHardcodedBreakpoint
             \/ AdvanceProgramCounter
      PROVE  at \in RunPlaces /\ regions' = regions
  BY <1>1 DEF PinkySimStep, IsExitSemihost, EnteringDebugger, SkipHardcodedBreakpoint,
     AdvanceProgramCounter, KeepsFiles, options, memory, RunPlaces
<1>2. PinkySimStep => RunReads
  BY <1>1 DEF RunReads
<1>3. IsExitSemihost \/ EnteringDebugger \/ SkipHardcodedBreakpoint \/ AdvanceProgramCounter => Fetches
  BY DEF IsExitSemihost, EnteringDebugger, SkipHardcodedBreakpoint, AdvanceProgramCounter, Stopped,
     Fetches
<1>4. ASSUME ReceiveCommand
      PROVE  RunReads
  <2>1. at \in RunPlaces /\ regions' = regions /\ done' = done /\ stop' = stop
    BY <1>4 DEF ReceiveCommand, KeepsFiles, Stopped, options, memory, RunPlaces
  <2>2. PICK char : IF char \in DOMAIN Looks THEN LooksAt(<<Looks[char]>>) ELSE UNCHANGED reads
    BY <1>4 DEF ReceiveCommand
  <2>3. CASE LooksAt(<<Looks[char]>>)
    <3>1. DOMAIN <<Looks[char]>> = 1 .. 1
      OBVIOUS
    <3>2. QED
      BY <2>1, <2>3, <3>1 DEF RunReads, Looked
  <2>4. QED
    BY <2>1, <2>2, <2>3 DEF RunReads
<1>5. ASSUME \/ BeginMain \/ SocketCommInit \/ CreateSocket \/ BindAndListen \/ EndSocketInit \/ CatchSocket
             \/ Mri4SimInit \/ CopyCommandLineArgumentsToStack \/ EndCopy \/ CatchArguments
             \/ BreakOnStart \/ ShouldInterruptRun \/ BeginPacket \/ SendPacketChar \/ ReceiveFails
             \/ ReceiveAcknowledge \/ EndMain \/ CatchMain \/ UninitMain
      PROVE  RunReads
  <2>1. UNCHANGED inputs /\ done' = done /\ (stop' = stop \/ stop' # "exit")
    BY <1>5 DEF BeginMain, SocketCommInit, CreateSocket, BindAndListen, EndSocketInit, CatchSocket,
       Mri4SimInit, CopyCommandLineArgumentsToStack, EndCopy, CatchArguments, BreakOnStart,
       ShouldInterruptRun, BeginPacket, SendPacketChar, ReceiveFails, ReceiveAcknowledge,
       EndMain, CatchMain, UninitMain, Stopped, thread
  <2>2. UNCHANGED options \/ at' = "exited"
    BY <1>5 DEF BeginMain, SocketCommInit, CreateSocket, BindAndListen, EndSocketInit, CatchSocket,
       Mri4SimInit, CopyCommandLineArgumentsToStack, EndCopy, CatchArguments, BreakOnStart,
       ShouldInterruptRun, BeginPacket, SendPacketChar, ReceiveFails, ReceiveAcknowledge,
       EndMain, CatchMain, UninitMain, KeepsFiles
  <2>3. QED
    BY <2>1, <2>2 DEF RunReads, inputs, options, memory
<1>6. QED
  BY <1>1, <1>2, <1>3, <1>4, <1>5 DEF MainStep, RunReads

\* A call of the host reads its buffers, or nothing.
LEMMA SemihostReads == SemihostStep => UNCHANGED options /\ (UNCHANGED reads \/ \E n \in Nat : \E accesses :
                                           DOMAIN accesses = 1 .. n /\ LooksAt(accesses))
<1>1. ASSUME NEW read \in 0 .. 2, NEW mapped, NEW place, HostAnswers(read, mapped, place)
      PROVE  UNCHANGED options /\ \E n \in Nat : \E accesses : DOMAIN accesses = 1 .. n /\ LooksAt(accesses)
  <2> DEFINE buffers == [n \in 1 .. read |-> call.buffers[n]]
  <2>1. DOMAIN buffers = 1 .. read /\ read \in Nat
    OBVIOUS
  <2>2. UNCHANGED options /\ LooksAt(buffers)
    BY <1>1 DEF HostAnswers
  <2> HIDE DEF buffers
  <2>3. QED
    BY <2>1, <2>2
<1>2. HandleWriteRequest \/ ReadFromFile \/ HandleOpenRequest \/ HandleUnlinkRequest \/ HandleRenameRequest
        \/ HandleFStatRequest \/ HandleStatRequest
      => \E read \in 0 .. 2 : \E mapped, place : HostAnswers(read, mapped, place)
  BY DEF HandleWriteRequest, ReadFromFile, HandleOpenRequest, HandleUnlinkRequest, HandleRenameRequest,
     HandleFStatRequest, HandleStatRequest
<1>3. WriteToConsole \/ HandleReadRequest \/ HandleLSeekRequest \/ HandleCloseRequest
      => UNCHANGED options /\ UNCHANGED reads
  BY DEF WriteToConsole, HandleReadRequest, HandleLSeekRequest, HandleCloseRequest, AsksGdb, HostAnswersAtOnce
<1>4. QED
  BY <1>1, <1>2, <1>3 DEF SemihostStep

\* Nothing is read at first.
LEMMA CountsInit == Init => CountsInv
<1> SUFFICES ASSUME Init
             PROVE  CountsInv
  OBVIOUS
<1>1. PICK s \in Sessions : program = s.program
  BY DEF Init
<1>2. \A k \in DOMAIN program : ReadsMemory(program[k])
  BY <1>1, SessionsAre
<1>3. done = 0 /\ stop = "none" /\ DOMAIN readCounts = {} /\ looked = {}
  BY DEF Init
<1>4. DoneHalfWords = {}
  BY <1>3 DEF DoneHalfWords
<1>5. QED
  BY <1>2, <1>3, <1>4 DEF CountsInv

\* A step that reads the flash keeps what is known of the counts.
LEMMA ReadingCounts ==
    ASSUME CallsInv, ExitInv, CountsInv, program' = program, at \in RunPlaces, at' \notin SetupPlaces,
           regions' = regions, Fetches \/ PinkySimStep \/ Looked
    PROVE  CountsInv'
<1>1. /\ IsList(program) /\ Len(program) \in Nat /\ DOMAIN program = 1 .. Len(program)
      /\ done \in 0 .. Len(program) - 1
  BY ListPlaces DEF CallsInv
<1>2. at # "exited" /\ ReadsMemory(Current) /\ Current = program[done + 1]
  BY <1>1 DEF RunPlaces, CountsInv, Current
<1>3. stop # "exit"
  BY RunningKnows DEF RunningPlaces, IsRunning
<1>4. done \in Nat /\ (done' = done \/ done' = done + 1)
  BY <1>1 DEF Fetches, PinkySimStep, Looked
<1>5. /\ Fetched \subseteq Fetched' /\ Current.address \in Fetched'
      /\ \A k \in 1 .. done : k \in 1 .. done'
  BY <1>2, <1>4 DEF Fetched
<1>6. \A k \in 1 .. done' : k \in 1 .. done \/ (done' = done + 1 /\ k = done + 1)
  BY <1>4
<1>7. ASSUME looked \subseteq looked'
      PROVE  HalfWordsRead \subseteq HalfWordsRead'
  BY <1>5, <1>7 DEF HalfWordsRead
<1>8. ASSUME NEW S, looked' \subseteq looked \cup S,
             done' = done + 1 => Current.address \in S /\ LoadedBy(Current) \subseteq S
      PROVE  DoneHalfWords' \subseteq DoneHalfWords \cup S
  <2>1. \A k \in 1 .. done' :
          program[k].address \in DoneHalfWords \cup S /\ LoadedBy(program[k]) \subseteq DoneHalfWords \cup S
    BY <1>2, <1>6, <1>8 DEF DoneHalfWords
  <2>2. looked' \subseteq DoneHalfWords \cup S
    BY <1>8 DEF DoneHalfWords
  <2>3. QED
    BY <2>1, <2>2 DEF DoneHalfWords, LoadedBy
<1>9. CASE Fetches
  <2>1. PICK times \in {1, 2} : InstructionIsRead(times)
    BY <1>9 DEF Fetches
  <2> DEFINE accesses == [n \in 1 .. times |-> Access(Current.address, 2)]
  <2>2. CountReads(accesses) /\ looked' = looked
    BY <2>1 DEF InstructionIsRead, ProgramReads
  <2>3. IsFiniteSet(DOMAIN accesses)
    BY FS_Interval
  <2>4. ReadBy(accesses) = {Current.address}
    <3>1. HalfWords(accesses) = 1 .. times
      BY DEF HalfWords, Access
    <3>2. 1 \in 1 .. times
      OBVIOUS
    <3>3. QED
      BY <3>1, <3>2 DEF ReadBy, Access
  <2> HIDE DEF accesses
  <2>5. HalfWordsRead \cup ReadBy(accesses) \subseteq HalfWordsRead'
    BY <1>5, <1>7, <2>2, <2>4 DEF HalfWordsRead
  <2>6. done' = done + 1 => LoadedBy(Current) = {}
    <3>1. SUFFICES ASSUME done' = done + 1
                   PROVE  LoadedBy(Current) = {}
      OBVIOUS
    <3>2. at = "advance"
      BY <1>1, <1>9, <3>1 DEF Fetches
    <3>3. Current.reads = << >>
      BY <1>2, <3>2 DEF CallsInv, ReadsMemory, Breaks
    <3>4. QED
      BY <3>3 DEF LoadedBy, HalfWords
  <2>7. DoneHalfWords' \subseteq DoneHalfWords \cup ReadBy(accesses)
    BY <1>8, <2>2, <2>4, <2>6
  <2>8. stop' = "exit" => program[done' + 1].address \in ReadBy(accesses)
    BY <1>2, <1>3, <1>9, <2>4 DEF Fetches
  <2>9. QED
    BY <1>2, <2>2, <2>3, <2>5, <2>7, <2>8, CountsStep
<1>10. CASE PinkySimStep
  <2>1. /\ CountReads(StepReads) /\ looked' = looked
        /\ \/ Current.kind \in Breaks /\ done' = done /\ stop' = "trap"
           \/ done' = done + 1 /\ stop' = stop
    BY <1>10 DEF PinkySimStep, ProgramReads
  <2>2. IsFiniteSet(DOMAIN StepReads) /\ ReadBy(StepReads) = {Current.address} \cup LoadedBy(Current)
    BY <1>2, StepIsRead
  <2>3. done' = done => LoadedBy(Current) = {}
    <3>1. SUFFICES ASSUME done' = done
                   PROVE  LoadedBy(Current) = {}
      OBVIOUS
    <3>2. Current.reads = << >>
      BY <1>2, <1>4, <2>1, <3>1 DEF ReadsMemory
    <3>3. QED
      BY <3>2 DEF LoadedBy, HalfWords
  <2>4. LoadedBy(Current) \subseteq HalfWordsRead'
    <3>1. CASE done' = done + 1
      <4>1. done + 1 \in 1 .. done'
        BY <1>4, <3>1
      <4>2. QED
        BY <1>2, <4>1 DEF HalfWordsRead, LoadedBy
    <3>2. QED
      BY <1>4, <2>3, <3>1
  <2>5. HalfWordsRead \cup ReadBy(StepReads) \subseteq HalfWordsRead'
    <3>1. Current.address \in HalfWordsRead'
      BY <1>5 DEF HalfWordsRead
    <3>2. QED
      BY <1>7, <2>1, <2>2, <2>4, <3>1
  <2>6. DoneHalfWords' \subseteq DoneHalfWords \cup ReadBy(StepReads)
    BY <1>8, <2>1, <2>2
  <2>7. stop' # "exit"
    BY <1>3, <2>1
  <2> DEFINE accesses == StepReads
  <2> HIDE DEF accesses
  <2>8. /\ CountReads(accesses) /\ IsFiniteSet(DOMAIN accesses)
        /\ HalfWordsRead \cup ReadBy(accesses) \subseteq HalfWordsRead'
        /\ DoneHalfWords' \subseteq DoneHalfWords \cup ReadBy(accesses)
    BY <2>1, <2>2, <2>5, <2>6 DEF accesses
  <2>9. QED
    BY <1>2, <2>7, <2>8, CountsStep
<1>11. CASE Looked
  <2>1. PICK n \in Nat : \E accesses : DOMAIN accesses = 1 .. n /\ LooksAt(accesses)
    BY <1>11 DEF Looked
  <2>2. PICK accesses : DOMAIN accesses = 1 .. n /\ LooksAt(accesses)
    BY <2>1
  <2>3. CountReads(accesses) /\ looked' = looked \cup ReadBy(accesses) /\ done' = done /\ stop' = stop
    BY <1>11, <2>2 DEF LooksAt, Looked, ReadBy
  <2>4. IsFiniteSet(DOMAIN accesses)
    BY <2>2, FS_Interval
  <2>5. HalfWordsRead \cup ReadBy(accesses) \subseteq HalfWordsRead'
    BY <1>7, <2>3 DEF HalfWordsRead
  <2>6. DoneHalfWords' \subseteq DoneHalfWords \cup ReadBy(accesses)
    BY <1>4, <1>8, <2>3
  <2>7. QED
    BY <1>2, <1>3, <2>3, <2>4, <2>5, <2>6, CountsStep
<1>12. QED
  BY <1>9, <1>10, <1>11

\* Every step keeps what is known of the reads.
LEMMA CountsNext == Inv /\ ExitInv /\ CallsInv /\ CountsInv /\ [Next]_vars => CountsInv'
<1> SUFFICES ASSUME Inv, ExitInv, CallsInv, CountsInv, [Next]_vars
             PROVE  CountsInv'
  OBVIOUS
<1>1. ProcessInv /\ program' = program
  BY SessionStays DEF Inv
<1>2. ASSUME RunReads, at # "exited", at' \in SetupPlaces => at \in SetupPlaces
      PROVE  CountsInv'
  <2>1. RunPlaces \cap SetupPlaces = {}
    BY DEF RunPlaces, SetupPlaces, BeforePlaces, ParsePlaces, ImagePlaces, LoadPlaces, SocketPlaces
  <2>2. QED
    BY <1>1, <1>2, <2>1, CountsRest, ReadingCounts DEF RunReads
<1>3. CASE MainStep
  BY <1>1, <1>2, <1>3, MainFlow, MainReads
<1>4. CASE CommandLineStep /\ UNCHANGED <<socket, semihost, inputs, coverage, thread>>
  <2>1. at \in SetupPlaces /\ UNCHANGED reads /\ done' = done /\ stop' = stop
    BY <1>4, CommandLineIsSetup DEF inputs, thread
  <2>2. stop # "exit"
    BY <2>1, RunningKnows DEF RunningPlaces, IsRunning
  <2>3. QED
    BY <1>1, <2>1, <2>2, SetupCounts
<1>5. CASE SemihostStep /\ UNCHANGED <<dump, sources, coverage, thread>>
  <2>1. at # "exited" /\ at' \notin SetupPlaces /\ at \in RunPlaces
    BY <1>1, <1>5, SemihostFlow, SemihostGoes
  <2>2. regions' = regions /\ done' = done /\ stop' = stop
    BY <1>5, SemihostReads DEF options, memory, thread
  <2>3. RunReads
    BY <1>5, <2>1, <2>2, SemihostReads DEF RunReads, Looked
  <2>4. QED
    BY <1>2, <2>1, <2>3
<1>6. CASE CoverageStep /\ UNCHANGED <<socket, semihost, thread>>
  <2>1. at # "exited" /\ at' \notin SetupPlaces
    BY <1>1, <1>6, CoverageFlow
  <2>2. UNCHANGED reads /\ regions' = regions /\ done' = done /\ stop' = stop
    BY <1>6, CoverageReads DEF inputs, options, memory, thread
  <2>3. QED
    BY <1>1, <2>1, <2>2, CountsRest
<1>7. CASE GdbSide \/ UNCHANGED vars
  <2>1. UNCHANGED reads /\ regions' = regions /\ done' = done /\ stop' = stop /\ at' = at
    BY <1>7 DEF GdbSide, vars, inputs, options, memory, thread
  <2>2. QED
    BY <1>1, <2>1, CountsRest
<1>8. QED
  BY <1>3, <1>4, <1>5, <1>6, <1>7 DEF Next, Process

\* When the program has come to its exit, the counter of a half-word tells
\* whether one that it counts was read.
LEMMA ReadsTell ==
    ASSUME CallsInv, CountsInv, stop = "exit", at # "exited", NEW address
    PROVE  ReadCount(address) \in Nat /\ (ReadCount(address) > 0 <=> CellOf(address) \in CellsRead)
<1> DEFINE cell == CellOf(address)
<1>1. /\ \A c \in DOMAIN readCounts : readCounts[c] \in Nat
      /\ \A c \in DOMAIN readCounts : readCounts[c] > 0 => c \in CellsRead
      /\ \A a \in DoneHalfWords : HasCounted(a)
      /\ HasCounted(Current.address)
  BY DEF CountsInv
<1>2. ReadCount(address) = ReadsOf(cell)
  BY DEF ReadCount
<1> HIDE DEF cell
<1>3. ReadsOf(cell) \in Nat /\ (ReadsOf(cell) > 0 => cell \in CellsRead)
  BY <1>1 DEF ReadsOf
<1>4. \A a \in HalfWordsRead : HasCounted(a)
  <2>1. done \in Nat
    BY ListPlaces DEF CallsInv
  <2>2. \A k \in 1 .. done + 1 : k \in 1 .. done \/ k = done + 1
    BY <2>1
  <2>3. \A a \in HalfWordsRead : a \in DoneHalfWords \/ a = Current.address
    BY <2>2 DEF HalfWordsRead, Fetched, DoneHalfWords, Current
  <2>4. QED
    BY <1>1, <2>3
<1>5. cell \in CellsRead => ReadsOf(cell) > 0
  BY <1>4 DEF CellsRead, HasCounted
<1>6. QED
  BY <1>2, <1>3, <1>5 DEF cell

-----------------------------------------------------------------------------
(* The lines that are written, and the counts in the summary.              *)

\* What the lines of the sources are told from.
Rests == UNCHANGED <<elf, reads, regions, sources, program, done>>

\* The lines of a file, up to one, that rows are about, and those executed.
LinesOf(file, n)  == {line \in 1 .. n : RowsAbout(file, line) # {}}
LinesRun(file, n) == {line \in 1 .. n : WasExecuted(file, line)}
Expects(file, n)  == [line \in 1 .. n |-> Expected(file, line)]

\* What is told of a file of the summary, but for the names that are being written.
ToldAt(out, list, k, open) ==
    LET file == list[k][1]
        name == BaseName[file]
    IN  /\ name \in DOMAIN out
        /\ \/ name \in open
           \/ \E later \in k + 1 .. Len(list) : BaseName[list[later][1]] = name
           \/ out[name] = Expects(file, sources[file])
        /\ list[k][2] = Cardinality(LinesOf(file, sources[file]))
        /\ list[k][3] = Cardinality(LinesRun(file, sources[file]))
AllTold(out, list, open) == \A k \in DOMAIN list : ToldAt(out, list, k, open)

\* Rows of the file are at the place.
IsAt(row, file) == row \in DOMAIN elf /\ elf[row].file = file

\* No line from here on will be one that the next row is about.
Hopeless(state) ==
    /\ state.executable = 0 /\ state.line \in Nat \ {0} /\ IsAt(state.row, state.file)
    /\ elf[state.row].line \notin state.line .. sources[state.file]

\* The rows that are passed are those about the lines that are written.
Clean(state) ==
    /\ state.line \in 1 .. sources[state.file] + 1
    /\ \A n \in DOMAIN elf :
         elf[n].file = state.file =>
             IF n < state.row THEN elf[n].line \in 1 .. state.line - 1 ELSE elf[n].line >= state.line
    /\ IsAt(state.row, state.file) \/ IsAt(state.row - 1, state.file)
    /\ state.executable > 0 => IsAt(state.row - 1, state.file)
    /\ state.executable = Cardinality(LinesOf(state.file, state.line - 1))
    /\ state.executed = Cardinality(LinesRun(state.file, state.line - 1))

\* The lines that are written have the marks that are expected.
Marked(state, out) == out[BaseName[state.file]] = Expects(state.file, state.line - 1)

\* The next row's file has no row in front of it, or its row is behind the last
\* line of the source.
Fresh(row) ==
    row \in DOMAIN elf => \/ \A n \in 1 .. row - 1 : elf[n].file # elf[row].file
                          \/ elf[row].line > sources[elf[row].file]

ToldPlaces == DonePlaces \cup {"uninit"}

ExactInv ==
    /\ outputs = [name \in DOMAIN outputs |-> outputs[name]] /\ sources \in [Range(Files) -> Nat]
    /\ stop # "exit" => summary = NoSummary
    /\ at = "walk" => Fresh(walk.row) /\ AllTold(outputs, summary, {})
    /\ at \in SourcePlaces =>
         walk.line = 1 /\ (Hopeless(walk) \/ Clean(walk)) /\ AllTold(outputs, summary, {})
    /\ at = "lines" =>
         /\ Hopeless(walk) \/ (Clean(walk) /\ Marked(walk, outputs))
         /\ BaseName[walk.file] \in DOMAIN outputs
         /\ AllTold(outputs, summary, {BaseName[walk.file]})
    /\ at \in ToldPlaces /\ CoverageIsComplete => AllTold(outputs, summary, {})

\* The rows are in the order of their files, then of their lines: those of a file
\* follow each other.
Ordered ==
    /\ DOMAIN elf = 1 .. Len(elf) /\ Len(elf) \in Nat
    /\ \A n \in DOMAIN elf : elf[n].file \in Range(Files) /\ elf[n].line \in Nat
    /\ \A p, q \in DOMAIN elf : p < q /\ elf[p].file = elf[q].file => elf[p].line <= elf[q].line
    /\ \A p, q, r \in DOMAIN elf : p <= q /\ q <= r /\ elf[p].file = elf[r].file => elf[q].file = elf[p].file

\* The table that is walked along has this order.
LEMMA TableIsOrdered ==
    ASSUME KeptInv, elf # NoLines
    PROVE  Ordered
<1>1. HasLive(dump, Len(dump) + 1, elf) /\ InOrder(elf) /\ IsDump(dump)
  BY DEF KeptInv
<1>2. DOMAIN elf = 1 .. Len(elf) /\ Len(elf) \in Nat
  BY <1>1, ListPlaces DEF HasLive
<1>3. \A n \in DOMAIN elf : elf[n].file \in Range(Files) /\ elf[n].line \in Nat
  BY <1>1, RowsNameFiles DEF HasLive, Rows, IsRow
<1>4. \A n \in DOMAIN elf : Rank(elf[n].file) \in Nat /\ Files[Rank(elf[n].file)] = elf[n].file
  BY <1>3, RankIs
<1>5. \A p, q \in DOMAIN elf : p < q => /\ Rank(elf[p].file) <= Rank(elf[q].file)
                                        /\ elf[p].file = elf[q].file => elf[p].line <= elf[q].line
  <2>1. SUFFICES ASSUME NEW p \in DOMAIN elf, NEW q \in DOMAIN elf, p < q
                 PROVE  /\ Rank(elf[p].file) <= Rank(elf[q].file)
                        /\ elf[p].file = elf[q].file => elf[p].line <= elf[q].line
    OBVIOUS
  <2>2. ~CompareLines(Files, elf[q], elf[p])
    BY <1>1, <2>1 DEF InOrder
  <2>3. /\ ~(Rank(elf[q].file) < Rank(elf[p].file))
        /\ ~(elf[q].file = elf[p].file /\ elf[q].line < elf[p].line)
    BY <2>2, CompareIs
  <2>4. elf[p].line \in Nat /\ elf[q].line \in Nat /\ Rank(elf[p].file) \in Nat /\ Rank(elf[q].file) \in Nat
    BY <1>3, <1>4
  <2>5. QED
    BY <2>3, <2>4
<1>6. ASSUME NEW p \in DOMAIN elf, NEW q \in DOMAIN elf, NEW r \in DOMAIN elf,
             p <= q, q <= r, elf[p].file = elf[r].file
      PROVE  elf[q].file = elf[p].file
  <2>1. p \in Nat /\ q \in Nat /\ r \in Nat
    BY <1>2
  <2>2. p = q \/ q = r \/ (p < q /\ q < r)
    BY <1>6, <2>1
  <2>3. CASE p < q /\ q < r
    <3>1. Rank(elf[p].file) <= Rank(elf[q].file) /\ Rank(elf[q].file) <= Rank(elf[r].file)
      BY <1>5, <2>3
    <3>2. Rank(elf[q].file) = Rank(elf[p].file)
      BY <1>4, <1>6, <3>1
    <3>3. QED
      BY <1>4, <3>2
  <2>4. QED
    BY <1>6, <2>2, <2>3
<1>7. QED
  BY <1>2, <1>3, <1>5, <1>6 DEF Ordered

\* A number more is counted when it is in the set.
LEMMA CountsOneMore ==
    ASSUME NEW n \in Nat, NEW S
    PROVE  /\ IsFiniteSet({x \in 1 .. n : x \in S})
           /\ Cardinality({x \in 1 .. n + 1 : x \in S}) =
                  IF n + 1 \in S THEN Cardinality({x \in 1 .. n : x \in S}) + 1
                                 ELSE Cardinality({x \in 1 .. n : x \in S})
<1> DEFINE T == {x \in 1 .. n : x \in S}
           U == {x \in 1 .. n + 1 : x \in S}
<1>1. IsFiniteSet(T) /\ n + 1 \notin T
  <2>1. IsFiniteSet(1 .. n)
    BY FS_Interval
  <2>2. T \subseteq 1 .. n
    OBVIOUS
  <2>3. QED
    BY <2>1, <2>2, FS_Subset
<1>2. n + 1 \in S => U = T \cup {n + 1}
  OBVIOUS
<1>3. n + 1 \notin S => U = T
  OBVIOUS
<1>4. Cardinality(T \cup {n + 1}) = Cardinality(T) + 1
  <2> HIDE DEF T
  <2>1. QED
    BY <1>1, FS_AddElement
<1>5. QED
  BY <1>1, <1>2, <1>3, <1>4

\* The lines up to the next one.
LEMMA LinesGrow ==
    ASSUME NEW file, NEW n \in Nat
    PROVE  /\ Cardinality(LinesOf(file, n + 1)) =
                  IF RowsAbout(file, n + 1) = {} THEN Cardinality(LinesOf(file, n))
                                                 ELSE Cardinality(LinesOf(file, n)) + 1
           /\ Cardinality(LinesRun(file, n + 1)) =
                  IF WasExecuted(file, n + 1) THEN Cardinality(LinesRun(file, n)) + 1
                                              ELSE Cardinality(LinesRun(file, n))
           /\ Cardinality(LinesOf(file, n)) \in Nat /\ Cardinality(LinesRun(file, n)) \in Nat
<1> DEFINE O == {line \in Nat : RowsAbout(file, line) # {}}
           R == {line \in Nat : WasExecuted(file, line)}
<1>1. \A m \in Nat : LinesOf(file, m) = {x \in 1 .. m : x \in O} /\ LinesRun(file, m) = {x \in 1 .. m : x \in R}
  BY DEF LinesOf, LinesRun
<1>2. (n + 1 \in O <=> RowsAbout(file, n + 1) # {}) /\ (n + 1 \in R <=> WasExecuted(file, n + 1))
  OBVIOUS
<1> HIDE DEF O, R
<1>3. n + 1 \in Nat
  OBVIOUS
<1>4. /\ Cardinality({x \in 1 .. n : x \in O}) \in Nat /\ Cardinality({x \in 1 .. n : x \in R}) \in Nat
  BY CountsOneMore, FS_CardinalityType
<1>5. Cardinality({x \in 1 .. n + 1 : x \in O}) =
          IF n + 1 \in O THEN Cardinality({x \in 1 .. n : x \in O}) + 1 ELSE Cardinality({x \in 1 .. n : x \in O})
  BY CountsOneMore
<1>6. Cardinality({x \in 1 .. n + 1 : x \in R}) =
          IF n + 1 \in R THEN Cardinality({x \in 1 .. n : x \in R}) + 1 ELSE Cardinality({x \in 1 .. n : x \in R})
  BY CountsOneMore
<1>7. QED
  BY <1>1, <1>2, <1>3, <1>4, <1>5, <1>6

\* No line is counted before the first.
LEMMA NoLinesYet ==
    ASSUME NEW file
    PROVE  Cardinality(LinesOf(file, 0)) = 0 /\ Cardinality(LinesRun(file, 0)) = 0
<1>1. LinesOf(file, 0) = {} /\ LinesRun(file, 0) = {}
  BY DEF LinesOf, LinesRun
<1>2. QED
  BY <1>1, FS_EmptySet

\* The places of the rows about a line, and the mark for some of them.
RowsOn(file, line) == {n \in DOMAIN elf : elf[n].file = file /\ elf[n].line = line}
MarkOf(rows) == IF rows = {} THEN NotExecutable ELSE MinCount(rows)

\* The count of a line is the one that is expected, and it tells whether the
\* half-words at all of the line's rows were read.
LEMMA CountTells ==
    ASSUME CallsInv, CountsInv, stop = "exit", at # "exited",
           NEW file, NEW line, NEW rows, rows = RowsOn(file, line),
           NEW count, count = MarkOf(rows)
    PROVE  /\ RowsAbout(file, line) = {} <=> rows = {}
           /\ count = Expected(file, line)
           /\ count > 0 <=> WasExecuted(file, line)
<1>1. RowsAbout(file, line) = {elf[n] : n \in rows}
  BY DEF RowsAbout, Range, RowsOn
<1> DEFINE about  == RowsAbout(file, line)
           counts == {ReadCount(row.address) : row \in about}
<1>2. {ReadCount(elf[n].address) : n \in rows} = counts
  BY <1>1
<1>3. about = {} <=> rows = {}
  BY <1>1
<1>4. CASE rows = {}
  BY <1>3, <1>4 DEF Expected, WasExecuted, NotExecutable, MarkOf
<1>5. CASE rows # {}
  <2>1. count = Min(counts) /\ Expected(file, line) = Min(counts) /\ about # {}
    BY <1>2, <1>3, <1>5 DEF MinCount, Expected, MarkOf
  <2>2. counts \subseteq Nat /\ counts # {}
    BY <2>1, ReadsTell
  <2> HIDE DEF about, counts
  <2>3. Min(counts) \in counts /\ \A c \in counts : Min(counts) <= c
    BY <2>2, HasLowest DEF Min
  <2>4. count > 0 <=> \A c \in counts : c > 0
    <3> DEFINE m == Min(counts)
    <3>1. m \in counts /\ \A c \in counts : c \in Nat /\ m <= c
      BY <2>2, <2>3
    <3>2. count = m
      BY <2>1
    <3> HIDE DEF m
    <3>3. m > 0 => \A c \in counts : c > 0
      BY <3>1
    <3>4. QED
      BY <3>1, <3>2, <3>3
  <2>5. (\A c \in counts : c > 0) <=> \A row \in about : CellOf(row.address) \in CellsRead
    <3>1. \A row \in about : ReadCount(row.address) > 0 <=> CellOf(row.address) \in CellsRead
      BY ReadsTell
    <3>2. QED
      BY <3>1 DEF counts
  <2>6. QED
    BY <1>3, <2>1, <2>4, <2>5 DEF WasExecuted, about
<1>6. QED
  BY <1>4, <1>5

\* The source that is walked along is known, and so is its line.
LEMMA SourceIsKnown ==
    ASSUME Ordered, sources \in [Range(Files) -> Nat], NEW state, Hopeless(state) \/ Clean(state)
    PROVE  state.file \in Range(Files) /\ sources[state.file] \in Nat /\ state.line \in Nat \ {0}
<1>1. state.file \in Range(Files)
  BY DEF Hopeless, Clean, IsAt, Ordered
<1>2. sources[state.file] \in Nat
  BY <1>1
<1>3. state.line \in Nat \ {0}
  BY <1>2 DEF Hopeless, Clean
<1>4. QED
  BY <1>1, <1>2, <1>3

\* The rows that match are all of those about the line.
LEMMA MatchingAre ==
    ASSUME Ordered, Walking, Clean(walk), sources \in [Range(Files) -> Nat]
    PROVE  \E p \in walk.row .. Len(elf) + 1 :
             /\ MatchingRows = walk.row .. p - 1 /\ Cardinality(MatchingRows) = p - walk.row
             /\ MatchingRows = {n \in DOMAIN elf : elf[n].file = walk.file /\ elf[n].line = walk.line}
<1> DEFINE r     == walk.row
           about == {n \in DOMAIN elf : elf[n].file = walk.file /\ elf[n].line = walk.line}
<1>1. PICK p \in r .. Len(elf) + 1 : MatchingRows = r .. p - 1 /\ Cardinality(MatchingRows) = p - r
  BY MatchingIs
<1>2. /\ r \in Nat \ {0} /\ DOMAIN elf = 1 .. Len(elf) /\ Len(elf) \in Nat
      /\ walk.line \in Nat \ {0} /\ sources[walk.file] \in Nat
  BY SourceIsKnown DEF Walking, WalkInv, Ordered
<1>3. ASSUME NEW n \in MatchingRows
      PROVE  n \in about
  <2>1. n \in r .. Len(elf) /\ \A k \in r .. n : Matches(k)
    BY DEF MatchingRows
  <2>2. n \in r .. n
    BY <1>2, <2>1
  <2>3. QED
    BY <2>1, <2>2 DEF Matches
<1>4. ASSUME NEW n \in about
      PROVE  n \in MatchingRows
  <2>1. n \in DOMAIN elf /\ elf[n].file = walk.file /\ elf[n].line = walk.line
    OBVIOUS
  <2>2. n \in Nat /\ elf[n].line \in Nat
    BY <1>2, <2>1 DEF Ordered
  <2>3. n >= r
    <3>1. n < r => elf[n].line \in 1 .. walk.line - 1
      BY <2>1 DEF Clean
    <3>2. QED
      BY <1>2, <2>1, <2>2, <3>1
  <2>4. ASSUME NEW k \in r .. n
        PROVE  Matches(k)
    <3>1. k \in DOMAIN elf /\ k \in Nat /\ k <= n /\ r <= k
      BY <1>2, <2>1, <2>2
    <3>2. elf[k].file = walk.file
      <4>1. CASE IsAt(r, walk.file)
        BY <1>2, <2>1, <3>1, <4>1 DEF Ordered, IsAt
      <4>2. CASE IsAt(r - 1, walk.file)
        <5>1. r - 1 <= k
          BY <1>2, <3>1
        <5>2. QED
          BY <2>1, <3>1, <4>2, <5>1 DEF Ordered, IsAt
      <4>3. QED
        BY <4>1, <4>2 DEF Clean
    <3>3. elf[k].line >= walk.line
      <4>1. ~(k < r)
        BY <1>2, <3>1
      <4>2. QED
        BY <3>1, <3>2, <4>1 DEF Clean
    <3>4. k = n \/ elf[k].line <= elf[n].line
      <4>1. k = n \/ k < n
        BY <2>2, <3>1
      <4>2. QED
        BY <2>1, <3>1, <3>2, <4>1 DEF Ordered
    <3>5. elf[k].line \in Nat
      BY <3>1 DEF Ordered
    <3>6. elf[k].line = walk.line
      BY <1>2, <2>1, <3>3, <3>4, <3>5
    <3>7. QED
      BY <3>1, <3>2, <3>6 DEF Matches
  <2>5. n \in r .. Len(elf)
    BY <1>2, <2>1, <2>2, <2>3
  <2>6. QED
    BY <2>4, <2>5 DEF MatchingRows
<1>5. MatchingRows = about
  BY <1>3, <1>4
<1>6. QED
  BY <1>1, <1>5

\* When the rows about the next line are passed with it, the walk stays clean.
LEMMA CleanGoesOn ==
    ASSUME Ordered, Clean(walk), sources[walk.file] \in Nat, walk.line <= sources[walk.file],
           walk.row \in 1 .. Len(elf) + 1, NEW p \in walk.row .. Len(elf) + 1,
           walk.row .. p - 1 = {n \in DOMAIN elf : elf[n].file = walk.file /\ elf[n].line = walk.line},
           NEW state, state.file = walk.file, state.row = p, state.line = walk.line + 1,
           state.executable = walk.executable + (IF RowsAbout(walk.file, walk.line) = {} THEN 0 ELSE 1),
           state.executed = walk.executed + (IF WasExecuted(walk.file, walk.line) THEN 1 ELSE 0)
    PROVE  Clean(state)
<1> DEFINE r == walk.row
           f == walk.file
           l == walk.line
           about == {n \in DOMAIN elf : elf[n].file = walk.file /\ elf[n].line = walk.line}
<1>1. /\ r \in Nat \ {0} /\ p \in Nat /\ r <= p /\ DOMAIN elf = 1 .. Len(elf) /\ Len(elf) \in Nat
      /\ l \in Nat \ {0} /\ (l + 1) - 1 = l /\ l - 1 \in Nat /\ (l - 1) + 1 = l
  BY DEF Ordered, Clean
<1>2. l + 1 \in 1 .. sources[f] + 1
  BY <1>1
<1>3. ASSUME NEW n \in DOMAIN elf, elf[n].file = f
      PROVE  IF n < p THEN elf[n].line \in 1 .. (l + 1) - 1 ELSE elf[n].line >= l + 1
  <2>1. /\ n < r => elf[n].line \in 1 .. l - 1
        /\ ~(n < r) => elf[n].line >= l
    BY <1>3 DEF Clean
  <2>2. n \in r .. p - 1 <=> elf[n].line = l
    BY <1>3
  <2>3. n \in Nat /\ elf[n].line \in Nat
    BY <1>1 DEF Ordered
  <2>4. QED
    BY <1>1, <2>1, <2>2, <2>3
<1>4. p > r => IsAt(p - 1, f)
  <2>1. p > r => p - 1 \in r .. p - 1
    BY <1>1
  <2>2. QED
    BY <2>1 DEF IsAt
<1>5. IsAt(p, f) \/ IsAt(p - 1, f)
  <2>1. p > r \/ p = r
    BY <1>1
  <2>2. QED
    BY <1>4, <2>1 DEF Clean
<1>6. RowsAbout(f, l) # {} => p > r
  <2>1. ASSUME RowsAbout(f, l) # {}
        PROVE  p > r
    <3>1. \E n \in DOMAIN elf : n \in about
      BY <2>1 DEF RowsAbout, Range
    <3>2. \E n : n \in r .. p - 1
      BY <3>1
    <3>3. QED
      BY <1>1, <3>2
  <2>2. QED
    BY <2>1
<1>7. /\ walk.executable = Cardinality(LinesOf(f, l - 1)) /\ walk.executed = Cardinality(LinesRun(f, l - 1))
      /\ walk.executable \in Nat /\ walk.executed \in Nat
  BY <1>1, LinesGrow DEF Clean
<1>8. /\ state.executable = Cardinality(LinesOf(f, (l + 1) - 1))
      /\ state.executed = Cardinality(LinesRun(f, (l + 1) - 1))
  <2>1. /\ Cardinality(LinesOf(f, (l - 1) + 1)) =
              IF RowsAbout(f, (l - 1) + 1) = {} THEN Cardinality(LinesOf(f, l - 1))
                                                ELSE Cardinality(LinesOf(f, l - 1)) + 1
        /\ Cardinality(LinesRun(f, (l - 1) + 1)) =
              IF WasExecuted(f, (l - 1) + 1) THEN Cardinality(LinesRun(f, l - 1)) + 1
                                             ELSE Cardinality(LinesRun(f, l - 1))
    BY <1>1, LinesGrow
  <2>2. QED
    BY <1>1, <1>7, <2>1
<1>9. state.executable > 0 => IsAt(p - 1, f)
  <2>1. CASE RowsAbout(f, l) # {}
    BY <1>4, <1>6, <2>1
  <2>2. CASE RowsAbout(f, l) = {}
    <3>1. state.executable = walk.executable
      BY <1>7, <2>2
    <3>2. p > r \/ p = r
      BY <1>1
    <3>3. QED
      BY <1>4, <3>1, <3>2 DEF Clean
  <2>3. QED
    BY <2>1, <2>2
<1>10. QED
  BY <1>2, <1>3, <1>5, <1>8, <1>9 DEF Clean


\* A walk that is hopeless finds no row for its line.
LEMMA HopelessFindsNone ==
    ASSUME Ordered, Walking, Hopeless(walk), sources \in [Range(Files) -> Nat],
           walk.line <= sources[walk.file]
    PROVE  MatchingRows = {}
<1>1. /\ walk.row \in DOMAIN elf /\ elf[walk.row].file = walk.file
      /\ elf[walk.row].line \notin walk.line .. sources[walk.file] /\ walk.executable = 0
  BY DEF Hopeless, IsAt
<1>2. /\ walk.row \in Nat /\ Len(elf) \in Nat /\ elf[walk.row].line \in Nat
      /\ walk.line \in Nat \ {0} /\ sources[walk.file] \in Nat
  BY <1>1, SourceIsKnown DEF Ordered
<1>3. ASSUME NEW n \in MatchingRows
      PROVE  FALSE
  <2>1. n \in walk.row .. Len(elf) /\ \A k \in walk.row .. n : Matches(k)
    BY DEF MatchingRows
  <2>2. walk.row \in walk.row .. n
    BY <1>2, <2>1
  <2>3. elf[walk.row].line = walk.line
    BY <2>1, <2>2 DEF Matches
  <2>4. QED
    BY <1>1, <1>2, <2>3
<1>4. QED
  BY <1>3

\* It stays hopeless behind the line.
LEMMA HopelessGoesOn ==
    ASSUME Ordered, Hopeless(walk), sources \in [Range(Files) -> Nat],
           NEW state, state.row = walk.row, state.file = walk.file, state.line = walk.line + 1,
           state.executable = walk.executable
    PROVE  Hopeless(state)
<1>1. /\ walk.row \in DOMAIN elf /\ elf[walk.row].file = walk.file
      /\ elf[walk.row].line \notin walk.line .. sources[walk.file] /\ walk.executable = 0
  BY DEF Hopeless, IsAt
<1>2. elf[walk.row].line \in Nat /\ walk.line \in Nat \ {0} /\ sources[walk.file] \in Nat
  BY <1>1, SourceIsKnown DEF Ordered
<1>3. elf[walk.row].line \notin walk.line + 1 .. sources[walk.file] /\ walk.line + 1 \in Nat \ {0}
  BY <1>1, <1>2
<1>4. QED
  BY <1>1, <1>3 DEF Hopeless, IsAt

\* A file whose rows are all ahead is walked along from its first line.
LEMMA EntersClean ==
    ASSUME Ordered, sources \in [Range(Files) -> Nat], NEW state, state.row \in DOMAIN elf,
           Fresh(state.row), state.file = elf[state.row].file, state.line = 1, state.executable = 0,
           state.executed = 0
    PROVE  Hopeless(state) \/ Clean(state)
<1> DEFINE r == state.row
           f == state.file
<1>1. /\ r \in Nat \ {0} /\ DOMAIN elf = 1 .. Len(elf) /\ Len(elf) \in Nat
      /\ f \in Range(Files) /\ elf[r].line \in Nat /\ IsAt(r, f) /\ elf[r].file = f
  BY DEF Ordered, IsAt
<1>2. sources[f] \in Nat
  BY <1>1
<1>3. CASE elf[r].line \notin 1 .. sources[f]
  BY <1>1, <1>3 DEF Hopeless
<1>4. CASE elf[r].line \in 1 .. sources[f]
  <2>1. \A n \in 1 .. r - 1 : elf[n].file # f
    BY <1>1, <1>2, <1>4 DEF Fresh
  <2>2. ASSUME NEW n \in DOMAIN elf, elf[n].file = f
        PROVE  IF n < r THEN elf[n].line \in 1 .. 1 - 1 ELSE elf[n].line >= 1
    <3>1. n \in Nat \ {0} /\ elf[n].line \in Nat
      BY <1>1 DEF Ordered
    <3>2. ~(n < r)
      BY <1>1, <2>1, <2>2, <3>1
    <3>3. n = r \/ r < n
      BY <1>1, <3>1, <3>2
    <3>4. elf[r].line <= elf[n].line
      BY <1>1, <2>2, <3>3 DEF Ordered
    <3>5. QED
      BY <1>1, <1>4, <3>1, <3>2, <3>4
  <2>3. /\ 0 = Cardinality(LinesOf(f, 1 - 1)) /\ 0 = Cardinality(LinesRun(f, 1 - 1))
        /\ 1 \in 1 .. sources[f] + 1 /\ ~(0 > 0)
    <3>1. 1 - 1 = 0 /\ 1 \in 1 .. sources[f] + 1 /\ ~(0 > 0)
      BY <1>2
    <3>2. QED
      BY <3>1, NoLinesYet
  <2>4. QED
    BY <1>1, <2>2, <2>3 DEF Clean
<1>5. QED
  BY <1>3, <1>4

\* Behind the rows of one file, those of the next are all ahead.
LEMMA SkipsFresh ==
    ASSUME Ordered, Walked, walk.row <= Len(elf), NEW file, file = elf[walk.row].file
    PROVE  Fresh(PastFile(file))
<1> DEFINE P == {n \in 1 .. Len(elf) : elf[n].file = file}
           row == walk.row
<1>1. row \in Nat \ {0} /\ Len(elf) \in Nat /\ row <= Len(elf) + 1 /\ DOMAIN elf = 1 .. Len(elf)
  BY DEF Walked, WalkInv, Ordered
<1>2. PICK p : IsBehind(p, row, Len(elf), P)
  <2> HIDE DEF P
  <2>1. QED
    BY <1>1, Behind
<1>3. PastFile(file) = p
  <2>1. {n \in row .. Len(elf) + 1 : n > Len(elf) \/ elf[n].file # file} =
        {n \in row .. Len(elf) + 1 : n > Len(elf) \/ n \notin P}
    BY <1>1
  <2>2. QED
    BY <1>2, <2>1, Zenon DEF PastFile, IsBehind
<1>4. /\ p \in row .. Len(elf) + 1 /\ (p = Len(elf) + 1 \/ p \notin P)
      /\ \A k \in row .. p - 1 : k \in P
  BY <1>2 DEF IsBehind
<1>5. row \in P
  BY <1>1
<1>6. ASSUME p \in DOMAIN elf
      PROVE  \A n \in 1 .. p - 1 : elf[n].file # elf[p].file
  <2>1. p # Len(elf) + 1 /\ p # row
    BY <1>1, <1>4, <1>5, <1>6
  <2>2. elf[p].file # file
    BY <1>1, <1>4, <1>6, <2>1
  <2>3. p - 1 \in row .. p - 1 /\ p - 1 \in DOMAIN elf /\ p - 1 <= p
    BY <1>1, <1>4, <1>6, <2>1
  <2>4. elf[p - 1].file = file
    BY <1>4, <2>3
  <2>5. ASSUME NEW n \in 1 .. p - 1, elf[n].file = elf[p].file
        PROVE  FALSE
    <3>1. n \in DOMAIN elf /\ n <= p - 1
      BY <1>1, <1>6
    <3>2. elf[p - 1].file = elf[n].file
      BY <1>6, <2>3, <2>5, <3>1 DEF Ordered
    <3>3. QED
      BY <2>2, <2>4, <2>5, <3>2
  <2>6. QED
    BY <2>5
<1>7. Fresh(p)
  BY <1>6 DEF Fresh
<1>8. QED
  BY <1>3, <1>7

\* At the end of a source that had a line to execute, all its lines are written,
\* and the next row is of another file, or behind the source's last line.
LEMMA EndsFresh ==
    ASSUME Ordered, WalkInv, Hopeless(walk) \/ Clean(walk), sources \in [Range(Files) -> Nat],
           walk.line > sources[walk.file], walk.executable > 0
    PROVE  Clean(walk) /\ walk.line - 1 = sources[walk.file] /\ Fresh(walk.row)
<1> DEFINE r == walk.row
           f == walk.file
<1>1. Clean(walk)
  BY DEF Hopeless
<1>2. /\ r \in Nat \ {0} /\ DOMAIN elf = 1 .. Len(elf) /\ Len(elf) \in Nat
      /\ sources[f] \in Nat /\ walk.line \in 1 .. sources[f] + 1
  BY <1>1, SourceIsKnown DEF WalkInv, Ordered, Clean
<1>3. walk.line - 1 = sources[f]
  BY <1>2
<1>4. r - 1 \in DOMAIN elf /\ elf[r - 1].file = f
  BY <1>1 DEF Clean, IsAt
<1>5. ASSUME r \in DOMAIN elf
      PROVE  \/ \A n \in 1 .. r - 1 : elf[n].file # elf[r].file
             \/ elf[r].line > sources[elf[r].file]
  <2>1. CASE elf[r].file = f
    <3>1. elf[r].line >= walk.line
      <4>1. ~(r < r)
        BY <1>2
      <4>2. QED
        BY <1>1, <1>5, <2>1, <4>1 DEF Clean
    <3>2. elf[r].line \in Nat
      BY <1>5 DEF Ordered
    <3>3. QED
      BY <1>2, <2>1, <3>1, <3>2
  <2>2. CASE elf[r].file # f
    <3>1. ASSUME NEW n \in 1 .. r - 1, elf[n].file = elf[r].file
          PROVE  FALSE
      <4>1. n \in DOMAIN elf /\ n <= r - 1 /\ r - 1 <= r
        BY <1>2, <1>5
      <4>2. elf[r - 1].file = elf[n].file
        BY <1>4, <1>5, <3>1, <4>1 DEF Ordered
      <4>3. QED
        BY <1>4, <2>2, <3>1, <4>2
    <3>2. QED
      BY <3>1
  <2>3. QED
    BY <2>1, <2>2
<1>6. QED
  BY <1>1, <1>3, <1>5 DEF Fresh


-----------------------------------------------------------------------------
(* What the summary tells while a file is being written.                   *)

IsMap(out) == out = [name \in DOMAIN out |-> out[name]]

\* Opening a file for a name empties it, and leaves the others.
LEMMA OpensName ==
    ASSUME NEW out, NEW list, NEW name, AllTold(out, list, {})
    PROVE  LET opened == [other \in DOMAIN out \cup {name} |-> IF other = name THEN << >> ELSE out[other]]
           IN  /\ IsMap(opened) /\ name \in DOMAIN opened /\ opened[name] = << >>
               /\ AllTold(opened, list, {name})
<1> DEFINE opened == [other \in DOMAIN out \cup {name} |-> IF other = name THEN << >> ELSE out[other]]
<1>1. /\ DOMAIN opened = DOMAIN out \cup {name} /\ opened[name] = << >>
      /\ \A n \in DOMAIN out : n # name => opened[n] = out[n]
      /\ IsMap(opened)
  BY DEF IsMap
<1> HIDE DEF opened
<1>2. IsMap(opened) /\ name \in DOMAIN opened /\ opened[name] = << >>
  BY <1>1
<1>3. AllTold(opened, list, {name})
  BY <1>1 DEF AllTold, ToldAt
<1>4. QED
  BY <1>2, <1>3 DEF opened

\* What is written for one name leaves the others.
LEMMA WritesName ==
    ASSUME NEW out, NEW list, NEW name, NEW mark, IsMap(out), name \in DOMAIN out, AllTold(out, list, {name})
    PROVE  LET written == [out EXCEPT ![name] = mark]
           IN  /\ IsMap(written) /\ name \in DOMAIN written /\ written[name] = mark
               /\ AllTold(written, list, {name})
<1> DEFINE written == [out EXCEPT ![name] = mark]
<1>1. /\ DOMAIN written = DOMAIN out /\ written[name] = mark
      /\ \A n \in DOMAIN out : n # name => written[n] = out[n]
  BY DEF IsMap
<1>2. IsMap(written)
  BY DEF IsMap
<1> HIDE DEF written
<1>3. AllTold(written, list, {name})
  BY <1>1 DEF AllTold, ToldAt
<1>4. QED
  BY <1>1, <1>2, <1>3 DEF written

\* A file whose lines are all written is told of, and nothing is open.
LEMMA ClosesName ==
    ASSUME NEW out, NEW list, IsList(list), NEW file, BaseName[file] \in DOMAIN out,
           AllTold(out, list, {BaseName[file]}), out[BaseName[file]] = Expects(file, sources[file]),
           NEW executable, executable = Cardinality(LinesOf(file, sources[file])),
           NEW executed, executed = Cardinality(LinesRun(file, sources[file]))
    PROVE  AllTold(out, Append(list, <<file, executable, executed>>), {})
<1> DEFINE last == <<file, executable, executed>>
           longer == Append(list, last)
<1>1. last[1] = file /\ last[2] = executable /\ last[3] = executed
  OBVIOUS
<1> HIDE DEF last
<1>2. DOMAIN list = 1 .. Len(list) /\ Len(list) \in Nat
  BY ListPlaces
<1>3. /\ IsList(longer) /\ DOMAIN longer = 1 .. Len(list) + 1
      /\ \A k \in 1 .. Len(list) : longer[k] = list[k]
      /\ longer[Len(list) + 1] = last
  BY AppendedList
<1> HIDE DEF longer
<1>4. Len(longer) = Len(list) + 1
  <2>1. DOMAIN longer = 1 .. Len(longer) /\ Len(longer) \in Nat
    BY <1>3, ListPlaces
  <2>2. QED
    BY <1>2, <1>3, <2>1
<1>5. ToldAt(out, longer, Len(list) + 1, {})
  BY <1>1, <1>3 DEF ToldAt
<1>6. ASSUME NEW k \in 1 .. Len(list)
      PROVE  ToldAt(out, longer, k, {})
  <2> DEFINE name == BaseName[list[k][1]]
  <2>1. ToldAt(out, list, k, {BaseName[file]}) /\ longer[k] = list[k]
    BY <1>2, <1>3 DEF AllTold
  <2>2. ASSUME name = BaseName[file]
        PROVE  \E later \in k + 1 .. Len(longer) : BaseName[longer[later][1]] = name
    <3>1. Len(list) + 1 \in k + 1 .. Len(longer)
      BY <1>2, <1>4
    <3>2. BaseName[longer[Len(list) + 1][1]] = name
      BY <1>1, <1>3, <2>2
    <3>3. QED
      BY <3>1, <3>2
  <2>3. ASSUME \E later \in k + 1 .. Len(list) : BaseName[list[later][1]] = name
        PROVE  \E later \in k + 1 .. Len(longer) : BaseName[longer[later][1]] = name
    <3>1. PICK later \in k + 1 .. Len(list) : BaseName[list[later][1]] = name
      BY <2>3
    <3>2. later \in k + 1 .. Len(longer) /\ longer[later] = list[later]
      BY <1>2, <1>3, <1>4
    <3>3. QED
      BY <3>1, <3>2
  <2>4. /\ name \in DOMAIN out
        /\ \/ name = BaseName[file]
           \/ \E later \in k + 1 .. Len(list) : BaseName[list[later][1]] = name
           \/ out[name] = Expects(list[k][1], sources[list[k][1]])
        /\ list[k][2] = Cardinality(LinesOf(list[k][1], sources[list[k][1]]))
        /\ list[k][3] = Cardinality(LinesRun(list[k][1], sources[list[k][1]]))
    BY <2>1 DEF ToldAt
  <2>5. \/ \E later \in k + 1 .. Len(longer) : BaseName[longer[later][1]] = name
        \/ out[name] = Expects(list[k][1], sources[list[k][1]])
    BY <2>2, <2>3, <2>4
  <2>6. QED
    BY <2>1, <2>4, <2>5 DEF ToldAt
<1>7. \A k \in DOMAIN longer : k \in 1 .. Len(list) \/ k = Len(list) + 1
  BY <1>2, <1>3
<1>8. AllTold(out, longer, {})
  BY <1>5, <1>6, <1>7 DEF AllTold
<1>9. QED
  BY <1>8 DEF longer, last

\* The marks of no line, and those of one line more.
LEMMA MarksGrow ==
    ASSUME NEW file, NEW n \in Nat
    PROVE  Expects(file, 0) = << >> /\ Append(Expects(file, n), Expected(file, n + 1)) = Expects(file, n + 1)
<1> DEFINE Mark(line) == Expected(file, line)
           S == {Mark(line) : line \in 1 .. n}
<1>1. Expects(file, 0) = << >>
  <2> DEFINE e == Expects(file, 0)
  <2>1. e \in [1 .. 0 -> S]
    BY DEF Expects
  <2> HIDE DEF S
  <2>2. e \in Seq(S) /\ Len(e) = 0
    <3> HIDE DEF e
    <3>1. QED
      BY <2>1
  <2>3. QED
    <3> HIDE DEF e
    <3>1. e = << >>
      BY <2>2, EmptySeq
    <3>2. QED
      BY <3>1 DEF e
<1>2. Append(Expects(file, n), Expected(file, n + 1)) = Expects(file, n + 1)
  <2> DEFINE list == [line \in 1 .. n |-> Mark(line)]
             last == Mark(n + 1)
             longer == Append(list, last)
  <2>1. list \in [1 .. n -> S]
    OBVIOUS
  <2>2. \A k \in 1 .. n : list[k] = Mark(k)
    OBVIOUS
  <2> HIDE DEF S, Mark
  <2>3. list \in Seq(S) /\ Len(list) = n
    <3> HIDE DEF list
    <3>1. QED
      BY <2>1
  <2> HIDE DEF list
  <2>4. IsList(list)
    BY <2>3 DEF IsList
  <2>5. /\ IsList(longer) /\ DOMAIN longer = 1 .. n + 1
        /\ \A k \in 1 .. n : longer[k] = list[k]
        /\ longer[n + 1] = last
    <3> HIDE DEF last
    <3>1. QED
      BY <2>3, <2>4, AppendedList
  <2>6. longer = [k \in 1 .. n + 1 |-> longer[k]]
    <3> HIDE DEF longer
    <3>1. PICK T : longer \in Seq(T)
      BY <2>5 DEF IsList
    <3>2. QED
      BY <2>5, <3>1
  <2> HIDE DEF longer
  <2>7. \A k \in 1 .. n + 1 : longer[k] = Mark(k)
    <3>1. \A k \in 1 .. n + 1 : k \in 1 .. n \/ k = n + 1
      OBVIOUS
    <3>2. QED
      BY <2>2, <2>5, <3>1 DEF last
  <2>8. longer = [k \in 1 .. n + 1 |-> Mark(k)]
    BY <2>6, <2>7
  <2>9. QED
    BY <2>8 DEF longer, list, last, Mark, Expects
<1>3. QED
  BY <1>1, <1>2


-----------------------------------------------------------------------------
(* The coverage of the lines, in every state.                              *)

\* While the memory and its reads rest, so do the counters.
LEMMA RestsTheSame ==
    ASSUME Rests
    PROVE  /\ \A address : ReadCount(address)' = ReadCount(address) /\ CellOf(address)' = CellOf(address)
           /\ CellsRead' = CellsRead
<1>1. UNCHANGED <<readCounts, looked, regions, program, done>>
  BY DEF Rests, reads
<1>2. \A address : CellOf(address)' = CellOf(address) /\ IsCounted(address)' = IsCounted(address)
  BY <1>1 DEF CellOf, IsCounted, IsMapped, RegionOf
<1>3. \A address : ReadCount(address)' = ReadCount(address)
  BY <1>1, <1>2 DEF ReadCount, ReadsOf
<1>4. HalfWordsRead' = HalfWordsRead
  BY <1>1 DEF HalfWordsRead, Fetched
<1>5. QED
  BY <1>2, <1>3, <1>4 DEF CellsRead

\* While the table, the reads and the program rest, so does what is expected of
\* the lines.
LEMMA ExpectsTheSame ==
    ASSUME Rests
    PROVE  /\ Hopeless(walk)' <=> Hopeless(walk')
           /\ Clean(walk)' <=> Clean(walk')
           /\ Fresh(walk.row)' <=> Fresh(walk'.row)
           /\ Marked(walk, outputs)' <=> Marked(walk', outputs')
           /\ AllTold(outputs, summary, {})' <=> AllTold(outputs', summary', {})
           /\ AllTold(outputs, summary, {BaseName[walk.file]})' <=>
                  AllTold(outputs', summary', {BaseName[walk'.file]})
<1>1. /\ elf' = elf /\ readCounts' = readCounts /\ sources' = sources /\ program' = program
      /\ done' = done
  BY DEF Rests, reads
<1>2. \A file, line : RowsAbout(file, line)' = RowsAbout(file, line)
  BY <1>1 DEF RowsAbout
<1>3. /\ \A address : ReadCount(address)' = ReadCount(address) /\ CellOf(address)' = CellOf(address)
      /\ CellsRead' = CellsRead
  BY RestsTheSame
<1>4. /\ \A file, line : Expected(file, line)' = Expected(file, line)
      /\ \A file, line : WasExecuted(file, line)' <=> WasExecuted(file, line)
  BY <1>2, <1>3 DEF Expected, WasExecuted
<1>5. \A file, n : LinesOf(file, n)' = LinesOf(file, n)
  BY <1>2 DEF LinesOf
<1>6. \A file, n : LinesRun(file, n)' = LinesRun(file, n)
  BY <1>4 DEF LinesRun
<1>7. \A file, n : Expects(file, n)' = Expects(file, n)
  BY <1>4 DEF Expects
<1>8. \A row, file : IsAt(row, file)' <=> IsAt(row, file)
  BY <1>1 DEF IsAt
<1>9. Hopeless(walk)' <=> Hopeless(walk')
  BY <1>1, <1>8 DEF Hopeless, IsAt
<1>10. Clean(walk)' <=> Clean(walk')
  BY <1>1, <1>5, <1>6, <1>8 DEF Clean, IsAt
<1>11. Fresh(walk.row)' <=> Fresh(walk'.row)
  BY <1>1 DEF Fresh
<1>12. Marked(walk, outputs)' <=> Marked(walk', outputs')
  BY <1>7 DEF Marked
<1>13. AllTold(outputs, summary, {})' <=> AllTold(outputs', summary', {})
  BY <1>1, <1>5, <1>6, <1>7 DEF AllTold, ToldAt
<1>14. AllTold(outputs, summary, {BaseName[walk.file]})' <=>
           AllTold(outputs', summary', {BaseName[walk'.file]})
  BY <1>1, <1>5, <1>6, <1>7 DEF AllTold, ToldAt
<1>15. QED
  BY <1>9, <1>10, <1>11, <1>12, <1>13, <1>14

\* Where nothing is walked along and nothing has ended, no line is told of.
NothingTold ==
    {"codeCoverageRun", "initPrivateData", "parseElf", "elfLinesParse", "openPipe",
     "allocateElfLines", "readElf", "parsedElf", "openSummary", "catchElfLines", "catchParse",
     "catchRun", "rethrowRun", "catchCoverage", "catchMain", "ran"}
        \cup RunningPlaces \cup EndPlaces

LEMMA NothingIsTold ==
    ASSUME IsMap(outputs)', sources' \in [Range(Files) -> Nat], stop' # "exit" => summary' = NoSummary,
           at' \in NothingTold
    PROVE  ExactInv'
BY DEF ExactInv, IsMap, NothingTold, ToldPlaces, SourcePlaces, DonePlaces, RunningPlaces, EndPlaces, SetupPlaces,
   RunPlaces, CopyPlaces, BeforePlaces, ParsePlaces, ImagePlaces, LoadPlaces, SocketPlaces

\* The steps of the coverage in front of the walk, and behind a failure.
LEMMA CoverageIsSilent ==
    ASSUME ProcessInv, ExitInv,
           \/ CodeCoverageRun \/ InitPrivateData \/ ParseElf \/ ElfLinesParse \/ OpenPipe
           \/ AllocateElfLines \/ ParseElfLine \/ SortElfLines \/ CatchElfLines \/ EndParseElf
           \/ CatchParse \/ CatchRun \/ RethrowRun \/ CatchCoverage
    PROVE  at' \in NothingTold /\ outputs' = outputs
<1>1. CASE CodeCoverageRun \/ ParseElf \/ ElfLinesParse
  BY <1>1 DEF CodeCoverageRun, ParseElf, ElfLinesParse, Keeps, coverage, Try, NothingTold
<1>2. CASE InitPrivateData
  BY <1>2, CoverageThrows DEF InitPrivateData, Covers, WalkPlaces, NothingTold
<1>3. CASE OpenPipe
  BY <1>3, CoverageThrows DEF OpenPipe, Covers, Keeps, coverage, ElfPlaces, NothingTold
<1>4. CASE AllocateElfLines
  BY <1>4, CoverageThrows DEF AllocateElfLines, Covers, ElfPlaces, NothingTold
<1>5. CASE ParseElfLine
  BY <1>5, CoverageThrows DEF ParseElfLine, Covers, ElfPlaces, NothingTold
<1>6. CASE SortElfLines
  <2>1. IsClear
    BY <1>6, CoverageKnows DEF SortElfLines, Covers
  <2>2. QED
    BY <1>6, <2>1, CoverageTryEnds DEF SortElfLines, IsClear, NothingTold
<1>7. CASE CatchElfLines
  BY <1>7 DEF CatchElfLines, NothingTold
<1>8. CASE EndParseElf
  BY <1>8, CoverageTryEnds DEF EndParseElf, Covers, Keeps, coverage, ParseElfPlaces, NothingTold
<1>9. CASE CatchParse
  BY <1>9, CoverageThrows DEF CatchParse, Covers, Keeps, coverage, WalkPlaces, NothingTold
<1>10. CASE CatchRun
  BY <1>10 DEF CatchRun, Covers, Keeps, coverage, UninitPrivateData, NothingTold, EndPlaces
<1>11. CASE RethrowRun
  BY <1>11, CoverageThrows DEF RethrowRun, Covers, Keeps, coverage, CoverPlaces, NothingTold
<1>12. CASE CatchCoverage
  BY <1>12, CoverageThrows DEF CatchCoverage, Covers, Keeps, coverage, RanPlaces, NothingTold
<1>13. QED
  BY <1>1, <1>2, <1>3, <1>4, <1>5, <1>6, <1>7, <1>8, <1>9, <1>10, <1>11, <1>12


\* What is known in front of a step of the walk, and what it leaves alone.
LEMMA WalkKnows ==
    ASSUME ExitInv, KeptInv, ExactInv, CoverageStep, UNCHANGED <<semihost, thread>>,
           at \in {"walk", "lines"} \cup SourcePlaces
    PROVE  /\ Ordered /\ sources \in [Range(Files) -> Nat] /\ IsMap(outputs) /\ stop = "exit"
           /\ stop' = stop /\ sources' = sources /\ commandLine' = commandLine
           /\ elf' = elf => Rests
<1>1. elf # NoLines
  BY CoverageKnows DEF SourcePlaces, Walked, Walking, WalkInv, IsTable
<1>2. Ordered
  BY <1>1, TableIsOrdered
<1>3. stop = "exit" /\ stop' = stop /\ commandLine' = commandLine
  BY CoverageIsOver, CoverageKeeps
<1>4. UNCHANGED <<reads, regions, sources, program, done>>
  BY CoverageReads DEF inputs, options, memory, thread
<1>5. QED
  BY <1>2, <1>3, <1>4 DEF ExactInv, IsMap, Rests

\* The walk begins at the first row, with an empty summary.
LEMMA OpensExactly ==
    ASSUME ProcessInv, ExitInv, ExactInv, OpenSummary, UNCHANGED <<semihost, thread>>
    PROVE  ExactInv'
<1>1. at = "openSummary" /\ Unread /\ IsClear
  BY CoverageKnows DEF OpenSummary, Covers
<1>2. CoverageStep
  BY DEF CoverageStep
<1>3. /\ stop' = stop /\ stop = "exit" /\ UNCHANGED <<reads, regions, sources, program, done, elf>>
      /\ outputs' = outputs /\ walk' = walk
  BY <1>2, CoverageKeeps, CoverageIsOver, CoverageReads DEF inputs, options, memory, thread, OpenSummary
<1>4. IsMap(outputs)' /\ sources' \in [Range(Files) -> Nat]
  BY <1>3 DEF ExactInv, IsMap
<1>5. CASE Works /\ held' = held \cup {"summary"} /\ summary' = << >> /\ Goes("walk")
  <2>1. Rests /\ walk'.row = 1
    BY <1>1, <1>3 DEF Rests, Unread, AtStart
  <2>2. Fresh(1)
    BY DEF Fresh
  <2>3. AllTold(outputs', << >>, {})
    BY EmptySeq DEF AllTold
  <2>4. Fresh(walk.row)' /\ AllTold(outputs, summary, {})'
    BY <1>5, <2>1, <2>2, <2>3, ExpectsTheSame
  <2>5. at' = "walk"
    BY <1>5
  <2>6. QED
    BY <1>3, <1>4, <2>4, <2>5 DEF ExactInv, IsMap, SourcePlaces, ToldPlaces, DonePlaces
<1>6. CASE Fails /\ Throw(fileException) /\ UNCHANGED <<held, summary>>
  <2>1. at' \in NothingTold
    BY <1>1, <1>6, CoverageThrows DEF WalkPlaces, NothingTold
  <2>2. QED
    BY <1>3, <1>4, <2>1, NothingIsTold
<1>7. QED
  BY <1>5, <1>6 DEF OpenSummary

\* A file that is skipped leaves the rows behind it, and one that is not is
\* walked along from its first line.
LEMMA EntersExactly ==
    ASSUME ExitInv, KeptInv, ExactInv, WalkSourceFile, UNCHANGED <<semihost, thread>>
    PROVE  ExactInv'
<1>1. at = "walk" /\ Walked /\ Fresh(walk.row) /\ AllTold(outputs, summary, {})
  BY CoverageKnows DEF WalkSourceFile, Covers, ExactInv
<1>2. CoverageStep
  BY DEF CoverageStep
<1>3. /\ Ordered /\ sources \in [Range(Files) -> Nat] /\ IsMap(outputs) /\ stop = "exit"
      /\ stop' = stop /\ sources' = sources /\ (elf' = elf => Rests)
  BY <1>1, <1>2, WalkKnows
<1>4. /\ elf' = elf /\ outputs' = outputs /\ summary' = summary /\ walk.row <= Len(elf) /\ Rests
  BY <1>3 DEF WalkSourceFile
<1>5. IsMap(outputs)' /\ sources' \in [Range(Files) -> Nat] /\ AllTold(outputs, summary, {})'
  BY <1>1, <1>3, <1>4, ExpectsTheSame DEF IsMap
<1> DEFINE file == elf[walk.row].file
<1>6. CASE ShouldSkip(file)
  <2>1. walk' = [walk EXCEPT !.row = PastFile(file)] /\ at' = "walk" /\ IsWalk(walk)
    BY <1>1, <1>6 DEF WalkSourceFile, Walked, WalkInv
  <2>2. walk'.row = PastFile(file)
    BY <2>1 DEF IsWalk
  <2>3. Fresh(walk.row)'
    BY <1>1, <1>3, <1>4, <2>2, SkipsFresh, ExpectsTheSame
  <2>4. QED
    BY <1>3, <1>5, <2>1, <2>3 DEF ExactInv, IsMap, SourcePlaces, ToldPlaces, DonePlaces
<1>7. CASE ~ShouldSkip(file)
  <2>1. walk' = [AtStart EXCEPT !.row = walk.row, !.file = file] /\ at' = "openSource"
    BY <1>7 DEF WalkSourceFile
  <2>2. /\ walk'.row = walk.row /\ walk'.file = file /\ walk'.line = 1
        /\ walk'.executable = 0 /\ walk'.executed = 0
    BY <2>1 DEF AtStart
  <2>3. walk.row \in DOMAIN elf
    BY <1>1, <1>3, <1>4 DEF Walked, WalkInv, Ordered
  <2>4. Hopeless(walk') \/ Clean(walk')
    BY <1>1, <1>3, <2>2, <2>3, EntersClean
  <2>5. Hopeless(walk)' \/ Clean(walk)'
    BY <1>4, <2>4, ExpectsTheSame
  <2>6. QED
    BY <1>3, <1>5, <2>1, <2>2, <2>5 DEF ExactInv, IsMap, SourcePlaces, ToldPlaces, DonePlaces
<1>8. QED
  BY <1>6, <1>7

\* Reading the source leaves the walk at its first line.
LEMMA SourceIsRead ==
    ASSUME ProcessInv, ExitInv, KeptInv, ExactInv, OpenSource \/ ReadSource, UNCHANGED <<semihost, thread>>
    PROVE  ExactInv'
<1>1. at \in SourcePlaces
  BY DEF OpenSource, ReadSource, Covers, SourcePlaces
<1>2. CoverageStep
  BY DEF CoverageStep
<1>3. /\ sources \in [Range(Files) -> Nat] /\ IsMap(outputs) /\ stop = "exit"
      /\ stop' = stop /\ sources' = sources /\ (elf' = elf => Rests)
  BY <1>1, <1>2, WalkKnows
<1>4. elf' = elf /\ outputs' = outputs /\ summary' = summary /\ walk' = walk /\ Rests
  BY <1>3 DEF OpenSource, ReadSource, Keeps, coverage
<1>5. at' \in SourcePlaces \cup NothingTold
  BY CoverageThrows DEF OpenSource, ReadSource, Covers, WalkPlaces, SourcePlaces, NothingTold
<1>6. IsMap(outputs)' /\ sources' \in [Range(Files) -> Nat]
  BY <1>3, <1>4 DEF IsMap
<1>7. CASE at' \in SourcePlaces
  <2>1. walk.line = 1 /\ (Hopeless(walk) \/ Clean(walk)) /\ AllTold(outputs, summary, {})
    BY <1>1 DEF ExactInv
  <2>2. walk'.line = 1 /\ (Hopeless(walk)' \/ Clean(walk)') /\ AllTold(outputs, summary, {})'
    BY <1>4, <2>1, ExpectsTheSame
  <2>3. QED
    BY <1>3, <1>6, <1>7, <2>2 DEF ExactInv, IsMap, SourcePlaces, ToldPlaces, DonePlaces
<1>8. CASE at' \in NothingTold
  BY <1>3, <1>6, <1>8, NothingIsTold
<1>9. QED
  BY <1>5, <1>7, <1>8

\* The file that is opened is empty, as no line is written yet.
LEMMA EmptiesExactly ==
    ASSUME ProcessInv, ExitInv, KeptInv, ExactInv, OpenDest, UNCHANGED <<semihost, thread>>
    PROVE  ExactInv'
<1>1. at = "openDest" /\ at \in SourcePlaces
  BY DEF OpenDest, Covers, SourcePlaces
<1>2. CoverageStep
  BY DEF CoverageStep
<1>3. /\ sources \in [Range(Files) -> Nat] /\ IsMap(outputs) /\ stop = "exit"
      /\ stop' = stop /\ sources' = sources /\ (elf' = elf => Rests)
  BY <1>1, <1>2, WalkKnows
<1>4. elf' = elf /\ summary' = summary /\ walk' = walk /\ Rests
  BY <1>3 DEF OpenDest
<1>5. walk.line = 1 /\ (Hopeless(walk) \/ Clean(walk)) /\ AllTold(outputs, summary, {})
  BY <1>1 DEF ExactInv
<1> DEFINE name == BaseName[walk.file]
           opened == [other \in DOMAIN outputs \cup {name} |-> IF other = name THEN << >> ELSE outputs[other]]
<1>6. CASE outputs' = opened /\ at' = "lines"
  <2>1. IsMap(opened) /\ name \in DOMAIN opened /\ opened[name] = << >> /\ AllTold(opened, summary, {name})
    BY <1>5, OpensName
  <2> HIDE DEF opened
  <2>2. Marked(walk', outputs')
    <3>1. Expects(walk.file, 0) = << >> /\ walk.line - 1 = 0
      BY <1>5, MarksGrow
    <3>2. QED
      BY <1>4, <1>6, <2>1, <3>1 DEF Marked
  <2>3. /\ Hopeless(walk)' \/ (Clean(walk)' /\ Marked(walk, outputs)')
        /\ AllTold(outputs, summary, {BaseName[walk.file]})'
    BY <1>4, <1>5, <1>6, <2>1, <2>2, ExpectsTheSame
  <2>4. IsMap(outputs)' /\ sources' \in [Range(Files) -> Nat] /\ BaseName[walk'.file] \in DOMAIN outputs'
    BY <1>3, <1>4, <1>6, <2>1 DEF IsMap
  <2>5. QED
    BY <1>3, <1>6, <2>3, <2>4 DEF ExactInv, IsMap, SourcePlaces, ToldPlaces, DonePlaces
<1>7. CASE outputs' = outputs /\ at' = "catchRun"
  <2>1. IsMap(outputs)' /\ sources' \in [Range(Files) -> Nat] /\ at' \in NothingTold
    BY <1>3, <1>7 DEF IsMap, NothingTold
  <2>2. QED
    BY <1>3, <2>1, NothingIsTold
<1>8. QED
  BY <1>1, <1>6, <1>7, CoverageThrows DEF OpenDest, WalkPlaces


\* The walk along a line: its rows are passed, and it is counted.
Passed(count) ==
    [walk EXCEPT !.line = @ + 1, !.row = @ + Cardinality(MatchingRows),
                 !.executable = @ + (IF MatchingRows = {} THEN 0 ELSE 1),
                 !.executed = @ + (IF count > 0 THEN 1 ELSE 0)]

LEMMA PassedIs ==
    ASSUME WalkInv, NEW count
    PROVE  /\ Passed(count).line = walk.line + 1 /\ Passed(count).file = walk.file
           /\ Passed(count).row = walk.row + Cardinality(MatchingRows)
           /\ Passed(count).executable = walk.executable + (IF MatchingRows = {} THEN 0 ELSE 1)
           /\ Passed(count).executed = walk.executed + (IF count > 0 THEN 1 ELSE 0)
BY DEF Passed, WalkInv, IsWalk

\* A line is written with the mark that is expected, unless the walk is hopeless.
LEMMA PassesExactly ==
    ASSUME CallsInv, CountsInv, stop = "exit", at # "exited", Ordered, Walking, Hopeless(walk) \/ Clean(walk),
           sources \in [Range(Files) -> Nat], walk.line <= sources[walk.file],
           NEW count, count = IF MatchingRows = {} THEN NotExecutable ELSE MinCount(MatchingRows)
    PROVE  /\ Hopeless(walk) => Hopeless(Passed(count))
           /\ Clean(walk) => Clean(Passed(count)) /\ count = Expected(walk.file, walk.line)
<1> DEFINE state == Passed(count)
<1>1. /\ state.line = walk.line + 1 /\ state.file = walk.file
      /\ state.row = walk.row + Cardinality(MatchingRows)
      /\ state.executable = walk.executable + (IF MatchingRows = {} THEN 0 ELSE 1)
      /\ state.executed = walk.executed + (IF count > 0 THEN 1 ELSE 0)
  BY PassedIs DEF Walking
<1> HIDE DEF state
<1>2. /\ walk.row \in Nat /\ walk.row \in 1 .. Len(elf) + 1 /\ walk.executable \in Nat /\ Len(elf) \in Nat
      /\ sources[walk.file] \in Nat
  BY SourceIsKnown DEF Walking, WalkInv, Ordered
<1>3. ASSUME Hopeless(walk)
      PROVE  Hopeless(state)
  <2>1. MatchingRows = {}
    BY <1>3, HopelessFindsNone
  <2>2. Cardinality(MatchingRows) = 0
    BY <2>1, FS_EmptySet
  <2>3. state.row = walk.row /\ state.executable = walk.executable
    BY <1>1, <1>2, <2>1, <2>2
  <2>4. QED
    BY <1>1, <1>3, <2>3, HopelessGoesOn
<1>4. ASSUME Clean(walk)
      PROVE  Clean(state) /\ count = Expected(walk.file, walk.line)
  <2> DEFINE about == {n \in DOMAIN elf : elf[n].file = walk.file /\ elf[n].line = walk.line}
  <2>1. PICK p \in walk.row .. Len(elf) + 1 :
             /\ MatchingRows = walk.row .. p - 1 /\ Cardinality(MatchingRows) = p - walk.row
             /\ MatchingRows = about
    BY <1>4, MatchingAre
  <2>2. /\ RowsAbout(walk.file, walk.line) = {} <=> MatchingRows = {}
        /\ count = Expected(walk.file, walk.line)
        /\ count > 0 <=> WasExecuted(walk.file, walk.line)
    <3> DEFINE file == walk.file
               line == walk.line
               rows == MatchingRows
    <3>1. rows = RowsOn(file, line)
      BY <2>1 DEF RowsOn
    <3>2. count = MarkOf(rows)
      BY DEF MarkOf
    <3> HIDE DEF file, line, rows
    <3>3. /\ RowsAbout(file, line) = {} <=> rows = {}
          /\ count = Expected(file, line)
          /\ count > 0 <=> WasExecuted(file, line)
      BY <3>1, <3>2, CountTells
    <3>4. QED
      BY <3>3 DEF file, line, rows
  <2>3. walk.row .. p - 1 = about
    BY <2>1
  <2>4. state.row = p
    BY <1>1, <1>2, <2>1
  <2>5. /\ state.executable = walk.executable + (IF RowsAbout(walk.file, walk.line) = {} THEN 0 ELSE 1)
        /\ state.executed = walk.executed + (IF WasExecuted(walk.file, walk.line) THEN 1 ELSE 0)
    BY <1>1, <2>2
  <2>6. Clean(state)
    BY <1>1, <1>2, <1>4, <2>3, <2>4, <2>5, CleanGoesOn
  <2>7. QED
    BY <2>2, <2>6
<1>5. QED
  BY <1>3, <1>4 DEF state

\* The marks that are written are those that are expected, with the next one.
LEMMA WritesExactly ==
    ASSUME ProcessInv, ExitInv, KeptInv, CallsInv, CountsInv, ExactInv, WriteLine, UNCHANGED <<semihost, thread>>
    PROVE  ExactInv'
<1>1. at = "lines" /\ Walking
  BY CoverageKnows DEF WriteLine, Covers
<1>2. CoverageStep
  BY DEF CoverageStep
<1>3. /\ Ordered /\ sources \in [Range(Files) -> Nat] /\ IsMap(outputs) /\ stop = "exit"
      /\ stop' = stop /\ sources' = sources /\ (elf' = elf => Rests)
  BY <1>1, <1>2, WalkKnows
<1>4. elf' = elf /\ summary' = summary /\ walk.line <= sources[walk.file] /\ Rests
  BY <1>3 DEF WriteLine
<1> DEFINE name  == BaseName[walk.file]
           count == IF MatchingRows = {} THEN NotExecutable ELSE MinCount(MatchingRows)
<1>5. /\ Hopeless(walk) \/ (Clean(walk) /\ Marked(walk, outputs))
      /\ name \in DOMAIN outputs /\ AllTold(outputs, summary, {name})
  BY <1>1 DEF ExactInv
<1>6. CASE \A n \in MatchingRows : HasReadCount(elf[n].address)
  <2> DEFINE mark == Append(outputs[name], count)
             written == [outputs EXCEPT ![name] = mark]
  <2>1. outputs' = written /\ walk' = Passed(count) /\ at' = "lines"
    BY <1>6, Zenon DEF WriteLine, Passed
  <2>2. /\ IsMap(written) /\ name \in DOMAIN written /\ written[name] = mark
        /\ AllTold(written, summary, {name})
    <3> HIDE DEF mark
    <3>1. QED
      BY <1>3, <1>5, WritesName
  <2> HIDE DEF written
  <2>3. /\ Hopeless(walk) => Hopeless(Passed(count))
        /\ Clean(walk) => Clean(Passed(count)) /\ count = Expected(walk.file, walk.line)
    <3> DEFINE c == count
    <3>1. c = IF MatchingRows = {} THEN NotExecutable ELSE MinCount(MatchingRows)
      OBVIOUS
    <3> HIDE DEF c
    <3>2. /\ Hopeless(walk) => Hopeless(Passed(c))
          /\ Clean(walk) => Clean(Passed(c)) /\ c = Expected(walk.file, walk.line)
      BY <1>1, <1>3, <1>4, <1>5, <3>1, PassesExactly
    <3>3. QED
      BY <3>2 DEF c
  <2> HIDE DEF count
  <2>4. walk'.file = walk.file /\ walk'.line = walk.line + 1
    BY <1>1, <2>1, PassedIs DEF Walking
  <2>5. Hopeless(walk') \/ (Clean(walk') /\ Marked(walk', outputs'))
    <3>1. CASE Hopeless(walk)
      BY <2>1, <2>3, <3>1
    <3>2. CASE Clean(walk) /\ Marked(walk, outputs)
      <4>1. walk.line - 1 \in Nat /\ (walk.line - 1) + 1 = walk.line /\ (walk.line + 1) - 1 = walk.line
        BY <1>3, <3>2, SourceIsKnown
      <4>2. outputs[name] = Expects(walk.file, walk.line - 1)
        BY <3>2 DEF Marked
      <4>3. mark = Expects(walk.file, walk.line)
        BY <2>3, <3>2, <4>1, <4>2, MarksGrow
      <4>4. Marked(walk', outputs')
        BY <2>1, <2>2, <2>4, <4>1, <4>3 DEF Marked
      <4>5. QED
        BY <2>1, <2>3, <3>2, <4>4
    <3>3. QED
      BY <1>5, <3>1, <3>2
  <2>6. /\ Hopeless(walk)' \/ (Clean(walk)' /\ Marked(walk, outputs)')
        /\ AllTold(outputs, summary, {BaseName[walk.file]})'
    BY <1>4, <2>1, <2>2, <2>4, <2>5, ExpectsTheSame
  <2>7. IsMap(outputs)' /\ sources' \in [Range(Files) -> Nat] /\ BaseName[walk'.file] \in DOMAIN outputs'
    BY <1>3, <2>1, <2>2, <2>4 DEF IsMap
  <2>8. QED
    BY <1>3, <2>1, <2>6, <2>7 DEF ExactInv, IsMap, SourcePlaces, ToldPlaces, DonePlaces
<1>7. CASE ~(\A n \in MatchingRows : HasReadCount(elf[n].address))
  <2>1. Throw(busErrorException) /\ outputs' = outputs
    BY <1>7, Zenon DEF WriteLine
  <2>2. IsMap(outputs)' /\ sources' \in [Range(Files) -> Nat] /\ at' \in NothingTold
    BY <1>1, <1>3, <2>1, CoverageThrows DEF IsMap, WalkPlaces, NothingTold
  <2>3. QED
    BY <1>3, <2>2, NothingIsTold
<1>8. QED
  BY <1>6, <1>7


\* A file whose lines are all written is told of with what they say.
LEMMA EndsExactly ==
    ASSUME ExitInv, KeptInv, ExactInv, EndOfSource, UNCHANGED <<semihost, thread>>
    PROVE  ExactInv'
<1>1. at = "lines" /\ Walking
  BY CoverageKnows DEF EndOfSource, Covers
<1>2. CoverageStep
  BY DEF CoverageStep
<1>3. /\ Ordered /\ sources \in [Range(Files) -> Nat] /\ IsMap(outputs) /\ stop = "exit"
      /\ stop' = stop /\ sources' = sources /\ (elf' = elf => Rests)
  BY <1>1, <1>2, WalkKnows
<1>4. /\ elf' = elf /\ outputs' = outputs /\ walk' = walk /\ walk.line > sources[walk.file]
      /\ Rests /\ IsMap(outputs)' /\ sources' \in [Range(Files) -> Nat]
  BY <1>3 DEF EndOfSource, IsMap
<1> DEFINE name == BaseName[walk.file]
<1>5. /\ Hopeless(walk) \/ (Clean(walk) /\ Marked(walk, outputs))
      /\ name \in DOMAIN outputs /\ AllTold(outputs, summary, {name})
  BY <1>1 DEF ExactInv
<1>6. CASE walk.executable > 0
  <2>1. /\ summary' = Append(summary, <<walk.file, walk.executable, walk.executed>>) /\ at' = "walk"
    BY <1>6 DEF EndOfSource
  <2>2. Clean(walk) /\ walk.line - 1 = sources[walk.file] /\ Fresh(walk.row)
    BY <1>1, <1>3, <1>4, <1>5, <1>6, EndsFresh DEF Walking
  <2>3. Marked(walk, outputs)
    BY <1>5, <1>6 DEF Hopeless
  <2>4. /\ outputs[name] = Expects(walk.file, sources[walk.file])
        /\ walk.executable = Cardinality(LinesOf(walk.file, sources[walk.file]))
        /\ walk.executed = Cardinality(LinesRun(walk.file, sources[walk.file]))
    BY <2>2, <2>3 DEF Clean, Marked
  <2>5. AllTold(outputs, Append(summary, <<walk.file, walk.executable, walk.executed>>), {})
    BY <1>1, <1>5, <2>4, ClosesName DEF Walking, WalkInv
  <2>6. Fresh(walk.row)' /\ AllTold(outputs, summary, {})'
    BY <1>4, <2>1, <2>2, <2>5, ExpectsTheSame
  <2>7. QED
    BY <1>3, <1>4, <2>1, <2>6 DEF ExactInv, IsMap, SourcePlaces, ToldPlaces, DonePlaces
<1>7. CASE ~(walk.executable > 0)
  <2>1. at' \in NothingTold
    BY <1>7 DEF EndOfSource, NothingTold, EndPlaces
  <2>2. QED
    BY <1>3, <1>4, <2>1, NothingIsTold
<1>8. QED
  BY <1>6, <1>7

\* What is told stays told.
LEMMA StaysTold ==
    ASSUME ExactInv, Rests, at' \in ToldPlaces, CoverageIsComplete => AllTold(outputs, summary, {}),
           outputs' = outputs, summary' = summary, walk' = walk, commandLine' = commandLine, stop' = stop
    PROVE  ExactInv'
<1>1. /\ IsMap(outputs)' /\ sources' \in [Range(Files) -> Nat]
      /\ stop' # "exit" => summary' = NoSummary
  BY DEF ExactInv, IsMap, Rests
<1>2. CoverageIsComplete' <=> CoverageIsComplete
  BY WalkRests DEF Rests
<1>3. CoverageIsComplete' => AllTold(outputs, summary, {})'
  BY <1>2, ExpectsTheSame
<1>4. at' # "walk" /\ at' \notin SourcePlaces /\ at' # "lines"
  BY DEF ToldPlaces, DonePlaces, SourcePlaces
<1>5. QED
  BY <1>1, <1>3, <1>4 DEF ExactInv, IsMap

\* Behind the walk, and when no coverage was asked for.
LEMMA CoverageIsTold ==
    ASSUME ProcessInv, ExitInv, ExactInv, UNCHANGED <<semihost, thread>>,
           RunCodeCoverageIfRequested \/ WalkEnds \/ UninitAfterWalk \/ EndRun \/ EndCoverage
    PROVE  ExactInv'
<1>1. CoverageStep
  BY DEF CoverageStep
<1>2. /\ stop' = stop /\ commandLine' = commandLine /\ UNCHANGED <<reads, regions, sources, program, done>>
      /\ elf' = elf /\ outputs' = outputs /\ summary' = summary /\ walk' = walk
  BY <1>1, CoverageKeeps, CoverageReads DEF inputs, options, memory, thread, RunCodeCoverageIfRequested, WalkEnds, UninitAfterWalk,
     EndRun, EndCoverage, Keeps, coverage
<1>3. Rests /\ IsMap(outputs)' /\ sources' \in [Range(Files) -> Nat] /\ stop = "exit"
  BY <1>1, <1>2, CoverageIsOver DEF Rests, ExactInv, IsMap
<1>4. CASE RunCodeCoverageIfRequested
  <2>1. summary = NoSummary /\ IsClear
    BY <1>4, CoverageKnows DEF RunCodeCoverageIfRequested, Covers
  <2>2. ~CoverageIsComplete
    BY <2>1, Incomplete
  <2>3. at' = "uninit" \/ at' = "codeCoverageRun"
    BY <1>4, <2>1, CoverageTryEnds DEF RunCodeCoverageIfRequested, Try, IsClear
  <2>4. QED
    BY <1>2, <1>3, <2>2, <2>3, StaysTold, NothingIsTold DEF ToldPlaces, NothingTold
<1>5. CASE WalkEnds
  <2>1. at' \in ToldPlaces /\ AllTold(outputs, summary, {})
    BY <1>5 DEF WalkEnds, Covers, ExactInv, ToldPlaces, DonePlaces
  <2>2. QED
    BY <1>2, <1>3, <2>1, StaysTold
<1>6. CASE UninitAfterWalk \/ EndRun \/ EndCoverage
  <2>1. at \in DonePlaces
    BY <1>6 DEF UninitAfterWalk, EndRun, EndCoverage, Covers, DonePlaces
  <2>2. CoverageIsComplete => AllTold(outputs, summary, {})
    BY <2>1 DEF ExactInv, ToldPlaces
  <2>3. at' \in ToldPlaces \/ at' = "crashed"
    <3>1. exceptions.code = 0
      BY <2>1, CoverageKnows DEF IsClear
    <3>2. QED
      BY <1>6, <3>1, CoverageTryEnds DEF UninitAfterWalk, UninitPrivateData, EndRun, EndCoverage, ToldPlaces, DonePlaces
  <2>4. QED
    BY <1>2, <1>3, <2>2, <2>3, StaysTold, NothingIsTold DEF NothingTold, EndPlaces
<1>7. QED
  BY <1>4, <1>5, <1>6

\* What the steps of main do with what is told.
LEMMA MainTells ==
    ASSUME ProcessInv, ExitInv, ExactInv, MainStep
    PROVE  ExactInv'
<1>1. /\ sources' = sources /\ outputs' = outputs /\ elf' = elf /\ walk' = walk /\ summary' = summary
      /\ program' = program
  BY MainKeepsDump DEF coverage
<1>2. IsMap(outputs)' /\ sources' \in [Range(Files) -> Nat]
  BY <1>1 DEF ExactInv, IsMap
<1>3. CASE RunStep
  <2>1. summary = NoSummary /\ at' \in NothingTold
    BY <1>3, RunGoes, RunningKnows DEF IsRunning, NothingTold
  <2>2. QED
    BY <1>1, <1>2, <2>1, NothingIsTold
<1>4. CASE IsExitSemihost
  <2>1. at = "isExit" /\ at' \in NothingTold
    BY <1>4 DEF IsExitSemihost, NothingTold, RunningPlaces, RunPlaces
  <2>2. summary = NoSummary
    BY <2>1, RunningKnows DEF RunningPlaces, RunPlaces, IsRunning
  <2>3. QED
    BY <1>1, <1>2, <2>1, <2>2, NothingIsTold
<1>5. CASE EndMain \/ CatchMain
  <2>1. /\ stop' = stop /\ commandLine' = commandLine /\ UNCHANGED <<reads, regions, done>>
    BY <1>5 DEF EndMain, CatchMain, KeepsFiles, thread, options, memory, inputs
  <2>2. Rests
    BY <1>1, <2>1 DEF Rests
  <2>3. at' \in ToldPlaces
    <3>1. EndMain => exceptions.code = 0
      BY CoverageKnows DEF EndMain, DonePlaces, IsClear
    <3>2. QED
      BY <1>5, <3>1, CoverageTryEnds DEF EndMain, CatchMain, ToldPlaces, DonePlaces
  <2>4. CoverageIsComplete => AllTold(outputs, summary, {})
    <3>1. CASE EndMain
      BY <3>1 DEF EndMain, ExactInv, ToldPlaces, DonePlaces
    <3>2. CASE CatchMain
      <4>1. ~Succeeds
        BY <3>2 DEF CatchMain, ExitInv, RunningPlaces, SourcePlaces, DonePlaces, FailedPlaces, EndPlaces,
           SetupPlaces, RunPlaces, CopyPlaces, BeforePlaces, ParsePlaces, ImagePlaces, LoadPlaces,
           SocketPlaces
      <4>2. QED
        BY <4>1, Incomplete DEF Succeeds, ExactInv
    <3>3. QED
      BY <1>5, <3>1, <3>2
  <2>5. QED
    BY <1>1, <2>1, <2>2, <2>3, <2>4, StaysTold
<1>6. CASE UninitMain
  <2>1. at' = "exited" /\ stop' = stop
    BY <1>6 DEF UninitMain, thread
  <2>2. QED
    BY <1>1, <1>2, <2>1 DEF ExactInv, IsMap, ToldPlaces, DonePlaces, SourcePlaces
<1>7. QED
  BY <1>3, <1>4, <1>5, <1>6 DEF MainStep, RunStep

\* Where the process and its coverage stay, so does what is told.
LEMMA ExactRests ==
    ASSUME ExactInv, at' = at, UNCHANGED <<options, inputs, coverage, thread>>
    PROVE  ExactInv'
<1>1. /\ Rests /\ commandLine' = commandLine /\ stop' = stop
      /\ outputs' = outputs /\ summary' = summary /\ walk' = walk
  BY DEF Rests, options, memory, inputs, coverage, thread
<1>2. CoverageIsComplete' <=> CoverageIsComplete
  BY <1>1, WalkRests DEF Rests
<1>3. /\ Hopeless(walk)' <=> Hopeless(walk)
      /\ Clean(walk)' <=> Clean(walk)
      /\ Fresh(walk.row)' <=> Fresh(walk.row)
      /\ Marked(walk, outputs)' <=> Marked(walk, outputs)
      /\ AllTold(outputs, summary, {})' <=> AllTold(outputs, summary, {})
      /\ AllTold(outputs, summary, {BaseName[walk.file]})' <=>
             AllTold(outputs, summary, {BaseName[walk.file]})
  BY <1>1, ExpectsTheSame
<1>4. IsMap(outputs)' /\ sources' \in [Range(Files) -> Nat]
  BY <1>1 DEF ExactInv, IsMap, Rests
<1>5. QED
  BY <1>1, <1>2, <1>3, <1>4 DEF ExactInv, IsMap

\* At first nothing is told.
LEMMA ExactInit == Init => ExactInv
<1> SUFFICES ASSUME Init
             PROVE  ExactInv
  OBVIOUS
<1>1. sources \in [Range(Files) -> Nat]
  BY SessionsAre DEF Init
<1>2. outputs = << >> /\ summary = NoSummary /\ at = "main"
  BY DEF Init
<1>3. IsMap(<< >>)
  BY DEF IsMap
<1>4. QED
  BY <1>1, <1>2, <1>3 DEF ExactInv, IsMap, ToldPlaces, DonePlaces, SourcePlaces

\* Every step keeps what is known of the lines that are told of.
LEMMA ExactNext ==
    Inv /\ ExitInv /\ KeptInv /\ CallsInv /\ CountsInv /\ ExactInv /\ [Next]_vars => ExactInv'
<1> SUFFICES ASSUME Inv, ExitInv, KeptInv, CallsInv, CountsInv, ExactInv, [Next]_vars
             PROVE  ExactInv'
  OBVIOUS
<1>1. ProcessInv
  BY DEF Inv
<1>2. CASE MainStep
  BY <1>1, <1>2, MainTells
<1>3. CASE \/ CommandLineStep /\ UNCHANGED <<socket, semihost, inputs, coverage, thread>>
           \/ SemihostStep /\ UNCHANGED <<dump, sources, coverage, thread>>
  <2>1. at \in RunningPlaces /\ at' \in NothingTold
    BY <1>1, <1>3, CommandLineIsSetup, CommandLineGoes, SemihostGoes DEF RunningPlaces, NothingTold
  <2>2. summary' = summary /\ sources' = sources /\ outputs' = outputs
    BY <1>3 DEF inputs, coverage
  <2>3. summary = NoSummary /\ IsMap(outputs)' /\ sources' \in [Range(Files) -> Nat]
    BY <2>1, <2>2, RunningKnows DEF IsRunning, ExactInv, IsMap
  <2>4. QED
    BY <2>1, <2>2, <2>3, NothingIsTold
<1>4. CASE CoverageStep /\ UNCHANGED <<socket, semihost, thread>>
  <2>1. CASE \/ CodeCoverageRun \/ InitPrivateData \/ ParseElf \/ ElfLinesParse \/ OpenPipe
             \/ AllocateElfLines \/ ParseElfLine \/ SortElfLines \/ CatchElfLines \/ EndParseElf
             \/ CatchParse \/ CatchRun \/ RethrowRun \/ CatchCoverage
    <3>1. at' \in NothingTold /\ outputs' = outputs
      BY <1>1, <2>1, CoverageIsSilent
    <3>2. stop' = "exit" /\ sources' = sources
      BY <1>4, CoverageIsOver, CoverageKeeps, CoverageReads DEF inputs
    <3>3. QED
      BY <3>1, <3>2, NothingIsTold DEF ExactInv, IsMap
  <2>2. CASE RunCodeCoverageIfRequested \/ WalkEnds \/ UninitAfterWalk \/ EndRun \/ EndCoverage
    BY <1>1, <1>4, <2>2, CoverageIsTold
  <2>3. CASE OpenSummary
    BY <1>1, <1>4, <2>3, OpensExactly
  <2>4. CASE WalkSourceFile
    BY <1>4, <2>4, EntersExactly
  <2>5. CASE OpenSource \/ ReadSource
    BY <1>1, <1>4, <2>5, SourceIsRead
  <2>6. CASE OpenDest
    BY <1>1, <1>4, <2>6, EmptiesExactly
  <2>7. CASE WriteLine
    BY <1>1, <1>4, <2>7, WritesExactly
  <2>8. CASE EndOfSource
    BY <1>4, <2>8, EndsExactly
  <2>9. QED
    BY <1>4, <2>1, <2>2, <2>3, <2>4, <2>5, <2>6, <2>7, <2>8 DEF CoverageStep
<1>5. CASE GdbSide
  BY <1>5, ExactRests DEF GdbSide
<1>6. CASE UNCHANGED vars
  BY <1>6, ExactRests DEF vars
<1>7. QED
  BY <1>2, <1>3, <1>4, <1>5, <1>6 DEF Next, Process

\* When the coverage is a success, every file of the summary has its lines
\* written out with the lowest count of all the rows about them, and a line
\* counts as executed when the half-words at all of its rows were read, by the
\* program that came there or by whoever read them as data: for every dump,
\* every program, every read of GDB and the host, and whatever fails.
THEOREM CoverageTells == Spec => []CoverageIsExact
<1>1. ExactInv => CoverageIsExact
  <2> SUFFICES ASSUME ExactInv, at = "uninit", CoverageIsComplete, NEW k \in DOMAIN summary
               PROVE  IsWritten(k)
    BY DEF CoverageIsExact
  <2>1. ToldAt(outputs, summary, k, {})
    BY DEF ExactInv, ToldPlaces, AllTold
  <2>2. QED
    BY <2>1 DEF ToldAt, IsWritten, Expects, LinesOf, LinesRun
<1>2. Init => ExitInv /\ KeptInv /\ CallsInv /\ CountsInv /\ ExactInv
  BY ExitInit, KeptInit, CallsInit, CountsInit, ExactInit
<1>3. Inv /\ ExitInv /\ KeptInv /\ CallsInv /\ CountsInv /\ ExactInv /\ [Next]_vars =>
          ExitInv' /\ KeptInv' /\ CallsInv' /\ CountsInv' /\ ExactInv'
  BY ExitNext, KeptNext, CallsNext, CountsNext, ExactNext
<1>4. QED
  BY <1>1, <1>2, <1>3, ProcessIsTracked, PTL DEF Spec


-----------------------------------------------------------------------------
(* The values of the variables, in every state.                            *)

\* A code that is thrown, and the calls of the host that have failed.
Codes == noException .. coverageException
CodesInv == exceptions.code \in Codes /\ failures \in 0 .. MaxFailures

\* The codes that are thrown.
LEMMA CodesAre ==
    {noException, invalidArgumentException, bufferOverrunException, outOfMemoryException, busErrorException,
     bkptException, socketException, fileException, coverageException} \subseteq Codes
BY DEF Codes, invalidArgumentException, bufferOverrunException, outOfMemoryException, busErrorException,
       bkptException, socketException, fileException, coverageException

IsCoded(state) == state.code \in Codes

\* What is thrown, and what a try or its end makes of the code, is a code.
LEMMA CodesStay ==
    ASSUME HasShape, IsCoded(exceptions)
    PROVE  /\ \A exception \in Codes : Throw(exception) => IsCoded(exceptions')
           /\ Throw(exceptions.code) => IsCoded(exceptions')
           /\ \A place : EndTry(place) => IsCoded(exceptions')
           /\ \A handler, place : Try(handler, place) => IsCoded(exceptions')
           /\ \A exception \in Codes :
                 exceptions' = [exceptions EXCEPT !.code = exception] => IsCoded(exceptions')
<1>1. ASSUME NEW exception \in Codes, Throw(exception)
      PROVE  IsCoded(exceptions')
  <2>1. \/ exceptions' = exceptions
        \/ exceptions' = [code |-> SetExceptionCode(exceptions.code, exception),
                           handlers |-> Tail(exceptions.handlers)]
    BY <1>1, Zenon DEF Throw
  <2>2. QED
    BY <2>1 DEF SetExceptionCode, IsCoded
<1>2. ASSUME NEW place, EndTry(place)
      PROVE  IsCoded(exceptions')
  BY <1>2 DEF EndTry, HasShape, IsCoded
<1>3. ASSUME NEW handler, NEW place, Try(handler, place)
      PROVE  IsCoded(exceptions')
  BY <1>3, CodesAre DEF Try, IsCoded
<1>4. ASSUME NEW exception \in Codes, exceptions' = [exceptions EXCEPT !.code = exception]
      PROVE  IsCoded(exceptions')
  BY <1>4 DEF HasShape, IsCoded
<1>5. exceptions.code \in Codes
  BY DEF IsCoded
<1>6. QED
  BY <1>1, <1>2, <1>3, <1>4, <1>5, Zenon

\* A call of the host that fails is counted.
IsFailureCount(count) == count \in 0 .. MaxFailures
LEMMA FailuresStay ==
    ASSUME IsFailureCount(failures)
    PROVE  /\ failures < MaxFailures /\ failures' = failures + 1 => IsFailureCount(failures')
           /\ \A char : ReceiveChar(char) => failures' = failures
           /\ \A number : SendChar(number) => failures' = failures
           /\ TalkFails => IsFailureCount(failures')
           /\ BrokenPipe => failures' = failures
<1>1. failures < MaxFailures /\ failures' = failures + 1 => IsFailureCount(failures')
  BY FailuresAssumption DEF IsFailureCount
<1>2. QED
  BY <1>1 DEF ReceiveChar, SendChar, TalkFails, BrokenPipe

\* The steps of main keep the code.
LEMMA MainCodes ==
    ASSUME HasShape, CodesInv, MainStep
    PROVE  CodesInv'
<1> IsCoded(exceptions) /\ IsFailureCount(failures)
  BY DEF CodesInv, IsCoded, IsFailureCount
<1>1. IsCoded(exceptions')
  BY CodesStay, CodesAre
     DEF MainStep, BeginMain, SocketCommInit, CreateSocket, BindAndListen, EndSocketInit, CatchSocket,
       Mri4SimInit, CopyCommandLineArgumentsToStack, EndCopy, CatchArguments,
       BreakOnStart, ShouldInterruptRun, PinkySimStep, IsExitSemihost, EnteringDebugger, BeginPacket,
       SendPacketChar, ReceiveFails, ReceiveAcknowledge, ReceiveCommand, SkipHardcodedBreakpoint,
       AdvanceProgramCounter, EndMain, CatchMain, UninitMain
<1>2. IsFailureCount(failures')
  BY FailuresStay
     DEF MainStep, BeginMain, SocketCommInit, CreateSocket, BindAndListen, EndSocketInit, CatchSocket,
       Mri4SimInit, CopyCommandLineArgumentsToStack, EndCopy, CatchArguments,
       BreakOnStart, ShouldInterruptRun, PinkySimStep, IsExitSemihost, EnteringDebugger, BeginPacket,
       SendPacketChar, ReceiveFails, ReceiveAcknowledge, ReceiveCommand, SkipHardcodedBreakpoint,
       AdvanceProgramCounter, EndMain, CatchMain, UninitMain, IsGdbConnectedFails, AcceptFails
<1>3. QED
  BY <1>1, <1>2 DEF CodesInv, IsCoded, IsFailureCount

\* So do those of the command line, the calls of the host and the coverage.
LEMMA CommandLineCodes ==
    ASSUME HasShape, CodesInv, CommandLineStep
    PROVE  CodesInv'
<1> IsCoded(exceptions) /\ IsFailureCount(failures)
  BY DEF CodesInv, IsCoded, IsFailureCount
<1>1. IsCoded(exceptions')
  BY CodesStay, CodesAre
     DEF CommandLineStep, BeginCommandLine, ParseFlashOption, ParseRamOption, ParseRegionOption,
       ParseBreakOnStartOption, ParseGdbPortOption, ParseCodeCovOption, ParseRestrictOption,
       RefuseArgument, ParseFilenameArgument, CheckRequiredArguments, OpenImage, SizeImage, AllocateImage,
       ReadImage, LoadFromFlashImage, CreateRegionsFromFlashImage, ReleaseImage, CatchLoadImage,
       EndCommandLine, CatchCommandLine, Uses
<1>2. IsFailureCount(failures')
  BY FailuresStay
     DEF CommandLineStep, BeginCommandLine, ParseFlashOption, ParseRamOption, ParseRegionOption,
       ParseBreakOnStartOption, ParseGdbPortOption, ParseCodeCovOption, ParseRestrictOption,
       RefuseArgument, ParseFilenameArgument, CheckRequiredArguments, OpenImage, SizeImage, AllocateImage,
       ReadImage, LoadFromFlashImage, CreateRegionsFromFlashImage, ReleaseImage, CatchLoadImage,
       EndCommandLine, CatchCommandLine
<1>3. QED
  BY <1>1, <1>2 DEF CodesInv, IsCoded, IsFailureCount

LEMMA SemihostCodes ==
    ASSUME HasShape, CodesInv, SemihostStep
    PROVE  CodesInv'
<1> IsCoded(exceptions) /\ IsFailureCount(failures)
  BY DEF CodesInv, IsCoded, IsFailureCount
<1>1. IsCoded(exceptions')
  BY CodesStay, CodesAre
     DEF SemihostStep, HandleWriteRequest, WriteToConsole, HandleReadRequest, ReadFromFile,
       HandleOpenRequest, HandleUnlinkRequest, HandleRenameRequest, HandleFStatRequest,
       HandleStatRequest, HandleLSeekRequest, HandleCloseRequest, HostAnswers, HostAnswersAtOnce, AsksGdb
<1>2. IsFailureCount(failures')
  BY FailuresStay
     DEF SemihostStep, HandleWriteRequest, WriteToConsole, HandleReadRequest, ReadFromFile,
       HandleOpenRequest, HandleUnlinkRequest, HandleRenameRequest, HandleFStatRequest,
       HandleStatRequest, HandleLSeekRequest, HandleCloseRequest, HostAnswers, HostAnswersAtOnce, AsksGdb,
       IsGdbConnectedFails
<1>3. QED
  BY <1>1, <1>2 DEF CodesInv, IsCoded, IsFailureCount

LEMMA CoverageCodes ==
    ASSUME HasShape, CodesInv, CoverageStep
    PROVE  CodesInv'
<1> IsCoded(exceptions) /\ IsFailureCount(failures)
  BY DEF CodesInv, IsCoded, IsFailureCount
<1>1. IsCoded(exceptions')
  BY CodesStay, CodesAre
     DEF CoverageStep, RunCodeCoverageIfRequested, CodeCoverageRun, InitPrivateData, ParseElf, ElfLinesParse,
       OpenPipe, AllocateElfLines, ParseElfLine, SortElfLines, CatchElfLines, EndParseElf, CatchParse,
       OpenSummary, WalkEnds, WalkSourceFile, OpenSource, ReadSource, OpenDest, WriteLine, EndOfSource,
       UninitAfterWalk, EndRun, CatchRun, RethrowRun, EndCoverage, CatchCoverage, UninitPrivateData
<1>2. IsFailureCount(failures')
  BY FailuresStay
     DEF CoverageStep, RunCodeCoverageIfRequested, CodeCoverageRun, InitPrivateData, ParseElf, ElfLinesParse,
       OpenPipe, AllocateElfLines, ParseElfLine, SortElfLines, CatchElfLines, EndParseElf, CatchParse,
       OpenSummary, WalkEnds, WalkSourceFile, OpenSource, ReadSource, OpenDest, WriteLine, EndOfSource,
       UninitAfterWalk, EndRun, CatchRun, RethrowRun, EndCoverage, CatchCoverage
<1>3. QED
  BY <1>1, <1>2 DEF CodesInv, IsCoded, IsFailureCount


\* The arguments that are used, and where the image is among them.
IsCommandLine(line) ==
    /\ line = [manual |-> line.manual, breakOnStart |-> line.breakOnStart, gdbPort |-> line.gdbPort,
               coverageElf |-> line.coverageElf, restrict |-> line.restrict,
               imageFilename |-> line.imageFilename, argIndexOfImage |-> line.argIndexOfImage]
    /\ line.argIndexOfImage \in 0 .. Len(args)
OptionsInv == IsList(args) /\ index \in 0 .. Len(args) /\ IsCommandLine(commandLine)

\* The arguments stay what they are.
LEMMA CommandLineKeepsArguments == CommandLineStep => args' = args
BY DEF CommandLineStep, BeginCommandLine, ParseFlashOption, ParseRamOption, ParseRegionOption,
       ParseBreakOnStartOption, ParseGdbPortOption, ParseCodeCovOption, ParseRestrictOption,
       RefuseArgument, ParseFilenameArgument, CheckRequiredArguments, OpenImage, SizeImage, AllocateImage,
       ReadImage, LoadFromFlashImage, CreateRegionsFromFlashImage, ReleaseImage, CatchLoadImage,
       EndCommandLine, CatchCommandLine, Uses, options

\* The options that change no more of the command line than they say.
LEMMA CommandLineOptions ==
    ASSUME OptionsInv, CommandLineStep
    PROVE  OptionsInv'
<1>1. Len(args) \in Nat
  BY ListPlaces DEF OptionsInv
<1>2. args' = args
  BY CommandLineKeepsArguments
<1>3. index' \in 0 .. Len(args)
  <2>1. \/ index' \in {0, index}
        \/ Remaining - 1 >= 0 /\ index' = index + 1
        \/ Remaining - 1 >= 1 /\ index' = index + 2
        \/ Remaining - 1 >= 2 /\ index' = index + 3
        \/ Remaining > 0 /\ index' = index + Remaining
    BY Zenon DEF Flag, CommandLineStep, BeginCommandLine, ParseFlashOption, ParseRamOption, ParseRegionOption,
       ParseBreakOnStartOption, ParseGdbPortOption, ParseCodeCovOption, ParseRestrictOption,
       RefuseArgument, ParseFilenameArgument, CheckRequiredArguments, OpenImage, SizeImage, AllocateImage,
       ReadImage, LoadFromFlashImage, CreateRegionsFromFlashImage, ReleaseImage, CatchLoadImage,
       EndCommandLine, CatchCommandLine, Uses, options
  <2>2. QED
    BY <1>1, <2>1 DEF OptionsInv, Remaining
<1>4. IsCommandLine(commandLine)'
  <2>1. \/ commandLine' = commandLine
        \/ commandLine' = Blank0
        \/ commandLine' = [commandLine EXCEPT !.manual = TRUE]
        \/ commandLine' = [commandLine EXCEPT !.breakOnStart = TRUE]
        \/ \E port : commandLine' = [commandLine EXCEPT !.gdbPort = port]
        \/ \E text : commandLine' = [commandLine EXCEPT !.coverageElf = text]
        \/ \E text : commandLine' = [commandLine EXCEPT !.restrict = Append(@, text)]
        \/ \E text : commandLine' = [commandLine EXCEPT !.imageFilename = text, !.argIndexOfImage = index]
    BY Zenon DEF CommandLineStep, BeginCommandLine, ParseFlashOption, ParseRamOption, ParseRegionOption,
       ParseBreakOnStartOption, ParseGdbPortOption, ParseCodeCovOption, ParseRestrictOption,
       RefuseArgument, ParseFilenameArgument, CheckRequiredArguments, OpenImage, SizeImage, AllocateImage,
       ReadImage, LoadFromFlashImage, CreateRegionsFromFlashImage, ReleaseImage, CatchLoadImage,
       EndCommandLine, CatchCommandLine, Uses, options
  <2>2. IsCommandLine(commandLine) /\ index \in 0 .. Len(args)
    BY DEF OptionsInv
  <2>3. CASE commandLine' \in {commandLine, Blank0}
    <3>1. Blank0.argIndexOfImage \in 0 .. Len(args)
      BY <1>1 DEF Blank0
    <3>2. IsCommandLine(Blank0)
      BY <3>1 DEF IsCommandLine, Blank0
    <3>3. CASE commandLine' = commandLine
      BY <1>2, <2>2, <3>3 DEF IsCommandLine
    <3>4. CASE commandLine' = Blank0
      BY <1>2, <3>2, <3>4, Zenon DEF IsCommandLine
    <3>5. QED
      BY <2>3, <3>3, <3>4
  <2>4. CASE commandLine' = [commandLine EXCEPT !.manual = TRUE]
    BY <1>2, <2>2, <2>4 DEF IsCommandLine
  <2>5. CASE commandLine' = [commandLine EXCEPT !.breakOnStart = TRUE]
    BY <1>2, <2>2, <2>5 DEF IsCommandLine
  <2>6. ASSUME NEW port, commandLine' = [commandLine EXCEPT !.gdbPort = port]
        PROVE  IsCommandLine(commandLine)'
    BY <1>2, <2>2, <2>6 DEF IsCommandLine
  <2>7. ASSUME NEW text, commandLine' = [commandLine EXCEPT !.coverageElf = text]
        PROVE  IsCommandLine(commandLine)'
    BY <1>2, <2>2, <2>7 DEF IsCommandLine
  <2>8. ASSUME NEW text, commandLine' = [commandLine EXCEPT !.restrict = Append(@, text)]
        PROVE  IsCommandLine(commandLine)'
    BY <1>2, <2>2, <2>8 DEF IsCommandLine
  <2>9. ASSUME NEW text,
               commandLine' = [commandLine EXCEPT !.imageFilename = text, !.argIndexOfImage = index]
        PROVE  IsCommandLine(commandLine)'
    BY <1>2, <2>2, <2>9 DEF IsCommandLine
  <2>10. QED
    BY <2>1, <2>3, <2>4, <2>5, <2>6, <2>7, <2>8, <2>9
<1>5. QED
  BY <1>2, <1>3, <1>4 DEF OptionsInv

\* What the program has in R0, and what main returns.
ResultsInv == r0 \in {-1} \cup 0 .. Len(args) + 1 /\ exitCode \in {-1} \cup Nat

\* The number of arguments that the program gets.
LEMMA ProgramArgumentsAre ==
    ASSUME OptionsInv
    PROVE  Len(ProgramArguments) \in 0 .. Len(args)
<1>1. Len(args) \in Nat /\ commandLine.argIndexOfImage \in 0 .. Len(args)
  BY ListPlaces DEF OptionsInv, IsCommandLine
<1>2. PICK S : args \in Seq(S)
  BY DEF OptionsInv, IsList
<1> DEFINE first == commandLine.argIndexOfImage + 1
           last  == Len(args)
<1>3. \A i \in first .. last : args[i] \in S
  BY <1>1, <1>2
<1>4. Len(SubSeq(args, first, last)) = IF first <= last THEN last - first + 1 ELSE 0
  BY <1>1, <1>3, SubSeqProperties
<1>5. QED
  BY <1>1, <1>4 DEF ProgramArguments

LEMMA MainResults ==
    ASSUME OptionsInv, ResultsInv, MainStep
    PROVE  ResultsInv'
<1>1. Len(args) \in Nat /\ Len(ProgramArguments) \in 0 .. Len(args)
  BY ListPlaces, ProgramArgumentsAre DEF OptionsInv
<1>2. args' = args
  BY DEF MainStep, BeginMain, SocketCommInit, CreateSocket, BindAndListen, EndSocketInit, CatchSocket,
       Mri4SimInit, CopyCommandLineArgumentsToStack, EndCopy, CatchArguments,
       BreakOnStart, ShouldInterruptRun, PinkySimStep, IsExitSemihost, EnteringDebugger, BeginPacket,
       SendPacketChar, ReceiveFails, ReceiveAcknowledge, ReceiveCommand, SkipHardcodedBreakpoint,
       AdvanceProgramCounter, EndMain, CatchMain, UninitMain, KeepsFiles, options
<1>3. r0' \in {r0, 1, Len(ProgramArguments)}
  BY DEF MainStep, BeginMain, SocketCommInit, CreateSocket, BindAndListen, EndSocketInit, CatchSocket,
       Mri4SimInit, CopyCommandLineArgumentsToStack, EndCopy, CatchArguments,
       BreakOnStart, ShouldInterruptRun, PinkySimStep, IsExitSemihost, EnteringDebugger, BeginPacket,
       SendPacketChar, ReceiveFails, ReceiveAcknowledge, ReceiveCommand, SkipHardcodedBreakpoint,
       AdvanceProgramCounter, EndMain, CatchMain, UninitMain, semihost
<1>4. exitCode' \in {exitCode, r0, -1}
  BY DEF MainStep, BeginMain, SocketCommInit, CreateSocket, BindAndListen, EndSocketInit, CatchSocket,
       Mri4SimInit, CopyCommandLineArgumentsToStack, EndCopy, CatchArguments,
       BreakOnStart, ShouldInterruptRun, PinkySimStep, IsExitSemihost, EnteringDebugger, BeginPacket,
       SendPacketChar, ReceiveFails, ReceiveAcknowledge, ReceiveCommand, SkipHardcodedBreakpoint,
       AdvanceProgramCounter, EndMain, CatchMain, UninitMain, thread, Stopped
<1>5. QED
  BY <1>1, <1>2, <1>3, <1>4 DEF ResultsInv

\* The host's answer to a call is 0 or -1.
LEMMA SemihostResults ==
    ASSUME SemihostStep
    PROVE  r0' \in {r0, 0, -1} /\ options' = options
BY DEF SemihostStep, HandleWriteRequest, WriteToConsole, HandleReadRequest, ReadFromFile,
       HandleOpenRequest, HandleUnlinkRequest, HandleRenameRequest, HandleFStatRequest,
       HandleStatRequest, HandleLSeekRequest, HandleCloseRequest, HostAnswers, HostAnswersAtOnce, AsksGdb

\* What is sent of a packet.
SendingInv == packet.sent \in 0 .. PacketLength /\ (at = "send" => packet.sent < PacketLength)


LEMMA MainSends ==
    ASSUME Inv, SendingInv, MainStep
    PROVE  SendingInv'
<1>1. /\ at' = "send" => BeginPacket \/ SendPacketChar
      /\ packet' = packet \/ BeginPacket \/ SendPacketChar
  BY MainTracks, MainSockets DEF Inv
<1>2. PacketLength \in Nat \ {0}
  BY PacketAssumption
<1>3. CASE BeginPacket
  BY <1>2, <1>3 DEF BeginPacket, NextPacket, SendingInv
<1>4. CASE SendPacketChar
  <2>1. at = "send" /\ packet.sent \in 0 .. PacketLength /\ packet.sent < PacketLength
    BY <1>4 DEF SendPacketChar, SendingInv
  <2>2. \/ packet' = packet
        \/ /\ packet' = [packet EXCEPT !.sent = @ + 1]
           /\ at' = IF packet.sent + 1 = PacketLength THEN "acknowledge" ELSE "send"
    BY <1>4 DEF SendPacketChar
  <2>3. CASE packet' = packet
    BY <2>1, <2>3 DEF SendingInv
  <2>4. CASE packet' = [packet EXCEPT !.sent = @ + 1]
    <3>1. packet = [number |-> packet.number, sent |-> packet.sent]
      BY DEF Inv, PacketsInv
    <3>2. packet'.sent = packet.sent + 1
      BY <2>4, <3>1
    <3>3. packet' # packet
      BY <1>2, <2>1, <3>2
    <3>4. QED
      BY <1>2, <2>1, <2>2, <3>2, <3>3 DEF SendingInv
  <2>5. QED
    BY <2>2, <2>3, <2>4
<1>5. CASE packet' = packet /\ at' # "send"
  BY <1>5 DEF SendingInv
<1>6. QED
  BY <1>1, <1>3, <1>4, <1>5

\* The walk is at one of the rows, or behind the last.
RowsInv == elf # NoLines => IsTable(elf) /\ walk.row \in 1 .. Len(elf) + 1

\* The steps of the coverage that leave both alone.
LEMMA RowsRest ==
    ASSUME RowsInv, elf' = elf, walk' = walk
    PROVE  RowsInv'
BY DEF RowsInv, IsTable, IsList

LEMMA CoverageRows ==
    ASSUME ProcessInv, ExitInv, RowsInv, CoverageStep, ExitInv'
    PROVE  RowsInv'
<1>1. CASE InitPrivateData
  BY <1>1 DEF InitPrivateData, RowsInv
<1>2. CASE CatchElfLines
  BY <1>2 DEF CatchElfLines, RowsInv
<1>3. CASE SortElfLines
  <2>1. Unread /\ IsClear /\ walk' = walk
    BY <1>3, CoverageKnows DEF SortElfLines, Covers
  <2>2. at' = "parsedElf" /\ exceptions'.code = 0
    BY <1>3, <2>1, CoverageTryEnds DEF SortElfLines, IsClear
  <2>3. IsTable(elf)' /\ walk'.row = 1
    BY <2>1, <2>2 DEF ExitInv, IsClear, Unread, AtStart, RunningPlaces, SourcePlaces, DonePlaces,
       FailedPlaces, EndPlaces, SetupPlaces, RunPlaces, CopyPlaces, BeforePlaces, ParsePlaces, ImagePlaces,
       LoadPlaces, SocketPlaces
  <2>4. Len(elf') \in Nat
    BY <2>3, ListPlaces DEF IsTable
  <2>5. QED
    BY <2>3, <2>4 DEF RowsInv
<1>4. CASE WalkSourceFile
  <2>1. at' \in {"walk", "openSource"}
    BY <1>4 DEF WalkSourceFile
  <2>2. WalkInv'
    BY <2>1 DEF ExitInv, Walked, Walking, RunningPlaces, SourcePlaces, DonePlaces,
       FailedPlaces, EndPlaces, SetupPlaces, RunPlaces, CopyPlaces, BeforePlaces, ParsePlaces, ImagePlaces,
       LoadPlaces, SocketPlaces
  <2>3. QED
    BY <2>2 DEF WalkInv, RowsInv
<1>5. CASE WriteLine
  <2>1. at' = "lines" \/ (elf' = elf /\ walk' = walk)
    BY <1>5, Zenon DEF WriteLine
  <2>2. at' = "lines" => WalkInv'
    BY DEF ExitInv, Walking, RunningPlaces, SourcePlaces, DonePlaces,
       FailedPlaces, EndPlaces, SetupPlaces, RunPlaces, CopyPlaces, BeforePlaces, ParsePlaces, ImagePlaces,
       LoadPlaces, SocketPlaces
  <2>3. QED
    BY <2>1, <2>2, RowsRest DEF WalkInv, RowsInv
<1>6. CASE elf' = elf /\ walk' = walk
  BY <1>6, RowsRest
<1>7. QED
  BY <1>1, <1>2, <1>3, <1>4, <1>5, <1>6, Zenon
     DEF CoverageStep, RunCodeCoverageIfRequested, CodeCoverageRun, ParseElf, ElfLinesParse,
       OpenPipe, AllocateElfLines, ParseElfLine, EndParseElf, CatchParse, Keeps, coverage,
       OpenSummary, WalkEnds, OpenSource, ReadSource, OpenDest, EndOfSource,
       UninitAfterWalk, EndRun, CatchRun, RethrowRun, EndCoverage, CatchCoverage

-----------------------------------------------------------------------------
\* How many tries are open.
IsDeep(stack, n) == stack \in Seq(Handlers) /\ Len(stack) = n

LEMMA PushedDeep ==
    ASSUME NEW stack, NEW handler \in Handlers, NEW below, NEW n \in Nat, NEW m \in Nat, m = n + 1,
           IsPushed(stack, handler, below), IsDeep(below, n)
    PROVE  IsDeep(stack, m)
<1>1. stack = <<handler>> \o below /\ stack # << >> /\ Tail(stack) = below
  BY DEF IsPushed
<1>2. stack \in Seq(Handlers)
  BY <1>1, PushAndPop, Zenon DEF IsDeep
<1>3. Len(Tail(stack)) = Len(stack) - 1 /\ Len(stack) \in Nat
  BY <1>1, <1>2, HeadTailProperties
<1>4. QED
  BY <1>1, <1>2, <1>3 DEF IsDeep

\* The tries that are open are at most five, one in the other.
LEMMA HandlersAreFew ==
    ASSUME ProcessInv
    PROVE  Len(exceptions.handlers) <= 5 /\ at \in Places
<1>1. IsDeep(NoTry, 0)
  BY DEF IsDeep, NoTry
<1>2. /\ "catchMain" \in Handlers /\ "catchCommandLine" \in Handlers /\ "catchLoadImage" \in Handlers
      /\ "catchSocket" \in Handlers /\ "catchArguments" \in Handlers /\ "catchCoverage" \in Handlers
      /\ "catchRun" \in Handlers /\ "catchParse" \in Handlers /\ "catchElfLines" \in Handlers
  BY DEF Handlers
<1>3. 0 + 1 = 1 /\ 1 + 1 = 2 /\ 2 + 1 = 3 /\ 3 + 1 = 4 /\ 4 + 1 = 5
  OBVIOUS
<1>4. IsDeep(InMain, 1)
  BY <1>1, <1>2, <1>3, Stacks, PushedDeep
<1>5. IsDeep(InParse, 2) /\ IsDeep(InSocketInit, 2) /\ IsDeep(InCopy, 2) /\ IsDeep(InCoverage, 2)
  BY <1>2, <1>3, <1>4, Stacks, PushedDeep
<1>6. IsDeep(InLoadImage, 3) /\ IsDeep(InRun, 3)
  BY <1>2, <1>3, <1>5, Stacks, PushedDeep
<1>7. IsDeep(InParseElf, 4)
  BY <1>2, <1>3, <1>6, Stacks, PushedDeep
<1>8. IsDeep(InElfLines, 5)
  BY <1>2, <1>3, <1>7, Stacks, PushedDeep
<1>9. Len(exceptions.handlers) <= 5
  <2>1. exceptions.handlers \in {NoTry, InMain, InParse, InLoadImage, InSocketInit, InCopy, InCoverage, InRun,
                                 InParseElf, InElfLines}
    BY DEF ProcessInv, Track
  <2>2. \A stack : \A n \in 0 .. 5 : IsDeep(stack, n) => Len(stack) <= 5
    BY DEF IsDeep
  <2>3. 0 \in 0 .. 5 /\ 1 \in 0 .. 5 /\ 2 \in 0 .. 5 /\ 3 \in 0 .. 5 /\ 4 \in 0 .. 5 /\ 5 \in 0 .. 5
    OBVIOUS
  <2>4. QED
    BY <1>1, <1>4, <1>5, <1>6, <1>7, <1>8, <2>1, <2>2, <2>3
<1>10. at \in Places
  <2>1. /\ OutsidePlaces \subseteq Places /\ BeforePlaces \subseteq Places /\ ParsePlaces \subseteq Places
        /\ ImagePlaces \subseteq Places /\ LoadPlaces \subseteq Places /\ SocketPlaces \subseteq Places
        /\ RunPlaces \subseteq Places /\ CopyPlaces \subseteq Places /\ RanPlaces \subseteq Places
        /\ CoverPlaces \subseteq Places /\ CatchPlaces \subseteq Places /\ WalkPlaces \subseteq Places
        /\ WalkedPlaces \subseteq Places /\ ParseElfPlaces \subseteq Places
        /\ CatchElfPlaces \subseteq Places /\ ElfPlaces \subseteq Places /\ EndPlaces \subseteq Places
        /\ "exited" \in Places
    BY DEF OutsidePlaces, BeforePlaces, ParsePlaces, ImagePlaces, LoadPlaces, SocketPlaces, RunPlaces,
       CopyPlaces, RanPlaces, CoverPlaces, CatchPlaces, WalkPlaces, WalkedPlaces, ParseElfPlaces,
       CatchElfPlaces, ElfPlaces, EndPlaces, Places
  <2>2. QED
    BY <2>1 DEF ProcessInv, Track
<1>11. QED
  BY <1>9, <1>10


\* All of this together.
TypesInv == CodesInv /\ OptionsInv /\ ResultsInv /\ SendingInv /\ RowsInv

\* The process starts so.
LEMMA TypesInit == Init => TypesInv
<1> SUFFICES ASSUME Init
             PROVE  TypesInv
  OBVIOUS
<1>1. PICK s \in Sessions : args = s.args
  BY DEF Init
<1>2. IsList(args)
  BY <1>1, SessionsAssumption DEF IsList
<1>3. Len(args) \in Nat
  BY <1>2, ListPlaces
<1>4. CodesInv
  BY CodesAre, FailuresAssumption DEF Init, CodesInv, NoExceptions
<1>5. OptionsInv
  <2>1. index = 0 /\ commandLine = Blank0
    BY DEF Init
  <2>2. IsCommandLine(Blank0)
    BY <1>3 DEF IsCommandLine, Blank0
  <2>3. QED
    BY <1>2, <1>3, <2>1, <2>2 DEF OptionsInv
<1>6. ResultsInv
  BY <1>3 DEF Init, ResultsInv
<1>7. SendingInv
  BY PacketAssumption DEF Init, SendingInv
<1>8. RowsInv
  BY DEF Init, RowsInv
<1>9. QED
  BY <1>4, <1>5, <1>6, <1>7, <1>8 DEF TypesInv

\* What is left alone keeps its values.
LEMMA OptionsRest ==
    ASSUME OptionsInv, args' = args, index' = index, commandLine' = commandLine
    PROVE  OptionsInv'
BY DEF OptionsInv, IsCommandLine, IsList

LEMMA ResultsRest ==
    ASSUME ResultsInv, args' = args, r0' = r0, exitCode' = exitCode
    PROVE  ResultsInv'
BY DEF ResultsInv

LEMMA SendingRests ==
    ASSUME SendingInv, packet' = packet, at' # "send" \/ at' = at
    PROVE  SendingInv'
BY DEF SendingInv

\* Main uses the arguments and changes none.
LEMMA MainOptions ==
    ASSUME MainStep
    PROVE  args' = args /\ index' = index /\ commandLine' = commandLine
BY DEF MainStep, BeginMain, SocketCommInit, CreateSocket, BindAndListen, EndSocketInit, CatchSocket,
       Mri4SimInit, CopyCommandLineArgumentsToStack, EndCopy, CatchArguments,
       BreakOnStart, ShouldInterruptRun, PinkySimStep, IsExitSemihost, EnteringDebugger, BeginPacket,
       SendPacketChar, ReceiveFails, ReceiveAcknowledge, ReceiveCommand, SkipHardcodedBreakpoint,
       AdvanceProgramCounter, EndMain, CatchMain, UninitMain, KeepsFiles, options

\* The coverage leaves the options alone.
LEMMA CoverageKeepsOptions == CoverageStep => options' = options
BY DEF CoverageStep, RunCodeCoverageIfRequested, CodeCoverageRun, InitPrivateData, ParseElf, ElfLinesParse,
       OpenPipe, AllocateElfLines, ParseElfLine, SortElfLines, CatchElfLines, EndParseElf, CatchParse,
       OpenSummary, WalkEnds, WalkSourceFile, OpenSource, ReadSource, OpenDest, WriteLine, EndOfSource,
       UninitAfterWalk, EndRun, CatchRun, RethrowRun, EndCoverage, CatchCoverage, Covers

LEMMA TypesNext == Inv /\ ExitInv /\ TypesInv /\ [Next]_vars => TypesInv'
<1> SUFFICES ASSUME Inv, ExitInv, TypesInv, [Next]_vars
             PROVE  TypesInv'
  OBVIOUS
<1>1. /\ CodesInv /\ OptionsInv /\ ResultsInv /\ SendingInv /\ RowsInv
      /\ ProcessInv /\ SocketsInv /\ HasShape
  BY DEF TypesInv, Inv, ProcessInv
<1>2. CASE MainStep
  <2>1. CodesInv' /\ ResultsInv' /\ SendingInv'
    BY <1>1, <1>2, MainCodes, MainResults, MainSends
  <2>2. OptionsInv'
    BY <1>1, <1>2, MainOptions, OptionsRest
  <2>3. elf' = elf /\ walk' = walk
    BY <1>2, MainKeepsDump DEF coverage
  <2>4. QED
    BY <1>1, <2>1, <2>2, <2>3, RowsRest DEF TypesInv
<1>3. CASE CommandLineStep /\ UNCHANGED <<socket, semihost, inputs, coverage, thread>>
  <2>1. CodesInv' /\ OptionsInv'
    BY <1>1, <1>3, CommandLineCodes, CommandLineOptions
  <2>2. args' = args
    BY <1>3, CommandLineKeepsArguments
  <2>3. r0' = r0 /\ exitCode' = exitCode /\ packet' = packet /\ elf' = elf /\ walk' = walk
    BY <1>3 DEF semihost, thread, coverage
  <2>4. at' # "send"
    BY <1>1, <1>3, CommandLineTracks
  <2>5. QED
    BY <1>1, <2>1, <2>2, <2>3, <2>4, ResultsRest, SendingRests, RowsRest DEF TypesInv
<1>4. CASE SemihostStep /\ UNCHANGED <<dump, sources, coverage, thread>>
  <2>1. CodesInv'
    BY <1>1, <1>4, SemihostCodes
  <2>2. r0' \in {r0, 0, -1} /\ args' = args /\ index' = index /\ commandLine' = commandLine
    BY <1>4, SemihostResults DEF options
  <2>3. exitCode' = exitCode /\ packet' = packet /\ elf' = elf /\ walk' = walk
    BY <1>4 DEF thread, coverage
  <2>4. at' # "send"
    BY <1>1, <1>4, SemihostTracks
  <2>5. ResultsInv'
    <3>1. Len(args) \in Nat
      BY <1>1, ListPlaces DEF OptionsInv
    <3>2. QED
      BY <1>1, <2>2, <2>3, <3>1 DEF ResultsInv
  <2>6. QED
    BY <1>1, <2>1, <2>2, <2>3, <2>4, <2>5, OptionsRest, SendingRests, RowsRest DEF TypesInv
<1>5. CASE CoverageStep /\ UNCHANGED <<socket, semihost, thread>>
  <2>1. CodesInv'
    BY <1>1, <1>5, CoverageCodes
  <2>2. RowsInv'
    <3>1. ExitInv'
      BY <1>1, <1>5, CoverageExits
    <3>2. QED
      BY <1>1, <1>5, <3>1, CoverageRows
  <2>3. args' = args /\ index' = index /\ commandLine' = commandLine
    BY <1>5, CoverageKeepsOptions DEF options
  <2>4. r0' = r0 /\ exitCode' = exitCode /\ packet' = packet
    BY <1>5 DEF semihost, thread
  <2>5. at' # "send"
    BY <1>1, <1>5, CoverageTracks
  <2>6. QED
    BY <1>1, <2>1, <2>2, <2>3, <2>4, <2>5, OptionsRest, ResultsRest, SendingRests DEF TypesInv
<1>6. CASE GdbSide \/ UNCHANGED vars
  <2>1. /\ at' = at /\ exceptions' = exceptions /\ failures' = failures
        /\ args' = args /\ index' = index /\ commandLine' = commandLine
        /\ r0' = r0 /\ exitCode' = exitCode /\ packet' = packet /\ elf' = elf /\ walk' = walk
    BY <1>6 DEF GdbSide, vars, options, semihost, coverage, thread
  <2>2. CodesInv'
    BY <1>1, <2>1 DEF CodesInv
  <2>3. QED
    BY <1>1, <2>1, <2>2, OptionsRest, ResultsRest, SendingRests, RowsRest DEF TypesInv
<1>7. QED
  BY <1>2, <1>3, <1>4, <1>5, <1>6 DEF Next, Process

\* Every variable keeps to its values: the code is one that is thrown, at most
\* five tries are open, the arguments are used in their order and never beyond
\* the last, a packet is sent to its length, GDB's characters are read after
\* they were sent, the program does not go behind its exit and the walk not
\* behind the row after the last: for any arguments and whatever fails.
THEOREM ProcessHasTypes == Spec => []TypeOK
<1>1. Inv /\ StreamsInv /\ CallsInv /\ TypesInv => TypeOK
  <2> SUFFICES ASSUME Inv, StreamsInv, CallsInv, TypesInv
               PROVE  TypeOK
    OBVIOUS
  <2>1. at \in Places /\ Len(exceptions.handlers) <= 5
    BY HandlersAreFew DEF Inv
  <2>2. exceptions.code \in noException .. coverageException /\ failures \in 0 .. MaxFailures
    BY DEF TypesInv, CodesInv, Codes
  <2>3. index \in 0 .. Len(args) /\ r0 \in {-1} \cup 0 .. Len(args) + 1 /\ exitCode \in {-1} \cup Nat
    BY DEF TypesInv, OptionsInv, ResultsInv
  <2>4. gdbSocket \in {0} \cup DOMAIN gdbs /\ pComm \in {"null", "g_comm", "lost"}
    BY DEF Inv, SocketsInv, Descriptors
  <2>5. \A i \in DOMAIN gdbs : gdbs[i].read <= gdbs[i].sent /\ gdbs[i].sent <= Len(gdbs[i].script)
    BY DEF StreamsInv, Streams, IsStream
  <2>6. done \in 0 .. Len(program) - 1
    BY DEF CallsInv
  <2>7. packet.sent \in 0 .. PacketLength /\ (elf # NoLines => walk.row \in 1 .. Len(elf) + 1)
    BY DEF TypesInv, SendingInv, RowsInv
  <2>8. QED
    BY <2>1, <2>2, <2>3, <2>4, <2>5, <2>6, <2>7 DEF TypeOK
<1>2. Init => StreamsInv /\ ExitInv /\ CallsInv /\ TypesInv
  BY StreamsInit, ExitInit, CallsInit, TypesInit
<1>3. Inv /\ StreamsInv /\ ExitInv /\ CallsInv /\ TypesInv /\ [Next]_vars =>
          StreamsInv' /\ ExitInv' /\ CallsInv' /\ TypesInv'
  BY StreamsNext, ExitNext, CallsNext, TypesNext
<1>4. QED
  BY <1>1, <1>2, <1>3, ProcessIsTracked, PTL DEF Spec
=============================================================================
