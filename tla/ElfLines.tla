------------------------------ MODULE ElfLines ------------------------------
(***************************************************************************)
(* ElfLines.c: the rows <file, line, address> of readelf's dump of a       *)
(* program's line information.  A line of the dump names a file ("unit"),  *)
(* is a "row" of the file named last, is "blank", or is something else.    *)
(* The linker leaves the rows of the functions it discarded in the dump,   *)
(* with addresses that count from 0.                                       *)
(***************************************************************************)
EXTENDS Naturals, Sequences, FiniteSets, SequencesExt

Unit(file)         == [kind |-> "unit", file |-> file, line |-> 0, address |-> 0]
Row(line, address) == [kind |-> "row", file |-> "", line |-> line, address |-> address]
Blank              == [kind |-> "blank", file |-> "", line |-> 0, address |-> 0]
Heading            == [kind |-> "heading", file |-> "", line |-> 0, address |-> 0]

\* ElfLines and ParseState: how many lines were read of the dump, the rows that
\* are kept, and the last one, which is counted when the next line is read.
ParseStart ==
    [read |-> 0, kept |-> << >>, last |-> Heading, file |-> "",
     didLastLineContainAddress |-> FALSE, isDiscardedFunction |-> FALSE, wasDiscarding |-> FALSE]

\* Mutated form of AtBlank: once a function was discarded, so are all others.
AtBlank_StaysDiscarded(state) ==
    [state EXCEPT
        !.wasDiscarding       = state.isDiscardedFunction,
        !.isDiscardedFunction = @ \/ (state.didLastLineContainAddress /\ state.last.address = 0)]

\* The row in front of a blank line begins a function; its address tells
\* whether that was discarded.
AtBlank(state) ==
    [state EXCEPT
        !.wasDiscarding       = state.isDiscardedFunction,
        !.isDiscardedFunction = state.didLastLineContainAddress /\ state.last.address = 0]

\* The row before this line is kept unless its function was discarded.
CountLast(state) ==
    IF ~state.isDiscardedFunction /\ state.didLastLineContainAddress
    THEN [state EXCEPT !.kept = Append(@, state.last), !.didLastLineContainAddress = FALSE]
    ELSE [state EXCEPT !.wasDiscarding = FALSE, !.didLastLineContainAddress = FALSE]

\* Rows before the first unit name no file and are passed over.
Take(state, text) ==
    CASE text.kind = "unit" -> [state EXCEPT !.file = text.file]
      [] text.kind = "row" /\ state.file # "" ->
            [state EXCEPT !.last = [text EXCEPT !.file = state.file],
                          !.didLastLineContainAddress = TRUE, !.wasDiscarding = FALSE]
      [] OTHER -> state

ParseLine(state, text) ==
    LET counted == CountLast(IF text.kind = "blank" THEN AtBlank(state) ELSE state)
    IN  [Take(counted, text) EXCEPT !.read = @ + 1]

\* The end of the dump is one more blank line; what it kept of a function that
\* was being discarded is taken back.
ParseEnd(state) ==
    LET end == ParseLine(state, Blank) IN IF end.wasDiscarding THEN Front(end.kept) ELSE end.kept

\* compareLines: by file, then by line.
CompareLines(files, row, other) ==
    LET rank(file) == CHOOSE k \in DOMAIN files : files[k] = file
    IN  \/ rank(row.file) < rank(other.file)
        \/ row.file = other.file /\ row.line < other.line

\* Rows that compare equal stay in the order of the dump.
Sorted(files, rows) ==
    LET before(k, n) == \/ CompareLines(files, rows[k], rows[n])
                        \/ ~CompareLines(files, rows[n], rows[k]) /\ k < n
        place(n) == 1 + Cardinality({k \in DOMAIN rows : before(k, n)})
    IN  [p \in DOMAIN rows |-> rows[CHOOSE n \in DOMAIN rows : place(n) = p]]
-----------------------------------------------------------------------------
(* Which rows belong to the functions that the linker kept.                *)

\* The lines that are rows, and what their rows are.
RowsOf(dump) ==
    {n \in DOMAIN dump : dump[n].kind = "row" /\ \E u \in 1 .. n - 1 : dump[u].kind = "unit"}
RowAt(dump, n) ==
    LET unit == CHOOSE u \in 1 .. n - 1 :
                    dump[u].kind = "unit" /\ \A v \in u + 1 .. n - 1 : dump[v].kind # "unit"
    IN  [dump[n] EXCEPT !.file = dump[unit].file]

\* A function begins with a row and a blank line behind it; at address 0 it was
\* discarded.
IsBlank(dump, n)  == n > Len(dump) \/ dump[n].kind = "blank"
Discards(dump, b) == IsBlank(dump, b) /\ b - 1 \in RowsOf(dump) /\ dump[b - 1].address = 0
InDiscarded(dump, n) ==
    \E b \in 1 .. n - 1 :
        Discards(dump, b) /\ \A other \in b + 1 .. n - 1 : ~IsBlank(dump, other)

\* A row that begins a function is live by its own address, any other row if its
\* function is.  The last row of the dump has a blank line behind it and is live
\* if both are.
IsLive(dump, n) ==
    /\ IsBlank(dump, n + 1) => dump[n].address # 0
    /\ (n = Len(dump) \/ ~IsBlank(dump, n + 1)) => ~InDiscarded(dump, n)
=============================================================================
