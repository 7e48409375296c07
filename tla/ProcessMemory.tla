---------------------------- MODULE ProcessMemory ----------------------------
(***************************************************************************)
(* MemorySim.c as the process uses it: the regions in the order they were  *)
(* created, and the counters of the reads of the flash.  A region that is  *)
(* made read-only is given a new block of counters, one for each of its    *)
(* half-words, and every read of two bytes adds one to the half-word's, be *)
(* it the program's fetch or its load, GDB's look at the memory or the     *)
(* host's at a buffer.                                                     *)
(***************************************************************************)
EXTENDS HostCalls, FiniteSets

VARIABLES
    regions,            \* of g_object, in the order they were created
    blocks,             \* the blocks of counters that are on the heap, by their number
    marks,              \* history: the region each block was allocated for
    readCounts,         \* the counters that are not 0, by their block and place in it
    looked              \* history: the half-words that GDB or the host has read

memory == <<regions, blocks, marks>>
reads  == <<readCounts, looked>>

NoBlock == 0            \* a region's null pointer

Region(base, size) == [base |-> base, size |-> size, readOnly |-> FALSE, counts |-> NoBlock]

\* A region holds an access of a size at an address; the first one is used.
Holds(region, address, size) ==
    address >= region.base /\ address + size <= region.base + region.size
Holding(list, address, size) == {k \in DOMAIN list : Holds(list[k], address, size)}
FirstHolding(list, address, size) ==
    CHOOSE k \in Holding(list, address, size) : \A other \in Holding(list, address, size) : k <= other

IsMapped(address, size) == Holding(regions, address, size) # {}
RegionOf(address, size) == regions[FirstHolding(regions, address, size)]
IsWritable(address, size) == IsMapped(address, size) /\ ~RegionOf(address, size).readOnly

\* MemorySim_MakeRegionReadOnly marks the first region that holds the address,
\* and gives it a block, whether it has one or not.
NextBlock == Len(marks) + 1
MarkedReadOnly(list, base) == [list EXCEPT ![FirstHolding(list, base, 1)].readOnly = TRUE]
WithReadCounts(list, base) ==
    [MarkedReadOnly(list, base) EXCEPT ![FirstHolding(list, base, 1)].counts = NextBlock]
MakesReadOnly(list, base) ==
    /\ regions' = WithReadCounts(list, base) /\ blocks' = blocks \cup {NextBlock}
    /\ marks' = Append(marks, FirstHolding(list, base, 1))

\* MemorySim_Uninit frees a region with the block that it has.
ReleaseRegions ==
    /\ regions' = << >> /\ blocks' = blocks \ {regions[k].counts : k \in DOMAIN regions}
    /\ UNCHANGED marks

-----------------------------------------------------------------------------
\* The counter of the half-word at an address, if its region has counters.
CellOf(address) == <<RegionOf(address, 2).counts, (address - RegionOf(address, 2).base) \div 2>>
IsCounted(address) == IsMapped(address, 2) /\ RegionOf(address, 2).counts # NoBlock
ReadsOf(cell) == IF cell \in DOMAIN readCounts THEN readCounts[cell] ELSE 0

\* Reads of some sizes at some addresses, one after the other.
Access(address, size) == [address |-> address, size |-> size]
HalfWords(accesses) == {n \in DOMAIN accesses : accesses[n].size = 2}
Counts(accesses, n) == n \in HalfWords(accesses) /\ IsCounted(accesses[n].address)
CountReads(accesses) ==
    LET counted == {n \in DOMAIN accesses : Counts(accesses, n)}
        cell(n) == CellOf(accesses[n].address)
    IN  readCounts' = [c \in DOMAIN readCounts \cup {cell(n) : n \in counted} |->
                           ReadsOf(c) + Cardinality({n \in counted : cell(n) = c})]

\* Reads that are not the program's.
LooksAt(accesses) ==
    /\ CountReads(accesses)
    /\ looked' = looked \cup {accesses[n].address : n \in HalfWords(accesses)}
=============================================================================
