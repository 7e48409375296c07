--------------------------- MODULE WatchpointArray ---------------------------
(***************************************************************************)
(* The array of hardware breakpoints and watchpoints that each memory      *)
(* region of MemorySim.c keeps: how one is looked up, inserted, removed,   *)
(* and how a memory access scans the array.  All operators are pure; the   *)
(* array is a sequence, so watchpointCount is its length.                  *)
(*                                                                         *)
(* An entry holds the half-open range [start, end) in unsigned arithmetic  *)
(* of the address width: an entry that ends with the last address of the   *)
(* address space has end = 0.                                              *)
(***************************************************************************)
EXTENDS Integers, SequencesExt

CONSTANT AddressSpace       \* number of addresses; 2^32 in the C code

ASSUME AddressSpaceAssumption == AddressSpace \in Nat \ {0}

Address == 0 .. (AddressSpace - 1)

AccessType == {"read", "write"}

\* A breakpoint is the READ bit together with a marker bit of its own, so a
\* scan selects it for reads and never for writes.
TypeMask ==
    [breakpoint |-> {"read"},  read      |-> {"read"},
     write      |-> {"write"}, readWrite |-> {"read", "write"}]

WatchpointType == {"breakpoint", "read", "write", "readWrite"}

Watchpoint == [type : WatchpointType, start : Address, end : Address]

\* Mutated form of WatchpointFor: the end address is kept in a wider type.
WatchpointFor_Wide(address, size, type) ==
    [type |-> type, start |-> address, end |-> address + size]

\* The key that set and clear build: the end address wraps to the width.
WatchpointFor(address, size, type) ==
    [type |-> type, start |-> address, end |-> (address + size) % AddressSpace]

-----------------------------------------------------------------------------
(* findMatchingOrHigherWatchpoint: the lookup stops at the first entry that *)
(* equals the key or starts above it.  Entries that start at the same       *)
(* address but differ are passed over.                                      *)

\* Mutated form of StopsLookup: an equal start address is taken for a match.
StopsLookup_AtStart(key, entry) == key.start <= entry.start

StopsLookup(key, entry) == entry = key \/ key.start < entry.start

LookupIndex(array, key) ==
    LET i == SelectInSeq(array, LAMBDA entry : StopsLookup(key, entry))
    IN  IF i = 0 THEN Len(array) + 1 ELSE i

IsFound(array, key) ==
    LET i == LookupIndex(array, key)
    IN  i <= Len(array) /\ array[i] = key

\* Mutated form of Inserted: the entry goes to the end of the array.
Inserted_AtEnd(array, key) == Append(array, key)

Inserted(array, key) == InsertAt(array, LookupIndex(array, key), key)

\* Mutated form of Cleared: the entry that stopped the lookup is removed.
Cleared_Higher(array, key) ==
    IF LookupIndex(array, key) <= Len(array)
    THEN RemoveAt(array, LookupIndex(array, key)) ELSE array

Cleared(array, key) ==
    IF IsFound(array, key) THEN RemoveAt(array, LookupIndex(array, key)) ELSE array

-----------------------------------------------------------------------------
(* checkForBreakWatchPoint: the scan of one access to [address, address+n). *)

AccessEnd(address, n) == (address + n) % AddressSpace

\* accessInRange: only an access wholly inside the entry's range counts.
AccessInRange(entry, address, n) ==
    address >= entry.start /\ AccessEnd(address, n) <= entry.end

Selected(entry, access) == access \in TypeMask[entry.type]

\* Breakpoints are only looked at by half-word accesses (instruction fetches).
BreaksScan(entry, address, n, access) ==
    /\ Selected(entry, access)
    /\ entry.type = "breakpoint"
    /\ n = 2
    /\ AccessInRange(entry, address, n)

HitsScan(entry, address, n, access) ==
    /\ Selected(entry, access)
    /\ entry.type # "breakpoint"
    /\ AccessInRange(entry, address, n)

\* Mutated form of EndsScan: an entry that starts at the address ends it too.
EndsScan_AtAddress(entry, address, n, access) ==
    /\ Selected(entry, access)
    /\ entry.type # "breakpoint"
    /\ ~AccessInRange(entry, address, n)
    /\ entry.start >= address

\* The early exit that relies on the array's order.
EndsScan(entry, address, n, access) ==
    /\ Selected(entry, access)
    /\ entry.type # "breakpoint"
    /\ ~AccessInRange(entry, address, n)
    /\ entry.start > address

ScanStop(array, address, n, access) ==
    LET i == SelectInSeq(array,
               LAMBDA entry : \/ BreaksScan(entry, address, n, access)
                              \/ EndsScan(entry, address, n, access))
    IN  IF i = 0 THEN Len(array) + 1 ELSE i

\* The scan throws hardwareBreakpointException.
ScanBreaks(array, address, n, access) ==
    LET i == ScanStop(array, address, n, access)
    IN  i <= Len(array) /\ BreaksScan(array[i], address, n, access)

\* The entries for which the scan increments watchpointEncountered.
ScanHits(array, address, n, access) ==
    {i \in 1 .. (ScanStop(array, address, n, access) - 1) :
        HitsScan(array[i], address, n, access)}

-----------------------------------------------------------------------------
(* What the array promises.                                                 *)

IsSortedByStart(array) ==
    \A i, j \in 1 .. Len(array) : i < j => array[i].start <= array[j].start

HasNoDuplicates(array) ==
    \A i, j \in 1 .. Len(array) : i # j => array[i] # array[j]

\* An access breaks exactly when some breakpoint covers it, and an access that
\* does not break is counted once for every watchpoint that covers it.
ScanIsExact(array, address, n, access) ==
    /\ ScanBreaks(array, address, n, access)
         <=> \E i \in 1 .. Len(array) : BreaksScan(array[i], address, n, access)
    /\ ~ScanBreaks(array, address, n, access)
         => ScanHits(array, address, n, access)
              = {i \in 1 .. Len(array) : HitsScan(array[i], address, n, access)}
=============================================================================
