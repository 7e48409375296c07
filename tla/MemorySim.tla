------------------------------ MODULE MemorySim ------------------------------
(***************************************************************************)
(* The simulated memory of pinkySim (libpinkysim/src/MemorySim.c): a list  *)
(* of regions searched in creation order, each with its bytes, an optional *)
(* array of read counts, and a sorted array of hardware breakpoints and    *)
(* watchpoints; and one watchpointEncountered counter for the whole        *)
(* memory.                                                                 *)
(*                                                                         *)
(* One action per entry point of include/MemorySim.h and of the IMemory    *)
(* interface.  An action is one whole call: `call' records the request and *)
(* `reply' how it ended.  A multi-byte value is the sequence of its bytes  *)
(* at increasing addresses.                                                *)
(*                                                                         *)
(* Bounds: Regions are created from RegionShapes and FlashImages, at most  *)
(* MaxRegions of them, with at most MaxWatchpoints entries in a region;    *)
(* watchpointEncountered stops at MaxEncountered.  A read count is an      *)
(* unsigned integer of ReadCountModulus values (2^32 in the C code).       *)
(***************************************************************************)
EXTENDS WatchpointArray, MemoryInterface

CONSTANTS
    RegionShapes,       \* set of <<baseAddress, size>> a caller may ask for
    FlashImages,        \* set of <<size, initial stack pointer>> of images
    RamAlignment,       \* addresses that share their RAM_ADDRESS_MASK bits
    ByteValues,         \* values of a byte; 0 is one of them
    AccessSizes,        \* sizes of the accesses to memory, in bytes
    WatchSizes,         \* sizes of breakpoints and watchpoints, in bytes
    WatchTypes,         \* the types of entries that a caller may set
    ReadCountModulus,
    MaxRegions, MaxWatchpoints, MaxEncountered,
    AllocationMayFail   \* whether malloc and realloc may return NULL

ASSUME MemoryAssumption ==
    /\ RegionShapes \subseteq Address \X Nat
    /\ FlashImages \subseteq Nat \X Address
    /\ RamAlignment \in Nat \ {0}
    /\ ByteValues \subseteq Nat /\ 0 \in ByteValues
    /\ AccessSizes \subseteq Nat \ {0}
    /\ WatchSizes \subseteq Nat
    /\ WatchTypes \subseteq WatchpointType
    /\ ReadCountModulus \in Nat \ {0}
    /\ MaxRegions \in Nat /\ MaxWatchpoints \in Nat /\ MaxEncountered \in Nat
    /\ AllocationMayFail \in BOOLEAN

VARIABLES
    regions,                \* the list from pHeadRegion to pTailRegion
    watchpointEncountered,
    call,
    reply

vars == <<regions, watchpointEncountered, call, reply>>

-----------------------------------------------------------------------------
(* Regions.                                                                 *)

\* What malloc and memset leave: no watchpoints, no read counts, zero bytes.
\* pData and pReadCounts are sequences; a NULL pReadCounts is an empty one.
NewRegion(base, size) ==
    [base            |-> base,
     size            |-> size,
     readOnly        |-> FALSE,
     data            |-> [k \in 1 .. size |-> 0],
     readCounts      |-> << >>,
     watchpoints     |-> << >>,
     watchpointAlloc |-> 0]

\* 64-bit arithmetic in the C code: this sum does not wrap.
Encloses(region, address, size) ==
    /\ address >= region.base
    /\ address + size <= region.base + region.size

\* Mutated form of RegionIn: only the first byte has to be in the region.
RegionIn_ByStart(list, address, size) ==
    SelectInSeq(list, LAMBDA region : Encloses(region, address, 1))

\* Mutated form of RegionIn: the search goes on to the last region.
RegionIn_Last(list, address, size) ==
    SelectLastInSeq(list, LAMBDA region : Encloses(region, address, size))

\* findMatchingRegion: the first region that holds all of the bytes, 0 when
\* it throws busErrorException.
RegionIn(list, address, size) ==
    SelectInSeq(list, LAMBDA region : Encloses(region, address, size))

RegionOf(address, size) == RegionIn(regions, address, size)

\* readOnly is set before the read counts are allocated.
MarkedReadOnly(region) == [region EXCEPT !.readOnly = TRUE]

WithReadCounts(region) ==
    [MarkedReadOnly(region) EXCEPT
        !.readCounts = [k \in 1 .. (region.size \div 2) |-> 0]]

\* Mutated form of HalfWord: an odd offset is rounded up.
HalfWord_RoundedUp(region, address) == (address - region.base + 1) \div 2 + 1

\* The place in pReadCounts of the half-word at an address.
HalfWord(region, address) == (address - region.base) \div 2 + 1

\* pReadCounts[regionOffset / 2]++ for a half-word read of a counted region.
CountedRead(region, address, n) ==
    IF n = 2 /\ HalfWord(region, address) \in DOMAIN region.readCounts
    THEN [region EXCEPT !.readCounts[HalfWord(region, address)] = (@ + 1) % ReadCountModulus]
    ELSE region

\* Mutated form of WithWatchpoint: the growth test leaves no room for the entry.
WithWatchpoint_Full(region, key) ==
    LET held == Len(region.watchpoints)
    IN  [region EXCEPT !.watchpoints     = Inserted(@, key),
                       !.watchpointAlloc = IF held > @ THEN held ELSE @]

\* The array is reallocated only when it has never been this long.
WithWatchpoint(region, key) ==
    LET needed == Len(region.watchpoints) + 1
    IN  [region EXCEPT !.watchpoints     = Inserted(@, key),
                       !.watchpointAlloc = IF needed > @ THEN needed ELSE @]

WithoutWatchpoint(region, key) == [region EXCEPT !.watchpoints = Cleared(@, key)]

BytesAt(region, address, n) ==
    [k \in 1 .. n |-> region.data[address - region.base + k]]

\* bytes over the data from an address on.
WithBytes(region, address, bytes) ==
    [region EXCEPT !.data =
        [k \in DOMAIN @ |->
            IF k - (address - region.base) \in DOMAIN bytes
            THEN bytes[k - (address - region.base)]
            ELSE @[k]]]

-----------------------------------------------------------------------------

Returns(value) == reply' = Answer(value)

Throws(exception) == reply' = Failure(exception)

Init ==
    /\ regions = << >>
    /\ watchpointEncountered = 0
    /\ call = PlainCall("init")
    /\ reply = Answer(<< >>)

\* MemorySim_Init on the same object: everything is cleared.
Reinitialise ==
    /\ regions' = << >>
    /\ watchpointEncountered' = 0
    /\ call' = PlainCall("init")
    /\ Returns(<< >>)

\* The regions are freed; watchpointEncountered keeps its value.
Uninit ==
    /\ regions' = << >>
    /\ call' = PlainCall("uninit")
    /\ Returns(<< >>)
    /\ UNCHANGED watchpointEncountered

-----------------------------------------------------------------------------
(* Creating and loading regions.                                            *)

\* No test for an overlap with the regions that exist.
CreateRegion(base, size) ==
    /\ Len(regions) < MaxRegions
    /\ call' = RangeCall("createRegion", base, size)
    /\ \/ /\ regions' = Append(regions, NewRegion(base, size))
          /\ Returns(<< >>)
       \/ /\ AllocationMayFail
          /\ Throws("outOfMemory")
          /\ UNCHANGED regions
    /\ UNCHANGED watchpointEncountered

\* Looks up one byte at the base address, so a region created earlier over
\* the same byte is the one that becomes read-only.
MakeRegionReadOnly(base) ==
    LET i == RegionOf(base, 1)
    IN  /\ call' = RangeCall("makeReadOnly", base, 1)
        /\ \/ /\ i = 0
              /\ Throws("busError")
              /\ UNCHANGED regions
           \/ /\ i # 0
              /\ regions' = [regions EXCEPT ![i] = WithReadCounts(@)]
              /\ Returns(<< >>)
           \/ /\ i # 0
              /\ AllocationMayFail
              /\ regions' = [regions EXCEPT ![i] = MarkedReadOnly(@)]
              /\ Throws("outOfMemory")
        /\ UNCHANGED watchpointEncountered

\* An image is stored a word at a time while more than a word is left, then
\* a byte at a time.  Byte k travels with the unit that starts at UnitStart.
UnitStart(size, k) == IF k < 4 * ((size - 1) \div 4) THEN 4 * (k \div 4) ELSE k

UnitSize(size, k) == IF k < 4 * ((size - 1) \div 4) THEN 4 ELSE 1

UnitRegion(list, size, k) == RegionIn(list, UnitStart(size, k), UnitSize(size, k))

\* The bytes stored before the first unit that no region holds.
LoadableBytes(list, size) ==
    {k \in 0 .. (size - 1) : \A j \in 0 .. k : UnitRegion(list, size, j) # 0}

FlashBase == 0

\* Loading is typed as a read, so that a read-only region accepts it.
Loaded(list, image) ==
    LET size == Len(image)
    IN  [i \in DOMAIN list |->
            [list[i] EXCEPT !.data =
                [j \in DOMAIN @ |->
                    LET k == list[i].base + j - 1
                    IN  IF k \in LoadableBytes(list, size) /\ UnitRegion(list, size, k) = i
                        THEN image[k + 1]
                        ELSE @[j]]]]

LoadFromFlashImage(image) ==
    /\ call' = DataCall("load", FlashBase, image)
    /\ regions' = Loaded(regions, image)
    /\ IF LoadableBytes(regions, Len(image)) = 0 .. (Len(image) - 1)
       THEN Returns(<< >>)
       ELSE Throws("busError")
    /\ UNCHANGED watchpointEncountered

RamBase(stackPointer) == stackPointer - (stackPointer % RamAlignment)

\* Mutated form of WithoutLastRegion: the region stays in the list.
WithoutLastRegion_Kept(list) == list

WithoutLastRegion(list) == Front(list)

\* The FLASH region is created, loaded and made read-only, then the RAM region
\* is created.  A failure of the last two steps frees the last region, which
\* is then the FLASH region.
CreateRegionsFromFlashImage(image, stackPointer) ==
    /\ Len(regions) + 2 <= MaxRegions
    /\ call' = DataCall("createFromImage", stackPointer, image)
    /\ LET withFlash  == Loaded(Append(regions, NewRegion(FlashBase, Len(image))), image)
           flash      == RegionIn(withFlash, FlashBase, 1)
           ram        == NewRegion(RamBase(stackPointer), stackPointer - RamBase(stackPointer))
           marked     == [withFlash EXCEPT ![flash] = MarkedReadOnly(@)]
           counted    == [withFlash EXCEPT ![flash] = WithReadCounts(@)]
       IN  \/ /\ Len(image) < 4
              /\ Throws("bufferOverrun")
              /\ UNCHANGED regions
           \/ /\ Len(image) >= 4
              /\ regions' = Append(counted, ram)
              /\ Returns(<< >>)
           \/ /\ Len(image) >= 4
              /\ AllocationMayFail
              /\ regions' \in {regions, WithoutLastRegion(marked), WithoutLastRegion(counted)}
              /\ Throws("outOfMemory")
    /\ UNCHANGED watchpointEncountered

-----------------------------------------------------------------------------
(* Breakpoints and watchpoints.                                             *)

\* setWatchpoint.  Nothing has been changed when the reallocation fails.
SetWatchpoint(address, size, type) ==
    LET i   == RegionOf(address, size)
        key == WatchpointFor(address, size, type)
    IN  /\ call' = WatchCall("set", address, size, type)
        /\ \/ /\ i = 0
              /\ Throws("busError")
              /\ UNCHANGED regions
           \/ /\ i # 0
              /\ IsFound(regions[i].watchpoints, key)
              /\ Returns(<< >>)
              /\ UNCHANGED regions
           \/ /\ i # 0
              /\ ~IsFound(regions[i].watchpoints, key)
              /\ Len(regions[i].watchpoints) < MaxWatchpoints
              /\ regions' = [regions EXCEPT ![i] = WithWatchpoint(@, key)]
              /\ Returns(<< >>)
           \/ /\ i # 0
              /\ ~IsFound(regions[i].watchpoints, key)
              /\ Len(regions[i].watchpoints) + 1 > regions[i].watchpointAlloc
              /\ AllocationMayFail
              /\ Throws("outOfMemory")
              /\ UNCHANGED regions
        /\ UNCHANGED watchpointEncountered

ClearWatchpoint(address, size, type) ==
    LET i   == RegionOf(address, size)
        key == WatchpointFor(address, size, type)
    IN  /\ call' = WatchCall("clear", address, size, type)
        /\ \/ /\ i = 0
              /\ Throws("busError")
              /\ UNCHANGED regions
           \/ /\ i # 0
              /\ regions' = [regions EXCEPT ![i] = WithoutWatchpoint(@, key)]
              /\ Returns(<< >>)
        /\ UNCHANGED watchpointEncountered

\* Reading the counter clears it.
WasWatchpointEncountered ==
    /\ call' = PlainCall("wasEncountered")
    /\ Returns(<<watchpointEncountered>>)
    /\ watchpointEncountered' = 0
    /\ UNCHANGED regions

-----------------------------------------------------------------------------
(* Accesses.                                                                *)

\* The part of checkForBreakWatchPoint that changes state.
CountHits(array, address, n, access) ==
    LET hits == Cardinality(ScanHits(array, address, n, access))
    IN  /\ watchpointEncountered + hits <= MaxEncountered
        /\ watchpointEncountered' = watchpointEncountered + hits

\* read32, read16 and read8.  A half-word read is counted before the scan, so
\* a fetch that a breakpoint stops has been counted too.
Read(address, n) ==
    LET i == RegionOf(address, n)
    IN  /\ call' = RangeCall("read", address, n)
        /\ \/ /\ i = 0
              /\ Throws("busError")
              /\ UNCHANGED <<regions, watchpointEncountered>>
           \/ /\ i # 0
              /\ regions' = [regions EXCEPT ![i] = CountedRead(@, address, n)]
              /\ CountHits(regions[i].watchpoints, address, n, "read")
              /\ IF ScanBreaks(regions[i].watchpoints, address, n, "read")
                 THEN Throws("hardwareBreakpoint")
                 ELSE Returns(BytesAt(regions[i], address, n))

\* Mutated form of NotWritable: readOnly is not looked at.
NotWritable_NoRegion(i) == i = 0

\* No region, or one that refuses writes.
NotWritable(i) == i # 0 => regions[i].readOnly

\* write32, write16 and write8.  A scan for a write passes over breakpoints.
Write(address, bytes) ==
    LET n == Len(bytes)
        i == RegionOf(address, n)
    IN  /\ call' = DataCall("write", address, bytes)
        /\ \/ /\ NotWritable(i)
              /\ Throws("busError")
              /\ UNCHANGED <<regions, watchpointEncountered>>
           \/ /\ ~NotWritable(i)
              /\ CountHits(regions[i].watchpoints, address, n, "write")
              /\ regions' = [regions EXCEPT ![i] = WithBytes(@, address, bytes)]
              /\ Returns(<< >>)

\* MemorySim_MapSimulatedAddressToHostAddressForRead: no scan, but a mapping
\* of two bytes is counted like a half-word read.  The reply is what the
\* caller reads through the pointer.
MapForRead(address, n) ==
    LET i == RegionOf(address, n)
    IN  /\ call' = RangeCall("mapForRead", address, n)
        /\ \/ /\ i = 0
              /\ Throws("busError")
              /\ UNCHANGED regions
           \/ /\ i # 0
              /\ regions' = [regions EXCEPT ![i] = CountedRead(@, address, n)]
              /\ Returns(BytesAt(regions[i], address, n))
        /\ UNCHANGED watchpointEncountered

\* MemorySim_MapSimulatedAddressToHostAddressForWrite of n bytes, together
\* with the caller's store of the first of them through the pointer.
MapForWrite(address, n, bytes) ==
    LET i == RegionOf(address, n)
    IN  /\ call' = [DataCall("mapForWrite", address, bytes) EXCEPT !.size = n]
        /\ \/ /\ NotWritable(i)
              /\ Throws("busError")
              /\ UNCHANGED regions
           \/ /\ ~NotWritable(i)
              /\ regions' = [regions EXCEPT ![i] = WithBytes(@, address, bytes)]
              /\ Returns(<< >>)
        /\ UNCHANGED watchpointEncountered

\* A read-only region whose read counts were never allocated is dereferenced
\* through a NULL pointer.
GetFlashReadCount(address) ==
    LET i == RegionOf(address, 2)
    IN  /\ call' = RangeCall("readCount", address, 2)
        /\ \/ /\ i # 0 => ~regions[i].readOnly
              /\ Throws("busError")
           \/ /\ i # 0
              /\ regions[i].readOnly
              /\ IF HalfWord(regions[i], address) \in DOMAIN regions[i].readCounts
                 THEN Returns(<<regions[i].readCounts[HalfWord(regions[i], address)]>>)
                 ELSE Throws("accessViolation")
        /\ UNCHANGED <<regions, watchpointEncountered>>

-----------------------------------------------------------------------------

Bytes(n) == [1 .. n -> ByteValues]

Next ==
    \/ Reinitialise
    \/ Uninit
    \/ \E shape \in RegionShapes : CreateRegion(shape[1], shape[2])
    \/ \E shape \in RegionShapes : MakeRegionReadOnly(shape[1])
    \/ \E flash \in FlashImages :
         \E image \in Bytes(flash[1]) : LoadFromFlashImage(image)
    \* The command line builds the regions from its options or from the image.
    \/ /\ regions = << >>
       /\ \E flash \in FlashImages :
            \E image \in Bytes(flash[1]) : CreateRegionsFromFlashImage(image, flash[2])
    \/ \E address \in Address, size \in WatchSizes, type \in WatchTypes :
         SetWatchpoint(address, size, type)
    \/ \E address \in Address, size \in WatchSizes, type \in WatchTypes :
         ClearWatchpoint(address, size, type)
    \/ WasWatchpointEncountered
    \/ \E address \in Address, n \in AccessSizes : Read(address, n)
    \/ \E address \in Address, n \in AccessSizes :
         \E bytes \in Bytes(n) : Write(address, bytes)
    \/ \E address \in Address, n \in AccessSizes : MapForRead(address, n)
    \/ \E address \in Address, n \in AccessSizes :
         \E m \in 0 .. n : \E bytes \in Bytes(m) : MapForWrite(address, n, bytes)
    \/ \E address \in Address : GetFlashReadCount(address)

Spec == Init /\ [][Next]_vars

-----------------------------------------------------------------------------
(* Type.                                                                    *)

RegionSizes ==
    {shape[2] : shape \in RegionShapes} \cup {flash[1] : flash \in FlashImages}
        \cup {flash[2] - RamBase(flash[2]) : flash \in FlashImages}

ReadCount == 0 .. (ReadCountModulus - 1)

Region ==
    [base : Address, size : RegionSizes, readOnly : BOOLEAN,
     data : Seq(ByteValues), readCounts : Seq(ReadCount),
     watchpoints : Seq(Watchpoint), watchpointAlloc : Nat]

\* Every region keeps the shape it was allocated with, whatever is stored,
\* counted or watched in it.
TypeOK ==
    /\ regions \in Seq(Region)
    /\ \A i \in DOMAIN regions :
         /\ Len(regions[i].data) = regions[i].size
         /\ Len(regions[i].readCounts) \in {0, regions[i].size \div 2}
    /\ watchpointEncountered \in Nat
    /\ reply.exception \in Exception

(* Safety.                                                                  *)

\* Every array stays sorted by start address: the order that the early exit
\* of checkForBreakWatchPoint relies on.
ArraysSorted == \A i \in DOMAIN regions : IsSortedByStart(regions[i].watchpoints)

\* GDB sets the same breakpoint again after every stop: however sets and
\* clears are mixed, an entry is held once, so that one clear removes it.
ArraysHaveNoDuplicates == \A i \in DOMAIN regions : HasNoDuplicates(regions[i].watchpoints)

\* An array never holds more entries than were allocated, after any mixture
\* of growth, removal and failed growth.
ArraysFitAllocation ==
    \A i \in DOMAIN regions : Len(regions[i].watchpoints) <= regions[i].watchpointAlloc

\* An entry is kept by a region that holds all of its bytes.
EntriesInTheirRegion ==
    \A i \in DOMAIN regions : \A j \in DOMAIN regions[i].watchpoints :
        \E size \in 0 .. regions[i].size :
            LET entry == regions[i].watchpoints[j]
            IN  /\ entry = WatchpointFor(entry.start, size, entry.type)
                /\ Encloses(regions[i], entry.start, size)

\* The early exit and the throw lose nothing: in every reachable state any
\* access breaks exactly when a breakpoint covers it, and otherwise is counted
\* for exactly the watchpoints that cover it.
ScansAreExact ==
    \A i \in DOMAIN regions : \A address \in Address, n \in AccessSizes, access \in AccessType :
        ScanIsExact(regions[i].watchpoints, address, n, access)

\* pReadCounts is never indexed out of its bounds, for regions of odd size and
\* half-words at odd offsets included.
CountedReadsInBounds ==
    \A i \in DOMAIN regions : \A address \in Address :
        (regions[i].readCounts # << >> /\ Encloses(regions[i], address, 2))
            => HalfWord(regions[i], address) \in DOMAIN regions[i].readCounts

\* What is seen at a protected address is never stored over, except by loading
\* an image: neither by a write that a region over the same bytes takes, nor when
\* such a region is created or made read-only later.  The first region that holds
\* an address is the one that is seen there and that its protection is of.
Seen(address) == regions[RegionOf(address, 1)]
SeenByte(address) == Seen(address).data[address - Seen(address).base + 1]
ProtectedBytesStay ==
    [][call'.op \notin {"load", "uninit", "init"} =>
        \A address \in Address :
            (RegionOf(address, 1) # 0 /\ Seen(address).readOnly) =>
                /\ RegionOf(address, 1)' # 0 /\ Seen(address)'.readOnly
                /\ SeenByte(address)' = SeenByte(address)]_vars

\* A call that fails while there is no region leaves none behind: building the
\* regions from an image is all or nothing.
FailureLeavesNoRegion ==
    [][regions = << >> /\ reply'.exception # "none" => regions' = << >>]_vars

-----------------------------------------------------------------------------
(* Refinement: while no two regions overlap and none reaches the last       *)
(* address, the lists and arrays are an implementation of WatchedMemory.    *)

Overlap(r, s) == \E address \in Address : Encloses(r, address, 1) /\ Encloses(s, address, 1)

RegionsSeparate ==
    /\ \A i, j \in DOMAIN regions : i # j => ~Overlap(regions[i], regions[j])
    /\ \A i \in DOMAIN regions : regions[i].base + regions[i].size < AddressSpace

SeparateSpec == Init /\ [][Next /\ RegionsSeparate']_vars

\* What a list of regions stands for.
Mapped(list) == {address \in Address : RegionIn(list, address, 1) # 0}

BanksOf(list) ==
    {[base |-> list[i].base, size |-> list[i].size, readOnly |-> list[i].readOnly] :
        i \in DOMAIN list}

CellsOf(list) ==
    [address \in Mapped(list) |->
        LET region == list[RegionIn(list, address, 1)]
        IN  region.data[address - region.base + 1]]

EntriesOf(list) ==
    UNION {{[type |-> entry.type, start |-> entry.start, size |-> entry.end - entry.start] :
               entry \in ToSet(list[i].watchpoints)} : i \in DOMAIN list}

Memory == INSTANCE WatchedMemory WITH
    banks       <- BanksOf(regions),
    cells       <- CellsOf(regions),
    entries     <- EntriesOf(regions),
    encountered <- watchpointEncountered

\* Set and clear act on a set of entries, accesses read and write one flat
\* memory, and every access breaks, counts or faults as that set, the banks
\* and their protection say.
ImplementsWatchedMemory == Memory!Spec
=============================================================================
