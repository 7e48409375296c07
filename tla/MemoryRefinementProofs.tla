----------------------- MODULE MemoryRefinementProofs -----------------------
(***************************************************************************)
(* MemorySim implements WatchedMemory: lists, sorted arrays, the search in *)
(* creation order and the early exit of the scan are one flat memory with  *)
(* a set of entries, for every set of regions that do not overlap and do   *)
(* not reach the last address.                                             *)
(*                                                                         *)
(* Besides RegionsInv the argument needs that an entry is found again: it  *)
(* is kept by the region that a lookup of its own bytes returns (Filed).   *)
(* An entry of no bytes may lie within two regions, so this does not       *)
(* follow from the regions being separate.                                 *)
(***************************************************************************)
EXTENDS MemorySimProofs

Separate(list) ==
    /\ \A i, j \in 1 .. Len(list) : i # j => ~Overlap(list[i], list[j])
    /\ \A i \in 1 .. Len(list) : list[i].base + list[i].size < AddressSpace

IsFiled(list, i, entry) ==
    /\ entry.start <= entry.end
    /\ RegionIn(list, entry.start, entry.end - entry.start) = i

Filed(list) ==
    \A i \in 1 .. Len(list) : \A j \in 1 .. Len(list[i].watchpoints) :
        IsFiled(list, i, list[i].watchpoints[j])

ListInv(list) == RegionsInv(list) /\ Separate(list) /\ Filed(list)

\* What set and clear leave of the list: which bytes each region holds.
SameLayout(list, other) ==
    /\ Len(other) = Len(list)
    /\ \A i \in 1 .. Len(list) :
         /\ other[i].base = list[i].base
         /\ other[i].size = list[i].size

-----------------------------------------------------------------------------
(* Lookups.                                                                 *)

\* The regions of a list, and their fields.
LEMMA RegionOfList ==
    ASSUME NEW list, RegionsInv(list)
    PROVE  /\ list \in Seq(Region)
           /\ Len(list) \in Nat
           /\ DOMAIN list = 1 .. Len(list)
           /\ \A i \in 1 .. Len(list) :
                /\ RegionInv(list[i])
                /\ list[i].base \in Nat
                /\ list[i].size \in Nat
                /\ list[i].readOnly \in BOOLEAN
                /\ list[i].data \in Seq(ByteValues)
                /\ Len(list[i].data) = list[i].size
                /\ list[i].watchpoints \in Seq(Watchpoint)
                /\ Len(list[i].watchpoints) \in Nat
<1>1. list \in Seq(Region) /\ \A i \in 1 .. Len(list) : RegionInv(list[i])
  BY DEF RegionsInv
<1>2. \A i \in 1 .. Len(list) : Len(list[i].data) = list[i].size
  BY <1>1 DEF RegionInv
<1>3. QED
  BY <1>1, <1>2, RegionFields

\* A lookup depends on the layout of the list only.
LEMMA SameLookups ==
    ASSUME NEW list, NEW other, SameLayout(list, other), NEW address, NEW size
    PROVE  RegionIn(other, address, size) = RegionIn(list, address, size)
<1>1. {i \in 1 .. Len(other) : Encloses(other[i], address, size)}
        = {i \in 1 .. Len(list) : Encloses(list[i], address, size)}
  BY DEF SameLayout, Encloses
<1>2. QED
  BY <1>1 DEF RegionIn, SelectInSeq

\* Bytes inside the bytes that a region holds are held by it too.
LEMMA EnclosesPart ==
    ASSUME NEW region, region.base \in Nat, region.size \in Nat,
           NEW address \in Nat, NEW n \in Nat, Encloses(region, address, n),
           NEW part \in Nat, NEW m \in Nat, address <= part, part + m <= address + n
    PROVE  Encloses(region, part, m)
  BY DEF Encloses

\* While the regions are separate, the one that holds some bytes, if there
\* are any, is the one that a lookup of them returns.
LEMMA HolderIsFound ==
    ASSUME NEW list, RegionsInv(list), Separate(list),
           NEW address \in Nat, NEW n \in Nat \ {0},
           NEW i \in 1 .. Len(list), Encloses(list[i], address, n)
    PROVE  RegionIn(list, address, n) = i /\ address + n < AddressSpace
<1> DEFINE found == RegionIn(list, address, n)
<1>1. list \in Seq(Region)
      /\ \A j \in 1 .. Len(list) : list[j].base \in Nat /\ list[j].size \in Nat
  BY RegionOfList
<1>2. found \in 1 .. Len(list) /\ Encloses(list[found], address, n)
  BY <1>1, RegionInFinds, RegionInProperties
<1> HIDE DEF found
<1>3. Encloses(list[i], address, 1) /\ Encloses(list[found], address, 1)
  BY <1>1, <1>2, SMTT(30) DEF Encloses
<1>4. address + n < AddressSpace
  <2>1. list[i].base + list[i].size < AddressSpace
    BY DEF Separate
  <2>2. QED
    BY <1>1, <2>1, AddressSpaceAssumption DEF Encloses
<1>5. address \in Address
  BY <1>4, AddressSpaceAssumption DEF Address
<1>6. found = i
  BY <1>2, <1>3, <1>5 DEF Separate, Overlap
<1>7. QED
  BY <1>4, <1>6 DEF found

-----------------------------------------------------------------------------
(* Banks.                                                                   *)

BankOf(region) == [base |-> region.base, size |-> region.size, readOnly |-> region.readOnly]

\* There is a bank for every region, and no other.
LEMMA BanksAreRegions ==
    ASSUME NEW list, RegionsInv(list)
    PROVE  \A bank : bank \in BanksOf(list)
                       <=> \E i \in 1 .. Len(list) : bank = BankOf(list[i])
<1>1. DOMAIN list = 1 .. Len(list)
  BY RegionOfList
<1>2. BanksOf(list) = {BankOf(list[i]) : i \in 1 .. Len(list)}
  BY <1>1 DEF BanksOf, BankOf
<1>3. QED
  BY <1>2

\* A bank and its region hold the same bytes.
LEMMA BankHolds ==
    ASSUME NEW region, region.base \in Nat, region.size \in Nat, NEW address \in Nat, NEW n \in Nat
    PROVE  Memory!Within(BankOf(region), address, n) <=> Encloses(region, address, n)
  BY DEF Memory!Within, BankOf, Encloses

\* A lookup succeeds if and only if a bank holds all of the bytes.
LEMMA FoundInABank ==
    ASSUME RegionsInv(regions), NEW address \in Nat, NEW n \in Nat
    PROVE  Memory!InABank(address, n) <=> RegionOf(address, n) # 0
<1>1. /\ regions \in Seq(Region)
      /\ \A i \in 1 .. Len(regions) : regions[i].base \in Nat /\ regions[i].size \in Nat
  BY RegionOfList
<1>2. Memory!InABank(address, n)
        <=> \E i \in 1 .. Len(regions) : Memory!Within(BankOf(regions[i]), address, n)
  BY BanksAreRegions DEF Memory!InABank
<1>3. \A i \in 1 .. Len(regions) :
        Memory!Within(BankOf(regions[i]), address, n) <=> Encloses(regions[i], address, n)
  BY <1>1, BankHolds
<1>4. RegionOf(address, n) # 0 => \E i \in 1 .. Len(regions) : Encloses(regions[i], address, n)
  BY <1>1, RegionInProperties DEF RegionOf
<1>5. (\E i \in 1 .. Len(regions) : Encloses(regions[i], address, n)) => RegionOf(address, n) # 0
  BY <1>1, RegionInFinds DEF RegionOf
<1>6. QED
  BY <1>2, <1>3, <1>4, <1>5

\* A write is refused unless a bank that may be written holds all of its bytes.
LEMMA RefusedIfNotWritable ==
    ASSUME RegionsInv(regions), Separate(regions), NEW address \in Nat, NEW n \in Nat \ {0}
    PROVE  Memory!Writable(address, n) <=> ~NotWritable(RegionOf(address, n))
<1> DEFINE found == RegionOf(address, n)
<1>1. /\ regions \in Seq(Region)
      /\ \A i \in 1 .. Len(regions) : regions[i].base \in Nat /\ regions[i].size \in Nat
  BY RegionOfList
<1>2. Memory!Writable(address, n)
        <=> \E i \in 1 .. Len(regions) :
               Memory!Within(BankOf(regions[i]), address, n) /\ ~BankOf(regions[i]).readOnly
  BY BanksAreRegions DEF Memory!Writable
<1>3. \A i \in 1 .. Len(regions) :
        Memory!Within(BankOf(regions[i]), address, n) <=> Encloses(regions[i], address, n)
  BY <1>1, BankHolds
<1>4. \A i \in 1 .. Len(regions) : BankOf(regions[i]).readOnly = regions[i].readOnly
  BY DEF BankOf
<1>5. found # 0 => found \in 1 .. Len(regions) /\ Encloses(regions[found], address, n)
  BY <1>1, RegionInProperties DEF RegionOf
<1>6. \A i \in 1 .. Len(regions) : Encloses(regions[i], address, n) => found = i
  BY HolderIsFound DEF RegionOf
<1>7. \A i \in 1 .. Len(regions) : i # 0
  BY <1>1
<1> HIDE DEF found
<1>8. QED
  BY <1>2, <1>3, <1>4, <1>5, <1>6, <1>7 DEF NotWritable, found

-----------------------------------------------------------------------------
(* Cells.                                                                   *)

\* The addresses of the cells are those that some region holds.
LEMMA CellsAreHeld ==
    ASSUME NEW list, RegionsInv(list), Separate(list)
    PROVE  /\ DOMAIN CellsOf(list) = Mapped(list)
           /\ \A a : a \in Mapped(list)
                       <=> a \in Nat /\ \E i \in 1 .. Len(list) : Encloses(list[i], a, 1)
<1>1. list \in Seq(Region)
  BY RegionOfList
<1>2. ASSUME NEW a \in Mapped(list)
      PROVE  a \in Nat /\ \E i \in 1 .. Len(list) : Encloses(list[i], a, 1)
  BY <1>1, ConstantTypes, RegionInProperties DEF Mapped
<1>3. ASSUME NEW a \in Nat, NEW i \in 1 .. Len(list), Encloses(list[i], a, 1)
      PROVE  a \in Mapped(list)
  <2>1. RegionIn(list, a, 1) # 0
    BY <1>1, <1>3, RegionInFinds
  <2>2. a + 1 < AddressSpace
    BY <1>3, HolderIsFound
  <2>3. a \in Address
    BY <2>2, AddressSpaceAssumption DEF Address
  <2>4. QED
    BY <2>1, <2>3 DEF Mapped
<1>4. DOMAIN CellsOf(list) = Mapped(list)
  BY DEF CellsOf
<1>5. QED
  BY <1>2, <1>3, <1>4

\* A cell is a byte of the region that holds its address.
LEMMA CellOfRegion ==
    ASSUME NEW list, RegionsInv(list), Separate(list), NEW i \in 1 .. Len(list),
           NEW a \in Nat, Encloses(list[i], a, 1)
    PROVE  /\ a \in DOMAIN CellsOf(list)
           /\ CellsOf(list)[a] = list[i].data[a - list[i].base + 1]
           /\ CellsOf(list)[a] \in ByteValues
<1>1. a \in Mapped(list) /\ DOMAIN CellsOf(list) = Mapped(list)
  BY CellsAreHeld
<1>2. RegionIn(list, a, 1) = i
  BY HolderIsFound
<1>3. CellsOf(list)[a] = list[i].data[a - list[i].base + 1]
  BY <1>1, <1>2 DEF CellsOf
<1>4. a - list[i].base + 1 \in 1 .. list[i].size
  BY RegionOfList DEF Encloses
<1>5. list[i].data \in Seq(ByteValues) /\ Len(list[i].data) = list[i].size
  BY RegionOfList
<1>6. list[i].data[a - list[i].base + 1] \in ByteValues
  BY <1>4, <1>5, ElementOfSeq
<1>7. QED
  BY <1>1, <1>3, <1>6

\* The cells are bytes.
LEMMA CellsType ==
    ASSUME NEW list, RegionsInv(list), Separate(list)
    PROVE  CellsOf(list) \in [Mapped(list) -> ByteValues]
<1>1. \A a \in Mapped(list) : CellsOf(list)[a] \in ByteValues
  BY CellsAreHeld, CellOfRegion
<1>2. CellsOf(list) = [a \in Mapped(list) |-> CellsOf(list)[a]]
  BY DEF CellsOf
<1>3. QED
  BY <1>1, <1>2

\* What has to be shown of a new list of the same layout, to know its cells.
LEMMA CellsOfOther ==
    ASSUME NEW list, RegionsInv(list), Separate(list), NEW other, SameLayout(list, other),
           NEW cells \in [Mapped(list) -> ByteValues],
           \A i \in 1 .. Len(list) : \A a \in Nat :
              Encloses(list[i], a, 1) => cells[a] = other[i].data[a - list[i].base + 1]
    PROVE  CellsOf(other) = cells
<1> DEFINE found(a) == RegionIn(list, a, 1)
<1>1. list \in Seq(Region)
  BY RegionOfList
<1>2. Mapped(other) = Mapped(list)
  BY SameLookups DEF Mapped
<1>3. \A a : RegionIn(other, a, 1) = found(a)
  BY SameLookups
<1>4. ASSUME NEW a \in Mapped(list)
      PROVE  /\ found(a) \in 1 .. Len(list)
             /\ other[found(a)].data[a - other[found(a)].base + 1] = cells[a]
  <2>1. a \in Nat /\ found(a) # 0
    BY ConstantTypes DEF Mapped
  <2>2. found(a) \in 1 .. Len(list) /\ Encloses(list[found(a)], a, 1)
    BY <1>1, <2>1, RegionInProperties
  <2>3. other[found(a)].base = list[found(a)].base
    BY <2>2 DEF SameLayout
  <2> HIDE DEF found
  <2>4. QED
    BY <2>1, <2>2, <2>3
<1>5. CellsOf(other) = [a \in Mapped(list) |-> other[found(a)].data[a - other[found(a)].base + 1]]
  BY <1>2, <1>3 DEF CellsOf
<1> HIDE DEF found
<1>6. QED
  BY <1>4, <1>5

\* The bytes that a read returns are those of the cells.
LEMMA BytesAreCells ==
    ASSUME RegionsInv(regions), Separate(regions),
           NEW address \in Nat, NEW n \in Nat, NEW i \in 1 .. Len(regions),
           Encloses(regions[i], address, n)
    PROVE  Memory!Stored(address, n) = BytesAt(regions[i], address, n)
<1>1. ASSUME NEW k \in 1 .. n
      PROVE  CellsOf(regions)[address + k - 1] = regions[i].data[address - regions[i].base + k]
  <2> DEFINE a == address + k - 1
  <2>1. regions[i].base \in Nat /\ regions[i].size \in Nat
    BY RegionOfList
  <2>2. /\ a \in Nat /\ Encloses(regions[i], a, 1)
        /\ a - regions[i].base + 1 = address - regions[i].base + k
    BY <2>1, SMTT(30) DEF Encloses
  <2> HIDE DEF a
  <2>3. CellsOf(regions)[a] = regions[i].data[a - regions[i].base + 1]
    BY <2>2, CellOfRegion
  <2>4. QED
    BY <2>2, <2>3 DEF a
<1>2. QED
  BY <1>1 DEF Memory!Stored, BytesAt

\* The same bytes are the same cells.
LEMMA SameCells ==
    ASSUME NEW list, RegionsInv(list), Separate(list), NEW other, SameLayout(list, other),
           \A i \in 1 .. Len(list) : other[i].data = list[i].data
    PROVE  CellsOf(other) = CellsOf(list)
<1> DEFINE cells == CellsOf(list)
<1>1. cells \in [Mapped(list) -> ByteValues]
  BY CellsType
<1>2. \A i \in 1 .. Len(list) : \A a \in Nat :
        Encloses(list[i], a, 1) => cells[a] = other[i].data[a - list[i].base + 1]
  BY CellOfRegion
<1> HIDE DEF cells
<1>3. CellsOf(other) = cells
  BY <1>1, <1>2, CellsOfOther
<1>4. QED
  BY <1>3 DEF cells

-----------------------------------------------------------------------------
(* Replacing one region.                                                    *)

Replaced(list, i, region) == [list EXCEPT ![i] = region]

\* The list after a region of it was replaced.
LEMMA ReplacedRegions ==
    ASSUME NEW list, RegionsInv(list), NEW i \in 1 .. Len(list), NEW region,
           region.base = list[i].base, region.size = list[i].size
    PROVE  LET other == Replaced(list, i, region)
           IN  /\ SameLayout(list, other)
               /\ DOMAIN other = DOMAIN list
               /\ other[i] = region
               /\ \A j \in 1 .. Len(list) : j # i => other[j] = list[j]
<1> DEFINE other == Replaced(list, i, region)
<1>1. DOMAIN list = 1 .. Len(list) /\ Len(list) \in Nat
  BY RegionOfList
<1>2. DOMAIN other = DOMAIN list /\ Len(other) = Len(list)
  BY <1>1 DEF Replaced
<1>3. /\ other[i] = region
      /\ \A j \in 1 .. Len(list) : j # i => other[j] = list[j]
  BY <1>1 DEF Replaced
<1> HIDE DEF other
<1>4. SameLayout(list, other)
  BY <1>2, <1>3 DEF SameLayout
<1>5. QED
  BY <1>2, <1>3, <1>4 DEF other

\* The same protection is the same banks.
LEMMA SameBanks ==
    ASSUME NEW list, NEW other, SameLayout(list, other),
           DOMAIN list = 1 .. Len(list), DOMAIN other = DOMAIN list,
           \A i \in 1 .. Len(list) : other[i].readOnly = list[i].readOnly
    PROVE  BanksOf(other) = BanksOf(list)
  BY DEF BanksOf, SameLayout

\* The same arrays are the same entries, and those stay filed.
LEMMA SameEntries ==
    ASSUME NEW list, NEW other, SameLayout(list, other),
           DOMAIN list = 1 .. Len(list), DOMAIN other = DOMAIN list,
           \A i \in 1 .. Len(list) : other[i].watchpoints = list[i].watchpoints
    PROVE  EntriesOf(other) = EntriesOf(list) /\ (Filed(list) => Filed(other))
<1>1. EntriesOf(other) = EntriesOf(list)
  BY DEF EntriesOf
<1>2. ASSUME Filed(list)
      PROVE  Filed(other)
  <2>1. Len(other) = Len(list)
    BY DEF SameLayout
  <2>2. \A address, size : RegionIn(other, address, size) = RegionIn(list, address, size)
    BY SameLookups
  <2>3. QED
    BY <1>2, <2>1, <2>2 DEF Filed, IsFiled
<1>3. QED
  BY <1>1, <1>2

\* A region may be replaced by one that differs in its read counts only.
LEMMA UncountedReplacement ==
    ASSUME NEW list, RegionsInv(list), Separate(list), Filed(list),
           NEW i \in 1 .. Len(list), NEW region,
           region.base = list[i].base, region.size = list[i].size,
           region.readOnly = list[i].readOnly, region.data = list[i].data,
           region.watchpoints = list[i].watchpoints
    PROVE  LET other == Replaced(list, i, region)
           IN  /\ BanksOf(other) = BanksOf(list)
               /\ CellsOf(other) = CellsOf(list)
               /\ EntriesOf(other) = EntriesOf(list)
               /\ Filed(other)
<1> DEFINE other == Replaced(list, i, region)
<1>1. /\ SameLayout(list, other)
      /\ DOMAIN other = DOMAIN list
      /\ other[i] = region
      /\ \A j \in 1 .. Len(list) : j # i => other[j] = list[j]
  BY ReplacedRegions
<1>2. DOMAIN list = 1 .. Len(list)
  BY RegionOfList
<1> HIDE DEF other
<1>3. \A j \in 1 .. Len(list) : /\ other[j].readOnly = list[j].readOnly
                                /\ other[j].data = list[j].data
                                /\ other[j].watchpoints = list[j].watchpoints
  BY <1>1
<1>4. BanksOf(other) = BanksOf(list)
  BY <1>1, <1>2, <1>3, SameBanks
<1>5. CellsOf(other) = CellsOf(list)
  BY <1>1, <1>3, SameCells
<1>6. EntriesOf(other) = EntriesOf(list) /\ Filed(other)
  BY <1>1, <1>2, <1>3, SameEntries
<1>7. QED
  BY <1>4, <1>5, <1>6 DEF other

\* Bytes that are stored in a region are stored in the cells at their
\* addresses, and nothing else changes.
LEMMA StoredInCells ==
    ASSUME NEW list, RegionsInv(list), Separate(list), Filed(list),
           NEW address \in Nat, NEW n \in Nat,
           NEW i \in 1 .. Len(list), Encloses(list[i], address, n),
           NEW bytes \in Seq(ByteValues), Len(bytes) <= n
    PROVE  LET other == Replaced(list, i, WithBytes(list[i], address, bytes))
           IN  /\ BanksOf(other) = BanksOf(list)
               /\ CellsOf(other) = [a \in DOMAIN CellsOf(list) |->
                                      IF a - address + 1 \in DOMAIN bytes
                                      THEN bytes[a - address + 1] ELSE CellsOf(list)[a]]
               /\ EntriesOf(other) = EntriesOf(list)
               /\ Filed(other)
<1> DEFINE region == WithBytes(list[i], address, bytes)
           other  == Replaced(list, i, region)
           cell(a) == IF a - address + 1 \in DOMAIN bytes
                      THEN bytes[a - address + 1] ELSE CellsOf(list)[a]
           cells  == [a \in DOMAIN CellsOf(list) |-> cell(a)]
           place(k) == k - (address - list[i].base)
           byte(k) == IF place(k) \in DOMAIN bytes THEN bytes[place(k)] ELSE list[i].data[k]
<1>1. /\ DOMAIN list = 1 .. Len(list)
      /\ list[i].data \in Seq(ByteValues) /\ Len(list[i].data) = list[i].size
      /\ list[i] \in Region
      /\ \A j \in 1 .. Len(list) : list[j].base \in Nat /\ list[j].size \in Nat
  BY RegionOfList DEF RegionInv
<1>2. /\ region.base = list[i].base /\ region.size = list[i].size
      /\ region.readOnly = list[i].readOnly
      /\ region.watchpoints = list[i].watchpoints
      /\ region.data = [k \in 1 .. list[i].size |-> byte(k)]
  BY <1>1 DEF WithBytes, Region
<1>3. Len(bytes) \in Nat /\ DOMAIN bytes = 1 .. Len(bytes)
      /\ \A k \in 1 .. Len(bytes) : bytes[k] \in ByteValues
  OBVIOUS
<1> HIDE DEF region
<1>4. /\ SameLayout(list, other)
      /\ DOMAIN other = DOMAIN list
      /\ other[i] = region
      /\ \A j \in 1 .. Len(list) : j # i => other[j] = list[j]
  BY <1>2, ReplacedRegions
<1> HIDE DEF other, cell, byte
<1>5. DOMAIN CellsOf(list) = Mapped(list) /\ CellsOf(list) \in [Mapped(list) -> ByteValues]
      /\ Mapped(list) \subseteq Nat
  BY CellsAreHeld, CellsType
<1>6. cells \in [Mapped(list) -> ByteValues]
  <2>1. \A a \in Mapped(list) : cell(a) \in ByteValues
    BY <1>3, <1>5 DEF cell
  <2>2. QED
    BY <1>5, <2>1
<1>7. ASSUME NEW j \in 1 .. Len(list), NEW a \in Nat, Encloses(list[j], a, 1)
      PROVE  cells[a] = other[j].data[a - list[j].base + 1]
  <2> DEFINE k == a - list[j].base + 1
  <2>1. /\ a \in DOMAIN CellsOf(list)
        /\ CellsOf(list)[a] = list[j].data[k]
    BY <1>7, CellOfRegion
  <2>2. k \in 1 .. list[j].size
    BY <1>1, <1>7, SMTT(30) DEF Encloses
  <2>3. CASE j = i
    <3>1. place(k) = a - address + 1
      BY <1>1, <2>3
    <3> HIDE DEF k, place
    <3>2. byte(k) = cell(a)
      BY <2>1, <2>3, <3>1 DEF byte, cell
    <3>3. other[j].data[k] = byte(k)
      BY <1>2, <1>4, <2>2, <2>3
    <3>4. QED
      BY <2>1, <3>2, <3>3 DEF k
  <2>4. CASE j # i
    <3>1. a - address + 1 \notin DOMAIN bytes
      <4> SUFFICES ASSUME a - address + 1 \in 1 .. Len(bytes)
                   PROVE  FALSE
        BY <1>3
      <4>1. Encloses(list[i], a, 1)
        BY <1>1, <1>3, SMTT(30) DEF Encloses
      <4>2. RegionIn(list, a, 1) = i /\ RegionIn(list, a, 1) = j
        BY <1>7, <4>1, HolderIsFound
      <4>3. QED
        BY <2>4, <4>2
    <3>2. cells[a] = CellsOf(list)[a]
      BY <2>1, <3>1 DEF cell
    <3>3. QED
      BY <1>4, <2>1, <2>4, <3>2
  <2>5. QED
    BY <2>3, <2>4
<1> HIDE DEF cells
<1>8. CellsOf(other) = cells
  BY <1>4, <1>6, <1>7, CellsOfOther
<1>9. \A j \in 1 .. Len(list) : /\ other[j].readOnly = list[j].readOnly
                                /\ other[j].watchpoints = list[j].watchpoints
  BY <1>2, <1>4
<1>10. BanksOf(other) = BanksOf(list)
  BY <1>1, <1>4, <1>9, SameBanks
<1>11. EntriesOf(other) = EntriesOf(list) /\ Filed(other)
  BY <1>1, <1>4, <1>9, SameEntries
<1>12. QED
  BY <1>8, <1>10, <1>11 DEF other, region, cells, cell

-----------------------------------------------------------------------------
(* Entries.                                                                 *)

WatchEntry(type, start, size) == [type |-> type, start |-> start, size |-> size]

EntryOf(watchpoint) ==
    WatchEntry(watchpoint.type, watchpoint.start, watchpoint.end - watchpoint.start)

\* The entries are the elements of the arrays.
LEMMA EntriesAreHeld ==
    ASSUME NEW list, RegionsInv(list)
    PROVE  \A entry : entry \in EntriesOf(list)
                        <=> \E i \in 1 .. Len(list) : \E w \in ToSet(list[i].watchpoints) :
                               entry = EntryOf(w)
<1> DEFINE held(i) == {EntryOf(w) : w \in ToSet(list[i].watchpoints)}
<1>1. DOMAIN list = 1 .. Len(list)
  BY RegionOfList
<1>2. EntriesOf(list) = UNION {held(i) : i \in 1 .. Len(list)}
  BY <1>1 DEF EntriesOf, EntryOf, WatchEntry
<1>3. \A entry : entry \in EntriesOf(list) <=> \E i \in 1 .. Len(list) : entry \in held(i)
  BY <1>2
<1>4. QED
  BY <1>3

\* The elements of the array of one region.
LEMMA ArrayOfRegion ==
    ASSUME NEW list, RegionsInv(list), Filed(list), NEW i \in 1 .. Len(list)
    PROVE  \A w \in ToSet(list[i].watchpoints) :
              /\ w \in Watchpoint
              /\ w.start \in Nat /\ w.end \in Nat
              /\ IsFiled(list, i, w)
<1>1. list[i].watchpoints \in Seq(Watchpoint)
  BY RegionOfList
<1>2. \A w \in ToSet(list[i].watchpoints) :
        \E j \in 1 .. Len(list[i].watchpoints) : w = list[i].watchpoints[j]
  BY <1>1, ElementsAreIndexed
<1>3. \A w \in Watchpoint : w.start \in Nat /\ w.end \in Nat
  BY ConstantTypes DEF Watchpoint
<1>4. QED
  BY <1>1, <1>2, <1>3, ElementOfSeq DEF Filed

\* Different watchpoints are different entries.
LEMMA EntriesDiffer ==
    ASSUME NEW v \in Watchpoint, NEW w \in Watchpoint, EntryOf(v) = EntryOf(w)
    PROVE  v = w
<1>1. v.start = w.start /\ v.type = w.type /\ v.end - v.start = w.end - w.start
  BY DEF EntryOf, WatchEntry
<1>2. v.start \in Nat /\ v.end \in Nat /\ w.start \in Nat /\ w.end \in Nat
  BY ConstantTypes DEF Watchpoint
<1>3. v.end = w.end
  BY <1>1, <1>2
<1>4. QED
  BY <1>1, <1>3 DEF Watchpoint

\* The key of a range that ends below the last address does not wrap.
LEMMA KeyOfRange ==
    ASSUME NEW address \in Nat, NEW size \in Nat, address + size < AddressSpace,
           NEW type \in WatchpointType
    PROVE  LET key == WatchpointFor(address, size, type)
           IN  /\ key \in Watchpoint
               /\ key.start = address /\ key.end = address + size /\ key.type = type
               /\ EntryOf(key) = WatchEntry(type, address, size)
<1>1. AddressSpace \in Nat /\ (address + size) % AddressSpace = address + size
  BY AddressSpaceAssumption
<1>2. address \in Address /\ address + size \in Address
  BY <1>1 DEF Address
<1>3. address + size - address = size
  OBVIOUS
<1>4. QED
  BY <1>1, <1>2, <1>3 DEF WatchpointFor, Watchpoint, EntryOf, WatchEntry

\* A region may be replaced by one that differs in its array only, if the
\* entries of that are filed.
LEMMA ArrayReplacement ==
    ASSUME NEW list, RegionsInv(list), Separate(list), Filed(list),
           NEW i \in 1 .. Len(list), NEW region,
           region.base = list[i].base, region.size = list[i].size,
           region.readOnly = list[i].readOnly, region.data = list[i].data,
           region.watchpoints \in Seq(Watchpoint),
           \A w \in ToSet(region.watchpoints) : IsFiled(list, i, w)
    PROVE  LET other == Replaced(list, i, region)
           IN  /\ BanksOf(other) = BanksOf(list)
               /\ CellsOf(other) = CellsOf(list)
               /\ Filed(other)
<1> DEFINE other == Replaced(list, i, region)
<1>1. /\ SameLayout(list, other)
      /\ DOMAIN other = DOMAIN list
      /\ other[i] = region
      /\ \A j \in 1 .. Len(list) : j # i => other[j] = list[j]
  BY ReplacedRegions
<1>2. DOMAIN list = 1 .. Len(list)
  BY RegionOfList
<1> HIDE DEF other
<1>3. \A j \in 1 .. Len(list) : /\ other[j].readOnly = list[j].readOnly
                                /\ other[j].data = list[j].data
  BY <1>1
<1>4. BanksOf(other) = BanksOf(list)
  BY <1>1, <1>2, <1>3, SameBanks
<1>5. CellsOf(other) = CellsOf(list)
  BY <1>1, <1>3, SameCells
<1>6. Filed(other)
  <2> SUFFICES ASSUME NEW k \in 1 .. Len(list), NEW j \in 1 .. Len(other[k].watchpoints)
               PROVE  IsFiled(list, k, other[k].watchpoints[j])
    <3>1. \A address, size : RegionIn(other, address, size) = RegionIn(list, address, size)
      BY <1>1, SameLookups
    <3>2. Len(other) = Len(list)
      BY <1>1 DEF SameLayout
    <3>3. QED
      BY <3>1, <3>2 DEF Filed, IsFiled
  <2>1. CASE k = i
    <3>1. j \in 1 .. Len(region.watchpoints) /\ other[k].watchpoints[j] = region.watchpoints[j]
      BY <1>1, <2>1
    <3>2. region.watchpoints[j] \in ToSet(region.watchpoints)
      BY <3>1, ElementsAreIndexed
    <3>3. QED
      BY <2>1, <3>1, <3>2
  <2>2. CASE k # i
    BY <1>1, <2>2 DEF Filed
  <2>3. QED
    BY <2>1, <2>2
<1>7. QED
  BY <1>4, <1>5, <1>6 DEF other

\* The entries after the array of one region was replaced.
LEMMA ReplacedEntries ==
    ASSUME NEW list, RegionsInv(list), NEW i \in 1 .. Len(list), NEW region,
           region.base = list[i].base, region.size = list[i].size,
           RegionsInv(Replaced(list, i, region))
    PROVE  \A entry : entry \in EntriesOf(Replaced(list, i, region))
              <=> \/ \E w \in ToSet(region.watchpoints) : entry = EntryOf(w)
                  \/ \E k \in 1 .. Len(list) : /\ k # i
                        /\ \E w \in ToSet(list[k].watchpoints) : entry = EntryOf(w)
<1> DEFINE other == Replaced(list, i, region)
<1>1. /\ Len(other) = Len(list)
      /\ other[i] = region
      /\ \A j \in 1 .. Len(list) : j # i => other[j] = list[j]
  BY ReplacedRegions DEF SameLayout
<1> HIDE DEF other
<1>2. RegionsInv(other)
  BY DEF other
<1>3. \A entry : entry \in EntriesOf(other)
                   <=> \E k \in 1 .. Len(list) : \E w \in ToSet(other[k].watchpoints) :
                          entry = EntryOf(w)
  BY <1>1, <1>2, EntriesAreHeld
<1>4. QED
  BY <1>1, <1>3 DEF other

\* The key that set and clear build in a region that holds the range.
LEMMA KeyInRegion ==
    ASSUME NEW list, RegionsInv(list), Separate(list),
           NEW address \in Nat, NEW size \in Nat, NEW type \in WatchpointType,
           RegionIn(list, address, size) # 0
    PROVE  LET i   == RegionIn(list, address, size)
               key == WatchpointFor(address, size, type)
           IN  /\ i \in 1 .. Len(list)
               /\ Encloses(list[i], address, size)
               /\ key \in Watchpoint
               /\ IsFiled(list, i, key)
               /\ EntryOf(key) = WatchEntry(type, address, size)
<1> DEFINE i   == RegionIn(list, address, size)
           key == WatchpointFor(address, size, type)
<1>1. list \in Seq(Region)
      /\ \A j \in 1 .. Len(list) : list[j].base \in Nat /\ list[j].size \in Nat
  BY RegionOfList
<1>2. i \in 1 .. Len(list) /\ Encloses(list[i], address, size)
  BY <1>1, RegionInProperties
<1>3. address + size < AddressSpace
  <2> HIDE DEF i
  <2>1. list[i].base + list[i].size < AddressSpace
    BY <1>2 DEF Separate
  <2>2. QED
    BY <1>1, <1>2, <2>1, AddressSpaceAssumption DEF Encloses
<1>4. /\ key \in Watchpoint
      /\ key.start = address /\ key.end = address + size
      /\ EntryOf(key) = WatchEntry(type, address, size)
  BY <1>3, KeyOfRange
<1>5. key.start <= key.end /\ key.end - key.start = size
  BY <1>4
<1> HIDE DEF key
<1>6. IsFiled(list, i, key)
  BY <1>4, <1>5 DEF IsFiled
<1>7. QED
  BY <1>2, <1>4, <1>6 DEF key

\* Setting a range that is watched already changes nothing: its entry is there.
LEMMA FoundIsAnEntry ==
    ASSUME NEW list, RegionsInv(list), NEW i \in 1 .. Len(list), NEW key,
           IsFound(list[i].watchpoints, key)
    PROVE  EntryOf(key) \in EntriesOf(list)
<1> DEFINE array == list[i].watchpoints
           j == LookupIndex(array, key)
<1>1. array \in Seq(Watchpoint) /\ Len(array) \in Nat
  BY RegionOfList
<1> HIDE DEF array
<1>2. j \in 1 .. (Len(array) + 1)
  BY <1>1, LookupIndexProperties
<1>3. j \in 1 .. Len(array) /\ array[j] = key
  BY <1>1, <1>2 DEF IsFound, array
<1>4. key \in ToSet(array)
  BY <1>1, <1>3, ElementsAreIndexed
<1>5. QED
  BY <1>4, EntriesAreHeld DEF array

\* The list after a range was set, or cleared, in the region that holds it.
SetIn(list, address, size, type) ==
    LET i == RegionIn(list, address, size)
    IN  Replaced(list, i, WithWatchpoint(list[i], WatchpointFor(address, size, type)))

ClearedIn(list, address, size, type) ==
    LET i == RegionIn(list, address, size)
    IN  Replaced(list, i, WithoutWatchpoint(list[i], WatchpointFor(address, size, type)))

\* Setting a range adds its entry.
LEMMA SetAddsEntry ==
    ASSUME NEW list, ListInv(list),
           NEW address \in Nat, NEW size \in Nat, NEW type \in WatchpointType,
           RegionIn(list, address, size) # 0,
           RegionsInv(SetIn(list, address, size, type))
    PROVE  LET other == SetIn(list, address, size, type)
           IN  /\ BanksOf(other) = BanksOf(list)
               /\ CellsOf(other) = CellsOf(list)
               /\ EntriesOf(other) = EntriesOf(list) \cup {WatchEntry(type, address, size)}
               /\ Filed(other)
<1> DEFINE i      == RegionIn(list, address, size)
           key    == WatchpointFor(address, size, type)
           entry  == WatchEntry(type, address, size)
           region == WithWatchpoint(list[i], key)
           other  == Replaced(list, i, region)
<1>r. other = SetIn(list, address, size, type) /\ RegionsInv(other)
  BY DEF SetIn
<1>0. RegionsInv(list) /\ Separate(list) /\ Filed(list)
  BY DEF ListInv
<1>1. /\ i \in 1 .. Len(list)
      /\ key \in Watchpoint /\ IsFiled(list, i, key) /\ EntryOf(key) = entry
  BY <1>0, KeyInRegion
<1> HIDE DEF i, key, entry
<1>2. list[i] \in Region /\ list[i].watchpoints \in Seq(Watchpoint)
  BY <1>0, <1>1, RegionOfList DEF RegionInv
<1>3. /\ region.base = list[i].base /\ region.size = list[i].size
      /\ region.readOnly = list[i].readOnly /\ region.data = list[i].data
      /\ region.watchpoints = Inserted(list[i].watchpoints, key)
  BY <1>2 DEF WithWatchpoint, Region
<1>4. /\ region.watchpoints \in Seq(Watchpoint)
      /\ ToSet(region.watchpoints) = ToSet(list[i].watchpoints) \cup {key}
  <2> DEFINE array == list[i].watchpoints
  <2> HIDE DEF array
  <2>1. array \in Seq(Watchpoint) /\ key \in Watchpoint
    BY <1>1, <1>2 DEF array
  <2>2. Inserted(array, key) \in Seq(Watchpoint)
    BY <2>1, InsertedProperties
  <2>3. ToSet(Inserted(array, key)) = ToSet(array) \cup {key}
    BY <2>1, InsertedElements
  <2>4. QED
    BY <1>3, <2>2, <2>3 DEF array
<1> HIDE DEF region
<1>5. \A w \in ToSet(region.watchpoints) : IsFiled(list, i, w)
  BY <1>0, <1>1, <1>4, ArrayOfRegion
<1>6. BanksOf(other) = BanksOf(list) /\ CellsOf(other) = CellsOf(list) /\ Filed(other)
  BY <1>0, <1>1, <1>3, <1>4, <1>5, ArrayReplacement
<1>7. \A e : e \in EntriesOf(other)
               <=> \/ \E w \in ToSet(region.watchpoints) : e = EntryOf(w)
                   \/ \E k \in 1 .. Len(list) : /\ k # i
                         /\ \E w \in ToSet(list[k].watchpoints) : e = EntryOf(w)
  BY <1>0, <1>1, <1>3, <1>r, ReplacedEntries
<1>8. \A e : e \in EntriesOf(list)
               <=> \E k \in 1 .. Len(list) : \E w \in ToSet(list[k].watchpoints) : e = EntryOf(w)
  BY <1>0, EntriesAreHeld
<1> HIDE DEF other
<1>9. \A e : e \in EntriesOf(other) <=> e \in EntriesOf(list) \/ e = entry
  BY <1>1, <1>4, <1>7, <1>8
<1>10. QED
  BY <1>r, <1>6, <1>9 DEF entry

\* Clearing a range takes its entry away, wherever it may have been kept.
LEMMA ClearRemovesEntry ==
    ASSUME NEW list, ListInv(list),
           NEW address \in Nat, NEW size \in Nat, NEW type \in WatchpointType,
           RegionIn(list, address, size) # 0,
           RegionsInv(ClearedIn(list, address, size, type))
    PROVE  LET other == ClearedIn(list, address, size, type)
           IN  /\ BanksOf(other) = BanksOf(list)
               /\ CellsOf(other) = CellsOf(list)
               /\ EntriesOf(other) = EntriesOf(list) \ {WatchEntry(type, address, size)}
               /\ Filed(other)
<1> DEFINE i      == RegionIn(list, address, size)
           key    == WatchpointFor(address, size, type)
           entry  == WatchEntry(type, address, size)
           region == WithoutWatchpoint(list[i], key)
           other  == Replaced(list, i, region)
<1>r. other = ClearedIn(list, address, size, type) /\ RegionsInv(other)
  BY DEF ClearedIn
<1>0. RegionsInv(list) /\ Separate(list) /\ Filed(list)
  BY DEF ListInv
<1>1. /\ i \in 1 .. Len(list)
      /\ key \in Watchpoint /\ IsFiled(list, i, key) /\ EntryOf(key) = entry
  BY <1>0, KeyInRegion
<1> HIDE DEF i, key, entry
<1>2. /\ list[i] \in Region /\ list[i].watchpoints \in Seq(Watchpoint)
      /\ IsSortedByStart(list[i].watchpoints) /\ HasNoDuplicates(list[i].watchpoints)
  BY <1>0, <1>1, RegionOfList DEF RegionInv
<1>3. /\ region.base = list[i].base /\ region.size = list[i].size
      /\ region.readOnly = list[i].readOnly /\ region.data = list[i].data
      /\ region.watchpoints = Cleared(list[i].watchpoints, key)
  BY <1>2 DEF WithoutWatchpoint, Region
<1>4. /\ region.watchpoints \in Seq(Watchpoint)
      /\ ToSet(region.watchpoints) = ToSet(list[i].watchpoints) \ {key}
  BY <1>1, <1>2, <1>3, ClearedKeepsOrder, ClearedElements
<1> HIDE DEF region
<1>5. \A w \in ToSet(region.watchpoints) : IsFiled(list, i, w)
  BY <1>0, <1>1, <1>4, ArrayOfRegion
<1>6. BanksOf(other) = BanksOf(list) /\ CellsOf(other) = CellsOf(list) /\ Filed(other)
  BY <1>0, <1>1, <1>3, <1>4, <1>5, ArrayReplacement
<1>7. \A e : e \in EntriesOf(other)
               <=> \/ \E w \in ToSet(region.watchpoints) : e = EntryOf(w)
                   \/ \E k \in 1 .. Len(list) : /\ k # i
                         /\ \E w \in ToSet(list[k].watchpoints) : e = EntryOf(w)
  BY <1>0, <1>1, <1>3, <1>r, ReplacedEntries
<1>8. \A e : e \in EntriesOf(list)
               <=> \E k \in 1 .. Len(list) : \E w \in ToSet(list[k].watchpoints) : e = EntryOf(w)
  BY <1>0, EntriesAreHeld
<1>9. \A w \in ToSet(list[i].watchpoints) : EntryOf(w) = EntryOf(key) => w = key
  BY <1>0, <1>1, ArrayOfRegion, EntriesDiffer
<1>10. ASSUME NEW k \in 1 .. Len(list), k # i, NEW w \in ToSet(list[k].watchpoints)
       PROVE  EntryOf(w) # EntryOf(key)
  <2>1. IsFiled(list, k, w) /\ w \in Watchpoint
    BY <1>0, ArrayOfRegion
  <2>2. w # key
    BY <1>1, <1>10, <2>1 DEF IsFiled
  <2>3. QED
    BY <1>1, <2>1, <2>2, EntriesDiffer
<1> HIDE DEF other
<1>11. \A e : e \in EntriesOf(other) <=> e \in EntriesOf(list) /\ e # entry
  BY <1>1, <1>4, <1>7, <1>8, <1>9, <1>10
<1>12. QED
  BY <1>r, <1>6, <1>11 DEF entry

-----------------------------------------------------------------------------
(* Accesses.                                                                *)

\* The entries that cover an access are in the array of the region that holds
\* it, and accessInRange finds them although it computes modulo the width.
LEMMA CoveringIsInArray ==
    ASSUME ListInv(regions), NEW address \in Nat, NEW n \in Nat \ {0},
           NEW i \in 1 .. Len(regions), Encloses(regions[i], address, n), NEW types
    PROVE  \A entry : entry \in Memory!Covering(types, address, n)
              <=> \E w \in ToSet(regions[i].watchpoints) :
                     entry = EntryOf(w) /\ w.type \in types /\ AccessInRange(w, address, n)
<1> DEFINE covers(w) == w.start <= address /\ address + n <= w.end
<1>0. RegionsInv(regions) /\ Separate(regions) /\ Filed(regions)
  BY DEF ListInv
<1>1. AccessEnd(address, n) = address + n
  <2>1. address + n < AddressSpace /\ AddressSpace \in Nat
    BY <1>0, HolderIsFound, AddressSpaceAssumption
  <2>2. QED
    BY <2>1 DEF AccessEnd
<1>2. \A w : AccessInRange(w, address, n) <=> address >= w.start /\ address + n <= w.end
  BY <1>1 DEF AccessInRange
<1>3. ASSUME NEW k \in 1 .. Len(regions), NEW w \in ToSet(regions[k].watchpoints)
      PROVE  /\ EntryOf(w).start <= address /\ address + n <= EntryOf(w).start + EntryOf(w).size
                  <=> covers(w)
             /\ AccessInRange(w, address, n) <=> covers(w)
             /\ EntryOf(w).type = w.type
  <2>1. w.start \in Nat /\ w.end \in Nat
    BY <1>0, ArrayOfRegion
  <2>2. EntryOf(w).start = w.start /\ EntryOf(w).size = w.end - w.start /\ EntryOf(w).type = w.type
    BY DEF EntryOf, WatchEntry
  <2>3. w.start + (w.end - w.start) = w.end
    BY <2>1
  <2>4. AccessInRange(w, address, n) <=> covers(w)
    BY <1>2, <2>1
  <2>5. QED
    BY <2>2, <2>3, <2>4
<1>4. ASSUME NEW k \in 1 .. Len(regions), NEW w \in ToSet(regions[k].watchpoints), covers(w)
      PROVE  k = i
  <2> DEFINE size == w.end - w.start
  <2>1. w.start \in Nat /\ w.end \in Nat /\ IsFiled(regions, k, w)
    BY <1>0, ArrayOfRegion
  <2>2. size \in Nat /\ RegionIn(regions, w.start, size) = k /\ w.start + size = w.end
    BY <2>1 DEF IsFiled
  <2>3. /\ regions \in Seq(Region)
        /\ regions[k].base \in Nat /\ regions[k].size \in Nat /\ k # 0
    BY <1>0, RegionOfList
  <2> HIDE DEF size
  <2>4. Encloses(regions[k], w.start, size)
    BY <2>2, <2>3, RegionInProperties
  <2>5. Encloses(regions[k], address, n)
    BY <1>4, <2>1, <2>2, <2>3, <2>4, EnclosesPart
  <2>6. QED
    BY <1>0, <2>5, HolderIsFound
<1>5. \A entry : entry \in EntriesOf(regions)
        <=> \E k \in 1 .. Len(regions) : \E w \in ToSet(regions[k].watchpoints) : entry = EntryOf(w)
  BY <1>0, EntriesAreHeld
<1>6. \A entry : entry \in Memory!Covering(types, address, n)
        <=> /\ entry \in EntriesOf(regions)
            /\ entry.type \in types
            /\ entry.start <= address /\ address + n <= entry.start + entry.size
  BY DEF Memory!Covering
<1> HIDE DEF covers
<1>7. QED
  BY <1>3, <1>4, <1>5, <1>6, SMTT(30)

\* An array without duplicates has as many entries as places.
LEMMA PlacesAreEntries ==
    ASSUME NEW array \in Seq(Watchpoint), HasNoDuplicates(array),
           NEW places \in SUBSET (1 .. Len(array)), NEW found,
           \A entry : entry \in found <=> \E j \in places : entry = EntryOf(array[j])
    PROVE  /\ IsFiniteSet(found)
           /\ IsFiniteSet(places)
           /\ Cardinality(found) = Cardinality(places)
<1> DEFINE f == [j \in places |-> EntryOf(array[j])]
<1>1. IsFiniteSet(places)
  <2>1. IsFiniteSet(1 .. Len(array))
    BY FS_Interval
  <2>2. QED
    BY <2>1, FS_Subset
<1>2. \A j, k \in places : f[j] = f[k] => j = k
  <2>1. \A j, k \in places : EntryOf(array[j]) = EntryOf(array[k]) => array[j] = array[k]
    BY EntriesDiffer, ElementOfSeq
  <2>2. QED
    BY <2>1 DEF HasNoDuplicates
<1>3. f \in [places -> found] /\ \A entry \in found : \E j \in places : f[j] = entry
  OBVIOUS
<1> HIDE DEF f
<1>4. f \in Bijection(places, found)
  BY <1>2, <1>3 DEF Bijection, Injection, Surjection, IsInjective
<1>5. QED
  BY <1>1, <1>4, FS_Bijection DEF ExistsBijection

\* The same operator under the name that it has in the abstract specification.
LEMMA SameCardinality == \A set : Memory!Cardinality(set) = Cardinality(set)
  BY DEF Memory!Cardinality, Cardinality

\* The types of entries that an access is counted for.
Counting(access) == IF access = "read" THEN {"read", "readWrite"} ELSE {"write", "readWrite"}

\* How the type masks select an entry.
LEMMA SelectedTypes ==
    ASSUME NEW w \in Watchpoint, NEW address, NEW n, NEW access \in AccessType
    PROVE  /\ HitsScan(w, address, n, access)
                <=> w.type \in Counting(access) /\ AccessInRange(w, address, n)
           /\ BreaksScan(w, address, n, access)
                <=> /\ access = "read" /\ n = 2
                    /\ w.type \in {"breakpoint"} /\ AccessInRange(w, address, n)
<1>1. w.type \in {"breakpoint", "read", "write", "readWrite"}
  BY DEF Watchpoint, WatchpointType
<1>2. access \in {"read", "write"}
  BY DEF AccessType
<1>3. Selected(w, access) <=> \/ access = "read" /\ w.type \in {"breakpoint", "read", "readWrite"}
                              \/ access = "write" /\ w.type \in {"write", "readWrite"}
  BY <1>1, <1>2 DEF Selected, TypeMask
<1>4. w.type # "breakpoint" /\ Selected(w, access) <=> w.type \in Counting(access)
  BY <1>1, <1>2, <1>3 DEF Counting
<1>5. w.type = "breakpoint" /\ Selected(w, access) <=> access = "read" /\ w.type \in {"breakpoint"}
  BY <1>1, <1>2, <1>3
<1>6. QED
  BY <1>4, <1>5 DEF HitsScan, BreaksScan

\* What the scan of an access does, in terms of the set of entries.
LEMMA ScanOfEntries ==
    ASSUME ListInv(regions), NEW address \in Nat, NEW n \in Nat \ {0},
           NEW i \in 1 .. Len(regions), Encloses(regions[i], address, n),
           NEW access \in AccessType
    PROVE  LET array    == regions[i].watchpoints
               hits     == Cardinality(ScanHits(array, address, n, access))
               watchers == Cardinality(Memory!Covering(Counting(access), address, n))
           IN  /\ hits \in Nat /\ watchers \in Nat /\ hits <= watchers
               /\ ScanBreaks(array, address, n, access)
                    <=> access = "read" /\ n = 2 /\ Memory!BreakpointAt(address)
               /\ ~ScanBreaks(array, address, n, access) => hits = watchers
<1> DEFINE array == regions[i].watchpoints
           all   == {j \in 1 .. Len(array) : HitsScan(array[j], address, n, access)}
           hits  == ScanHits(array, address, n, access)
           found == Memory!Covering(Counting(access), address, n)
           breaks == ScanBreaks(array, address, n, access)
<1>0. RegionsInv(regions) /\ Separate(regions) /\ Filed(regions)
  BY DEF ListInv
<1>1. /\ array \in Seq(Watchpoint) /\ Len(array) \in Nat
      /\ IsSortedByStart(array) /\ HasNoDuplicates(array)
  BY <1>0, RegionOfList DEF RegionInv
<1>2. \A types, entry : entry \in Memory!Covering(types, address, n)
        <=> \E w \in ToSet(array) :
               entry = EntryOf(w) /\ w.type \in types /\ AccessInRange(w, address, n)
  BY CoveringIsInArray
<1>3. address \in Address
  BY <1>0, HolderIsFound, AddressSpaceAssumption DEF Address
<1> HIDE DEF array
<1>4. ScanIsExact(array, address, n, access)
  BY <1>1, <1>3, SortedScanIsExact
<1>5. \A w : w \in ToSet(array) <=> \E j \in 1 .. Len(array) : w = array[j]
  BY <1>1, ElementsAreIndexed
<1>6. \A j \in 1 .. Len(array) : array[j] \in Watchpoint
  BY <1>1, ElementOfSeq
<1>7. \A types, entry : entry \in Memory!Covering(types, address, n)
        <=> \E j \in 1 .. Len(array) : /\ entry = EntryOf(array[j])
                                       /\ array[j].type \in types
                                       /\ AccessInRange(array[j], address, n)
  BY <1>2, <1>5
<1>8. breaks <=> access = "read" /\ n = 2 /\ Memory!BreakpointAt(address)
  <2>1. breaks <=> \E j \in 1 .. Len(array) : BreaksScan(array[j], address, n, access)
    BY <1>4 DEF ScanIsExact
  <2>2. breaks <=> /\ access = "read" /\ n = 2
                   /\ \E j \in 1 .. Len(array) :
                         array[j].type \in {"breakpoint"} /\ AccessInRange(array[j], address, n)
    BY <1>6, <2>1, SelectedTypes
  <2>3. Memory!Covering({"breakpoint"}, address, n) # {}
          <=> \E j \in 1 .. Len(array) :
                 array[j].type \in {"breakpoint"} /\ AccessInRange(array[j], address, n)
    BY <1>7
  <2>4. n = 2 => (Memory!BreakpointAt(address) <=> Memory!Covering({"breakpoint"}, address, n) # {})
    BY DEF Memory!BreakpointAt
  <2>5. QED
    BY <2>2, <2>3, <2>4
<1>9. /\ IsFiniteSet(found) /\ IsFiniteSet(all)
      /\ Cardinality(found) = Cardinality(all)
  <2>1. \A entry : entry \in found <=> \E j \in all : entry = EntryOf(array[j])
    BY <1>6, <1>7, SelectedTypes
  <2>2. all \in SUBSET (1 .. Len(array))
    OBVIOUS
  <2> HIDE DEF all, found
  <2>3. QED
    BY <1>1, <2>1, <2>2, PlacesAreEntries
<1>10. hits \in SUBSET all
  <2>1. ScanStop(array, address, n, access) \in 1 .. (Len(array) + 1)
    BY <1>1, ScanStopProperties
  <2>2. 1 .. (ScanStop(array, address, n, access) - 1) \subseteq 1 .. Len(array)
    BY <1>1, <2>1
  <2>3. QED
    BY <2>2 DEF ScanHits
<1>11. ~breaks => hits = all
  BY <1>4 DEF ScanIsExact
<1> HIDE DEF all, hits, found, breaks
<1>12. /\ Cardinality(hits) \in Nat /\ Cardinality(all) \in Nat
       /\ Cardinality(hits) <= Cardinality(all)
  BY <1>9, <1>10, FS_Subset, FS_CardinalityType
<1>13. QED
  BY <1>8, <1>9, <1>11, <1>12 DEF array, hits, found, breaks

-----------------------------------------------------------------------------
(* Images.                                                                  *)

\* The bytes that are stored before the first one that no region holds.
LEMMA LoadableIsPrefix ==
    ASSUME NEW list, NEW size \in Nat
    PROVE  \E m \in 0 .. size : LoadableBytes(list, size) = 0 .. (m - 1)
<1> DEFINE bad == {k \in 0 .. (size - 1) : UnitRegion(list, size, k) = 0}
<1>1. \A k : k \in LoadableBytes(list, size) <=> k \in 0 .. (size - 1) /\ \A j \in 0 .. k : j \notin bad
  BY DEF LoadableBytes
<1>2. bad \subseteq Nat /\ bad \subseteq 0 .. (size - 1)
  OBVIOUS
<1> HIDE DEF bad
<1>3. CASE bad = {}
  <2>1. \A k : k \in LoadableBytes(list, size) <=> k \in 0 .. (size - 1)
    BY <1>1, <1>3
  <2>2. LoadableBytes(list, size) = 0 .. (size - 1)
    BY <2>1
  <2>3. QED
    BY <2>2
<1>4. CASE bad # {}
  <2> DEFINE m == Min(bad)
  <2>1. m \in bad /\ \A j \in bad : m <= j
    BY <1>2, <1>4, SelectFirst
  <2> HIDE DEF m
  <2>2. \A k \in 0 .. (size - 1) : (\A j \in 0 .. k : j \notin bad) <=> k < m
    BY <1>2, <2>1
  <2>3. m \in 0 .. size
    BY <1>2, <2>1
  <2>4. \A k : k \in 0 .. (m - 1) <=> k \in 0 .. (size - 1) /\ k < m
    BY <2>3
  <2>5. \A k : k \in LoadableBytes(list, size) <=> k \in 0 .. (m - 1)
    BY <1>1, <2>2, <2>4
  <2>6. LoadableBytes(list, size) = 0 .. (m - 1)
    BY <2>5
  <2>7. QED
    BY <2>3, <2>6
<1>5. QED
  BY <1>3, <1>4

\* A byte travels within its unit.
LEMMA UnitHoldsByte ==
    ASSUME NEW size \in Nat, NEW k \in 0 .. (size - 1)
    PROVE  /\ UnitStart(size, k) \in Nat
           /\ UnitSize(size, k) \in Nat
           /\ UnitStart(size, k) <= k
           /\ k + 1 <= UnitStart(size, k) + UnitSize(size, k)
<1>1. CASE k < 4 * ((size - 1) \div 4)
  <2>1. UnitStart(size, k) = 4 * (k \div 4) /\ UnitSize(size, k) = 4
    BY <1>1 DEF UnitStart, UnitSize
  <2>2. k \in Nat /\ 4 * (k \div 4) \in Nat /\ 4 * (k \div 4) <= k /\ k + 1 <= 4 * (k \div 4) + 4
    OBVIOUS
  <2>3. QED
    BY <2>1, <2>2
<1>2. CASE ~(k < 4 * ((size - 1) \div 4))
  <2>1. UnitStart(size, k) = k /\ UnitSize(size, k) = 1
    BY <1>2 DEF UnitStart, UnitSize
  <2>2. QED
    BY <2>1
<1>3. QED
  BY <1>1, <1>2

\* so that the region that takes the unit is the one that holds the byte.
LEMMA UnitRegionHolds ==
    ASSUME NEW list, RegionsInv(list), NEW size \in Nat, NEW k \in 0 .. (size - 1),
           UnitRegion(list, size, k) # 0
    PROVE  /\ UnitRegion(list, size, k) \in 1 .. Len(list)
           /\ Encloses(list[UnitRegion(list, size, k)], k, 1)
<1> DEFINE i == UnitRegion(list, size, k)
           start == UnitStart(size, k)
           unit == UnitSize(size, k)
<1>1. /\ list \in Seq(Region)
      /\ \A j \in 1 .. Len(list) : list[j].base \in Nat /\ list[j].size \in Nat
  BY RegionOfList
<1>2. start \in Nat /\ unit \in Nat /\ start <= k /\ k + 1 <= start + unit /\ k \in Nat
  BY UnitHoldsByte
<1>3. i \in 1 .. Len(list) /\ Encloses(list[i], start, unit)
  BY <1>1, RegionInProperties DEF UnitRegion
<1> HIDE DEF i, start, unit
<1>4. Encloses(list[i], k, 1)
  BY <1>1, <1>2, <1>3, EnclosesPart
<1>5. QED
  BY <1>3, <1>4 DEF i

\* A byte of a region after an image was loaded: the image's, if the image has it
\* and the region is the one that took it.
LoadedByte(list, image, i, j) ==
    LET k == list[i].base + j - 1
    IN  IF k \in LoadableBytes(list, Len(image)) /\ UnitRegion(list, Len(image), k) = i
        THEN image[k + 1] ELSE list[i].data[j]

\* The regions after an image was loaded.
LEMMA LoadedRegions ==
    ASSUME NEW list, RegionsInv(list), NEW image
    PROVE  /\ SameLayout(list, Loaded(list, image))
           /\ DOMAIN Loaded(list, image) = DOMAIN list
           /\ \A i \in 1 .. Len(list) :
                /\ Loaded(list, image)[i].readOnly = list[i].readOnly
                /\ Loaded(list, image)[i].watchpoints = list[i].watchpoints
                /\ \A j \in 1 .. list[i].size :
                     Loaded(list, image)[i].data[j] = LoadedByte(list, image, i, j)
<1> DEFINE other == Loaded(list, image)
           byte(i, j) == LoadedByte(list, image, i, j)
           data(i) == [j \in DOMAIN list[i].data |-> byte(i, j)]
           new(i) == [list[i] EXCEPT !.data = data(i)]
<1>1. /\ DOMAIN list = 1 .. Len(list) /\ Len(list) \in Nat
      /\ \A i \in 1 .. Len(list) : /\ DOMAIN list[i].data = 1 .. list[i].size
                                   /\ list[i] \in Region
  <2>1. \A i \in 1 .. Len(list) : list[i].data \in Seq(ByteValues) /\ Len(list[i].data) = list[i].size
    BY RegionOfList
  <2>2. \A i \in 1 .. Len(list) : DOMAIN list[i].data = 1 .. list[i].size
    BY <2>1
  <2>3. QED
    BY <2>2, RegionOfList DEF RegionInv
<1> HIDE DEF byte
<1>2. other = [i \in 1 .. Len(list) |-> new(i)]
  BY <1>1 DEF Loaded, byte, LoadedByte
<1>3. DOMAIN other = 1 .. Len(list) /\ Len(other) = Len(list)
  BY <1>1, <1>2
<1>4. ASSUME NEW i \in 1 .. Len(list)
      PROVE  /\ other[i].base = list[i].base /\ other[i].size = list[i].size
             /\ other[i].readOnly = list[i].readOnly
             /\ other[i].watchpoints = list[i].watchpoints
             /\ other[i].data = data(i)
  <2>1. other[i] = new(i)
    BY <1>2
  <2> HIDE DEF data, other
  <2>2. QED
    BY <1>1, <2>1 DEF Region
<1>5. \A i \in 1 .. Len(list) : \A j \in 1 .. list[i].size : data(i)[j] = byte(i, j)
  BY <1>1
<1> HIDE DEF other, data
<1>6. SameLayout(list, other)
  BY <1>3, <1>4 DEF SameLayout
<1>7. \A i \in 1 .. Len(list) : \A j \in 1 .. list[i].size : other[i].data[j] = byte(i, j)
  BY <1>4, <1>5
<1>8. QED
  BY <1>1, <1>3, <1>4, <1>6, <1>7 DEF other, byte

\* Loading stores a prefix of the image in the cells.
LEMMA LoadedInCells ==
    ASSUME NEW list, RegionsInv(list), Separate(list), Filed(list),
           NEW image \in Seq(ByteValues), NEW m \in 0 .. Len(image),
           LoadableBytes(list, Len(image)) = 0 .. (m - 1)
    PROVE  LET other == Loaded(list, image)
           IN  /\ BanksOf(other) = BanksOf(list)
               /\ 0 .. (m - 1) \subseteq DOMAIN CellsOf(list)
               /\ CellsOf(other) = [a \in DOMAIN CellsOf(list) |->
                                      IF a < m THEN image[a + 1] ELSE CellsOf(list)[a]]
               /\ EntriesOf(other) = EntriesOf(list)
               /\ Filed(other)
<1> DEFINE other == Loaded(list, image)
           size == Len(image)
           byte(i, j) == LoadedByte(list, image, i, j)
           cell(a) == IF a < m THEN image[a + 1] ELSE CellsOf(list)[a]
           cells == [a \in DOMAIN CellsOf(list) |-> cell(a)]
<1>1. /\ SameLayout(list, other)
      /\ DOMAIN other = DOMAIN list
      /\ \A i \in 1 .. Len(list) :
           /\ other[i].readOnly = list[i].readOnly
           /\ other[i].watchpoints = list[i].watchpoints
           /\ \A j \in 1 .. list[i].size : other[i].data[j] = byte(i, j)
  BY LoadedRegions
<1>2. DOMAIN list = 1 .. Len(list) /\ size \in Nat /\ m \in Nat /\ m <= size
      /\ \A i \in 1 .. Len(list) : list[i].base \in Nat /\ list[i].size \in Nat
  BY RegionOfList
<1>3. \A k \in 0 .. (m - 1) : /\ UnitRegion(list, size, k) \in 1 .. Len(list)
                              /\ Encloses(list[UnitRegion(list, size, k)], k, 1)
  <2> SUFFICES ASSUME NEW k \in 0 .. (m - 1)
               PROVE  /\ UnitRegion(list, size, k) \in 1 .. Len(list)
                      /\ Encloses(list[UnitRegion(list, size, k)], k, 1)
    OBVIOUS
  <2>1. k \in 0 .. (size - 1) /\ k \in 0 .. k
    BY <1>2
  <2>2. UnitRegion(list, size, k) # 0
    BY <2>1 DEF LoadableBytes
  <2>3. QED
    BY <1>2, <2>1, <2>2, UnitRegionHolds
<1>4. /\ DOMAIN CellsOf(list) = Mapped(list) /\ CellsOf(list) \in [Mapped(list) -> ByteValues]
      /\ \A a : a \in Mapped(list)
                  <=> a \in Nat /\ \E i \in 1 .. Len(list) : Encloses(list[i], a, 1)
  BY CellsAreHeld, CellsType
<1>5. 0 .. (m - 1) \subseteq DOMAIN CellsOf(list)
  BY <1>2, <1>3, <1>4, SMTT(30)
<1> HIDE DEF other, cell, byte
<1>6. cells \in [Mapped(list) -> ByteValues]
  <2>1. \A a \in Mapped(list) : cell(a) \in ByteValues
    <3>1. \A a \in 1 .. size : image[a] \in ByteValues
      OBVIOUS
    <3>2. \A a \in Mapped(list) : a < m => a + 1 \in 1 .. size
      BY <1>2, <1>4
    <3>3. QED
      BY <1>4, <3>1, <3>2 DEF cell
  <2>2. QED
    BY <1>4, <2>1
<1>7. ASSUME NEW i \in 1 .. Len(list), NEW a \in Nat, Encloses(list[i], a, 1)
      PROVE  cells[a] = other[i].data[a - list[i].base + 1]
  <2> DEFINE j == a - list[i].base + 1
  <2>1. /\ a \in DOMAIN CellsOf(list)
        /\ CellsOf(list)[a] = list[i].data[j]
    BY <1>7, CellOfRegion
  <2>2. j \in 1 .. list[i].size /\ list[i].base + j - 1 = a
    BY <1>2, <1>7, SMTT(30) DEF Encloses
  <2> HIDE DEF j
  <2>3. other[i].data[j] = IF a \in 0 .. (m - 1) /\ UnitRegion(list, size, a) = i
                           THEN image[a + 1] ELSE list[i].data[j]
    BY <1>1, <2>2 DEF byte, LoadedByte
  <2>4. a \in 0 .. (m - 1) => UnitRegion(list, size, a) = i
    <3> SUFFICES ASSUME a \in 0 .. (m - 1)
                 PROVE  UnitRegion(list, size, a) = i
      OBVIOUS
    <3>1. UnitRegion(list, size, a) \in 1 .. Len(list)
          /\ Encloses(list[UnitRegion(list, size, a)], a, 1)
      BY <1>3
    <3>2. QED
      BY <1>7, <3>1, HolderIsFound
  <2>5. a \in 0 .. (m - 1) <=> a < m
    BY <1>2
  <2>6. other[i].data[j] = cell(a)
    BY <2>1, <2>3, <2>4, <2>5 DEF cell
  <2>7. QED
    BY <2>1, <2>6 DEF j
<1> HIDE DEF cells
<1>8. CellsOf(other) = cells
  BY <1>1, <1>6, <1>7, CellsOfOther
<1>9. BanksOf(other) = BanksOf(list)
  BY <1>1, <1>2, SameBanks
<1>10. EntriesOf(other) = EntriesOf(list) /\ Filed(other)
  BY <1>1, <1>2, SameEntries
<1>11. QED
  BY <1>5, <1>8, <1>9, <1>10 DEF other, cells, cell

-----------------------------------------------------------------------------
(* A longer list.                                                           *)

\* A region at the end of the list takes no bytes from the others.
LEMMA LookupInLonger ==
    ASSUME NEW list, NEW other, Len(list) \in Nat, Len(other) = Len(list) + 1,
           \A i \in 1 .. Len(list) : other[i].base = list[i].base /\ other[i].size = list[i].size,
           NEW address, NEW n, RegionIn(list, address, n) # 0
    PROVE  RegionIn(other, address, n) = RegionIn(list, address, n)
<1> DEFINE I == {i \in 1 .. Len(list) : Encloses(list[i], address, n)}
           J == {i \in 1 .. Len(other) : Encloses(other[i], address, n)}
<1>1. RegionIn(list, address, n) = (IF I # {} THEN Min(I) ELSE 0)
      /\ RegionIn(other, address, n) = (IF J # {} THEN Min(J) ELSE 0)
  BY DEF RegionIn, SelectInSeq
<1>2. \A i \in 1 .. Len(list) : i \in J <=> i \in I
  BY DEF Encloses
<1>3. I \subseteq 1 .. Len(list) /\ J \subseteq 1 .. (Len(list) + 1) /\ I # {}
  BY <1>1
<1> HIDE DEF I, J
<1>4. I \subseteq Nat /\ J \subseteq Nat /\ J # {}
  <2>1. 1 .. Len(list) \subseteq Nat /\ 1 .. (Len(list) + 1) \subseteq Nat
    OBVIOUS
  <2>2. PICK i : i \in I
    BY <1>3
  <2>3. i \in J
    BY <1>2, <1>3, <2>2
  <2>4. QED
    BY <1>3, <2>1, <2>3
<1>5. /\ Min(I) \in I /\ \A i \in I : Min(I) <= i
      /\ Min(J) \in J /\ \A i \in J : Min(J) <= i
  BY <1>3, <1>4, SelectFirst
<1>6. Min(J) = Min(I)
  <2> DEFINE first == Min(I)
             firstOther == Min(J)
  <2>1. first \in J /\ first \in 1 .. Len(list)
    BY <1>2, <1>3, <1>5
  <2>2. firstOther <= first /\ firstOther \in 1 .. (Len(list) + 1)
    BY <1>3, <1>5, <2>1
  <2> HIDE DEF first, firstOther
  <2>3. firstOther \in 1 .. Len(list)
    BY <2>1, <2>2
  <2>4. first <= firstOther
    BY <1>2, <1>5, <2>3 DEF first, firstOther
  <2>5. QED
    BY <2>1, <2>2, <2>3, <2>4 DEF first, firstOther
<1>7. QED
  BY <1>1, <1>3, <1>4, <1>6

\* What a new region adds to the banks and the cells.
LEMMA AppendedRegion ==
    ASSUME NEW list, RegionsInv(list), Separate(list), Filed(list),
           NEW region, RegionInv(region), region.watchpoints = << >>,
           Separate(Append(list, region))
    PROVE  LET other == Append(list, region)
           IN  /\ RegionsInv(other)
               /\ BanksOf(other) = BanksOf(list) \cup {BankOf(region)}
               /\ \A a : a \in DOMAIN CellsOf(other)
                           <=> a \in DOMAIN CellsOf(list) \/ (a \in Nat /\ Encloses(region, a, 1))
               /\ \A a \in DOMAIN CellsOf(list) : /\ ~Encloses(region, a, 1)
                                                  /\ CellsOf(other)[a] = CellsOf(list)[a]
               /\ \A a \in Nat : Encloses(region, a, 1)
                    => a + 1 < AddressSpace /\ CellsOf(other)[a] = region.data[a - region.base + 1]
               /\ EntriesOf(other) = EntriesOf(list)
               /\ Filed(other)
<1> DEFINE other == Append(list, region)
           last == Len(list) + 1
<1>1. Len(list) \in Nat /\ list \in Seq(Region) /\ region \in Region
  BY RegionOfList DEF RegionInv
<1>2. /\ Len(other) = last /\ other[last] = region
      /\ \A i \in 1 .. Len(list) : other[i] = list[i]
  BY <1>1, AppendProperties
<1>3. RegionsInv(other) /\ Separate(other)
  BY AppendInv
<1>4. last \in 1 .. last /\ last \notin 1 .. Len(list)
      /\ \A i : i \in 1 .. last <=> i \in 1 .. Len(list) \/ i = last
  BY <1>1
<1> HIDE DEF other, last
<1>5. BanksOf(other) = BanksOf(list) \cup {BankOf(region)}
  <2>1. \A bank : bank \in BanksOf(list) <=> \E i \in 1 .. Len(list) : bank = BankOf(list[i])
    BY BanksAreRegions
  <2>2. \A bank : bank \in BanksOf(other) <=> \E i \in 1 .. last : bank = BankOf(other[i])
    BY <1>2, <1>3, BanksAreRegions
  <2>3. \A bank : bank \in BanksOf(other) <=> bank \in BanksOf(list) \/ bank = BankOf(region)
    BY <1>2, <1>4, <2>1, <2>2
  <2>4. QED
    BY <2>3
<1>6. /\ DOMAIN CellsOf(list) = Mapped(list) /\ DOMAIN CellsOf(other) = Mapped(other)
      /\ \A a : a \in Mapped(list)
                  <=> a \in Nat /\ \E i \in 1 .. Len(list) : Encloses(list[i], a, 1)
      /\ \A a : a \in Mapped(other)
                  <=> a \in Nat /\ \E i \in 1 .. Len(other) : Encloses(other[i], a, 1)
  BY <1>3, CellsAreHeld
<1>7. \A a : a \in DOMAIN CellsOf(other)
               <=> a \in DOMAIN CellsOf(list) \/ (a \in Nat /\ Encloses(region, a, 1))
  BY <1>2, <1>4, <1>6
<1>8. ASSUME NEW a \in Nat, Encloses(region, a, 1)
      PROVE  a + 1 < AddressSpace /\ CellsOf(other)[a] = region.data[a - region.base + 1]
  <2>1. CellsOf(other)[a] = region.data[a - region.base + 1]
    BY <1>2, <1>3, <1>4, <1>8, CellOfRegion
  <2>2. a + 1 < AddressSpace
    BY <1>2, <1>3, <1>4, <1>8, HolderIsFound
  <2>3. QED
    BY <2>1, <2>2
<1>9. ASSUME NEW a \in DOMAIN CellsOf(list)
      PROVE  ~Encloses(region, a, 1) /\ CellsOf(other)[a] = CellsOf(list)[a]
  <2>1. PICK i \in 1 .. Len(list) : a \in Nat /\ Encloses(list[i], a, 1)
    BY <1>6
  <2>2. i \in 1 .. Len(other) /\ other[i] = list[i] /\ i # last
    BY <1>2, <1>4
  <2>3. RegionIn(other, a, 1) = i
    BY <1>3, <2>1, <2>2, HolderIsFound
  <2>4. Encloses(region, a, 1) => RegionIn(other, a, 1) = last
    BY <1>2, <1>3, <1>4, <2>1, HolderIsFound
  <2>5. CellsOf(other)[a] = list[i].data[a - list[i].base + 1]
    BY <1>3, <2>1, <2>2, CellOfRegion
  <2>6. CellsOf(list)[a] = list[i].data[a - list[i].base + 1]
    BY <2>1, CellOfRegion
  <2>7. QED
    BY <2>2, <2>3, <2>4, <2>5, <2>6
<1>10. EntriesOf(other) = EntriesOf(list)
  <2>1. ToSet(region.watchpoints) = {}
    BY DEF ToSet
  <2>2. \A entry : entry \in EntriesOf(list)
          <=> \E i \in 1 .. Len(list) : \E w \in ToSet(list[i].watchpoints) : entry = EntryOf(w)
    BY EntriesAreHeld
  <2>3. \A entry : entry \in EntriesOf(other)
          <=> \E i \in 1 .. last : \E w \in ToSet(other[i].watchpoints) : entry = EntryOf(w)
    BY <1>2, <1>3, EntriesAreHeld
  <2>4. \A entry : entry \in EntriesOf(other) <=> entry \in EntriesOf(list)
    BY <1>2, <1>4, <2>1, <2>2, <2>3
  <2>5. QED
    BY <2>4
<1>11. Filed(other)
  <2> SUFFICES ASSUME NEW i \in 1 .. last, NEW j \in 1 .. Len(other[i].watchpoints)
               PROVE  IsFiled(other, i, other[i].watchpoints[j])
    BY <1>2 DEF Filed
  <2>1. Len(region.watchpoints) = 0
    OBVIOUS
  <2>2. i \in 1 .. Len(list) /\ other[i] = list[i]
    BY <1>2, <1>4, <2>1
  <2> DEFINE entry == list[i].watchpoints[j]
  <2>3. IsFiled(list, i, entry)
    BY <2>2 DEF Filed
  <2> HIDE DEF entry
  <2>4. entry.start <= entry.end /\ RegionIn(list, entry.start, entry.end - entry.start) = i /\ i # 0
    BY <1>1, <2>2, <2>3 DEF IsFiled
  <2>5. RegionIn(other, entry.start, entry.end - entry.start) = i
    BY <1>1, <1>2, <2>4, LookupInLonger DEF last
  <2>6. QED
    BY <2>2, <2>4, <2>5 DEF IsFiled, entry
<1>12. QED
  BY <1>3, <1>5, <1>7, <1>8, <1>9, <1>10, <1>11 DEF other

-----------------------------------------------------------------------------
(* Each action is a step of the abstract specification, and keeps the       *)
(* entries filed.                                                           *)

\* Nothing is kept by an empty list.
LEMMA EmptyList ==
    /\ BanksOf(<< >>) = {} /\ CellsOf(<< >>) = << >> /\ EntriesOf(<< >>) = {}
    /\ Filed(<< >>)
<1>1. BanksOf(<< >>) = {} /\ EntriesOf(<< >>) = {} /\ Filed(<< >>)
  BY DEF BanksOf, EntriesOf, Filed
<1>2. Mapped(<< >>) = {}
  BY DEF Mapped, RegionIn, SelectInSeq
<1>3. CellsOf(<< >>) = << >>
  BY <1>2 DEF CellsOf
<1>4. QED
  BY <1>1, <1>3

\* MemorySim_Init on the same object and uninit discard everything.
LEMMA DiscardRefines ==
    ASSUME Reinitialise \/ Uninit
    PROVE  Memory!Next /\ Filed(regions')
<1>1. regions' = << >> /\ reply' = Answer(<< >>)
      /\ \/ call' = PlainCall("init") /\ watchpointEncountered' = 0
         \/ call' = PlainCall("uninit") /\ watchpointEncountered' = watchpointEncountered
  BY DEF Reinitialise, Uninit, Returns
<1>2. /\ BanksOf(regions') = {} /\ CellsOf(regions') = << >> /\ EntriesOf(regions') = {}
      /\ Filed(regions')
  BY <1>1, EmptyList
<1>3. Memory!Discard
  BY <1>1, <1>2 DEF Memory!Discard, Memory!PlainCall, Memory!Answer, PlainCall, Answer
<1>4. QED
  BY <1>2, <1>3 DEF Memory!Next

\* Clearing the count when it is asked for.
LEMMA AskRefines ==
    ASSUME Filed(regions), WasWatchpointEncountered
    PROVE  Memory!Next /\ Filed(regions')
<1>1. /\ regions' = regions /\ reply' = Answer(<<watchpointEncountered>>)
      /\ call' = PlainCall("wasEncountered") /\ watchpointEncountered' = 0
  BY DEF WasWatchpointEncountered, Returns
<1>2. Memory!WasEncountered
  BY <1>1 DEF Memory!WasEncountered, Memory!PlainCall, Memory!Answer, PlainCall, Answer
<1>3. QED
  BY <1>1, <1>2 DEF Memory!Next

\* A read count changes nothing.
LEMMA ReadCountRefines ==
    ASSUME Filed(regions), NEW address, GetFlashReadCount(address)
    PROVE  Memory!Next /\ Filed(regions')
<1>1. /\ regions' = regions /\ watchpointEncountered' = watchpointEncountered
      /\ call' = RangeCall("readCount", address, 2)
      /\ reply'.exception \in {"none", "busError", "accessViolation"}
  BY DEF GetFlashReadCount, Returns, Throws, Answer, Failure
<1>2. Memory!ReadCount
  BY <1>1 DEF Memory!ReadCount, Memory!Requested, RangeCall
<1>3. QED
  BY <1>1, <1>2 DEF Memory!Next

\* A call that allocates and fails changes nothing.
LEMMA OutOfMemoryRefines ==
    ASSUME Filed(regions), AllocationMayFail,
           call'.op \in {"createRegion", "createFromImage", "set"},
           Throws("outOfMemory"), regions' = regions,
           watchpointEncountered' = watchpointEncountered
    PROVE  Memory!Next /\ Filed(regions')
<1>1. Memory!OutOfMemory
  BY DEF Memory!OutOfMemory, Throws, Memory!Failure, Failure
<1>2. QED
  BY <1>1 DEF Memory!Next

\* Setting and clearing.
LEMMA WatchRefines ==
    ASSUME ListInv(regions), RegionsInv(regions'),
           NEW address \in Address, NEW size \in WatchSizes, NEW type \in WatchTypes,
           SetWatchpoint(address, size, type) \/ ClearWatchpoint(address, size, type)
    PROVE  Memory!Next /\ Filed(regions')
<1> DEFINE i == RegionOf(address, size)
           key == WatchpointFor(address, size, type)
           entry == WatchEntry(type, address, size)
           with == SetIn(regions, address, size, type)
           without == ClearedIn(regions, address, size, type)
<1>0. RegionsInv(regions) /\ Separate(regions) /\ Filed(regions)
  BY DEF ListInv
<1>1. address \in Nat /\ size \in Nat /\ type \in WatchpointType
  BY ConstantTypes, MemoryAssumption
<1>2. Memory!InABank(address, size) <=> i # 0
  BY <1>0, <1>1, FoundInABank
<1>3. ASSUME i # 0, IsFound(regions[i].watchpoints, key)
      PROVE  entry \in EntriesOf(regions)
  <2>1. i \in 1 .. Len(regions) /\ EntryOf(key) = entry
    BY <1>0, <1>1, <1>3, KeyInRegion DEF RegionOf
  <2>2. EntryOf(key) \in EntriesOf(regions)
    BY <1>0, <1>3, <2>1, FoundIsAnEntry
  <2>3. QED
    BY <2>1, <2>2
<1>4. ASSUME i # 0, regions' = with
      PROVE  /\ BanksOf(regions') = BanksOf(regions)
             /\ CellsOf(regions') = CellsOf(regions)
             /\ EntriesOf(regions') = EntriesOf(regions) \cup {entry}
             /\ Filed(regions')
  BY <1>1, <1>4, SetAddsEntry DEF RegionOf
<1>5. ASSUME i # 0, regions' = without
      PROVE  /\ BanksOf(regions') = BanksOf(regions)
             /\ CellsOf(regions') = CellsOf(regions)
             /\ EntriesOf(regions') = EntriesOf(regions) \ {entry}
             /\ Filed(regions')
  BY <1>1, <1>5, ClearRemovesEntry DEF RegionOf
<1>6. CASE SetWatchpoint(address, size, type)
  <2>1. /\ call' = WatchCall("set", address, size, type)
        /\ watchpointEncountered' = watchpointEncountered
        /\ \/ i = 0 /\ Throws("busError") /\ regions' = regions
           \/ /\ i # 0 /\ Returns(<< >>) /\ IsFound(regions[i].watchpoints, key)
              /\ regions' = regions
           \/ i # 0 /\ Returns(<< >>) /\ regions' = with
           \/ AllocationMayFail /\ Throws("outOfMemory") /\ regions' = regions
    BY <1>6 DEF SetWatchpoint, SetIn, Replaced, RegionOf
  <2> HIDE DEF i, key, with, entry
  <2>2. /\ call'.op = "set" /\ call'.address = address /\ call'.size = size
        /\ [type |-> call'.with[1], start |-> call'.address, size |-> call'.size] = entry
    BY <2>1 DEF WatchCall, entry, WatchEntry
  <2>3. CASE AllocationMayFail /\ Throws("outOfMemory") /\ regions' = regions
    BY <1>0, <2>1, <2>2, <2>3, OutOfMemoryRefines
  <2>4. CASE i = 0 /\ Throws("busError") /\ regions' = regions
    <3>1. Memory!Watch
      BY <1>2, <2>1, <2>2, <2>4
      DEF Memory!Watch, Memory!Requested, Memory!Answer, Memory!Failure, Throws, Failure
    <3>2. QED
      BY <1>0, <2>4, <3>1 DEF Memory!Next
  <2>5. CASE i # 0 /\ Returns(<< >>) /\ IsFound(regions[i].watchpoints, key) /\ regions' = regions
    <3>1. EntriesOf(regions) \cup {entry} = EntriesOf(regions)
      BY <1>3, <2>5
    <3>2. Memory!Watch
      BY <1>2, <2>1, <2>2, <2>5, <3>1
      DEF Memory!Watch, Memory!Requested, Memory!Answer, Memory!Failure, Returns, Answer
    <3>3. QED
      BY <1>0, <2>5, <3>2 DEF Memory!Next
  <2>6. CASE i # 0 /\ Returns(<< >>) /\ regions' = with
    <3>1. Memory!Watch
      BY <1>2, <1>4, <2>1, <2>2, <2>6
      DEF Memory!Watch, Memory!Requested, Memory!Answer, Memory!Failure, Returns, Answer
    <3>2. QED
      BY <1>4, <2>6, <3>1 DEF Memory!Next
  <2>7. QED
    BY <2>1, <2>3, <2>4, <2>5, <2>6
<1>7. CASE ClearWatchpoint(address, size, type)
  <2>1. /\ call' = WatchCall("clear", address, size, type)
        /\ watchpointEncountered' = watchpointEncountered
        /\ \/ i = 0 /\ Throws("busError") /\ regions' = regions
           \/ i # 0 /\ Returns(<< >>) /\ regions' = without
    BY <1>7 DEF ClearWatchpoint, ClearedIn, Replaced, RegionOf
  <2> HIDE DEF i, key, without, entry
  <2>2. /\ call'.op = "clear" /\ call'.address = address /\ call'.size = size
        /\ [type |-> call'.with[1], start |-> call'.address, size |-> call'.size] = entry
    BY <2>1 DEF WatchCall, entry, WatchEntry
  <2>3. CASE i = 0 /\ Throws("busError") /\ regions' = regions
    <3>1. Memory!Watch
      BY <1>2, <2>1, <2>2, <2>3
      DEF Memory!Watch, Memory!Requested, Memory!Answer, Memory!Failure, Throws, Failure
    <3>2. QED
      BY <1>0, <2>3, <3>1 DEF Memory!Next
  <2>4. CASE i # 0 /\ Returns(<< >>) /\ regions' = without
    <3>1. Memory!Watch
      BY <1>2, <1>5, <2>1, <2>2, <2>4
      DEF Memory!Watch, Memory!Requested, Memory!Answer, Memory!Failure, Returns, Answer
    <3>2. QED
      BY <1>5, <2>4, <3>1 DEF Memory!Next
  <2>5. QED
    BY <2>1, <2>3, <2>4
<1>8. QED
  BY <1>6, <1>7

\* What replacing the region that a lookup found by a counted one keeps.
LEMMA CountingKeepsMemory ==
    ASSUME ListInv(regions), NEW address, NEW n, RegionOf(address, n) # 0,
           regions' = [regions EXCEPT
                          ![RegionOf(address, n)] = CountedRead(regions[RegionOf(address, n)], address, n)]
    PROVE  /\ BanksOf(regions') = BanksOf(regions)
           /\ CellsOf(regions') = CellsOf(regions)
           /\ EntriesOf(regions') = EntriesOf(regions)
           /\ Filed(regions')
<1> DEFINE i == RegionOf(address, n)
           region == CountedRead(regions[i], address, n)
<1>0. RegionsInv(regions) /\ Separate(regions) /\ Filed(regions)
  BY DEF ListInv
<1>1. i \in 1 .. Len(regions)
  BY <1>0, RegionOfList, RegionInProperties DEF RegionOf
<1>2. regions' = Replaced(regions, i, region)
  BY DEF Replaced
<1> HIDE DEF i
<1>3. regions[i] \in Region
  BY <1>0, <1>1, RegionOfList DEF RegionInv
<1>4. /\ region.base = regions[i].base /\ region.size = regions[i].size
      /\ region.readOnly = regions[i].readOnly /\ region.data = regions[i].data
      /\ region.watchpoints = regions[i].watchpoints
  BY <1>3 DEF CountedRead, Region
<1> HIDE DEF region
<1>5. /\ BanksOf(Replaced(regions, i, region)) = BanksOf(regions)
      /\ CellsOf(Replaced(regions, i, region)) = CellsOf(regions)
      /\ EntriesOf(Replaced(regions, i, region)) = EntriesOf(regions)
      /\ Filed(Replaced(regions, i, region))
  BY <1>0, <1>1, <1>4, UncountedReplacement
<1>6. QED
  BY <1>2, <1>5

\* The bytes of an access that a region holds.
LEMMA HeldAccess ==
    ASSUME ListInv(regions), NEW address \in Address, NEW n \in Nat \ {0}
    PROVE  /\ address \in Nat
           /\ Memory!InABank(address, n) <=> RegionOf(address, n) # 0
           /\ RegionOf(address, n) # 0
                => /\ RegionOf(address, n) \in 1 .. Len(regions)
                   /\ Encloses(regions[RegionOf(address, n)], address, n)
<1>1. RegionsInv(regions) /\ address \in Nat
  BY ConstantTypes DEF ListInv
<1>2. QED
  BY <1>1, FoundInABank, RegionOfList, RegionInProperties DEF RegionOf

\* read32, read16 and read8.
LEMMA ReadRefines ==
    ASSUME ListInv(regions), watchpointEncountered \in Nat,
           NEW address \in Address, NEW n \in Nat \ {0}, Read(address, n)
    PROVE  Memory!Next /\ Filed(regions')
<1> DEFINE i == RegionOf(address, n)
           array == regions[i].watchpoints
           hits == Cardinality(ScanHits(array, address, n, "read"))
           watchers == Memory!Cardinality(Memory!ReadWatchers(address, n))
           breaks == n = 2 /\ Memory!BreakpointAt(address)
<1>0. RegionsInv(regions) /\ Separate(regions) /\ Filed(regions)
  BY DEF ListInv
<1>1. /\ call' = RangeCall("read", address, n)
      /\ \/ i = 0 /\ Throws("busError") /\ UNCHANGED <<regions, watchpointEncountered>>
         \/ /\ i # 0
            /\ regions' = [regions EXCEPT ![i] = CountedRead(regions[i], address, n)]
            /\ watchpointEncountered' = watchpointEncountered + hits
            /\ \/ ScanBreaks(array, address, n, "read") /\ Throws("hardwareBreakpoint")
               \/ ~ScanBreaks(array, address, n, "read") /\ Returns(BytesAt(regions[i], address, n))
  BY DEF Read, CountHits
<1>2. /\ address \in Nat
      /\ Memory!InABank(address, n) <=> i # 0
      /\ i # 0 => i \in 1 .. Len(regions) /\ Encloses(regions[i], address, n)
  BY HeldAccess
<1>3. Memory!Requested("read") /\ call'.address = address /\ call'.size = n
  BY <1>1 DEF RangeCall, Memory!Requested
<1>4. CASE i = 0
  <2>1. Memory!Read
    BY <1>1, <1>2, <1>3, <1>4
    DEF Memory!Read, Memory!BusError, Memory!Failure, Throws, Failure
  <2>2. QED
    BY <1>0, <1>1, <1>4, <2>1 DEF Memory!Next
<1>5. CASE i # 0
  <2>1. /\ BanksOf(regions') = BanksOf(regions)
        /\ CellsOf(regions') = CellsOf(regions)
        /\ EntriesOf(regions') = EntriesOf(regions)
        /\ Filed(regions')
    BY <1>1, <1>5, CountingKeepsMemory
  <2>2. Memory!Stored(address, n) = BytesAt(regions[i], address, n)
    BY <1>0, <1>2, <1>5, BytesAreCells
  <2>3. /\ hits \in Nat /\ watchers \in Nat /\ hits <= watchers
        /\ ScanBreaks(array, address, n, "read") <=> breaks
        /\ ~ScanBreaks(array, address, n, "read") => hits = watchers
    <3>1. watchers = Cardinality(Memory!Covering(Counting("read"), address, n))
      BY SameCardinality DEF Memory!ReadWatchers, Counting
    <3>2. "read" \in AccessType
      BY DEF AccessType
    <3> HIDE DEF watchers, i
    <3>3. QED
      BY <1>2, <1>5, <3>1, <3>2, ScanOfEntries
  <2> HIDE DEF i, array, hits, watchers
  <2>4. CASE breaks
    <3>1. /\ reply' = Memory!Failure("hardwareBreakpoint")
          /\ watchpointEncountered' = watchpointEncountered + hits
      BY <1>1, <1>5, <2>3, <2>4 DEF Throws, Failure, Memory!Failure
    <3>2. watchpointEncountered' \in watchpointEncountered .. (watchpointEncountered + watchers)
      BY <2>3, <3>1
    <3>3. Memory!Read
      BY <1>2, <1>3, <1>5, <2>1, <2>4, <3>1, <3>2 DEF Memory!Read, watchers
    <3>4. QED
      BY <2>1, <3>3 DEF Memory!Next
  <2>5. CASE ~breaks
    <3>1. /\ reply' = Memory!Answer(Memory!Stored(address, n))
          /\ watchpointEncountered' = watchpointEncountered + watchers
      BY <1>1, <1>5, <2>2, <2>3, <2>5 DEF Returns, Answer, Memory!Answer
    <3>2. Memory!Read
      BY <1>2, <1>3, <1>5, <2>1, <2>5, <3>1 DEF Memory!Read, watchers
    <3>3. QED
      BY <2>1, <3>2 DEF Memory!Next
  <2>6. QED
    BY <2>4, <2>5
<1>6. QED
  BY <1>4, <1>5

\* A mapping for a read.
LEMMA MapForReadRefines ==
    ASSUME ListInv(regions), NEW address \in Address, NEW n \in Nat \ {0}, MapForRead(address, n)
    PROVE  Memory!Next /\ Filed(regions')
<1> DEFINE i == RegionOf(address, n)
<1>0. RegionsInv(regions) /\ Separate(regions) /\ Filed(regions)
  BY DEF ListInv
<1>1. /\ call' = RangeCall("mapForRead", address, n)
      /\ watchpointEncountered' = watchpointEncountered
      /\ \/ i = 0 /\ Throws("busError") /\ regions' = regions
         \/ /\ i # 0
            /\ regions' = [regions EXCEPT ![i] = CountedRead(regions[i], address, n)]
            /\ Returns(BytesAt(regions[i], address, n))
  BY DEF MapForRead
<1>2. /\ address \in Nat
      /\ Memory!InABank(address, n) <=> i # 0
      /\ i # 0 => i \in 1 .. Len(regions) /\ Encloses(regions[i], address, n)
  BY HeldAccess
<1>3. Memory!Requested("mapForRead") /\ call'.address = address /\ call'.size = n
  BY <1>1 DEF RangeCall, Memory!Requested
<1>4. CASE i = 0
  <2>1. Memory!MapForRead
    BY <1>1, <1>2, <1>3, <1>4
    DEF Memory!MapForRead, Memory!BusError, Memory!Failure, Throws, Failure
  <2>2. QED
    BY <1>0, <1>1, <1>4, <2>1 DEF Memory!Next
<1>5. CASE i # 0
  <2>1. /\ BanksOf(regions') = BanksOf(regions)
        /\ CellsOf(regions') = CellsOf(regions)
        /\ EntriesOf(regions') = EntriesOf(regions)
        /\ Filed(regions')
    BY <1>1, <1>5, CountingKeepsMemory
  <2>2. Memory!Stored(address, n) = BytesAt(regions[i], address, n)
    BY <1>0, <1>2, <1>5, BytesAreCells
  <2>3. reply' = Memory!Answer(Memory!Stored(address, n))
    BY <1>1, <1>5, <2>2 DEF Returns, Answer, Memory!Answer
  <2> HIDE DEF i
  <2>4. Memory!MapForRead
    BY <1>1, <1>2, <1>3, <1>5, <2>1, <2>3 DEF Memory!MapForRead
  <2>5. QED
    BY <2>1, <2>4 DEF Memory!Next
<1>6. QED
  BY <1>4, <1>5

\* What a store keeps, and what it stores.
LEMMA StoringChangesCells ==
    ASSUME ListInv(regions), NEW address \in Address, NEW n \in Nat \ {0},
           RegionOf(address, n) # 0,
           NEW bytes \in Seq(ByteValues), Len(bytes) <= n,
           regions' = [regions EXCEPT
                          ![RegionOf(address, n)] = WithBytes(regions[RegionOf(address, n)], address, bytes)]
    PROVE  /\ BanksOf(regions') = BanksOf(regions)
           /\ Memory!Store(address, bytes)
           /\ EntriesOf(regions') = EntriesOf(regions)
           /\ Filed(regions')
<1> DEFINE i == RegionOf(address, n)
           region == WithBytes(regions[i], address, bytes)
<1>0. RegionsInv(regions) /\ Separate(regions) /\ Filed(regions)
  BY DEF ListInv
<1>1. address \in Nat /\ i \in 1 .. Len(regions) /\ Encloses(regions[i], address, n)
  BY HeldAccess
<1>2. regions' = Replaced(regions, i, region)
  BY DEF Replaced
<1> HIDE DEF i
<1>3. /\ BanksOf(Replaced(regions, i, region)) = BanksOf(regions)
      /\ CellsOf(Replaced(regions, i, region))
           = [a \in DOMAIN CellsOf(regions) |->
                IF a - address + 1 \in DOMAIN bytes
                THEN bytes[a - address + 1] ELSE CellsOf(regions)[a]]
      /\ EntriesOf(Replaced(regions, i, region)) = EntriesOf(regions)
      /\ Filed(Replaced(regions, i, region))
  BY <1>0, <1>1, StoredInCells
<1> HIDE DEF region
<1>4. Memory!Store(address, bytes)
  BY <1>2, <1>3 DEF Memory!Store
<1>5. QED
  BY <1>2, <1>3, <1>4

\* write32, write16 and write8.
LEMMA WriteRefines ==
    ASSUME ListInv(regions), NEW address \in Address, NEW n \in Nat \ {0},
           NEW bytes \in Seq(ByteValues), Len(bytes) = n, Write(address, bytes)
    PROVE  Memory!Next /\ Filed(regions')
<1> DEFINE i == RegionOf(address, n)
           array == regions[i].watchpoints
           hits == Cardinality(ScanHits(array, address, n, "write"))
           watchers == Memory!Cardinality(Memory!WriteWatchers(address, n))
<1>0. RegionsInv(regions) /\ Separate(regions) /\ Filed(regions)
  BY DEF ListInv
<1>1. /\ call' = DataCall("write", address, bytes)
      /\ \/ NotWritable(i) /\ Throws("busError") /\ UNCHANGED <<regions, watchpointEncountered>>
         \/ /\ ~NotWritable(i)
            /\ watchpointEncountered' = watchpointEncountered + hits
            /\ regions' = [regions EXCEPT ![i] = WithBytes(regions[i], address, bytes)]
            /\ Returns(<< >>)
  BY DEF Write, CountHits
<1>2. /\ address \in Nat
      /\ i # 0 => i \in 1 .. Len(regions) /\ Encloses(regions[i], address, n)
  BY HeldAccess
<1>3. Memory!Writable(address, n) <=> ~NotWritable(i)
  BY <1>0, <1>2, RefusedIfNotWritable
<1>4. /\ Memory!Requested("write") /\ call'.address = address /\ call'.size = n
      /\ call'.with = bytes
  BY <1>1 DEF DataCall, Memory!Requested
<1>5. CASE NotWritable(i)
  <2>1. Memory!Write
    BY <1>1, <1>3, <1>4, <1>5
    DEF Memory!Write, Memory!BusError, Memory!Failure, Throws, Failure
  <2>2. QED
    BY <1>0, <1>1, <1>5, <2>1 DEF Memory!Next
<1>6. CASE ~NotWritable(i)
  <2>0. i # 0
    BY <1>6 DEF NotWritable
  <2>1. /\ BanksOf(regions') = BanksOf(regions)
        /\ Memory!Store(address, bytes)
        /\ EntriesOf(regions') = EntriesOf(regions)
        /\ Filed(regions')
    <3>1. regions' = [regions EXCEPT ![i] = WithBytes(regions[i], address, bytes)]
      BY <1>1, <1>6
    <3>2. RegionOf(address, n) # 0 /\ Len(bytes) <= n
      BY <2>0
    <3> HIDE DEF i
    <3>3. regions' = [regions EXCEPT
              ![RegionOf(address, n)] = WithBytes(regions[RegionOf(address, n)], address, bytes)]
      BY <3>1 DEF i
    <3>4. QED
      BY <3>2, <3>3, StoringChangesCells
  <2>2. hits = watchers
    <3>1. watchers = Cardinality(Memory!Covering(Counting("write"), address, n))
      BY SameCardinality DEF Memory!WriteWatchers, Counting
    <3>2. "write" \in AccessType /\ "write" # "read"
      BY DEF AccessType
    <3> HIDE DEF watchers, i
    <3>3. ~ScanBreaks(array, address, n, "write")
      BY <1>2, <2>0, <3>2, ScanOfEntries
    <3>4. QED
      BY <1>2, <2>0, <3>1, <3>2, <3>3, ScanOfEntries
  <2> HIDE DEF i, array, hits, watchers
  <2>3. reply' = Memory!Answer(<< >>) /\ watchpointEncountered' = watchpointEncountered + watchers
    BY <1>1, <1>6, <2>2 DEF Returns, Answer, Memory!Answer
  <2>4. Memory!Write
    BY <1>3, <1>4, <1>6, <2>1, <2>3 DEF Memory!Write, watchers
  <2>5. QED
    BY <2>1, <2>4 DEF Memory!Next
<1>7. QED
  BY <1>5, <1>6

\* A mapping for a write, and the store through it.
LEMMA MapForWriteRefines ==
    ASSUME ListInv(regions), NEW address \in Address, NEW n \in Nat \ {0},
           NEW bytes \in Seq(ByteValues), Len(bytes) <= n, MapForWrite(address, n, bytes)
    PROVE  Memory!Next /\ Filed(regions')
<1> DEFINE i == RegionOf(address, n)
<1>0. RegionsInv(regions) /\ Separate(regions) /\ Filed(regions)
  BY DEF ListInv
<1>1. /\ call' = [DataCall("mapForWrite", address, bytes) EXCEPT !.size = n]
      /\ watchpointEncountered' = watchpointEncountered
      /\ \/ NotWritable(i) /\ Throws("busError") /\ regions' = regions
         \/ /\ ~NotWritable(i)
            /\ regions' = [regions EXCEPT ![i] = WithBytes(regions[i], address, bytes)]
            /\ Returns(<< >>)
  BY DEF MapForWrite
<1>2. address \in Nat
  BY HeldAccess
<1>3. Memory!Writable(address, n) <=> ~NotWritable(i)
  BY <1>0, <1>2, RefusedIfNotWritable
<1>4. /\ Memory!Requested("mapForWrite") /\ call'.address = address /\ call'.size = n
      /\ call'.with = bytes
  BY <1>1 DEF DataCall, Memory!Requested
<1>5. CASE NotWritable(i)
  <2>1. Memory!MapForWrite
    BY <1>1, <1>3, <1>4, <1>5
    DEF Memory!MapForWrite, Memory!BusError, Memory!Failure, Throws, Failure
  <2>2. QED
    BY <1>0, <1>1, <1>5, <2>1 DEF Memory!Next
<1>6. CASE ~NotWritable(i)
  <2>0. i # 0 /\ regions' = [regions EXCEPT ![i] = WithBytes(regions[i], address, bytes)]
    BY <1>1, <1>6 DEF NotWritable
  <2>1. /\ BanksOf(regions') = BanksOf(regions)
        /\ Memory!Store(address, bytes)
        /\ EntriesOf(regions') = EntriesOf(regions)
        /\ Filed(regions')
    BY <2>0, StoringChangesCells
  <2> HIDE DEF i
  <2>2. reply' = Memory!Answer(<< >>)
    BY <1>1, <1>6 DEF Returns, Answer, Memory!Answer
  <2>3. Memory!MapForWrite
    BY <1>1, <1>3, <1>4, <1>6, <2>1, <2>2 DEF Memory!MapForWrite
  <2>4. QED
    BY <2>1, <2>3 DEF Memory!Next
<1>7. QED
  BY <1>5, <1>6

\* A bank that was protected.
LEMMA ProtectedBank ==
    ASSUME NEW bank \in [base : Nat, size : Nat, readOnly : BOOLEAN]
    PROVE  [bank EXCEPT !.readOnly = TRUE]
             = [base |-> bank.base, size |-> bank.size, readOnly |-> TRUE]
<1> DEFINE protected == [bank EXCEPT !.readOnly = TRUE]
           same == [base |-> bank.base, size |-> bank.size, readOnly |-> TRUE]
<1>1. protected \in [base : Nat, size : Nat, readOnly : BOOLEAN]
  OBVIOUS
<1>2. protected.base = bank.base /\ protected.size = bank.size /\ protected.readOnly = TRUE
  OBVIOUS
<1>3. same \in [base : Nat, size : Nat, readOnly : BOOLEAN]
  OBVIOUS
<1>4. same.base = bank.base /\ same.size = bank.size /\ same.readOnly = TRUE
  OBVIOUS
<1> HIDE DEF protected, same
<1>5. protected = same
  BY <1>1, <1>2, <1>3, <1>4
<1>6. QED
  BY <1>5 DEF protected, same

\* Making the region of an address read-only.
LEMMA ProtectRefines ==
    ASSUME ListInv(regions), NEW base \in Address, MakeRegionReadOnly(base)
    PROVE  Memory!Next /\ Filed(regions')
<1> DEFINE i == RegionOf(base, 1)
           counted == WithReadCounts(regions[i])
           marked == MarkedReadOnly(regions[i])
<1>0. RegionsInv(regions) /\ Separate(regions) /\ Filed(regions)
  BY DEF ListInv
<1>1. /\ call' = RangeCall("makeReadOnly", base, 1)
      /\ watchpointEncountered' = watchpointEncountered
      /\ \/ i = 0 /\ Throws("busError") /\ regions' = regions
         \/ i # 0 /\ Returns(<< >>) /\ regions' = Replaced(regions, i, counted)
         \/ /\ i # 0 /\ AllocationMayFail /\ Throws("outOfMemory")
            /\ regions' = Replaced(regions, i, marked)
  BY DEF MakeRegionReadOnly, Replaced
<1>2. /\ base \in Nat
      /\ Memory!InABank(base, 1) <=> i # 0
      /\ i # 0 => i \in 1 .. Len(regions) /\ Encloses(regions[i], base, 1)
  BY HeldAccess
<1>3. Memory!Requested("makeReadOnly") /\ call'.address = base
  BY <1>1 DEF RangeCall, Memory!Requested
<1>4. CASE i = 0
  <2>1. Memory!MakeReadOnly
    BY <1>1, <1>2, <1>3, <1>4
    DEF Memory!MakeReadOnly, Memory!Failure, Throws, Failure
  <2>2. QED
    BY <1>0, <1>1, <1>4, <2>1 DEF Memory!Next
<1>5. CASE i # 0
  <2>1. PICK region \in {counted, marked} : regions' = Replaced(regions, i, region)
    BY <1>1, <1>5
  <2> DEFINE bank == BankOf(regions[i])
             protected == [bank EXCEPT !.readOnly = TRUE]
  <2>2. \/ reply' = Memory!Answer(<< >>)
        \/ AllocationMayFail /\ reply' = Memory!Failure("outOfMemory")
    BY <1>1, <1>5 DEF Returns, Throws, Answer, Failure, Memory!Answer, Memory!Failure
  <2> HIDE DEF i
  <2>3. regions[i] \in Region /\ regions[i].base \in Nat /\ regions[i].size \in Nat
    BY <1>0, <1>2, <1>5, RegionOfList DEF RegionInv
  <2>4. /\ region.base = regions[i].base /\ region.size = regions[i].size
        /\ region.readOnly = TRUE /\ region.data = regions[i].data
        /\ region.watchpoints = regions[i].watchpoints
    BY <2>1, <2>3 DEF WithReadCounts, MarkedReadOnly, Region
  <2> HIDE DEF counted, marked
  <2>5. /\ SameLayout(regions, regions')
        /\ DOMAIN regions' = DOMAIN regions
        /\ regions'[i] = region
        /\ \A j \in 1 .. Len(regions) : j # i => regions'[j] = regions[j]
    BY <1>0, <1>2, <1>5, <2>1, <2>4, ReplacedRegions
  <2>6. DOMAIN regions = 1 .. Len(regions)
    BY <1>0, RegionOfList
  <2>7. CellsOf(regions') = CellsOf(regions)
    BY <1>0, <2>4, <2>5, SameCells
  <2>8. EntriesOf(regions') = EntriesOf(regions) /\ Filed(regions')
    BY <1>0, <2>4, <2>5, <2>6, SameEntries
  <2>9. BankOf(region) = protected
    <3>1. bank \in [base : Nat, size : Nat, readOnly : BOOLEAN]
      BY <1>0, <1>2, <1>5, RegionOfList DEF BankOf
    <3>2. bank.base = regions[i].base /\ bank.size = regions[i].size
      BY DEF BankOf
    <3> HIDE DEF bank
    <3>3. protected = BankOf(region)
      BY <2>4, <3>1, <3>2, ProtectedBank DEF BankOf
    <3>4. QED
      BY <3>3
  <2>10. ASSUME NEW j \in 1 .. Len(regions), j # i
         PROVE  BankOf(regions[j]) # bank
    <3> SUFFICES ASSUME BankOf(regions[j]) = bank
                 PROVE  FALSE
      OBVIOUS
    <3>1. regions[j].base = regions[i].base /\ regions[j].size = regions[i].size
      BY DEF BankOf
    <3>2. Encloses(regions[j], base, 1)
      BY <1>2, <1>5, <3>1 DEF Encloses
    <3>3. QED
      BY <1>0, <1>2, <1>5, <2>10, <3>2, HolderIsFound
  <2>11. BanksOf(regions') = (BanksOf(regions) \ {bank}) \cup {protected}
    <3>1. \A b : b \in BanksOf(regions) <=> \E j \in 1 .. Len(regions) : b = BankOf(regions[j])
      BY <1>0, BanksAreRegions
    <3>2. \A b : b \in BanksOf(regions') <=> \E j \in 1 .. Len(regions) : b = BankOf(regions'[j])
      BY <2>5, <2>6 DEF BanksOf, BankOf
    <3> HIDE DEF bank, protected
    <3>3. \A b : b \in BanksOf(regions') <=> (b \in BanksOf(regions) /\ b # bank) \/ b = protected
      BY <1>2, <1>5, <2>5, <2>9, <2>10, <3>1, <3>2 DEF bank
    <3>4. QED
      BY <3>3
  <2>12. bank \in BanksOf(regions) /\ Memory!Within(bank, base, 1)
    BY <1>0, <1>2, <1>5, <2>3, BanksAreRegions, BankHolds
  <2> HIDE DEF bank
  <2>13. Memory!MakeReadOnly
    BY <1>1, <1>3, <2>2, <2>7, <2>8, <2>11, <2>12 DEF Memory!MakeReadOnly
  <2>14. QED
    BY <2>8, <2>13 DEF Memory!Next
<1>6. QED
  BY <1>4, <1>5

\* Loading an image.
LEMMA LoadRefines ==
    ASSUME ListInv(regions), NEW image \in Seq(ByteValues), LoadFromFlashImage(image)
    PROVE  Memory!Next /\ Filed(regions')
<1>0. RegionsInv(regions) /\ Separate(regions) /\ Filed(regions) /\ Len(image) \in Nat
  BY DEF ListInv
<1>1. PICK m \in 0 .. Len(image) : LoadableBytes(regions, Len(image)) = 0 .. (m - 1)
  BY <1>0, LoadableIsPrefix
<1>2. /\ BanksOf(regions') = BanksOf(regions)
      /\ 0 .. (m - 1) \subseteq DOMAIN CellsOf(regions)
      /\ CellsOf(regions') = [a \in DOMAIN CellsOf(regions) |->
                                IF a < m THEN image[a + 1] ELSE CellsOf(regions)[a]]
      /\ EntriesOf(regions') = EntriesOf(regions)
      /\ Filed(regions')
  <2>1. regions' = Loaded(regions, image)
    BY DEF LoadFromFlashImage
  <2>2. QED
    BY <1>0, <1>1, <2>1, LoadedInCells
<1>3. reply' = IF m = Len(image) THEN Memory!Answer(<< >>) ELSE Memory!Failure("busError")
  <2>1. 0 .. (m - 1) = 0 .. (Len(image) - 1) <=> m = Len(image)
    <3>1. ASSUME m # Len(image)
          PROVE  m \in 0 .. (Len(image) - 1) /\ m \notin 0 .. (m - 1)
      BY <1>0, <3>1
    <3>2. QED
      BY <3>1
  <2>2. \/ m = Len(image) /\ Returns(<< >>)
        \/ m # Len(image) /\ Throws("busError")
    BY <1>1, <2>1 DEF LoadFromFlashImage
  <2>3. QED
    BY <2>2 DEF Returns, Throws, Answer, Failure, Memory!Answer, Memory!Failure
<1>4. /\ Memory!Requested("load") /\ call'.with = image
      /\ watchpointEncountered' = watchpointEncountered
  BY DEF LoadFromFlashImage, DataCall, Memory!Requested
<1>5. Memory!Load
  BY <1>2, <1>3, <1>4 DEF Memory!Load
<1>6. QED
  BY <1>2, <1>5 DEF Memory!Next

\* A new region holds zeroes.
LEMMA NewRegionFields ==
    ASSUME NEW base \in Nat, NEW size \in Nat
    PROVE  LET region == NewRegion(base, size)
           IN  /\ region.base = base /\ region.size = size /\ region.readOnly = FALSE
               /\ region.watchpoints = << >>
               /\ \A k \in 1 .. size : region.data[k] = 0
               /\ \A a \in Nat : Encloses(region, a, 1) => region.data[a - base + 1] = 0
<1>1. \A a \in Nat : a >= base /\ a + 1 <= base + size => a - base + 1 \in 1 .. size
  OBVIOUS
<1>2. QED
  BY <1>1 DEF NewRegion, Encloses

\* Creating a region adds a bank of zeroes.
LEMMA CreateRefines ==
    ASSUME ListInv(regions), Separate(regions'),
           NEW shape \in RegionShapes, CreateRegion(shape[1], shape[2])
    PROVE  Memory!Next /\ Filed(regions')
<1> DEFINE base == shape[1]
           size == shape[2]
           region == NewRegion(base, size)
           bank == Memory!Bank(base, size, FALSE)
           extra == {a \in Memory!Place : \E b \in {bank} : Memory!Within(b, a, 1)}
           zero(a) == IF a + 1 \in DOMAIN << >> THEN << >>[a + 1] ELSE 0
           cells == [a \in extra \cup DOMAIN CellsOf(regions) |->
                        IF a \in DOMAIN CellsOf(regions) THEN CellsOf(regions)[a] ELSE zero(a)]
<1>0. RegionsInv(regions) /\ Separate(regions) /\ Filed(regions)
  BY DEF ListInv
<1>1. base \in Address /\ base \in Nat /\ size \in Nat /\ size \in RegionSizes
  BY MemoryAssumption, ConstantTypes DEF RegionSizes
<1> HIDE DEF base, size
<1>2. RegionInv(region)
  BY <1>1, NewRegionInv
<1>3. /\ region.base = base /\ region.size = size /\ region.readOnly = FALSE
      /\ region.watchpoints = << >>
      /\ \A a \in Nat : Encloses(region, a, 1) => region.data[a - base + 1] = 0
  <2>1. /\ region.base = base /\ region.size = size /\ region.readOnly = FALSE
        /\ region.watchpoints = << >>
    BY DEF NewRegion
  <2>2. \A a \in Nat : Encloses(region, a, 1) => region.data[a - base + 1] = 0
    BY <1>1, NewRegionFields, ZenonT(60)
  <2>3. QED
    BY <2>1, <2>2
<1>4. /\ call' = RangeCall("createRegion", base, size)
      /\ watchpointEncountered' = watchpointEncountered
      /\ \/ regions' = Append(regions, region) /\ Returns(<< >>)
         \/ AllocationMayFail /\ Throws("outOfMemory") /\ regions' = regions
  BY DEF CreateRegion, base, size
<1> HIDE DEF region
<1>5. /\ Memory!Requested("createRegion") /\ call'.address = base /\ call'.size = size
      /\ call'.op = "createRegion"
  BY <1>4 DEF RangeCall, Memory!Requested
<1>6. CASE AllocationMayFail /\ Throws("outOfMemory") /\ regions' = regions
  BY <1>0, <1>4, <1>5, <1>6, OutOfMemoryRefines
<1>7. CASE regions' = Append(regions, region) /\ Returns(<< >>)
  <2>1. /\ BanksOf(regions') = BanksOf(regions) \cup {BankOf(region)}
        /\ \A a : a \in DOMAIN CellsOf(regions')
                    <=> a \in DOMAIN CellsOf(regions) \/ (a \in Nat /\ Encloses(region, a, 1))
        /\ \A a \in DOMAIN CellsOf(regions) : /\ ~Encloses(region, a, 1)
                                              /\ CellsOf(regions')[a] = CellsOf(regions)[a]
        /\ \A a \in Nat : Encloses(region, a, 1)
             => a + 1 < AddressSpace /\ CellsOf(regions')[a] = region.data[a - region.base + 1]
        /\ EntriesOf(regions') = EntriesOf(regions)
        /\ Filed(regions')
    BY <1>0, <1>2, <1>3, <1>7, AppendedRegion
  <2>2. BankOf(region) = bank
    BY <1>3 DEF BankOf, Memory!Bank
  <2>3. \A a : a \in extra <=> a \in Nat /\ Encloses(region, a, 1)
    <3>1. \A a \in Nat : Memory!Within(bank, a, 1) <=> Encloses(region, a, 1)
      BY <1>1, <1>3, <2>2, BankHolds
    <3>2. \A a : a \in Memory!Place <=> a \in Nat /\ a < AddressSpace
      BY AddressSpaceAssumption DEF Memory!Place
    <3>3. \A a \in Nat : a + 1 < AddressSpace => a < AddressSpace
      BY AddressSpaceAssumption
    <3> HIDE DEF bank
    <3>4. QED
      BY <2>1, <3>1, <3>2, <3>3
  <2> HIDE DEF extra, bank, zero
  <2>4. extra \cap DOMAIN CellsOf(regions) = {}
    BY <2>1, <2>3
  <2>5. CellsOf(regions') = cells
    <3>1. DOMAIN CellsOf(regions') = extra \cup DOMAIN CellsOf(regions)
      BY <2>1, <2>3
    <3>2. \A a \in extra \cup DOMAIN CellsOf(regions) :
            CellsOf(regions')[a] = IF a \in DOMAIN CellsOf(regions) THEN CellsOf(regions)[a] ELSE zero(a)
      <4>1. \A a : zero(a) = 0
        BY DEF zero
      <4>2. QED
        BY <1>3, <2>1, <2>3, <2>4, <4>1
    <3>3. CellsOf(regions') \in [DOMAIN CellsOf(regions') -> ByteValues]
      BY <1>0, <1>2, <1>7, AppendInv, CellsAreHeld, CellsType
    <3>4. CellsOf(regions') = [a \in DOMAIN CellsOf(regions') |-> CellsOf(regions')[a]]
      BY <3>3
    <3>5. QED
      BY <3>1, <3>2, <3>4
  <2>6. reply' = Memory!Answer(<< >>)
    BY <1>7 DEF Returns, Answer, Memory!Answer
  <2>7. Memory!AddBanks({bank}, << >>)
    BY <1>4, <2>1, <2>2, <2>4, <2>5, <2>6 DEF Memory!AddBanks, extra, zero
  <2>8. Memory!CreateRegion
    BY <1>5, <2>7 DEF Memory!CreateRegion, bank
  <2>9. QED
    BY <2>1, <2>8 DEF Memory!Next
<1>8. QED
  BY <1>4, <1>6, <1>7

\* A unit of an image ends within the image.
LEMMA UnitInImage ==
    ASSUME NEW size \in Nat, NEW k \in 0 .. (size - 1)
    PROVE  UnitStart(size, k) + UnitSize(size, k) <= size
<1> DEFINE words == (size - 1) \div 4
           word == k \div 4
<1>0. size - 1 \in Nat /\ k \in Nat
  OBVIOUS
<1>1. words \in Nat /\ 4 * words <= size - 1
  BY <1>0
<1>2. word \in Nat /\ 4 * word <= k
  BY <1>0
<1>3. CASE k < 4 * words
  <2>1. UnitStart(size, k) = 4 * word /\ UnitSize(size, k) = 4
    BY <1>3 DEF UnitStart, UnitSize
  <2> HIDE DEF words, word
  <2>2. word < words
    BY <1>1, <1>2, <1>3
  <2>3. QED
    BY <1>1, <1>2, <2>1, <2>2
<1>4. CASE ~(k < 4 * words)
  <2>1. UnitStart(size, k) = k /\ UnitSize(size, k) = 1
    BY <1>4 DEF UnitStart, UnitSize
  <2>2. QED
    BY <2>1
<1>5. QED
  BY <1>3, <1>4

\* A region of the size of an image at address 0 takes all of it.
LEMMA ImageFillsItsRegion ==
    ASSUME NEW list, RegionsInv(list), Len(list) = 1,
           NEW image \in Seq(ByteValues), list[1].base = 0, list[1].size = Len(image)
    PROVE  /\ Len(Loaded(list, image)) = 1
           /\ Loaded(list, image)[1].base = 0
           /\ Loaded(list, image)[1].size = Len(image)
           /\ Loaded(list, image)[1].watchpoints = list[1].watchpoints
           /\ \A j \in 1 .. Len(image) : Loaded(list, image)[1].data[j] = image[j]
<1> DEFINE size == Len(image)
           other == Loaded(list, image)
<1>0. list \in Seq(Region) /\ size \in Nat /\ 1 \in 1 .. Len(list)
  BY DEF RegionsInv
<1>1. ASSUME NEW k \in 0 .. (size - 1)
      PROVE  UnitRegion(list, size, k) = 1
  <2> DEFINE start == UnitStart(size, k)
             unit == UnitSize(size, k)
  <2>1. start \in Nat /\ unit \in Nat /\ start + unit <= size
    BY <1>0, UnitHoldsByte, UnitInImage
  <2> HIDE DEF start, unit
  <2>2. Encloses(list[1], start, unit)
    BY <1>0, <2>1 DEF Encloses
  <2>3. RegionIn(list, start, unit) # 0
    BY <1>0, <2>2, RegionInFinds
  <2>4. RegionIn(list, start, unit) \in 1 .. 1
    BY <1>0, <2>3, RegionInProperties
  <2>5. QED
    BY <2>4 DEF UnitRegion, start, unit
<1>2. \A k \in 0 .. (size - 1) : k \in LoadableBytes(list, size)
  <2>1. \A k \in 0 .. (size - 1) : \A j \in 0 .. k : j \in 0 .. (size - 1)
    BY <1>0
  <2>2. QED
    BY <1>1, <2>1 DEF LoadableBytes
<1>3. /\ Len(other) = 1
      /\ other[1].base = 0 /\ other[1].size = size
      /\ other[1].watchpoints = list[1].watchpoints
  BY <1>0, LoadedRegions DEF SameLayout
<1>4. ASSUME NEW j \in 1 .. size
      PROVE  other[1].data[j] = image[j]
  <2> DEFINE k == list[1].base + j - 1
  <2>1. k \in 0 .. (size - 1) /\ k + 1 = j
    BY <1>0
  <2>2. j \in 1 .. list[1].size
    BY <1>0
  <2>3. other[1].data[j] = IF k \in LoadableBytes(list, size) /\ UnitRegion(list, size, k) = 1
                           THEN image[k + 1] ELSE list[1].data[j]
    BY <1>0, <2>2, LoadedRegions DEF LoadedByte
  <2> HIDE DEF k, other
  <2>4. QED
    BY <1>1, <1>2, <2>1, <2>3
<1>5. QED
  BY <1>3, <1>4

\* A list of one region without entries.
LEMMA SingleRegion ==
    ASSUME NEW list, RegionsInv(list), Len(list) = 1, list[1].watchpoints = << >>,
           list[1].base + list[1].size < AddressSpace
    PROVE  /\ Separate(list) /\ Filed(list)
           /\ BanksOf(list) = {BankOf(list[1])}
           /\ EntriesOf(list) = {}
           /\ \A a : a \in DOMAIN CellsOf(list) <=> a \in Nat /\ Encloses(list[1], a, 1)
<1>1. \A i : i \in 1 .. Len(list) <=> i = 1
  OBVIOUS
<1>2. Separate(list)
  BY <1>1 DEF Separate
<1>3. Len(list[1].watchpoints) = 0 /\ ToSet(list[1].watchpoints) = {}
  BY DEF ToSet
<1>4. Filed(list)
  BY <1>1, <1>3 DEF Filed
<1>5. BanksOf(list) = {BankOf(list[1])}
  <2>1. \A bank : bank \in BanksOf(list) <=> \E i \in 1 .. Len(list) : bank = BankOf(list[i])
    BY BanksAreRegions
  <2>2. \A bank : bank \in BanksOf(list) <=> bank = BankOf(list[1])
    BY <1>1, <2>1
  <2>3. QED
    BY <2>2
<1>6. EntriesOf(list) = {}
  <2>1. \A entry : entry \notin EntriesOf(list)
    BY <1>1, <1>3, EntriesAreHeld
  <2>2. QED
    BY <2>1
<1>7. \A a : a \in DOMAIN CellsOf(list) <=> a \in Nat /\ Encloses(list[1], a, 1)
  BY <1>1, <1>2, CellsAreHeld
<1>8. QED
  BY <1>2, <1>4, <1>5, <1>6, <1>7

\* The banks and the cells that are built from an image.
ImageBanks(image, base, size) ==
    {Memory!Bank(0, Len(image), TRUE), Memory!Bank(base, size, FALSE)}

ImageCells(image, banks) ==
    [a \in {a \in Memory!Place : \E b \in banks : Memory!Within(b, a, 1)} |->
        IF a + 1 \in DOMAIN image THEN image[a + 1] ELSE 0]

\* What is put behind a list of one leaves that one where it is.
LEMMA SecondOfTwo ==
    ASSUME NEW S, NEW list \in Seq(S), NEW region \in S, Len(list) = 1
    PROVE  Append(list, region)[1] = list[1] /\ Len(Append(list, region)) = 2
<1> DEFINE longer == Append(list, region)
<1>1. Len(longer) = Len(list) + 1 /\ \A i \in 1 .. Len(list) : longer[i] = list[i]
  BY AppendProperties, ZenonT(60)
<1> HIDE DEF longer
<1>2. Len(longer) = 2 /\ longer[1] = list[1]
  BY <1>1
<1>3. QED
  BY <1>2 DEF longer

\* A protected region that holds an image, and a region of zeroes after it.
LEMMA FlashAndRam ==
    ASSUME NEW list, RegionsInv(list), Len(list) = 1,
           NEW image \in Seq(ByteValues), NEW base \in Address, NEW size \in RegionSizes,
           list[1].base = 0, list[1].size = Len(image), list[1].readOnly = TRUE,
           list[1].watchpoints = << >>,
           \A j \in 1 .. Len(image) : list[1].data[j] = image[j],
           Separate(Append(list, NewRegion(base, size)))
    PROVE  LET other == Append(list, NewRegion(base, size))
           IN  /\ BanksOf(other) = ImageBanks(image, base, size)
               /\ CellsOf(other) = ImageCells(image, ImageBanks(image, base, size))
               /\ EntriesOf(other) = {}
               /\ Filed(other)
<1> DEFINE ram == NewRegion(base, size)
           other == Append(list, ram)
           flashBank == Memory!Bank(0, Len(image), TRUE)
           ramBank == Memory!Bank(base, size, FALSE)
           extra == {a \in Memory!Place : \E b \in {flashBank, ramBank} : Memory!Within(b, a, 1)}
           cell(a) == IF a + 1 \in DOMAIN image THEN image[a + 1] ELSE 0
<1>1. base \in Nat /\ size \in Nat /\ Len(image) \in Nat
  BY ConstantTypes
<1>2. RegionInv(ram)
  BY NewRegionInv
<1>3. /\ ram.base = base /\ ram.size = size /\ ram.readOnly = FALSE /\ ram.watchpoints = << >>
  BY DEF NewRegion
<1>4. \A a \in Nat : Encloses(ram, a, 1) => ram.data[a - base + 1] = 0
  BY <1>1, NewRegionFields
<1> HIDE DEF ram
<1>5. list[1].base + list[1].size < AddressSpace
  <2>1. list \in Seq(Region)
    BY DEF RegionsInv
  <2>2. ram \in Region
    BY <1>2 DEF RegionInv
  <2>3. Append(list, ram)[1] = list[1] /\ Len(Append(list, ram)) = 2
    BY <2>1, <2>2, SecondOfTwo
  <2> DEFINE longer == Append(list, ram)
  <2>4. Separate(longer)
    BY DEF ram
  <2>5. 1 \in 1 .. Len(longer) /\ longer[1] = list[1]
    BY <2>3
  <2> HIDE DEF longer
  <2>6. QED
    BY <2>4, <2>5 DEF Separate
<1>6. /\ Separate(list) /\ Filed(list)
      /\ BanksOf(list) = {BankOf(list[1])}
      /\ EntriesOf(list) = {}
      /\ \A a : a \in DOMAIN CellsOf(list) <=> a \in Nat /\ Encloses(list[1], a, 1)
  BY <1>5, SingleRegion
<1>7. Separate(Append(list, ram))
  BY DEF ram
<1>8. /\ RegionsInv(other)
      /\ BanksOf(other) = BanksOf(list) \cup {BankOf(ram)}
      /\ \A a : a \in DOMAIN CellsOf(other)
                  <=> a \in DOMAIN CellsOf(list) \/ (a \in Nat /\ Encloses(ram, a, 1))
      /\ \A a \in DOMAIN CellsOf(list) : /\ ~Encloses(ram, a, 1)
                                         /\ CellsOf(other)[a] = CellsOf(list)[a]
      /\ \A a \in Nat : Encloses(ram, a, 1)
           => a + 1 < AddressSpace /\ CellsOf(other)[a] = ram.data[a - ram.base + 1]
      /\ EntriesOf(other) = EntriesOf(list)
      /\ Filed(other)
  BY <1>2, <1>3, <1>6, <1>7, AppendedRegion
<1>9. BankOf(list[1]) = flashBank /\ BankOf(ram) = ramBank
  BY <1>3 DEF BankOf, Memory!Bank
<1>10. BanksOf(other) = {flashBank, ramBank}
  BY <1>6, <1>8, <1>9
<1>11. \A a \in Nat : /\ Memory!Within(flashBank, a, 1) <=> Encloses(list[1], a, 1)
                      /\ Memory!Within(ramBank, a, 1) <=> Encloses(ram, a, 1)
  <2>1. list[1].base \in Nat /\ list[1].size \in Nat /\ ram.base \in Nat /\ ram.size \in Nat
    BY <1>1, <1>3
  <2>2. \A a \in Nat : Memory!Within(BankOf(list[1]), a, 1) <=> Encloses(list[1], a, 1)
    BY <2>1, BankHolds
  <2>3. \A a \in Nat : Memory!Within(BankOf(ram), a, 1) <=> Encloses(ram, a, 1)
    BY <2>1, BankHolds
  <2>4. QED
    BY <1>9, <2>2, <2>3
<1>12. \A a \in Nat : Encloses(list[1], a, 1) <=> a + 1 \in DOMAIN image
  BY <1>1 DEF Encloses
<1> HIDE DEF flashBank, ramBank
<1>13. \A a : a \in extra <=> a \in DOMAIN CellsOf(other)
  <2>1. \A a : a \in Memory!Place <=> a \in Nat /\ a < AddressSpace
    BY AddressSpaceAssumption DEF Memory!Place
  <2>2. \A a \in Nat : Encloses(list[1], a, 1) => a < AddressSpace
    BY <1>1, <1>5, AddressSpaceAssumption DEF Encloses
  <2>3. \A a \in Nat : a + 1 < AddressSpace => a < AddressSpace
    BY AddressSpaceAssumption
  <2>4. \A a \in Nat : Encloses(ram, a, 1) => a < AddressSpace
    BY <1>8, <2>3
  <2>5. QED
    BY <1>6, <1>8, <1>11, <2>1, <2>2, <2>4
<1>14. ASSUME NEW a \in extra
       PROVE  CellsOf(other)[a] = cell(a)
  <2>0. a \in Nat /\ (Encloses(list[1], a, 1) \/ Encloses(ram, a, 1))
    BY <1>6, <1>8, <1>13
  <2>1. CASE Encloses(list[1], a, 1)
    <3>1. CellsOf(other)[a] = CellsOf(list)[a]
      BY <1>6, <1>8, <2>0, <2>1
    <3>2. CellsOf(list)[a] = list[1].data[a - list[1].base + 1]
      <4>1. 1 \in 1 .. Len(list)
        OBVIOUS
      <4>2. a \in DOMAIN CellsOf(list) /\ a \in Nat /\ Separate(list)
        BY <1>6, <2>0, <2>1
      <4>3. QED
        BY <2>1, <4>1, <4>2, CellOfRegion
    <3>3. a - list[1].base + 1 = a + 1 /\ a + 1 \in 1 .. Len(image)
      BY <1>1, <2>0, <2>1 DEF Encloses
    <3>4. QED
      BY <3>1, <3>2, <3>3
  <2>2. CASE ~Encloses(list[1], a, 1)
    <3>1. a + 1 \notin DOMAIN image
      BY <1>12, <2>0, <2>2
    <3>2. CellsOf(other)[a] = ram.data[a - base + 1]
      BY <1>3, <1>8, <2>0, <2>2
    <3>3. QED
      BY <1>4, <2>0, <2>2, <3>1, <3>2
  <2>3. QED
    BY <2>1, <2>2
<1>15. CellsOf(other) = [a \in extra |-> cell(a)]
  <2>1. CellsOf(other) \in [DOMAIN CellsOf(other) -> ByteValues]
    BY <1>7, <1>8, CellsAreHeld, CellsType
  <2>2. DOMAIN CellsOf(other) = extra
    BY <1>13
  <2> HIDE DEF other, extra, cell
  <2>3. QED
    BY <1>14, <2>1, <2>2
<1>16. ImageBanks(image, base, size) = {flashBank, ramBank}
  BY DEF ImageBanks, flashBank, ramBank
<1>17. ImageCells(image, {flashBank, ramBank}) = [a \in extra |-> cell(a)]
  BY DEF ImageCells
<1> HIDE DEF other, flashBank, ramBank, extra, cell
<1>18. BanksOf(other) = ImageBanks(image, base, size)
       /\ CellsOf(other) = ImageCells(image, ImageBanks(image, base, size))
  BY <1>10, <1>15, <1>16, <1>17
<1>19. QED
  BY <1>6, <1>8, <1>18 DEF ram, other

\* The base and the size of the RAM of an image.
LEMMA RamOfImage ==
    ASSUME NEW flash \in FlashImages
    PROVE  /\ RamBase(flash[2]) \in Address /\ RamBase(flash[2]) \in 0 .. flash[2]
           /\ flash[2] - RamBase(flash[2]) \in RegionSizes
<1>1. flash[2] \in Nat /\ RamAlignment \in Nat \ {0}
  BY ConstantTypes, MemoryAssumption
<1>2. flash[2] % RamAlignment \in Nat /\ flash[2] % RamAlignment <= flash[2]
  BY <1>1
<1>3. RamBase(flash[2]) \in 0 .. flash[2]
  BY <1>1, <1>2 DEF RamBase
<1>4. QED
  BY <1>3, ConstantTypes DEF RegionSizes

\* The FLASH region of an image, before the RAM is created.
FlashFor(image) ==
    LET list == Loaded(Append(<< >>, NewRegion(FlashBase, Len(image))), image)
        i    == RegionIn(list, FlashBase, 1)
    IN  [list EXCEPT ![i] = WithReadCounts(list[i])]

\* It holds the image and is protected.
LEMMA FlashOfImage ==
    ASSUME NEW image \in Seq(ByteValues), Len(image) \in RegionSizes, Len(image) >= 4
    PROVE  LET counted == FlashFor(image)
           IN  /\ RegionsInv(counted) /\ Len(counted) = 1
               /\ counted[1].base = 0 /\ counted[1].size = Len(image)
               /\ counted[1].readOnly = TRUE
               /\ counted[1].watchpoints = << >>
               /\ \A j \in 1 .. Len(image) : counted[1].data[j] = image[j]
<1> DEFINE new == NewRegion(FlashBase, Len(image))
           first == Append(<< >>, new)
           list == Loaded(first, image)
           i == RegionIn(list, FlashBase, 1)
           region == WithReadCounts(list[i])
           counted == [list EXCEPT ![i] = region]
<1>1. FlashBase \in Address /\ FlashBase = 0 /\ Len(image) \in Nat
  BY ConstantTypes, AddressSpaceAssumption DEF FlashBase, Address
<1>2. RegionInv(new) /\ new.base = 0 /\ new.size = Len(image) /\ new.watchpoints = << >>
  BY <1>1, NewRegionInv DEF NewRegion
<1> HIDE DEF new
<1>3. RegionsInv(first) /\ Len(first) = 1 /\ first[1] = new
  <2>1. RegionsInv(first)
    BY <1>2, EmptyInv, AppendInv
  <2>2. Len(first) = 1 /\ first[1] = new
    OBVIOUS
  <2>3. QED
    BY <2>1, <2>2
<1> HIDE DEF first
<1>4. /\ RegionsInv(list) /\ Len(list) = 1
      /\ list[1].base = 0 /\ list[1].size = Len(image)
      /\ list[1].watchpoints = << >>
      /\ \A j \in 1 .. Len(image) : list[1].data[j] = image[j]
  BY <1>2, <1>3, ImageFillsItsRegion, LoadedInv
<1> HIDE DEF list
<1>5. list \in Seq(Region) /\ 1 \in 1 .. Len(list) /\ RegionInv(list[1])
  BY <1>4 DEF RegionsInv
<1>6. i = 1
  <2>1. Encloses(list[1], FlashBase, 1)
    BY <1>1, <1>4 DEF Encloses
  <2>2. i # 0
    BY <1>5, <2>1, RegionInFinds
  <2>3. i \in 1 .. Len(list)
    BY <1>5, <2>2, RegionInProperties
  <2> HIDE DEF i
  <2>4. QED
    BY <1>4, <2>3
<1> HIDE DEF i
<1>7. /\ RegionInv(region)
      /\ region.base = list[1].base /\ region.size = list[1].size
      /\ region.readOnly = TRUE /\ region.data = list[1].data
      /\ region.watchpoints = list[1].watchpoints
  <2>1. list[1] \in Region
    BY <1>5 DEF RegionInv
  <2>2. RegionInv(WithReadCounts(list[1]))
    BY <1>5, ReadOnlyInv
  <2>3. QED
    BY <1>6, <2>1, <2>2 DEF WithReadCounts, MarkedReadOnly, Region
<1> HIDE DEF region
<1>8. counted = Replaced(list, 1, region)
  BY <1>6 DEF Replaced
<1>9. RegionsInv(counted)
  BY <1>4, <1>5, <1>6, <1>7, ReplaceInv
<1>10. Len(counted) = 1 /\ counted[1] = region
  <2>1. Len(Replaced(list, 1, region)) = Len(list) /\ Replaced(list, 1, region)[1] = region
    BY <1>4, <1>5, <1>7, ReplacedRegions DEF SameLayout
  <2>2. QED
    BY <1>4, <1>8, <2>1
<1> HIDE DEF counted
<1>11. QED
  <2>1. counted = FlashFor(image)
    BY DEF FlashFor, counted, region, i, list, first, new
  <2>2. QED
    BY <1>4, <1>7, <1>9, <1>10, <2>1

\* Building the regions from an image adds two banks, of which the first holds
\* the image, or changes nothing.
LEMMA CreateFromImageRefines ==
    ASSUME ListInv(regions), regions = << >>, Separate(regions'),
           NEW flash \in FlashImages, NEW image \in Bytes(flash[1]),
           CreateRegionsFromFlashImage(image, flash[2])
    PROVE  Memory!Next /\ Filed(regions')
<1> DEFINE stackPointer == flash[2]
           base == RamBase(stackPointer)
           size == stackPointer - base
           withFlash == Loaded(Append(regions, NewRegion(FlashBase, Len(image))), image)
           i == RegionIn(withFlash, FlashBase, 1)
           marked == [withFlash EXCEPT ![i] = MarkedReadOnly(withFlash[i])]
           counted == [withFlash EXCEPT ![i] = WithReadCounts(withFlash[i])]
           banks == ImageBanks(image, base, size)
           extra == {a \in Memory!Place : \E b \in banks : Memory!Within(b, a, 1)}
<1>0. RegionsInv(regions) /\ Filed(regions)
  BY DEF ListInv
<1>1. image \in Seq(ByteValues) /\ Len(image) \in RegionSizes
  BY ImageType DEF RegionSizes
<1>2. base \in Address /\ base \in 0 .. stackPointer /\ size \in RegionSizes
  BY RamOfImage
<1>3. /\ call' = DataCall("createFromImage", stackPointer, image)
      /\ watchpointEncountered' = watchpointEncountered
      /\ \/ Len(image) < 4 /\ Throws("bufferOverrun") /\ regions' = regions
         \/ Len(image) >= 4 /\ Returns(<< >>) /\ regions' = Append(counted, NewRegion(base, size))
         \/ /\ Len(image) >= 4 /\ AllocationMayFail /\ Throws("outOfMemory")
  BY DEF CreateRegionsFromFlashImage
<1>4. reply'.exception # "none" => regions' = << >>
  BY <1>0, CreateFromImageInv
<1>5. /\ Memory!Requested("createFromImage") /\ call'.with = image
      /\ call'.address = stackPointer /\ call'.op = "createFromImage"
  BY <1>3 DEF DataCall, Memory!Requested
<1> HIDE DEF marked, counted, base, size, stackPointer
<1>6. CASE Len(image) < 4 /\ Throws("bufferOverrun") /\ regions' = regions
  <2>1. Memory!CreateFromImage
    BY <1>3, <1>5, <1>6 DEF Memory!CreateFromImage, Throws, Failure, Memory!Failure
  <2>2. QED
    BY <1>0, <1>6, <2>1 DEF Memory!Next
<1>7. CASE AllocationMayFail /\ Throws("outOfMemory")
  <2>1. regions' = regions
    BY <1>4, <1>7 DEF Throws, Failure
  <2>2. QED
    BY <1>0, <1>3, <1>5, <1>7, <2>1, OutOfMemoryRefines
<1>8. CASE Len(image) >= 4 /\ Returns(<< >>) /\ regions' = Append(counted, NewRegion(base, size))
  <2>1. /\ RegionsInv(counted) /\ Len(counted) = 1
        /\ counted[1].base = 0 /\ counted[1].size = Len(image)
        /\ counted[1].readOnly = TRUE
        /\ counted[1].watchpoints = << >>
        /\ \A j \in 1 .. Len(image) : counted[1].data[j] = image[j]
    <3>1. counted = FlashFor(image)
      BY DEF FlashFor, counted
    <3>2. QED
      BY <1>1, <1>8, <3>1, FlashOfImage
  <2>2. Separate(Append(counted, NewRegion(base, size)))
    BY <1>8
  <2>3. /\ BanksOf(regions') = banks
        /\ CellsOf(regions') = ImageCells(image, banks)
        /\ EntriesOf(regions') = {}
        /\ Filed(regions')
    <3> DEFINE other == Append(counted, NewRegion(base, size))
    <3>1. /\ BanksOf(other) = banks
          /\ CellsOf(other) = ImageCells(image, banks)
          /\ EntriesOf(other) = {}
          /\ Filed(other)
      BY <1>1, <1>2, <2>1, <2>2, FlashAndRam
    <3>2. QED
      BY <1>8, <3>1
  <2>4. BanksOf(regions) = {} /\ CellsOf(regions) = << >> /\ EntriesOf(regions) = {}
    BY EmptyList
  <2>5. DOMAIN CellsOf(regions) = {}
    BY <2>4
  <2>6. reply' = Memory!Answer(<< >>)
    BY <1>8 DEF Returns, Answer, Memory!Answer
  <2> HIDE DEF banks, extra
  <2>7. CellsOf(regions') =
          [a \in extra \cup DOMAIN CellsOf(regions) |->
              IF a \in DOMAIN CellsOf(regions) THEN CellsOf(regions)[a]
              ELSE IF a + 1 \in DOMAIN image THEN image[a + 1] ELSE 0]
    BY <2>3, <2>5 DEF ImageCells, extra
  <2>8. extra \cap DOMAIN CellsOf(regions) = {} /\ BanksOf(regions') = BanksOf(regions) \cup banks
    BY <2>3, <2>4, <2>5
  <2>9. Memory!AddBanks(banks, image)
    BY <1>3, <2>3, <2>4, <2>6, <2>7, <2>8 DEF Memory!AddBanks, extra
  <2>10. Memory!CreateFromImage
    <3>1. Memory!AddBanks({Memory!Bank(0, Len(image), TRUE),
                           Memory!Bank(base, stackPointer - base, FALSE)}, image)
      BY <2>9 DEF banks, ImageBanks, size
    <3>2. QED
      BY <1>2, <1>5, <1>8, <3>1 DEF Memory!CreateFromImage
  <2>11. QED
    BY <2>3, <2>10 DEF Memory!Next
<1>9. QED
  BY <1>3, <1>6, <1>7, <1>8

-----------------------------------------------------------------------------
(* The refinement.                                                          *)

RInv == IInv /\ Separate(regions) /\ Filed(regions)

\* What RegionsSeparate says of the list that a step leaves.
LEMMA SeparateAfter ==
    ASSUME RegionsInv(regions'), RegionsSeparate'
    PROVE  Separate(regions')
<1>1. DOMAIN regions' = 1 .. Len(regions')
  BY RegionOfList
<1>2. QED
  BY <1>1 DEF RegionsSeparate, Separate

\* Every step of the simulated memory that keeps the regions separate is a step
\* of WatchedMemory, and keeps every entry where a lookup finds it.
LEMMA ActionRefines ==
    ASSUME RInv, Next, RegionsInv(regions'), Separate(regions')
    PROVE  Memory!Next /\ Filed(regions')
<1>0. ListInv(regions) /\ Filed(regions)
  BY DEF RInv, IInv, ListInv
<1>1. ASSUME Reinitialise \/ Uninit
      PROVE  Memory!Next /\ Filed(regions')
  BY <1>1, DiscardRefines
<1>2. ASSUME NEW shape \in RegionShapes, CreateRegion(shape[1], shape[2])
      PROVE  Memory!Next /\ Filed(regions')
  BY <1>0, <1>2, CreateRefines
<1>3. ASSUME NEW shape \in RegionShapes, MakeRegionReadOnly(shape[1])
      PROVE  Memory!Next /\ Filed(regions')
  <2>1. shape[1] \in Address
    BY MemoryAssumption
  <2>2. QED
    BY <1>0, <1>3, <2>1, ProtectRefines
<1>4. ASSUME NEW flash \in FlashImages, NEW image \in Bytes(flash[1]), LoadFromFlashImage(image)
      PROVE  Memory!Next /\ Filed(regions')
  BY <1>0, <1>4, ImageType, LoadRefines
<1>5. ASSUME regions = << >>, NEW flash \in FlashImages, NEW image \in Bytes(flash[1]),
             CreateRegionsFromFlashImage(image, flash[2])
      PROVE  Memory!Next /\ Filed(regions')
  BY <1>0, <1>5, CreateFromImageRefines
<1>6. ASSUME NEW address \in Address, NEW size \in WatchSizes, NEW type \in WatchTypes,
             SetWatchpoint(address, size, type) \/ ClearWatchpoint(address, size, type)
      PROVE  Memory!Next /\ Filed(regions')
  BY <1>0, <1>6, WatchRefines
<1>7. ASSUME WasWatchpointEncountered \/ \E address \in Address : GetFlashReadCount(address)
      PROVE  Memory!Next /\ Filed(regions')
  BY <1>0, <1>7, AskRefines, ReadCountRefines
<1>8. AccessSizes \subseteq Nat \ {0}
  BY MemoryAssumption
<1>9. ASSUME NEW address \in Address, NEW n \in AccessSizes,
             Read(address, n) \/ MapForRead(address, n)
      PROVE  Memory!Next /\ Filed(regions')
  <2>1. n \in Nat \ {0}
    BY <1>8
  <2>2. watchpointEncountered \in Nat
    BY DEF RInv, IInv
  <2>3. QED
    BY <1>0, <1>9, <2>1, <2>2, ReadRefines, MapForReadRefines
<1>10. ASSUME NEW address \in Address, NEW n \in AccessSizes, NEW bytes \in Bytes(n),
              Write(address, bytes)
       PROVE  Memory!Next /\ Filed(regions')
  <2>1. n \in Nat \ {0}
    BY <1>8
  <2>2. bytes \in Seq(ByteValues) /\ Len(bytes) = n
    BY <2>1 DEF Bytes
  <2>3. QED
    BY <1>0, <1>10, <2>1, <2>2, WriteRefines
<1>11. ASSUME NEW address \in Address, NEW n \in AccessSizes, NEW m \in 0 .. n,
              NEW bytes \in Bytes(m), MapForWrite(address, n, bytes)
       PROVE  Memory!Next /\ Filed(regions')
  <2>1. n \in Nat \ {0}
    BY <1>8
  <2>2. m \in Nat /\ m <= n
    BY <2>1
  <2>3. bytes \in Seq(ByteValues) /\ Len(bytes) = m
    BY <2>2 DEF Bytes
  <2>4. QED
    BY <1>0, <1>11, <2>1, <2>2, <2>3, MapForWriteRefines
<1>12. QED
  BY <1>1, <1>2, <1>3, <1>4, <1>5, <1>6, <1>7, <1>9, <1>10, <1>11 DEF Next

\* The invariant of the refinement, and the steps that change nothing.
LEMMA StepRefines ==
    RInv /\ [Next /\ RegionsSeparate']_vars => RInv' /\ [Memory!Next]_(Memory!avars)
<1>1. ASSUME RInv, UNCHANGED vars
      PROVE  RInv' /\ UNCHANGED Memory!avars
  <2>1. /\ regions' = regions /\ watchpointEncountered' = watchpointEncountered
        /\ call' = call /\ reply' = reply
    BY <1>1 DEF vars
  <2>2. UNCHANGED Memory!avars
    BY <2>1 DEF Memory!avars
  <2>3. QED
    BY <1>1, <2>1, <2>2 DEF RInv, IInv
<1>2. ASSUME RInv, Next, RegionsSeparate'
      PROVE  RInv' /\ Memory!Next
  <2>1. IInv'
    BY <1>2, StepInv DEF RInv
  <2>2. RegionsInv(regions')
    BY <2>1 DEF IInv
  <2>3. Separate(regions')
    BY <1>2, <2>2, SeparateAfter
  <2>4. Memory!Next /\ Filed(regions')
    BY <1>2, <2>2, <2>3, ActionRefines
  <2>5. QED
    BY <2>1, <2>3, <2>4 DEF RInv
<1>3. QED
  BY <1>1, <1>2

\* MemorySim.c starts as an empty memory.
LEMMA InitRefines == Init => RInv /\ Memory!Init
<1> SUFFICES ASSUME Init
             PROVE  RInv /\ Memory!Init
  OBVIOUS
<1>1. regions = << >> /\ watchpointEncountered = 0
      /\ call = PlainCall("init") /\ reply = Answer(<< >>)
  BY DEF Init
<1>2. /\ BanksOf(regions) = {} /\ CellsOf(regions) = << >> /\ EntriesOf(regions) = {}
      /\ Filed(regions)
  BY <1>1, EmptyList
<1>3. Separate(regions)
  BY <1>1 DEF Separate
<1>4. Memory!Init
  BY <1>1, <1>2 DEF Memory!Init, Memory!PlainCall, Memory!Answer, PlainCall, Answer
<1>5. QED
  BY <1>2, <1>3, <1>4, InitInv DEF RInv

\* An entry of an array is found again by a lookup of its own bytes, so that a
\* clear reaches the array that a set put it into.
THEOREM EntriesAreFiled == SeparateSpec => []Filed(regions)
<1>1. RInv => Filed(regions)
  BY DEF RInv
<1>2. QED
  BY <1>1, InitRefines, StepRefines, PTL DEF SeparateSpec

\* MemorySim.c implements WatchedMemory for every set of regions that do not
\* overlap and do not reach the last address: clients see one flat memory with a
\* set of breakpoints and watchpoints, whatever the order of the regions in the
\* list, the order of the entries in the arrays and the exits of the scan.
THEOREM MemoryRefinement == SeparateSpec => ImplementsWatchedMemory
  BY InitRefines, StepRefines, PTL DEF SeparateSpec, ImplementsWatchedMemory, Memory!Spec
=============================================================================
