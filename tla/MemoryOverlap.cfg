\* Regions that overlap, read-only ones, writes that one of them takes.
SPECIFICATION Spec
CONSTANTS
    AddressSpace = 5
    RegionShapes <- OverlappingShapes
    FlashImages <- ShortImage
    RamAlignment = 4
    ByteValues <- BothBytes
    AccessSizes = {1, 2}
    WatchSizes = {0, 2}
    WatchTypes = {"breakpoint"}
    ReadCountModulus = 1
    MaxRegions = 2
    MaxWatchpoints = 1
    MaxEncountered = 1
    AllocationMayFail = TRUE
VIEW Memory_View
INVARIANTS
    EntriesInTheirRegion
    CountedReadsInBounds
PROPERTIES
    ProtectedBytesStay
