\* The sorted arrays: overlapping regions, every kind of entry, failing growth.
SPECIFICATION Spec
CONSTANTS
    AddressSpace = 8
    RegionShapes <- TopShape
    FlashImages <- NoImages
    RamAlignment = 4
    ByteValues <- ZeroByte
    AccessSizes = {1, 2, 4}
    WatchSizes = {2, 3}
    WatchTypes = {"breakpoint", "write", "readWrite"}
    ReadCountModulus = 1
    MaxRegions = 1
    MaxWatchpoints = 3
    MaxEncountered = 3
    AllocationMayFail = TRUE
VIEW Memory_View
INVARIANTS
    TypeOK
    ArraysSorted
    ArraysHaveNoDuplicates
    ArraysFitAllocation
    ScansAreExact
