\* Bytes of an image and of two regions are one flat memory; allocations fail.
SPECIFICATION SeparateSpec
CONSTANTS
    AddressSpace = 7
    RegionShapes <- ImageShapes
    FlashImages <- SmallImages
    RamAlignment = 5
    ByteValues <- BothBytes
    AccessSizes = {1, 2}
    WatchSizes = {}
    WatchTypes <- NoTypes
    ReadCountModulus = 1
    MaxRegions = 2
    MaxWatchpoints = 0
    MaxEncountered = 0
    AllocationMayFail = TRUE
VIEW Memory_View
PROPERTIES
    ImplementsWatchedMemory
    FailureLeavesNoRegion
