\* Breakpoints and watchpoints of neighbouring regions are one set of entries.
SPECIFICATION SeparateSpec
CONSTANTS
    AddressSpace = 5
    RegionShapes <- NeighbourShapes
    FlashImages <- NoImages
    RamAlignment = 4
    ByteValues <- ZeroByte
    AccessSizes = {1, 2}
    WatchSizes = {1, 2}
    WatchTypes = {"breakpoint", "readWrite"}
    ReadCountModulus = 1
    MaxRegions = 2
    MaxWatchpoints = 2
    MaxEncountered = 2
    AllocationMayFail = FALSE
VIEW Memory_View
PROPERTIES
    ImplementsWatchedMemory
