SPECIFICATION Spec
CONSTANTS
    MaxFailures = 1
    RamPage = 64
    MaxPort = 4
    PacketLength = 3
    Files <- MCFiles
    BaseName <- MCBaseName
    Under <- MCUnder
    Looks <- MCLooks
    Sessions <- MCSessions
INVARIANTS
    TypeOK
    NothingLeaks
    ExitCodeIsTrue
    CoverageIsExact
    KeptLinesAreLive
    StreamsInOrder
    NoPacketIsSplit
PROPERTIES
    Ends
CHECK_DEADLOCK FALSE
