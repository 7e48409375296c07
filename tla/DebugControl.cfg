SPECIFICATION Safety
CONSTANTS
    AddressSpace = 10
    CodeSize = 6
    DataBase = 8
    DataSize = 2
    MaxEncountered = 1
    MaxRan = 2
    AllocationMayFail = TRUE
    Programs <- Mixed
    BranchTargets <- StartOrThird
    DataAccesses <- EveryAccess
    GdbAccesses <- DataOrCode
    Breakpoints <- BothKinds
    Watchpoints <- DataAndCode
    GdbCounters <- Second
VIEW View
INVARIANTS
    TypeOK
    StopsHaveACause
    StepsAreSingle
    EncountersStopTheProgram
PROPERTIES
    BreakpointsHold
    NoEncounterIsLost
CHECK_DEADLOCK FALSE
