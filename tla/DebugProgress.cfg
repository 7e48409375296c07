SPECIFICATION Spec
CONSTANTS
    AddressSpace = 10
    CodeSize = 6
    DataBase = 8
    DataSize = 2
    MaxEncountered = 1
    MaxRan = 2
    AllocationMayFail = FALSE
    Programs <- Loops
    BranchTargets <- Start
    DataAccesses <- DataOnly
    GdbAccesses <- DataOnly
    Breakpoints <- OneKind
    Watchpoints <- OneReader
    GdbCounters <- Second
PROPERTIES
    InterruptsStop
    StepsComeBack
