\* Steps and memory accesses of a real device over a line with one fault.
SPECIFICATION Spec
CONSTANTS
    UIntBytes = 1
    BufferSize = 9
    Damages = {35, 36, 48}
    MaxFaults = 1
    Instructions <- Program
    Cells <- OneCell
    Vector = 44
    Handler = 64
    Status = 208
    Starts <- RomAndRam
    MemoryRequests <- Accesses
    RamBase = 128
    RamEnd = 160
    MaxRoutines = 2
INVARIANTS
    TypeOK
    StepsTellWhatRan
    FailuresHaveACause
PROPERTIES
    ImplementsRemoteCall
    RoutinesEnd
CHECK_DEADLOCK FALSE
