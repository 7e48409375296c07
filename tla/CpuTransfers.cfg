\* Faults in the middle of transfers, calls and returns, every kind of instruction.
SPECIFICATION Spec
CONSTANTS
    Width = 8
    SignBit = 128
    ByteRange = 4
    ShiftRange = 16
    LowRegisters <- Low
    Instructions <- TransferInstructions
    Code <- CodeAddresses
    Readable <- DataAddresses
    Writable <- RamAddresses
    InitialContexts <- TransferContexts
    MaxSteps = 2
INVARIANTS
    TypeOK
    FaultsCanBeRetried
    CallsReturn
