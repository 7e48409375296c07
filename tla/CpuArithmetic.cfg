\* Every pair of words: comparisons, sums of two words, shifts by any amount.
SPECIFICATION Spec
CONSTANTS
    Width = 4
    SignBit = 8
    ByteRange = 2
    ShiftRange = 8
    LowRegisters <- Low
    Instructions <- DataInstructions
    Code = {0}
    Readable <- NoAddresses
    Writable <- NoAddresses
    InitialContexts <- DataContexts
    MaxSteps = 1
INVARIANTS
    ComparisonsDecide
    DoubleWordsAdd
    ShiftsAreRepeated
