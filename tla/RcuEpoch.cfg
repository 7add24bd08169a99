SPECIFICATION Spec
CONSTANTS
    NCpu = 2
    Objects = {a}
    NoObject = NoObject
    MaxEpoch = 2
    MaxNest = 1
INVARIANTS
    TypeOK
    NoReaderHoldsReclaimed
    CompletedExcludesReaders
