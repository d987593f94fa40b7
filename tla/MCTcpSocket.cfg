SPECIFICATION FairSpec
CONSTANTS
    MaxThreads = 2
    MaxBytes = 2
INVARIANTS
    TypeOK
    OneReader
    BytesInOrder
    NoByteForgotten
    EndAfterData
PROPERTY
    CloseReturns
CHECK_DEADLOCK FALSE
