SPECIFICATION Spec
CONSTANTS
    MaxThreads = 1
    MaxBytes = 1
INVARIANT
    OpenedMeansConnected
CHECK_DEADLOCK FALSE
