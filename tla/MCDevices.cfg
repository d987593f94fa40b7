SPECIFICATION Spec
CONSTANTS
    MaxClients = 2
    MaxPieces = 2
    MaxRequests = 2
    Timeout = 2
    Lines = 2
    Body = 2
    MaxOpens = 2
    MaxBytes = 4
    MaxPings = 3
    Hosts = {"host", "other"}
INVARIANTS
    TypeOK
    OneOutcome
    NothingForgotten
    AnswersBelong
    SessionOutlivesReader
CHECK_DEADLOCK FALSE
