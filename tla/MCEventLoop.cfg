SPECIFICATION FairSpec
CONSTANTS
    Calls = {c1, c2, c3}
    Null = Null
    Loop = loop
    Emitters = {e1, e2}
INVARIANTS
    TypeOK
    NoLostWakeup
    FirstInFirstOut
    EmittedBeforeExitCalled
PROPERTIES
    ImplementsMailbox
    ExecReturns
    EveryCallMade
CHECK_DEADLOCK FALSE
