SPECIFICATION ScheduledSpec
CONSTANT
    MaxStarts = 3
INVARIANTS
    TypeOK
    OnlyTheLatestRuns
    SingleShotFiresOnce
    StartStands
PROPERTIES
    EveryStartFires
    SingleShotStops
CHECK_DEADLOCK FALSE
