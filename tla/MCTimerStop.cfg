SPECIFICATION ScheduledSpec
CONSTANT
    MaxStarts = 2
PROPERTY
    StopReturns
CHECK_DEADLOCK FALSE
