SPECIFICATION FairSpec
CONSTANTS
    Threads = {t1, t2, t3, t4}
    StartCount = 1
    TokenModulus = 4
    MaxReleases = 6
INVARIANTS
    TypeOK
    NoStrandedToken
PROPERTY
    SleepersServed
CHECK_DEADLOCK FALSE
