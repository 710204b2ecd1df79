CONSTANTS
    Threads = {t1, t2}
    Unit = 3
    Rate = 2
    Burst = 2
    MaxCalls = 3
    MaxIdle = 4
    MaxDelay = 1
    MaxTime = 24
SPECIFICATION BucketSpec
INVARIANTS
    BucketTypeOK
    RateBounded
PROPERTIES
    AcquireReturns
CHECK_DEADLOCK FALSE
