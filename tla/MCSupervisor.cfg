CONSTANTS
    Backoff = 1
    CbBackoff = 3
    Threshold = 2
    ProbeWindow = 1
    Hour = 8
    Cap = 2
    Lifetimes = {0, 3}
    Exits = {"clean", "network", "crash"}
    MaxSpawns = 4
    MaxRestarts = 1
    MaxWriteFailures = 1
    MaxReaps = 1
SPECIFICATION Spec
INVARIANTS
    TypeOK
    AbortIffTooManyCrashes
    NoOrphanOnShutdown
    StreakIsConsecutive
PROPERTIES
    SpawnsSpaced
    RespawnedOrStopped
CHECK_DEADLOCK FALSE
