CONSTANTS
    Jobs <- MCJobs
    AtHour <- MCAtHour
    FirstDelay <- MCFirstDelay
    Period <- MCPeriod
    MaxRun <- MCMaxRun
    Day = 4
    StaleAfter = 5
    WatchEvery = 1
SPECIFICATION Spec
INVARIANTS
    TypeOK
    QuietWhileSyncsSucceed
    FirstSlotBeforeFirstStop
PROPERTIES
    WedgedSyncIsReplaced
