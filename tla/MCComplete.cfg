CONSTANTS
    ListedAt <- MCListedBefore
    FirstDay = 7
    MaxDay = 7
    SyncDays = 1
    HorizonDays = 2
    MaxRunning = 1
SPECIFICATION Spec
INVARIANT CompleteMeansHistory
