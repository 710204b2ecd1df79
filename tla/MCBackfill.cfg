CONSTANTS
    ListedAt <- MCListedAt
    FirstDay = 0
    MaxDay = 4
    SyncDays = 1
    HorizonDays = 2
    MaxRunning = 3
SPECIFICATION Spec
INVARIANTS
    TypeOK
    HistoryHasNoHole
    RowsHaveTicker
    IncrementalStoresClosedBars
