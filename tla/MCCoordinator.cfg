CONSTANTS
    Prices = {10, 12}
    Navs = {100}
    DayOpen = 100
    MaxMoves = 1
    MaxLost = 1
    MaxPositionPct = 60
    MaxSectorPct = 100
    MaxDailyLossPct = 10
    MaxDdPct = 15
    Quantities = {5}
    Limits = {0, 10}
    Equity = 100
    Peaks = {80, 100}
    Losses = {0, 20}
    Window = 1
    Factories = {TRUE, FALSE}
    Stores = {TRUE, FALSE}
    MaxRuns = 2
    MaxKills = 1
    MaxAuditFailures = 1
SPECIFICATION Spec
INVARIANTS
    OrderOnlyAfterEveryGate
    StatusTellsWhatWasSent
    EveryRunAudited
    RowMatchesRun
PROPERTIES
    RunEnds
CHECK_DEADLOCK FALSE
