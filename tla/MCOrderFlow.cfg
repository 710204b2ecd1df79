CONSTANTS
    Prices = {10, 12}
    Navs = {100, 80}
    DayOpen = 90
    MaxMoves = 1
    MaxLost = 1
    MaxPositionPct = 60
    MaxSectorPct = 100
    MaxDailyLossPct = 12
    MaxDdPct = 15
    Quantities = {2, 5}
    Advs = {0, 40}
    MaxChunks = 4
    MaxParents = 2
SPECIFICATION Spec
INVARIANTS
    TypeOK
    NeverOverParent
    StatusTellsWhatWasSent
    PositionWithinLimit
    KillSwitchStopsParent
CHECK_DEADLOCK FALSE
