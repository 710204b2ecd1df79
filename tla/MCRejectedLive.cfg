CONSTANTS
    Prices = {10}
    Navs = {100}
    DayOpen = 90
    MaxMoves = 0
    MaxLost = 1
    MaxPositionPct = 60
    MaxSectorPct = 100
    MaxDailyLossPct = 12
    MaxDdPct = 15
    Quantities = {2, 5}
    Advs = {40}
    MaxChunks = 4
    MaxParents = 1
SPECIFICATION Spec
INVARIANT RejectedMeansNothingLive
CHECK_DEADLOCK FALSE
