CONSTANTS
    Cash = {0, 60000, 700000}
    Peak = 100
    Equities = {100, 75, 51, 50, 20}
    Confidences = {0, 60, 100}
    Prices = {0, 700}
    Series <- MCSeries
    Snapshots <- MCSnapshots
    RiskPct = 2
    AtrLookback = 2
    EwmaMinBars = 2
    LotSize = 3
    MaxCalls = 3
    MaxFaults = 2
SPECIFICATION Spec
INVARIANTS WorseNeverSizesMore AuditKeepsRecords
CHECK_DEADLOCK FALSE
