CONSTANTS
    Tickers = {"SPLIT", "DIV"}
    MaxDay = 2
    LastDay = 1
    Published <- MCPublished
    LastClose <- MCLastClose
    FreshDays = 1
SPECIFICATION Spec
INVARIANTS
    TypeOK
    AdjustedSeriesIsContinuous
    CachedMeansApplied
