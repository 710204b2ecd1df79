CONSTANTS
    Days <- MCDays
    Kinds <- MCKinds
    Infinity = 999999
    Nows = {7, 11, 12}
    Delistings <- MCDelistings
    MinHistory = 3
    StaleMax = 3
    LargeGap = 3
SPECIFICATION QualitySpec
INVARIANTS AllowedSeriesIsSound CorrectedHasNoSplit
CHECK_DEADLOCK FALSE
