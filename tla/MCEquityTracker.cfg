CONSTANTS
    MaxNav = 3
    MaxDay = 2
    MaxCrashes = 2
    MaxFailures = 1
    MaxCorruptions = 1
SPECIFICATION Spec
INVARIANTS
    TypeOK
    DurablePeakKept
    OneCorruptionCostsOneStep
    LossFromDayOpen
PROPERTIES
    UntrustedBasisBlocks
    ImplementsHighWaterMark
