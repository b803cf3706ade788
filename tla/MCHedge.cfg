SPECIFICATION HedgeSpec
CONSTANTS
    NoCycle = NoCycle
    Watcher = {w1}
    Hours = 2
    Exposures <- CanTurn
    LateFills = FALSE
    MaxFaults = 1
    MaxCrashes = 1
INVARIANTS
    TypeOK
    OneOpenPerSettlement
    WithinTarget
    NeverForgotten
PROPERTIES
    FinishedStays
    OpensInTime
