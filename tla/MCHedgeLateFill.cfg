SPECIFICATION FairSpec
CONSTANTS
    NoCycle = NoCycle
    Watcher = {w1}
    Hours = 1
    Exposures = {1}
    LateFills = TRUE
    MaxFaults = 1
    MaxCrashes = 0
PROPERTIES
    ManagedToFlat
