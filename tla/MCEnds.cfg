SPECIFICATION EndsSpec
CONSTANTS
    NoCycle = NoCycle
    w1 = w1
    k1 = k1
    NoCandidate = NoCandidate
    Malformed = Malformed
    Watcher = {w1}
    Hours = 1
    Exposures = {0, 2}
    LateFills = FALSE
    MaxFaults = 1
    MaxCrashes = 0
PROPERTIES
    CyclesEnd
    ManagedToFlat
    RunReachesEnd
