SPECIFICATION HarnessSpec
CONSTANTS
    Kernels = {k1, k2}
    Prior <- RunningRun
    Candidates = {c1}
    c1 = c1
    NoCandidate = NoCandidate
    Malformed = Malformed
    Usages = {"synthetic", "bound"}
    StrictBackend = TRUE
    MaxSettlements = 2
    MaxCheckpoints = 2
    MaxRejects = 1
    MaxFaults = 1
SYMMETRY Replicas
INVARIANTS
    StreamWellFormed
    PaidAndAuthorized
    StopIsFinal
    TakenOver
