SPECIFICATION RaceSpec
CONSTANTS
    Kernels = {k1, k2}
    Prior <- RunningRun
    Candidates = {}
    c1 = c1
    NoCandidate = NoCandidate
    Malformed = Malformed
    Usages = {"synthetic"}
    StrictBackend = TRUE
    MaxSettlements = 1
    MaxCheckpoints = 0
    MaxRejects = 0
    MaxFaults = 0
SYMMETRY Replicas
INVARIANT RestartReplays
