SPECIFICATION TakeoverSpec
CONSTANTS
    p1 = p1
    p2 = p2
    r1 = r1
    r2 = r2
    k1 = k1
    noKey = noKey
    a = a
    b = b
    Proc = {p1, p2}
    Job <- OneJob
    KeyOf <- OneKey
    PrintOf <- OnePrint
    NoKey = noKey
    MaxAttempts = 2
    MaxClaims = 9
    ReadsClockFirst = TRUE
    Workers = 1
    Capacity = 1
    DurableDispatch = TRUE
    Traced = {r1}
    DelayedRetry = TRUE
    MaxDisruptions = 2
SYMMETRY Symmetry
INVARIANTS
    TypeOK
    AttemptsAccounted
    ResultIsLatest
    OneOwner
PROPERTIES
    TerminalIsFinal
