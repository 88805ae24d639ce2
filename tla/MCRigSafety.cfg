\* One worker, a crash or failure at any step, a cancel at any moment.
\* A landed or canceled task ends the story, so the behaviour may stop.
SPECIFICATION Spec
CONSTANTS
    a1 = a1
    a2 = a2
    h1 = h1
    h2 = h2
    Agents = {a1}
    Heads = {h1, h2}
    AttemptLimit = 2
    TokenLimit = 1
    WallLimit = 2
    Ttl = 2
    AtomicApply = TRUE
    MaxFaults = 1
    MaxRequests = 1
    MaxTime = 3
    OperatorDoes = {"cancel"}
    CrashAt <- AllSteps
INVARIANTS
    TypeOK
    LandedMeansVerified
    WorktreeExclusive
    ClosedMeansLanded
    ClaimMirrorsLease
CHECK_DEADLOCK FALSE
