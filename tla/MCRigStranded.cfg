\* A worker that dies between winning the claim and writing the lease.
SPECIFICATION LiveSpec
CONSTANTS
    a1 = a1
    a2 = a2
    h1 = h1
    h2 = h2
    Agents = {a1}
    Heads = {h1, h2}
    AttemptLimit = 1
    TokenLimit = 1
    WallLimit = 1
    Ttl = 1
    AtomicApply = TRUE
    MaxFaults = 1
    MaxRequests = 0
    MaxTime = 9
    OperatorDoes = {}
    CrashAt <- ClaimStep
PROPERTY
    Settles
CHECK_DEADLOCK FALSE
