\* Two workers and a lease that expires under a running session.
SPECIFICATION Spec
CONSTANTS
    a1 = a1
    a2 = a2
    h1 = h1
    h2 = h2
    Agents = {a1, a2}
    Heads = {h1, h2}
    AttemptLimit = 1
    TokenLimit = 1
    WallLimit = 1
    Ttl = 1
    AtomicApply = TRUE
    MaxFaults = 0
    MaxRequests = 0
    MaxTime = 1
    OperatorDoes = {}
    CrashAt <- Nowhere
INVARIANT
    SessionKeepsWorktree
SYMMETRY Interchangeable
CHECK_DEADLOCK FALSE
