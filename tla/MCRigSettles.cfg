\* One worker, and an operator who resolves incidents while a late steward may escalate again.
\* A settled task may leave every role with nothing to do, so the behaviour may stop.
SPECIFICATION LiveSpec
CONSTANTS
    a1 = a1
    a2 = a2
    h1 = h1
    h2 = h2
    Agents = {a1}
    Heads = {h1, h2}
    AttemptLimit = 1
    TokenLimit = 1
    WallLimit = 1
    Ttl = 1
    AtomicApply = TRUE
    MaxFaults = 0
    MaxRequests = 1
    MaxTime = 9
    OperatorDoes = {"resolve"}
    CrashAt <- Nowhere
PROPERTIES
    Settles
    LandedIsClosed
CHECK_DEADLOCK FALSE
