\* A late escalation and a retry while the verifier runs, against "Done means verified".
SPECIFICATION Spec
CONSTANTS
    a1 = a1
    a2 = a2
    h1 = h1
    h2 = h2
    Agents = {a1}
    Heads = {h1, h2}
    AttemptLimit = 1
    TokenLimit = 1
    WallLimit = 1
    Ttl = 1
    AtomicApply = TRUE
    MaxFaults = 0
    MaxRequests = 1
    MaxTime = 9
    OperatorDoes = {"resolve"}
    CrashAt <- Nowhere
INVARIANT
    LandedMeansVerified
CHECK_DEADLOCK FALSE
