\* The read and the write of apply_event apart: any role may write over what another wrote.
\* A landed task ends the story, so the behaviour may stop.
SPECIFICATION Spec
CONSTANTS
    a1 = a1
    a2 = a2
    h1 = h1
    h2 = h2
    Agents = {a1}
    Heads = {h1}
    AttemptLimit = 1
    TokenLimit = 1
    WallLimit = 1
    Ttl = 1
    AtomicApply = FALSE
    MaxFaults = 0
    MaxRequests = 0
    MaxTime = 1
    OperatorDoes = {}
    CrashAt <- Nowhere
INVARIANTS
    LedgerSpendable
CHECK_DEADLOCK FALSE
