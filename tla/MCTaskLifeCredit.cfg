\* The heartbeat rule against the comment on Lease::renew.
SPECIFICATION Spec
CONSTANTS
    a1 = a1
    a2 = a2
    h1 = h1
    h2 = h2
    Agents = {a1, a2}
    Heads = {h1, h2}
    AttemptLimit = 3
    TokenLimit = 2
    WallLimit = 2
    Ttl = 3
    MaxTokens = 2
    MaxTime = 6
INVARIANT
    LeaseCreditIsTtl
CHECK_DEADLOCK FALSE
