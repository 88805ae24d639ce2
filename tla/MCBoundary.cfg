\* Landings of two submissions between two hand commits, two sessions, one rig's life, two
\* tasks reported, a ledger of four beads, three calls of remote clients.  Each ends when its
\* submissions are settled or nothing is left to do.
SPECIFICATION MCSpec
CONSTANTS
    r1 = r1
    t1 = t1
    t2 = t2
    k1 = k1
    k2 = k2
    Patches = {p1, p2}
    Hands = {c1, c2}
    MaxFaults = 1
    Rigs = {r1}
    MaxLandings = 2
    MaxHostFaults = 1
    HostFailAt <- HostSteps
    Harnesses = {"claude", "opencode", "codex"}
    MaxSessions = 2
    MaxSessionFaults = 2
    SessionFailAt <- SessionSteps
    Clients = {k1, k2}
    Grants <- Scopes
    TokenCap = 2
    MaxIncidents = 2
    MaxCalls = 3
    MaxDeskFaults = 1
    DeskFailAt <- DeskSteps
    Callers = {w1, w2}
    MaxBeads = 4
    MaxWrites = 3
    MaxLedgerFaults = 1
INVARIANTS
    TypesOK
    LandsOnceAsChecked
    MergedIsAtRemote
    
    RegistryIsTrue
    LandingsExist
    SessionsKeepApart
    ReportIsTrue
    ReadsAsMeant
    GrantedOnly
    
CHECK_DEADLOCK FALSE
