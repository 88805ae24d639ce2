\* One task, two workers, every event order; limits small enough to be spent, and time for
\* three leases to expire.  And one request, a crash or a failed command at any step, a
\* cancel at any moment.
\* A closed task, an answered request and a closed epic leave nothing to do: it may stop.
SPECIFICATION MCSpec
CONSTANTS
    a1 = a1
    a2 = a2
    h1 = h1
    h2 = h2
    r1 = r1
    Agents = {a1, a2}
    Heads = {h1, h2}
    AttemptLimit = 3
    TokenLimit = 2
    WallLimit = 2
    Ttl = 2
    MaxTokens = 2
    MaxTime = 7
    Requests = {r1}
    PlanTasks = {1, 2}
    Needs <- SecondNeedsFirst
    Overlap = FALSE
    MaxActs = 1
    MaxFaults = 1
    FailAt <- BreakableSteps
INVARIANTS
    TypeOK
    SpendableWhileActive
    OneChargePerClaim
    EpicsTypeOK
    AnswerIsWhole
    CompletedMeansLanded
PROPERTIES
    ImplementsBoundedRework
    ImplementsDelivery
    RequestsSettle
CHECK_DEADLOCK FALSE
