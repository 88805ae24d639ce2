\* Plans of up to three tasks; what the console does between rigs, browsers and chats; a rig and
\* its landings.  Each ends when its plan is written or its tasks are over.
SPECIFICATION MCSpec
CONSTANTS
    u1 = u1
    u2 = u2
    p1 = p1
    p2 = p2
    g1 = g1
    a1 = a1
    h1 = h1
    h2 = h2
    Words = {"a", "b", "c", "?"}
    Keys = {"a", "b", "c"}
    RawPlans <- PlanTexts
    Upstream = {u1, u2}
    NeedList <- TwoNeeds
    MetWhole = TRUE
    MaxFaults = 2
    FailAt <- RetriedSteps
    Versions = 2
    MaxStreamFaults = 2
    StreamFailAt <- StreamSteps
    Watchers = {"alerts", "bot"}
    Messages = 2
    Commands = {2}
    Batch = 2
    MaxChanges = 5
    MaxNoticeFaults = 1
    NoticeFailAt <- NoticeSteps
INVARIANTS
    TypesOK
    EdgesKept
    CycleIsReal
    ReleasedMeansDecided
    PlannerSeesContract
    
    NothingTwice
PROPERTIES
    
    ViewConverges
    NothingMissed
    EverySubmissionSettles
    Settles
CHECK_DEADLOCK FALSE
