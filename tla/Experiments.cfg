CONSTANTS
    Slots = {"s"}
    Meanings = {"m", "n"}
    Spellings = {"p", "q"}
    MaxTurns = 3
    MaxOps = 2
    Runs = {r1, r2}
    MaxAttempts = 2
    Completions = 1
    Procs = {p}
    Answers = {"a", "b"}
    StageCalls = 1
    Bound = 1
    Cap = 4
    MaxEvents = 3
    MaxCrashes = 1
    MaxEdits = 1
    Workers = {w1, w2, w3}
    MaxBatches = 3
    Extractions = 1
    Generations = 4
    Limits <- MCLimits
    Steps = {s1}
    ArmCost <- MCArmCost
    PhaseLimits <- MCPhaseLimits
    FirstAttempts <- MCFirstAttempts
    RetryCap = 1
    CumulativeCap = 6
    DualSettings <- MCDualSettings
    EpisodicSettings <- MCEpisodicSettings
    LastEvent = 4
    Sizes = {1, 3}
    Overheads = {1, 2}
    HistoryBudget = 6
    RecentBudget = 2
    RetrievedBudget = 4
    TopEvents = 2
    OverheadCap = 1
    InputCap = 7
    OracleCap = 5
    LeastPrefix = 6
    MostPrefix = 10
SPECIFICATION MCSpec
INVARIANTS
    NextTurnIsAccepted
    Lineage
    OneAttemptAtATime
    VerdictsAreBacked
    NothingUnreserved
    ResultsAreEvidence
    CompleteIsWhole
    DispatchesAreBounded
    NothingLeaks
    NothingFailsLate
    PreparedIffSound
CHECK_DEADLOCK FALSE
