CONSTANTS
    MaxChunks = 2
    DisabledSets = {{}, {"primary"}, {"fallback"}, {"primary", "fallback"}}
    StripSets = {{}, {"primary"}}
    BlankSets = {{}}
SPECIFICATION Spec
INVARIANTS
    FinalMeansCompleted
CHECK_DEADLOCK FALSE
