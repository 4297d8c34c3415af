CONSTANTS
    MaxChunks = 3
    DisabledSets = {{}, {"primary"}, {"fallback"}, {"primary", "fallback"}}
    StripSets = {{}, {"primary"}, {"fallback"}}
    BlankSets <- MCBlankSets
    Request = r1
    Tenants = {t1}
    Conversations = {c1}
    Messages = {hello}
    MaxRows = 2
    MaxMessages = 2
SPECIFICATION TurnSpec
INVARIANTS
    Pipeline
    SummaryAgrees
PROPERTIES
    ReplySpec
    StreamIsAnswered
    NothingLeftRunning
    TurnsEnd
CHECK_DEADLOCK FALSE
