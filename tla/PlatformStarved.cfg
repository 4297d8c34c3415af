CONSTANTS
    Lengths = {1, 3}
    MaxItems = 2
    MaxEvents = 3
    Caps = {1, 4, 6, 9, 13, 20}
    Messages = {1, 6}
    TopK = 2
    Envelope = 2
    PerItem = 1
    Writes = {r1, r2}
    Reads = {q1, q2}
    Operations <- MCOperations
    allowed_pages <- MCPages
    allowed_databases <- MCDatabases
    editable_fields <- MCFields
    database_templates <- MCTemplates
    Dates = {"2026"}
    Numbers = {"7"}
    Pages = {"p1", "p2"}
    AllowedPages = {"p1"}
    Urls = {"u1", "u2"}
    AllowedUrls = {"u1"}
    Bodies <- MCBodies
    MaxBytes = 4
    MaxChars = 2
    CharsOf <- MCCharsOf
    ChunkIds = {1, 2, 3}
    Length <- MCLength
    TopN = 2
    MinReranked = 2
    MaxAttempts = 2
    MaxSources = 2
    MaxSourceChars = 3
    MaxContextChars = 4
    RetrievedK = 3
    CallAttempts = 2
    CheapMax = 4
    SmartMin = 2
    MessageLengths = {0, 4, 5, 6}
    Statuses = {200, 404}
    Guarded = TRUE
    Puts = {f1, f2, f3}
    Ratings = {"up", "down"}
SPECIFICATION AnySpec
INVARIANT StarvedSelectsNothing
CHECK_DEADLOCK FALSE
