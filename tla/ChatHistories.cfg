CONSTANTS
    Requests = {r1, r2, r3}
    Tenants = {t1, t2}
    Conversations = {c1, c2}
    Texts = {hello}
    MaxRows = 3
    MaxMessages = 1
    ClientModes = {TRUE, FALSE}
    StreamModes = {TRUE, FALSE}
    FlagSettings = {TRUE, FALSE}
    MaxCorpus = 2
    MaxRestarts = 1
SPECIFICATION HistoriesSpec
SYMMETRY Symmetry
ACTION_CONSTRAINT OneDeployment
INVARIANTS
    RepliesMatchPrompts
    HistoryHasWholeTurns
CHECK_DEADLOCK FALSE
