CONSTANTS
    Requests = {r1}
    Tenants = {t1}
    Conversations = {c1}
    Texts = {hello}
    MaxRows = 4
    MaxMessages = 2
    ClientModes = {FALSE}
    StreamModes = {TRUE, FALSE}
    FlagSettings = {FALSE}
    MaxCorpus = 0
    MaxRestarts = 0
SPECIFICATION Spec
SYMMETRY Symmetry
INVARIANTS
    TelemetryBreaksNothing
CHECK_DEADLOCK FALSE
