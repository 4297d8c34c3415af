CONSTANTS
    Requests = {r1, r2}
    Tenants = {t1, t2}
    Conversations = {c1, c2}
    Texts = {hello}
    MaxRows = 4
    MaxMessages = 2
    ClientModes = {FALSE}
    StreamModes = {TRUE, FALSE}
    FlagSettings = {FALSE}
    MaxCorpus = 0
    MaxRestarts = 1
SPECIFICATION Spec
SYMMETRY Symmetry
INVARIANTS
    TurnAtomicity
    SessionDiscipline
    TenantIsolation
    AnswersAreTrue
    SequenceOrder
    MetricsAreTrue
PROPERTIES
    MetricsComeLast
    LogSpec
CHECK_DEADLOCK FALSE
