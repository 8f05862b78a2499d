SPECIFICATION Spec
CONSTANTS
    Requests = {r1, r2}
    Handlers = {h1, h2, h3}
    None = None
    LeasePeriod = 0
    MaxNow = 2
    MaxMishaps = 2
SYMMETRY Symmetry
VIEW View
CONSTRAINT Mixed
INVARIANTS
    TurnSeqUnique
    CompletedIsAnswered
    AnswerFollowsQuestion
    OncePerRole
PROPERTIES
    HistoryIsFinal
    ThreadIsALog
CHECK_DEADLOCK FALSE
