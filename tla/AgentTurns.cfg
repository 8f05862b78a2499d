SPECIFICATION Spec
CONSTANTS
    None = None
    Client = {c1}
    Message <- MCMessage
    Value <- MCValue
    Said <- MCSaid
    Scope <- MCScope
    RecentTurns = 12
    MaxRounds = 2
    Raws <- MCRaws
    Found <- MCFound
    Judged <- MCJudged
    Claims <- MCClaims
    MaxTurns = 3
    MaxFaults = 1
    Terms <- MCTerms
    PublicAnswerMinScore = 50
    RerankMinScore = 40
    AnswerRelativeFloor = 80
    AnswerMinTermCoverage = 15
    AnswerSufficientCoverage = 40
    MinEvidence = 1
CONSTRAINT Scenes
INVARIANTS
    TypeOK
    CallsAreCleared
    ControlledRestsOnInternal
    WritesAreRefused
    ResultsAreEarned
PROPERTIES
    FramesKeepTheirLife
    CorrectionInvalidates
    AsksOnlyTheRest
    TurnsEnd
