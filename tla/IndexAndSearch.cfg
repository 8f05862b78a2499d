SPECIFICATION Spec
CONSTANTS
    d1 = d1
    d2 = d2
    key = key
    fab = fab
    F1 = F1
    Docs = {d1, d2}
    Source = s
    Target = t
    MaxWrites = 2
    MaxCommands = 2
    MaxMishaps = 1
    Attributes = {fab}
    Granted = {fab}
    Empty = Empty
    Never = Never
    Second = 2
    Facts <- MCFacts
    Asker <- MCAsker
    Asked <- MCAsked
    Guarded = {d1}
    RecallK = 2
    TopK = 1
    Scores = {20, 60, 90}
    LastMoment = 3
    MaxSearches = 2
    MinEvidence = 1
    MaxEvidence = 1
    MinScore = 40
    CliffGap = 8
    CliffRatio = 20
    NumCollections = 2
    Names = {n1, n2}
    Extra = x
    MaxServiceWrites = 1
    MaxScripts = 2
    MaxTroubles = 1
INVARIANTS
    PublishedIsFound
    FoundIsServed
    ProtectedIsFound
PROPERTIES
    RestoredOnFailure
    ScriptsRestore
CHECK_DEADLOCK FALSE
