SPECIFICATION BothSpec
CONSTANTS
    NumProviders = 2
    MaxAttempts = 2
    Missing = {s1, s2, s3}
    UnitLimit = 4
    MaxUnits = 5
    MaxRuns = 2
    Requests <- MCRequests
    AnswerUnits <- MCAnswerUnits
    Callers = {a1, a2}
    Failures = {"timeout", "rejected", "invalid_response", "stream_interrupted", "configuration"}
    MaxPolls = 2
INVARIANTS
    ShownBeginsText
    ShownIsGrounded
    AsksEachOnce
    OneVoice
    AuditIsWhole
PROPERTY
    RunsAndCallsEnd
