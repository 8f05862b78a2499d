SPECIFICATION MixedSpec
CONSTANTS
    a = a
    b = b
    c = c
    k1 = k1
    k2 = k2
    k3 = k3
    R1 = R1
    R2 = R2
    Jobs = {a, b, c}
    Revisions = {R1, R2}
    None = None
    Workers = {w1}
    Clients = {k1, k2, k3}
    RevisionOf <- Sources
    Supersedes <- Replaces
    Target <- Shelve
    MaxRetries = 1
    MaxMishaps = 1
VIEW View
INVARIANTS
    FailedIsUnpublished
PROPERTIES
    RetiredBySuccessor
    RevisionIsImmutable
    RunsEnd
CHECK_DEADLOCK FALSE
