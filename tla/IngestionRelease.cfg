SPECIFICATION Spec
CONSTANTS
    a = a
    b = b
    c = c
    k1 = k1
    k2 = k2
    k3 = k3
    R1 = R1
    R2 = R2
    Jobs = {a, b}
    Revisions = {R1, R2}
    None = None
    Workers = {w1}
    Clients = {k1, k2}
    RevisionOf <- Sources
    Supersedes <- Replaces
    Target <- Publish
    MaxRetries = 1
    MaxMishaps = 0
SYMMETRY Symmetry
VIEW View
INVARIANT FailureKeepsRelease
CHECK_DEADLOCK FALSE
