SPECIFICATION Spec
CONSTANTS
    r1 = r1
    r2 = r2
    f1 = f1
    f2 = f2
    k1 = k1
    k2 = k2
    k3 = k3
    w1 = w1
    w2 = w2
    Records = {r1, r2}
    Batches = {r1, r2}
    Jobs = {r1}
    Runs = {r1}
    Releases = {r1, r2}
    Files = {f1, f2}
    Selected <- Select
    Clients = {k1, k2, k3}
    Workers = {w1, w2}
    None = None
    MaxRetries = 1
    MaxFaults <- AnyFault
VIEW View
INVARIANTS
    RecordsMatchServed
    OneAtATime
    OpenedOnce
PROPERTIES
    ServicesAreJobs
    WorkEnds
CHECK_DEADLOCK FALSE
