SPECIFICATION MCSpec
CONSTANTS
    wd = wd
    rs = rs
    Lone = w1
    Ops = {wd, rs}
    ActionOf <- Actions
    Clients = {k1, k2}
    Workers = {w1, w2}
    None = None
    MaxRetries = 1
    MaxFaults <- AnyFault
    MaxTotal = 3
INVARIANTS
    OneExecution
PROPERTIES
    WithdrawnIsClean
    RestoredIsServed
    OperationsEnd
CHECK_DEADLOCK FALSE
