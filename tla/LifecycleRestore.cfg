SPECIFICATION MCSpec
CONSTANTS
    wd = wd
    rs = rs
    Lone = w1
    Ops = {rs}
    ActionOf <- Actions
    Clients = {k1}
    Workers = {w1}
    None = None
    MaxRetries = 1
    MaxFaults <- WorkersAreLost
    MaxTotal = 1
INVARIANT FailedRestoreIsBlocked
CHECK_DEADLOCK FALSE
