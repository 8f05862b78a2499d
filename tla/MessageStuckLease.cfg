SPECIFICATION Spec
CONSTANTS
    Requests = {r1, r2}
    Handlers = {h1, h2, h3}
    None = None
    LeasePeriod = 1
    MaxNow = 0
    MaxMishaps = 1
SYMMETRY Symmetry
VIEW View
INVARIANT HeldLeaseIsRecoverable
CHECK_DEADLOCK FALSE
