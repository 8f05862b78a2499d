SPECIFICATION FairSpec
CONSTANTS
    Requests = {r1}
    Handlers = {h1, h2, h3}
    None = None
    LeasePeriod = 1
    MaxNow = 0
    MaxMishaps = 0
PROPERTY LeaseIsReleased
CHECK_DEADLOCK FALSE
