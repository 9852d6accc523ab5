SPECIFICATION Spec
CONSTANTS
    r1 = r1
    r2 = r2
    Requests = {r1}
    Paths = {"utls"}
    Timeouts = {3}
    Probe = TRUE
    ProbeTimeout = 2
    PositiveTTL = 2
    NegativeTTL = 1
    MaxGeneration = 2
    Free = Free
PROPERTY RefusedConfigIsDropped
