SPECIFICATION FairSpec
CONSTANTS
    r1 = r1
    r2 = r2
    Requests = {r1, r2}
    Paths = {"std", "utls"}
    Timeouts = {1, 3}
    Probe = TRUE
    ProbeTimeout = 2
    PositiveTTL = 2
    NegativeTTL = 1
    MaxGeneration = 2
    Free = Free
INVARIANTS
    TypeOK
    SingleFlight
    DeadlineIsOwn
PROPERTIES
    NoRepeatedAcquisition
    SelfHealing
    RequestsReturn
