SPECIFICATION MSpec
CONSTANTS
    c1 = c1
    m1 = m1
    n1 = n1
    Callers = {c1}
    Dialers = {}
    Domains = {n1}
    Measures = {m1}
    AsyncResolve = FALSE
    MaxCalls = 2
    MaxRetry = 1
    NoServer = NoServer
    Free = Free
INVARIANTS
    RunningCoreIsReachable
    ClosedIffShutDown
PROPERTIES
    ImplementsSession
    MeasuresEnd
