SPECIFICATION Spec
CONSTANTS
    c1 = c1
    n1 = n1
    Callers = {c1}
    Dialers = {}
    Domains = {n1}
    AsyncResolve = TRUE
    MaxCalls = 2
    MaxRetry = 1
    NoServer = NoServer
    Free = Free
INVARIANT SignalMeansPrepared
