SPECIFICATION Spec
CONSTANTS
    c1 = c1
    d1 = d1
    n1 = n1
    n2 = n2
    Callers = {c1}
    Dialers = {d1}
    Domains = {n1, n2}
    AsyncResolve = FALSE
    MaxCalls = 2
    MaxRetry = 1
    NoServer = NoServer
    Free = Free
INVARIANT DialReachesItsServer
