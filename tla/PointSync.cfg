SPECIFICATION FairSpec
CONSTANTS
    c1 = c1
    d1 = d1
    n1 = n1
    Callers = {c1}
    Dialers = {d1}
    Domains = {n1}
    AsyncResolve = FALSE
    MaxCalls = 2
    MaxRetry = 1
    NoServer = NoServer
    Free = Free
INVARIANTS
    TypeOK
    StopNeverPanics
    DialNeverDereferencesNil
    SignalMeansPrepared
PROPERTIES
    CallsReturn
    DialsReturn
    NoServerIsNotKept
    WatchersEnd
