SPECIFICATION FairSpec
CONSTANTS
    Timeout = 6
    Attempts = 3
    MaxNoise = 3
INVARIANTS
    TypeOK
    AliveIsGenuine
    ErrorIffNotAlive
    OverrunAtMostOneWait
PROPERTY ProbeReturns
