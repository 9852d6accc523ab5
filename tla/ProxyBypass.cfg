SPECIFICATION Spec
CONSTANTS
    Ranges <- SomeRanges
    defaultCount = 1
    noiseMaxCount = 2
    Calls <- UpToTwo
    Origin = h0
    Others = {h1}
    MaxRedirects = 1
    MaxDials = 2
INVARIANT ProxyIsUsed
