SPECIFICATION Spec
CONSTANTS
    Ranges <- SomeRanges
    defaultCount = 1
    noiseMaxCount = 2
    Calls <- UpToTwo
    Origin = h0
    Others = {h1}
    MaxRedirects = 3
    MaxDials = 4
INVARIANTS
    TypeOK
    RequestOnItsConnection
    NothingLeftOpen
    VersionIsTheTransports
    EchAcceptedIsGroundTruth
    OptionsTakeEffect
    NoiseIsBounded
