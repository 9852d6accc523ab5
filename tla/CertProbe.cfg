SPECIFICATION Spec
CONSTANTS
    Rungs = 3
    MaxNoise = 3
INVARIANTS
    EverythingIsClosed
    ClosedInOrder
    CertificateSurvivesFailure
    ResultIsCoherent
    NoiseOnlyFirst
