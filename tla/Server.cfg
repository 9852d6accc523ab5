SPECIFICATION LFairSpec
CONSTANTS
    Answers <- ShortAnswers
    Lengths <- TheirLengths
    Throttle = 2
INVARIANTS
    IndexInRange
    EveryAddressOnce
    PreferredFamilyFirst
PROPERTIES
    SwitchMoves
    EveryAddressIsTried
