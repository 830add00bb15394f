SPECIFICATION FairSpec
CONSTANTS
    Window = 6
    InitialDistance = 3
    MaxDistance = 6
INVARIANT
    NoPendingIncrease
PROPERTIES
    DecreasesSpaced
    ComesCloser
CHECK_DEADLOCK FALSE
