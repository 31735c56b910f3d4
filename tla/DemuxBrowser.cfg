SPECIFICATION FairSpec
CONSTANTS
    Side = "browser"
    MaxSent = 2
INVARIANTS
    TypeOK
PROPERTIES
    ImplementsStreams
    LossIsSeen
    TeardownEnds
CHECK_DEADLOCK FALSE
