SPECIFICATION FairSpec
CONSTANTS
    k1 = k1
    k2 = k2
    w1 = w1
    w2 = w2
    Keys <- MCKeys
    Workers <- MCWorkers
    MaxAppWrites = 2
    MaxPageWrites = 2
INVARIANTS
    TypeOK
    NoEcho
    ConvergesUnlessRaced
PROPERTIES
    ComesToRest
CHECK_DEADLOCK FALSE
