SPECIFICATION FairSpec
CONSTANTS
    k1 = k1
    k2 = k2
    w1 = w1
    w2 = w2
    Keys <- MCKeys
    Workers <- MCWorkers
    MaxAppWrites = 1
    MaxPageWrites = 0
PROPERTIES
    AppWriteArrives
CHECK_DEADLOCK FALSE
