SPECIFICATION Spec
CONSTANTS
    c1 = c1
    c2 = c2
    v1 = v1
    v2 = v2
    v3 = v3
    t1 = t1
    t2 = t2
    Initial = v1
    Values <- MCValues
    Errors <- MCErrors
    Callbacks <- MCCallbacks
    Changes <- MCChanges
SYMMETRY Interchangeable
INVARIANTS
    TypeOK
    
    FormIsHeard
