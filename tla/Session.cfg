SPECIFICATION FairSpec
CONSTANTS
    s1 = s1
    s2 = s2
    submit = submit
    Subs <- MCSubs
    Calls = {submit}
    MaxConns = 2
INVARIANTS
    TypeOK
    HeardIsState
    BackoffFollowsFailures
PROPERTIES
    CloseEnds
    OpenAcceptsActions
CHECK_DEADLOCK FALSE
