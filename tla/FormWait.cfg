SPECIFICATION FairSpec
CONSTANTS
    contact = contact
    order = order
    b1 = b1
    b2 = b2
    b3 = b3
    call1 = call1
    call2 = call2
    None = None
    Names <- MCNames
    Bindings <- MCBindings
    NameOf <- MCNameOf
    Waiters <- MCWaiters
INVARIANTS
    TypeOK
    NameIsLatest
PROPERTIES
    WaitsEnd
CHECK_DEADLOCK FALSE
