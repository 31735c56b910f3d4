SPECIFICATION FairSpec
CONSTANTS
    name = name
    mail = mail
    save = save
    send = send
    MaxSets = 3
    Actions <- MCActions
    Keys <- MCKeys
    KeyOf <- MCKeyOf
INVARIANTS
    TypeOK
    CounterExact
    NoLostWakeup
    ActionSeesEarlierSets
    ActionSeesNewest
    QuietServerAgrees
PROPERTIES
    ImplementsFence
    EveryCallReturns
CHECK_DEADLOCK FALSE
