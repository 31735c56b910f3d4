SPECIFICATION Spec
CONSTANTS
    save = save
    send = send
    c1 = c1
    c2 = c2
    Names <- MCNames
    Clicks <- MCClicks
    MaxBinds = 3
    MaxRenders = 2
SYMMETRY Interchangeable
\* a page whose program has ended, or all clicks and binds made
CHECK_DEADLOCK FALSE
INVARIANTS
    TypeOK
    ClicksAreHeard
    ButtonsAgree
