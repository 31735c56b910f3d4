SPECIFICATION ScrollSpec
CONSTANTS
    a = a
    b = b
    c = c
    z = z
    Nil = Nil
    Items <- MCItems
    Blanks <- MCBlanks
    MaxLen = 3
    MaxCap = 4
    Capacity = 2
SYMMETRY Interchangeable
INVARIANTS
    ScrollTypeOK
    ReplicaAgrees
    SourcesCurrent
    WindowIsShown
