SPECIFICATION Spec
CONSTANTS
    e1 = e1
    e2 = e2
    e3 = e3
    e4 = e4
    w = w
    Nil = Nil
    Zero = Zero
    Elements <- MCElements
    Values <- MCValues
    Size = 3
    Capacity = 2
    Bound = 1
SYMMETRY Interchangeable
INVARIANTS
    TypeOK
    TreeFollowsSource
    PathsShowFields
