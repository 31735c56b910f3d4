SPECIFICATION InputsSpec
CONSTANTS
    a = a
    b = b
    name = name
    mail = mail
    x = x
    y = y
    Zero = Zero
    InputIDs <- MCInputIDs
    Fields <- MCFields
    Values <- MCValues
    Layouts <- MCLayouts
\* a page that waits for itself does stop
CHECK_DEADLOCK FALSE
INVARIANTS
    InputsTypeOK
    
PROPERTY
    TypedIsRead
