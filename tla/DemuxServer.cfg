SPECIFICATION FairSpec
CONSTANTS
    Side = "server"
    MaxSent = 1
PROPERTIES
    DoneIsClosed
CHECK_DEADLOCK FALSE
