SPECIFICATION FairSpec
CONSTANTS
    u1 = u1
    Users <- MCUsers
    Lengths <- MCLengths
    Careful = TRUE
    TimerFirst = FALSE
    MaxSends = 2
INVARIANTS
    BytesInOrder
PROPERTIES
    
    ShutdownCompletes
    CloseCompletes
CHECK_DEADLOCK FALSE
