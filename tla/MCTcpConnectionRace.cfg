SPECIFICATION Spec
CONSTANTS
    u1 = u1
    Users <- MCUsers
    Lengths <- MCLengths
    Careful = FALSE
    TimerFirst = FALSE
    MaxSends = 2
INVARIANTS
    DestructorAssert
CHECK_DEADLOCK FALSE
