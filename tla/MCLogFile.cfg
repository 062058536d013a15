SPECIFICATION FileSpec
CONSTANTS
    RollSize = 4
    FlushInterval = 1
    CheckEveryN = 2
    RollPerSeconds = 4
    LineLengths = {1, 3}
    ClockSteps <- MCClockSteps
    MaxTime = 8
    MaxFileLines = 6
INVARIANTS
    SizeBound
    DayBound
    
CHECK_DEADLOCK FALSE
