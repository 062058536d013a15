SPECIFICATION FairSpec
CONSTANTS
    t1 = t1
    Callers <- MCCallers
    Addrs <- MCAddrs
    Free = Free
    None = None
    Intervals <- MCIntervals
    MaxTime = 2
    MaxTimers = 2
    MaxFunctors = 2
INVARIANTS
    SameTimers
    TimerfdArmed
    CancelledGone
PROPERTIES
    TimersRun
CHECK_DEADLOCK FALSE
