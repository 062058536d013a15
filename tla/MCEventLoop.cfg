SPECIFICATION LoopFairSpec
CONSTANTS
    t1 = t1
    t2 = t2
    c1 = c1
    WakeupFd = WakeupFd
    Callers <- MCCallers
    Channels <- MCChannels
    MaxTasks = 3
    EventfdMax = 2
INVARIANTS
    NoSleepOverWork
PROPERTIES
    ImplementsTaskQueue
    FunctorsRun
    QuitEndsLoop
CHECK_DEADLOCK FALSE
