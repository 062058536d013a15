SPECIFICATION FairSpec
CONSTANTS
    w1 = w1
    w2 = w2
    w3 = w3
    p1 = p1
    p2 = p2
    Workers <- MCWorkers
    Producers <- MCProducers
    MaxQueueSize = 2
    MaxNested = 2
    MaxTasks = 5
INVARIANTS
    WorkersWoken
    ProducersWoken
PROPERTIES
    ImplementsTaskQueue
    StopReturns
CHECK_DEADLOCK FALSE
