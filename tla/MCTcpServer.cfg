SPECIFICATION ServerFairSpec
CONSTANTS
    Sizes <- MCSizes
    MaxConns = 2
    Limits = {1, 2}
    SleepSuffices = TRUE
INVARIANTS
    MapAgrees
    
PROPERTIES
    PeersServed
    
CHECK_DEADLOCK FALSE
