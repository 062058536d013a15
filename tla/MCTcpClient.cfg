SPECIFICATION FairSpec
CONSTANTS
    Foreign <- MCForeign
    Careful = TRUE
    MaxStarts = 3
INVARIANTS
    AssertsHold
    NoDangling

    
    
CHECK_DEADLOCK FALSE
