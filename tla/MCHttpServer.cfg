SPECIFICATION FairSpec
CONSTANTS
    Bytes <- MCBytes
    Zero = "0"
    CheapPrepend = 2
    InitialSize = 4
    ExtraSize = 16
    Requests <- MCRequests
    MaxRequests = 2
    Data <- MCData
    Reserves = {1, 7}
    MaxCalls = 2
INVARIANTS
    AnswersInOrder
PROPERTIES
    ImplementsByteQueue
    PoliteAnswered
CHECK_DEADLOCK FALSE
