SPECIFICATION ChatFairSpec
CONSTANTS
    Bytes <- MCBytes
    Zero = 0
    CheapPrepend = 2
    InitialSize = 2
    ExtraSize = 3
    Base = 2
    HeaderLen = 2
    MaxLength = 1
    Conns = {1, 2}
    Lines <- MCLines
    MaxLines = 2
INVARIANTS
    LinesWhole
    SameConversation

    
CHECK_DEADLOCK FALSE
