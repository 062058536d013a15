SPECIFICATION FairSpec
CONSTANTS
    BufferSize = 3
    Lengths <- MCLengths
    MaxBacklog = 2
    NoBuffer = NoBuffer
    MaxLines = 5
    MaxStarts = 2
INVARIANTS
    AssertsHold
    LinesKept
    FullBuffersNoticed
PROPERTIES
    LinesWritten
    StopReturns
CHECK_DEADLOCK FALSE
