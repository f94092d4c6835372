SPECIFICATION FairSpec
CONSTANTS
    Buffers = 2
    MaxReceives = 1
    MaxSends = 0
PROPERTY
    ClosedIsReclaimed
CHECK_DEADLOCK FALSE
