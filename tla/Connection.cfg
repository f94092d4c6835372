SPECIFICATION MCSpec
CONSTANTS
    Buffers = 2
    MaxReceives = 3
    MaxSends = 1
    Queue = {x, y}
    Value = {v1, v2}
    Empty = Empty
    kInlineCapacity = 1
    kMinHeapCapacity = 2
    kMaxCapacity = 4
    HeapCapacity <- MCHeap
INVARIANTS
    CountsExact
    NoUseAfterReclaim
    
PROPERTIES
    ClosedDrains
    IsFifo
CHECK_DEADLOCK FALSE
