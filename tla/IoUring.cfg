SPECIFICATION MCSpec
CONSTANTS
    t1 = t1  t2 = t2  c1 = c1  f1 = f1  None = None
    IoTag = {t1, t2}
    CancelTag = {c1}
    Fd = {f1}
    SqEntries = 1
    MaxOps = 3
    MaxCloses = 1
    d1 = d1  d2 = d2  n1 = n1  n2 = n2
    SpdkTag = {t1, t2}
    File = {d1, d2}
    Controller = {n1, n2}
    Paths <- MCPaths
    Depth = 1
    Budget = 1
    Big = {t2}
    Vwc = {n1}
    NoFile = NoFile
INVARIANTS
    OneTerminalCompletion
    
    QueueIsTrue
PROPERTIES
    OpsProgress
    RequestsComplete
CHECK_DEADLOCK FALSE
