SPECIFICATION MCSpec
CONSTANTS
    c1 = c1
    c2 = c2
    c3 = c3
    w1 = w1
    w2 = w2
    Coroutine = {c1, c2, c3}
    Worker = {w1, w2}
    Home <- HomeOf
    None = None
INVARIANTS
    MutualExclusion
    NoOvertaking
PROPERTIES
    BarrierIsSafe
    NobodyIsLeft
CHECK_DEADLOCK FALSE
