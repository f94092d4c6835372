CONSTANTS
    q1 = q1
    q2 = q2
    q3 = q3
    p1 = p1
    n1 = n1
    f1 = f1
    N = 2
    WordSize = 2
    Capacity = 2
    BatchSize = 1
    SenderQuota = 2
    SeqMod = 3
    Parked = 2
    Foreign = {}
    Req = {q1, q2, q3}
    Rep = {}
    Ntf = {}
SPECIFICATION Spec
INVARIANTS
    NoLostWakeup
    NoLostPublication
SYMMETRY Interchangeable
