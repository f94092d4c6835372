SPECIFICATION MCSpec
CONSTANTS
    Worker = {w1, w2}
    Client = {c1}
    Nobody = Nobody
    Caller = {a, b}
    BioSize = 2
    MaxRecords = 3
    MaxInput = 2
    Session = {s1}
    MaxLetters = 4
    MaxSessions = 3
    kMaxRetainedBuffers = 1
    IovMax = 2
    Nothing = Nothing
INVARIANTS
    AttemptIsSafe
    
    ResponsesMatch
    RecordsInOrder
    BodyAsAppended

    
