SPECIFICATION FairSpec
CONSTANTS
    f1 = f1  f2 = f2  r1 = r1  None = None
    Frame = {f1, f2}
    Call = {r1}
    ForegroundBudget = 2
    BackgroundBudget = 1
    PrePollBudget = 1
    WarrantPercent = 25
    Window = 1
    MaxCost = 1
INVARIANTS
    SleepsWithoutWork
    GivesWay
    FramesAreKnown
PROPERTY
    ReadyRuns
