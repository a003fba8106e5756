\* A text layout dear enough to exceed the typing budget, images of one
\* block in two generations, AI events and save completions.
SPECIFICATION FairSpec
CONSTANTS
    Kinds = {"VisibleSelection", "CurrentWindowMeasure", "ImageDecodeApply", "PersistenceCallback"}
    Blocks = {b1}
    NoBlock = NoBlock
    Modes = {"Idle", "Typing"}
    IdleBudget = 2
    ScrollBudget = 2
    TypingBudget = 1
    MaxCost = 2
    MaxGeneration = 2
    MaxTasks = 3
    MaxOrder = 4
    MaxClears = 1
INVARIANTS
    QueueAgrees
    OnlyNewestQueued
    WakeIsComing
    CancelHonoured
PROPERTIES
    ResolvedOnce
    NoOvertaking
    AllResolved
CHECK_DEADLOCK TRUE
