SPECIFICATION Spec
CONSTANTS
    MaxChanges = 4
    MaxFailures = 1
    MaxCrashes = 1
    MaxLogEntries = 4
    MatchesRetained = TRUE
    LateFailures = TRUE
    TextUndo = TRUE
    TransactionUndo = TRUE
    ReadonlyOpens = TRUE
INVARIANTS TypeOK CleanIsStored
CHECK_DEADLOCK FALSE
