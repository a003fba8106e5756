SPECIFICATION Spec
CONSTANTS
    MaxChanges = 3
    MaxFailures = 1
    MaxCrashes = 1
    MaxLogEntries = 4
    MatchesRetained = TRUE
    LateFailures = FALSE
    TextUndo = TRUE
    TransactionUndo = FALSE
    ReadonlyOpens = FALSE
INVARIANT RecoveryOpens
CHECK_DEADLOCK FALSE
