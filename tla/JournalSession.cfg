SPECIFICATION Spec
CONSTANTS
    MaxChanges = 4
    MaxFailures = 2
    MaxCrashes = 0
    MaxLogEntries = 4
    MatchesRetained = TRUE
    LateFailures = TRUE
    TextUndo = FALSE
    TransactionUndo = FALSE
    ReadonlyOpens = FALSE
INVARIANTS RecoveryFaithful RecoveryOpens
CHECK_DEADLOCK FALSE
