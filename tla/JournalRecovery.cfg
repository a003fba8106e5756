SPECIFICATION Spec
CONSTANTS
    MaxChanges = 4
    MaxFailures = 2
    MaxCrashes = 2
    MaxLogEntries = 4
    MatchesRetained = FALSE
    LateFailures = FALSE
    TextUndo = FALSE
    TransactionUndo = FALSE
    ReadonlyOpens = FALSE
INVARIANTS RecoveryFaithful RecoveryOpens JournalComplete JournalIdsIncrease
PROPERTY SecuredStaysSecured
CHECK_DEADLOCK FALSE
