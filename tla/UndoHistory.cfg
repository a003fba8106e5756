\* Four records: up to three transactions, large and small ones, and text
\* snapshots between them, in a history of two of each.
SPECIFICATION Spec
CONSTANTS
    Kinds = {"typing", "typing joined", "large"}
    MaxSteps = 2
    MaxTextSteps = 2
    MaxTransactions = 3
    MaxRecords = 4
    MaxLate = 1
INVARIANTS
    TypeOK
    EventsMatchSteps
    SpillHasJob
    DeletesSpareHistory
PROPERTIES
    ImplementsContract
