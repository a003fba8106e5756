\* One block twice edited and a second one, three overlapping writes.
SPECIFICATION Spec
CONSTANTS
    Blocks = {b1, b2}
    MaxVersion = 2
    MaxSaves = 3
INVARIANTS CloseGuardSound UnsavedKept SavingHasWrite
PROPERTY ResultsOnlyAdvance
CHECK_DEADLOCK TRUE
