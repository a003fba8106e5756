SPECIFICATION FairSpec
CONSTANTS
    Barriers = {b1, b2}
    MaxRevision = 2
    MaxFailures = 1
    AutosaveEnabled = TRUE
    RemoteEdits = FALSE
    ReadonlySwitches = FALSE
    HostDeactivates = FALSE
INVARIANTS
    AutosaveArmed
    DebounceHasTimer
PROPERTIES
    BarrierAnswered
    AutosaveDrains
CHECK_DEADLOCK FALSE
