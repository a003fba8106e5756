SPECIFICATION FairSpec
CONSTANTS
    Barriers = {b1}
    MaxRevision = 2
    MaxFailures = 1
    AutosaveEnabled = TRUE
    RemoteEdits = FALSE
    ReadonlySwitches = FALSE
    HostDeactivates = TRUE
PROPERTIES
    BarrierAnswered
CHECK_DEADLOCK FALSE
