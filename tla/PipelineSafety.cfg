SPECIFICATION Spec
CONSTANTS
    Barriers = {b1, b2}
    MaxRevision = 3
    MaxFailures = 1
    AutosaveEnabled = TRUE
    RemoteEdits = TRUE
    ReadonlySwitches = TRUE
    HostDeactivates = TRUE
INVARIANTS
    BarrierDurable
    ReportedCleanIsDurable
    SlotTracksWork
    GenerationsTrackContent
PROPERTIES
    ImplementsContract
CHECK_DEADLOCK FALSE
