\* Two blocks that fit the viewport together or one at a time, a cache for
\* one, one failed attempt, and an edit before or during a save.
SPECIFICATION FairSpec
CONSTANTS
    NumBlocks = 2
    Absent = {}
    VisibleSize = 2
    Overscan = 0
    Lookahead = 1
    MaxEntries = 1
    MaxAttempts = 1
    Generations = {1, 2}
    MaxEdits = 1
INVARIANTS
    NoEditLost
    CleanIsStored
    MarkersHeld
PROPERTIES
    ViewportResolved
CHECK_DEADLOCK TRUE
