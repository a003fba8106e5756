\* Two kinds share one generation counter; two sessions issue the same
\* generations.
SPECIFICATION Spec
CONSTANTS
    SessionTaskKind = {PersistenceSave, AiStream}
    TaskKeys = {1, 2}
    MaxSessions = 2
    MaxBegins = 4
    GenerationModulus = 5
INVARIANTS
    CompletionIsCurrent
    NextTokenIsFresh
CHECK_DEADLOCK FALSE
