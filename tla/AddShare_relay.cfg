\* One session without failures, every message and every goroutine.
SPECIFICATION Spec
CONSTANTS
    New = "new"
    Existing = "existing"
    Server = "server"
INVARIANTS
    TypeOK
    AdderReady
    NothingTooLate
    NothingLeftBehind
PROPERTIES
    StageNeverBack
    ImplementsProcess
    SessionEnds
CHECK_DEADLOCK FALSE
