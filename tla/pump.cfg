SPECIFICATION Spec
CONSTANTS
    Pieces = 2
    Window = 1
    MaxRx = 2
    CloseError = "ErrClosed"
    MaxDev = 1
    MaxEvents = 2
INVARIANTS
    TypeOK
    CauseNamed
    NilMeansGraceful
PROPERTIES
    QuietAfterReturn
CHECK_DEADLOCK FALSE
