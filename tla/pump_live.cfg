SPECIFICATION Spec
CONSTANTS
    Pieces = 2
    Window = 1
    MaxRx = 2
    CloseError = "ErrClosed"
    MaxDev = 1
    MaxEvents = 1
PROPERTIES
    CancelStops
    FailureStops
    TeardownCompletes
CHECK_DEADLOCK FALSE
