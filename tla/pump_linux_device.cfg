SPECIFICATION Spec
CONSTANTS
    Pieces = 2
    Window = 1
    MaxRx = 2
    CloseError = "osErrClosed"
    MaxDev = 1
    MaxEvents = 1
INVARIANT GracefulIsNil
CHECK_DEADLOCK FALSE
