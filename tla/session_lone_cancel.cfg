SPECIFICATION Spec
CONSTANTS
    Pieces = 1
    Window = 1
    Load <- NoLoad
    CloseError = "ErrClosed"
    MaxDev = 2
    MaxEvents = 1
INVARIANT CancelReturns
CHECK_DEADLOCK FALSE
