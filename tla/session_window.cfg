SPECIFICATION Spec
CONSTANTS
    Pieces = 1
    Window = 1
    Load <- Heavy
    CloseError = "ErrClosed"
    MaxDev = 2
    MaxEvents = 0
INVARIANT RestsCaughtUp
CHECK_DEADLOCK FALSE
