SPECIFICATION Spec
CONSTANTS
    Pieces = 2
    Window = 1
    MaxRx = 2
    CloseError = "ErrClosed"
    MaxDev = 0
    MaxEvents = 1
PROPERTY PeerEndStops
CHECK_DEADLOCK FALSE
