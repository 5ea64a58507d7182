SPECIFICATION Spec
CONSTANTS
    Pieces = 1
    Window = 1
    Load <- Uneven
    CloseError = "ErrClosed"
    MaxDev = 2
    MaxEvents = 1
INVARIANTS
    RestIsNoStep
    RestsFourWays
    RoomyCatchesUp
    RoomyStops
    EndToEnd
CHECK_DEADLOCK FALSE
