SPECIFICATION CodecSpec
CONSTANTS
    Base = 32
    U32 = 2
    U64 = 3
    V4Len = 2
    V6Len = 6
    XLen = 2
    MLen = 3
    MaxDNSEntries = 2
    Samples <- MCSamples
    MaxFrames = 2
INVARIANT EOFOnlyBetweenFrames
CHECK_DEADLOCK FALSE
