SPECIFICATION TransportSpec
CONSTANTS
    Bufs = {b1, b2, b3}
    NoBuf = NoBuf
    DevPkts <- MCDevPkts
    PeerPkts <- MCPeerPkts
    NoPkt <- MCNoPkt
    Size <- MCSize
    Version <- MCVersion
    SliceSize = 2
    MaxPkts = 2
    PeerMax = 2
    Callers = {c1, c2}
    NoCaller = NoCaller
    Frames <- MCFrames
    Pieces = 3
    Window = 5
    MaxRx = 3
    Base = 32
    U32 = 2
    U64 = 3
    V4Len = 2
    V6Len = 6
    XLen = 2
    MLen = 3
    MaxDNSEntries = 2
    Samples <- MCSamples
    MaxFrames = 2
SYMMETRY TransportSymmetry
INVARIANTS
    PoolTypes
    ExclusiveOwner
    TunTypes
    WireWellFormed
    TornOnlyWhenClosed
    RoundTrip
    Complete
    EOFOnlyAtAddress
PROPERTIES
    RelaySpec
    ClosedForGood
CHECK_DEADLOCK FALSE
