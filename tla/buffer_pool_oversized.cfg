SPECIFICATION PoolSpec
CONSTANTS
    Bufs = {b1, b2, b3, b4}
    NoBuf = NoBuf
    DevPkts <- MCDevPkts
    PeerPkts <- MCPeerPkts
    NoPkt <- MCNoPkt
    Size <- MCSize
    Version <- MCVersion
    SliceSize = 2
    MaxPkts = 2
    PeerMax = 3
SYMMETRY BufSymmetry
INVARIANT Faithful
CHECK_DEADLOCK FALSE
