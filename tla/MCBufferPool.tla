--------------------------- MODULE MCBufferPool ---------------------------
(* Small instances of BufferPool.  Packets are 1 (IPv4), 2 (IPv6) and 3    *)
(* (neither) on the device, 4 and 5 from the peer; SliceSize is 2.         *)
EXTENDS BufferPool, TLC

CONSTANT PeerMax   \* length of the longest payload the peer sends

MCSize == [p \in Pkts |-> IF p = 5 THEN PeerMax ELSE IF p = 1 THEN 1 ELSE 2]
MCVersion == [p \in Pkts |-> IF p = 3 THEN 0 ELSE IF p = 2 THEN 6 ELSE 4]
MCDevPkts == 1..3
MCPeerPkts == 4..5
MCNoPkt == 0

BufSymmetry == Permutations(Bufs)

=============================================================================
