----------------------------- MODULE BufferPool -----------------------------
(***************************************************************************)
(* The buffers of one session (internal/tunnel/session/pump_linux.go): the *)
(* sync.Pool that pumpUp and pumpDown share, getBuf and putBuf, and the    *)
(* two loops seen through the buffer each holds.                           *)
(*                                                                         *)
(* A buffer is a backing array; the pool holds references to backing       *)
(* arrays, so it is a multiset: pooled[b] counts the references to b in    *)
(* it.  What the loops do about the lifecycle (which error is graceful,    *)
(* when ctx is done) is module Pump's subject; here every call may fail    *)
(* and ctx may be done at any check.                                       *)
(***************************************************************************)
EXTENDS Naturals, Sequences

CONSTANTS
    Bufs,       \* the backing arrays the program may have allocated at a time
    NoBuf,      \* a direction holds no buffer
    DevPkts,    \* packets the kernel hands out on the TUN device
    PeerPkts,   \* payloads of the packet frames the peer sends
    NoPkt,      \* a direction carries no packet, a buffer holds none
    Size,       \* Size[p]: length of packet p in bytes
    Version,    \* Version[p]: high nibble of the first byte of p
    SliceSize,  \* dev.MTU() + bufferOverhead, at least 1
    MaxPkts     \* bound: packets taken in per direction

Pkts == DevPkts \cup PeerPkts

ASSUME ConstantsAssumption ==
    /\ NoBuf \notin Bufs
    /\ NoPkt \notin Pkts
    /\ Size \in [Pkts -> Nat]
    /\ Version \in [Pkts -> 0..15]
    /\ SliceSize \in Nat \ {0}
    /\ MaxPkts \in Nat

VARIABLES
    pooled,   \* pooled[b]: references to b in the sync.Pool
    cap,      \* cap[b]: capacity of b
    data,     \* data[b]: the packet whose first len bytes b starts with
    up,       \* pumpUp:   [pc, buf, pkt, tag], pkt being the packet read
    down,     \* pumpDown: [pc, buf, pkt], pkt being the payload received
    inp, out  \* per direction, what must leave and what has left (history)

poolVars == <<pooled, cap, data, up, down, inp, out>>
pool == <<pooled, cap>>

Dirs == {"up", "down"}

\* The first n bytes of p, which is all of p when n = Size[p].
Bytes(p, n) == [pkt |-> p, len |-> n]
Whole(p) == Bytes(p, Size[p])
Zeroed == [pkt |-> NoPkt, len |-> 0]
AsFrame(t, c) == [tag |-> t, packet |-> c]
Shorter(m, n) == IF m <= n THEN m ELSE n

Idle(pc) == [pc |-> pc, buf |-> NoBuf, pkt |-> NoPkt, tag |-> 0]

PoolInit == /\ pooled = [b \in Bufs |-> 0]
            /\ cap = [b \in Bufs |-> SliceSize]
            /\ data = [b \in Bufs |-> Zeroed]
            /\ up = Idle("top")
            /\ down = Idle("top")
            /\ inp = [d \in Dirs |-> <<>>]
            /\ out = [d \in Dirs |-> <<>>]

-----------------------------------------------------------------------------
(* sync.Pool, getBuf, putBuf *)

\* No reference to b is left: the collector has taken it, make may reuse it.
Free(b) == pooled[b] = 0 /\ up.buf # b /\ down.buf # b

\* pool.Get returned b: a reference the pool held, or one made by New.
AfterGet(b) == IF pooled[b] > 0 THEN [pooled EXCEPT ![b] = @ - 1] ELSE pooled
GotCap(b) == IF pooled[b] > 0 THEN cap[b] ELSE SliceSize

\* The caller of getBuf gets n, pool.Get having returned b.  When b is too
\* small it is dropped, and the buffer made instead goes both into the pool
\* and to the caller.
getBuf(b, n, want) ==
    /\ pooled[b] > 0 \/ Free(b)
    /\ \/ /\ GotCap(b) >= want
          /\ n = b
          /\ pooled' = AfterGet(b)
          /\ cap' = [cap EXCEPT ![n] = GotCap(b)]
       \/ /\ GotCap(b) < want
          /\ n # b
          /\ Free(n)
          /\ pooled' = [AfterGet(b) EXCEPT ![n] = @ + 1]
          /\ cap' = [cap EXCEPT ![n] = want]
    /\ data' = [data EXCEPT ![n] = IF Free(n) THEN Zeroed ELSE @]

putBuf(b) == pooled' = [pooled EXCEPT ![b] = @ + 1] /\ UNCHANGED cap

\* The collector empties the pool behind the program's back.
Collect(b) == /\ pooled[b] > 0
              /\ pooled' = [pooled EXCEPT ![b] = @ - 1]
              /\ UNCHANGED <<cap, data, up, down, inp, out>>

-----------------------------------------------------------------------------
(* pumpUp: TUN -> wire *)

UpStop == /\ up.pc = "top"
          /\ up' = Idle("done")
          /\ UNCHANGED <<pool, data, down, inp, out>>

UpGet == /\ up.pc = "top"
         /\ Len(inp["up"]) < MaxPkts
         /\ \E b, n \in Bufs : /\ getBuf(b, n, 0)
                               /\ up' = [up EXCEPT !.pc = "read", !.buf = n]
         /\ UNCHANGED <<down, inp, out>>

\* dev.Read fills the buffer with one packet, cut to the buffer's length.
UpRead(p) ==
    /\ up.pc = "read"
    /\ Size[p] > 0
    /\ data' = [data EXCEPT ![up.buf] = Bytes(p, Shorter(Size[p], cap[up.buf]))]
    /\ inp' = [inp EXCEPT !["up"] = Append(@, AsFrame(Version[p], Whole(p)))]
    /\ up' = [up EXCEPT !.pc = "tag", !.pkt = p]
    /\ UNCHANGED <<pool, down, out>>

\* A zero-length read is skipped.
UpReadNothing ==
    /\ up.pc = "read"
    /\ putBuf(up.buf)
    /\ up' = Idle("top")
    /\ UNCHANGED <<data, down, inp, out>>

\* Mutants of UpTag: one tag for every packet; the buffer put back too early.
UpTagAlwaysIPv4 ==
    /\ up.pc = "tag"
    /\ up' = [up EXCEPT !.pc = "send", !.tag = 4]
    /\ UNCHANGED <<pool, data, down, inp, out>>
UpTagPutsEarly ==
    /\ up.pc = "tag"
    /\ putBuf(up.buf)
    /\ up' = [up EXCEPT !.pc = "send", !.tag = Version[data[up.buf].pkt]]
    /\ UNCHANGED <<data, down, inp, out>>

\* Tag dispatch on the version nibble of what the buffer holds.
UpTag ==
    /\ up.pc = "tag"
    /\ Version[data[up.buf].pkt] \in {4, 6}
    /\ up' = [up EXCEPT !.pc = "send", !.tag = Version[data[up.buf].pkt]]
    /\ UNCHANGED <<pool, data, down, inp, out>>

UpTagUnknown ==
    /\ up.pc = "tag"
    /\ Version[data[up.buf].pkt] \notin {4, 6}
    /\ putBuf(up.buf)
    /\ up' = Idle("done")
    /\ UNCHANGED <<data, down, inp, out>>

\* SendFrame writes what the buffer holds by then.
UpSend ==
    /\ up.pc = "send"
    /\ out' = [out EXCEPT !["up"] = Append(@, AsFrame(up.tag, data[up.buf]))]
    /\ up' = [up EXCEPT !.pc = "put"]
    /\ UNCHANGED <<pool, data, down, inp>>

UpPut == /\ up.pc = "put"
         /\ putBuf(up.buf)
         /\ up' = Idle("top")
         /\ UNCHANGED <<data, down, inp, out>>

\* dev.Read returned an error, graceful or not.
UpReadFails == /\ up.pc = "read"
               /\ putBuf(up.buf)
               /\ up' = Idle("done")
               /\ UNCHANGED <<data, down, inp, out>>

\* Mutant of UpSendFails: the error path returns without putBuf.
UpSendFailsKeepsBuf ==
    /\ up.pc = "send"
    /\ up' = [up EXCEPT !.pc = "done"]
    /\ UNCHANGED <<pool, data, down, inp, out>>

\* tun.SendFrame did.
UpSendFails == /\ up.pc = "send"
               /\ putBuf(up.buf)
               /\ up' = Idle("done")
               /\ UNCHANGED <<data, down, inp, out>>

-----------------------------------------------------------------------------
(* pumpDown: wire -> TUN *)

\* ctx done, RecvFrame failed, no frame, or a Close frame: no buffer yet.
\* (A frame without a packet starts the loop again: no step of this model.)
DownStop == /\ down.pc = "top"
            /\ down' = Idle("done")
            /\ UNCHANGED <<pool, data, up, inp, out>>

DownRecv(p) ==
    /\ down.pc = "top"
    /\ Len(inp["down"]) < MaxPkts
    /\ inp' = [inp EXCEPT !["down"] = Append(@, Whole(p))]
    /\ down' = [down EXCEPT !.pc = "get", !.pkt = p]
    /\ UNCHANGED <<pool, data, up, out>>

DownGet == /\ down.pc = "get"
           /\ \E b, n \in Bufs : /\ getBuf(b, n, Size[down.pkt])
                                 /\ down' = [down EXCEPT !.pc = "copy", !.buf = n]
           /\ UNCHANGED <<up, inp, out>>

\* copy(buf, frame.Packet)
DownCopy ==
    /\ down.pc = "copy"
    /\ data' = [data EXCEPT ![down.buf] =
                   Bytes(down.pkt, Shorter(Size[down.pkt], cap[down.buf]))]
    /\ down' = [down EXCEPT !.pc = "write"]
    /\ UNCHANGED <<pool, up, inp, out>>

DownWrite ==
    /\ down.pc = "write"
    /\ out' = [out EXCEPT !["down"] = Append(@, data[down.buf])]
    /\ down' = [down EXCEPT !.pc = "put"]
    /\ UNCHANGED <<pool, data, up, inp>>

DownPut == /\ down.pc = "put"
           /\ putBuf(down.buf)
           /\ down' = Idle("top")
           /\ UNCHANGED <<data, up, inp, out>>

\* dev.Write returned an error, graceful or not.
DownFail == /\ down.pc = "write"
            /\ putBuf(down.buf)
            /\ down' = Idle("done")
            /\ UNCHANGED <<data, up, inp, out>>

-----------------------------------------------------------------------------
UpNext == \/ UpStop \/ UpGet \/ UpReadNothing \/ UpTag \/ UpTagUnknown
          \/ UpSend \/ UpPut \/ UpReadFails \/ UpSendFails
          \/ \E p \in DevPkts : UpRead(p)

DownNext == \/ DownStop \/ DownGet \/ DownCopy \/ DownWrite \/ DownPut \/ DownFail
            \/ \E p \in PeerPkts : DownRecv(p)

PoolNext == UpNext \/ DownNext \/ \E b \in Bufs : Collect(b)

PoolSpec == PoolInit /\ [][PoolNext]_poolVars

-----------------------------------------------------------------------------
(* Properties *)

Contents == [pkt : Pkts \cup {NoPkt}, len : Nat]
TaggedFrames == [tag : 0..15, packet : Contents]
HoldsBuf == {"read", "tag", "send", "copy", "write", "put"}

\* Type correctness; a direction holds a buffer exactly between getBuf and
\* putBuf, so every return path of pumpUp and pumpDown has put its buffer back.
PoolTypes ==
    /\ pooled \in [Bufs -> Nat]
    /\ cap \in [Bufs -> Nat]
    /\ data \in [Bufs -> Contents]
    /\ up \in [pc : {"top", "read", "tag", "send", "put", "done"},
               buf : Bufs \cup {NoBuf}, pkt : DevPkts \cup {NoPkt}, tag : 0..15]
    /\ down \in [pc : {"top", "get", "copy", "write", "put", "done"},
                 buf : Bufs \cup {NoBuf}, pkt : PeerPkts \cup {NoPkt}, tag : {0}]
    /\ (up.buf \in Bufs) <=> (up.pc \in HoldsBuf)
    /\ (down.buf \in Bufs) <=> (down.pc \in HoldsBuf)
    /\ inp \in [Dirs -> Seq(TaggedFrames \cup Contents)]
    /\ out \in [Dirs -> Seq(TaggedFrames \cup Contents)]

\* A backing array has one owner: the pool (which holds it once), pumpUp or
\* pumpDown.  Otherwise the next getBuf hands one direction the bytes the
\* other is still sending or writing (pump_linux.go:218-238).
ExclusiveOwner ==
    /\ \A b \in Bufs : pooled[b] <= 1
    /\ \A b \in {up.buf, down.buf} \cap Bufs : pooled[b] = 0
    /\ up.buf = down.buf => up.buf = NoBuf

\* What has left is a prefix of what must leave.  pump_linux.go:341-343 relies
\* on it when SendFrame returns: "the buffer is ours again".
Faithful ==
    \A d \in Dirs : /\ Len(out[d]) <= Len(inp[d])
                    /\ \A i \in 1..Len(out[d]) : out[d][i] = inp[d][i]

\* The session is a faithful relay (module Relay): packets leave in each
\* direction in order and unchanged, under the tag of their IP version.
R == INSTANCE Relay WITH
        Items <- {AsFrame(Version[p], Whole(p)) : p \in DevPkts} \cup {Whole(p) : p \in PeerPkts},
        live <- [d \in Dirs |-> IF d = "up" THEN up.pc # "done" ELSE down.pc # "done"]
RelaySpec == R!Spec

=============================================================================
