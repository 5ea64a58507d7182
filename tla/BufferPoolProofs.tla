-------------------------- MODULE BufferPoolProofs --------------------------
(***************************************************************************)
(* While no packet is larger than a pool buffer, each buffer has one owner *)
(* and the session implements Relay, for any number of buffers, packets    *)
(* and any slice size.  One inductive invariant, Inv, carries all of it.   *)
(* The last section drops that premise: what PoolInv keeps of it holds for *)
(* packets of any size, and says where the sharing comes from.             *)
(***************************************************************************)
EXTENDS BufferPool, TLAPS

\* The premise getBuf's comment states as a fact (pump_linux.go:214-217).
PacketsFit == \A p \in Pkts : Size[p] <= SliceSize

\* Under PacketsFit no buffer is ever made with another capacity.
CapsNominal == \A b \in Bufs : cap[b] = SliceSize

\* What pumpUp has read is still in its buffer, and is the packet in flight.
UpInFlight ==
    /\ up.pc \in {"top", "read", "put"} => Len(inp["up"]) = Len(out["up"])
    /\ up.pc \in {"tag", "send"} =>
          /\ up.pkt \in DevPkts
          /\ data[up.buf] = Whole(up.pkt)
          /\ Len(inp["up"]) = Len(out["up"]) + 1
          /\ inp["up"][Len(inp["up"])] = AsFrame(Version[up.pkt], Whole(up.pkt))
    /\ up.pc = "send" => up.tag = Version[up.pkt]

\* The same for pumpDown, whose buffer holds the payload once it is copied.
DownInFlight ==
    /\ down.pc \in {"top", "put"} => Len(inp["down"]) = Len(out["down"])
    /\ down.pc \in {"get", "copy", "write"} =>
          /\ down.pkt \in PeerPkts
          /\ Len(inp["down"]) = Len(out["down"]) + 1
          /\ inp["down"][Len(inp["down"])] = Whole(down.pkt)
    /\ down.pc = "write" => data[down.buf] = Whole(down.pkt)

Inv == PoolTypes /\ ExclusiveOwner /\ CapsNominal /\ UpInFlight /\ DownInFlight

-----------------------------------------------------------------------------

\* While packets fit, getBuf hands out a buffer that nobody else refers to:
\* its resizing branch (pump_linux.go:221-228) is not taken.
LEMMA GetBufExclusive ==
    ASSUME Inv, NEW b \in Bufs, NEW n \in Bufs, NEW want \in Nat,
           want <= SliceSize, getBuf(b, n, want)
    PROVE  /\ pooled' \in [Bufs -> Nat]
           /\ cap' = cap
           /\ data' \in [Bufs -> Contents]
           /\ pooled'[n] = 0
           /\ n # up.buf /\ n # down.buf
           /\ \A x \in Bufs : x # n => pooled'[x] = pooled[x] /\ data'[x] = data[x]
<1>1. GotCap(b) = SliceSize
    BY DEF Inv, CapsNominal, GotCap
<1>2. /\ n = b
      /\ pooled' = AfterGet(b)
      /\ cap' = [cap EXCEPT ![n] = SliceSize]
    BY <1>1, ConstantsAssumption DEF getBuf
<1>3. cap' = cap
    BY <1>2 DEF Inv, CapsNominal, PoolTypes
<1>4. data' \in [Bufs -> Contents] /\ \A x \in Bufs : x # n => data'[x] = data[x]
    BY DEF Inv, PoolTypes, getBuf, Contents, Zeroed
<1>5. pooled[b] \in {0, 1}
    BY DEF Inv, PoolTypes, ExclusiveOwner
<1>6. /\ pooled' \in [Bufs -> Nat]
      /\ pooled'[n] = 0
      /\ \A x \in Bufs : x # n => pooled'[x] = pooled[x]
    BY <1>2, <1>5 DEF Inv, PoolTypes, AfterGet
<1>7. n # up.buf /\ n # down.buf
    BY <1>2 DEF Inv, ExclusiveOwner, PoolTypes, getBuf, Free
<1> QED BY <1>3, <1>4, <1>6, <1>7

\* putBuf of the buffer a direction holds puts the only reference to it back.
LEMMA PutBufExclusive ==
    ASSUME Inv, NEW b \in Bufs, b \in {up.buf, down.buf}, putBuf(b)
    PROVE  /\ pooled' \in [Bufs -> Nat]
           /\ cap' = cap
           /\ pooled'[b] = 1
           /\ \A x \in Bufs : x # b => pooled'[x] = pooled[x]
    BY DEF Inv, PoolTypes, ExclusiveOwner, putBuf

\* The initial state of Run: an empty pool, both loops at their top.
LEMMA InitInv == PoolInit => Inv
<1> SUFFICES ASSUME PoolInit PROVE Inv
    OBVIOUS
<1> USE ConstantsAssumption DEF PoolInit, Idle
<1>1. PoolTypes
    BY DEF PoolTypes, Dirs, Contents, Zeroed, HoldsBuf
<1>2. ExclusiveOwner
    BY DEF ExclusiveOwner
<1>3. CapsNominal
    BY DEF CapsNominal
<1>4. UpInFlight /\ DownInFlight
    BY DEF UpInFlight, DownInFlight, Dirs
<1> QED BY <1>1, <1>2, <1>3, <1>4 DEF Inv

\* Steps that move a buffer out of the pool.
LEMMA GetPreserves == PacketsFit /\ Inv /\ (UpGet \/ DownGet) => Inv'
<1> SUFFICES ASSUME PacketsFit, Inv, UpGet \/ DownGet PROVE Inv'
    OBVIOUS
<1> USE ConstantsAssumption
<1>1. CASE UpGet
  <2>1. PICK b \in Bufs, n \in Bufs : /\ getBuf(b, n, 0)
                                      /\ up' = [up EXCEPT !.pc = "read", !.buf = n]
      BY <1>1 DEF UpGet
  <2>2. /\ pooled' \in [Bufs -> Nat]
        /\ cap' = cap
        /\ data' \in [Bufs -> Contents]
        /\ pooled'[n] = 0
        /\ n # up.buf /\ n # down.buf
        /\ \A x \in Bufs : x # n => pooled'[x] = pooled[x] /\ data'[x] = data[x]
      BY <2>1, GetBufExclusive
  <2>3. up.pc = "top" /\ UNCHANGED <<down, inp, out>>
      BY <1>1 DEF UpGet
  <2>4. PoolTypes'
      BY <2>1, <2>2, <2>3 DEF Inv, PoolTypes, HoldsBuf
  <2>5. ExclusiveOwner'
    <3>1. up'.buf = n /\ down' = down
        BY <2>1, <2>3 DEF Inv, PoolTypes
    <3>2. \A x \in Bufs : pooled'[x] <= 1
        BY <2>2 DEF Inv, ExclusiveOwner
    <3>3. down.buf \in Bufs => pooled'[down.buf] = 0
        BY <2>2 DEF Inv, ExclusiveOwner
    <3> QED BY <2>2, <3>1, <3>2, <3>3 DEF ExclusiveOwner
  <2>6. CapsNominal'
      BY <2>2 DEF Inv, CapsNominal
  <2>7. UpInFlight'
      BY <2>1, <2>3 DEF Inv, PoolTypes, UpInFlight
  <2>8. DownInFlight'
      BY <2>2, <2>3 DEF Inv, PoolTypes, DownInFlight, HoldsBuf
  <2> QED BY <2>4, <2>5, <2>6, <2>7, <2>8 DEF Inv
<1>2. CASE DownGet
  <2>0. down.pc = "get" /\ UNCHANGED <<up, inp, out>>
      BY <1>2 DEF DownGet
  <2>1. PICK b \in Bufs, n \in Bufs : /\ getBuf(b, n, Size[down.pkt])
                                      /\ down' = [down EXCEPT !.pc = "copy", !.buf = n]
      BY <1>2 DEF DownGet
  <2>2. Size[down.pkt] \in Nat /\ Size[down.pkt] <= SliceSize
      BY <2>0 DEF Inv, DownInFlight, PacketsFit, Pkts
  <2>3. /\ pooled' \in [Bufs -> Nat]
        /\ cap' = cap
        /\ data' \in [Bufs -> Contents]
        /\ pooled'[n] = 0
        /\ n # up.buf /\ n # down.buf
        /\ \A x \in Bufs : x # n => pooled'[x] = pooled[x] /\ data'[x] = data[x]
      BY <2>1, <2>2, GetBufExclusive
  <2>4. PoolTypes'
      BY <2>0, <2>1, <2>3 DEF Inv, PoolTypes, HoldsBuf
  <2>5. ExclusiveOwner'
    <3>1. down'.buf = n /\ up' = up
        BY <2>0, <2>1 DEF Inv, PoolTypes
    <3>2. \A x \in Bufs : pooled'[x] <= 1
        BY <2>3 DEF Inv, ExclusiveOwner
    <3>3. up.buf \in Bufs => pooled'[up.buf] = 0
        BY <2>3 DEF Inv, ExclusiveOwner
    <3> QED BY <2>3, <3>1, <3>2, <3>3 DEF ExclusiveOwner
  <2>6. CapsNominal'
      BY <2>3 DEF Inv, CapsNominal
  <2>7. UpInFlight'
      BY <2>0, <2>3 DEF Inv, PoolTypes, UpInFlight, HoldsBuf
  <2>8. DownInFlight'
      BY <2>0, <2>1 DEF Inv, PoolTypes, DownInFlight
  <2> QED BY <2>4, <2>5, <2>6, <2>7, <2>8 DEF Inv
<1> QED BY <1>1, <1>2

\* Steps that put the buffer of a direction back: the loop's end, a skipped
\* read and every error path.
LEMMA PutPreserves ==
    Inv /\ (UpReadNothing \/ UpTagUnknown \/ UpPut \/ UpReadFails \/ UpSendFails \/ DownPut \/ DownFail)
        => Inv'
<1> USE ConstantsAssumption
<1>1. ASSUME Inv, UpReadNothing \/ UpTagUnknown \/ UpPut \/ UpReadFails \/ UpSendFails PROVE Inv'
  <2>1. /\ up.pc \in {"read", "tag", "send", "put"}
        /\ \/ up' = Idle("done")
           \/ up' = Idle("top") /\ up.pc \in {"read", "put"}
        /\ putBuf(up.buf)
        /\ UNCHANGED <<data, down, inp, out>>
      BY <1>1 DEF UpReadNothing, UpTagUnknown, UpPut, UpReadFails, UpSendFails
  <2>2. up.buf \in Bufs
      BY <1>1, <2>1 DEF Inv, PoolTypes, HoldsBuf
  <2>3. /\ pooled' \in [Bufs -> Nat]
        /\ cap' = cap
        /\ pooled'[up.buf] = 1
        /\ \A x \in Bufs : x # up.buf => pooled'[x] = pooled[x]
      BY <1>1, <2>1, <2>2, PutBufExclusive
  <2>4. PoolTypes'
      BY <1>1, <2>1, <2>3 DEF Inv, PoolTypes, HoldsBuf, Idle
  <2>5. ExclusiveOwner'
    <3>1. up'.buf = NoBuf /\ down' = down
        BY <2>1 DEF Idle
    <3>2. down.buf # up.buf
        BY <1>1, <2>2 DEF Inv, ExclusiveOwner
    <3>3. \A x \in Bufs : pooled'[x] <= 1
        BY <1>1, <2>3 DEF Inv, ExclusiveOwner
    <3>4. down.buf \in Bufs => pooled'[down.buf] = 0
        BY <1>1, <2>3, <3>2 DEF Inv, ExclusiveOwner
    <3> QED BY <3>1, <3>3, <3>4 DEF ExclusiveOwner
  <2>6. CapsNominal'
      BY <1>1, <2>3 DEF Inv, CapsNominal
  <2>7. UpInFlight' /\ DownInFlight'
      BY <1>1, <2>1 DEF Inv, UpInFlight, DownInFlight, Idle
  <2> QED BY <2>4, <2>5, <2>6, <2>7 DEF Inv
<1>2. ASSUME Inv, DownPut \/ DownFail PROVE Inv'
  <2>1. /\ down.pc \in {"write", "put"}
        /\ \/ down' = Idle("done")
           \/ down' = Idle("top") /\ down.pc = "put"
        /\ putBuf(down.buf)
        /\ UNCHANGED <<data, up, inp, out>>
      BY <1>2 DEF DownPut, DownFail
  <2>2. down.buf \in Bufs
      BY <1>2, <2>1 DEF Inv, PoolTypes, HoldsBuf
  <2>3. /\ pooled' \in [Bufs -> Nat]
        /\ cap' = cap
        /\ pooled'[down.buf] = 1
        /\ \A x \in Bufs : x # down.buf => pooled'[x] = pooled[x]
      BY <1>2, <2>1, <2>2, PutBufExclusive
  <2>4. PoolTypes'
      BY <1>2, <2>1, <2>3 DEF Inv, PoolTypes, HoldsBuf, Idle
  <2>5. ExclusiveOwner'
    <3>1. down'.buf = NoBuf /\ up' = up
        BY <2>1 DEF Idle
    <3>2. down.buf # up.buf
        BY <1>2, <2>2 DEF Inv, ExclusiveOwner
    <3>3. \A x \in Bufs : pooled'[x] <= 1
        BY <1>2, <2>3 DEF Inv, ExclusiveOwner
    <3>4. up.buf \in Bufs => pooled'[up.buf] = 0
        BY <1>2, <2>3, <3>2 DEF Inv, ExclusiveOwner
    <3> QED BY <3>1, <3>3, <3>4 DEF ExclusiveOwner
  <2>6. CapsNominal'
      BY <1>2, <2>3 DEF Inv, CapsNominal
  <2>7. UpInFlight' /\ DownInFlight'
      BY <1>2, <2>1 DEF Inv, UpInFlight, DownInFlight, Idle
  <2> QED BY <2>4, <2>5, <2>6, <2>7 DEF Inv
<1> QED BY <1>1, <1>2

\* Steps that fill or read a buffer, or end a loop, and leave the pool alone.
LEMMA CarryPreserves ==
    PacketsFit /\ Inv /\ (\/ UpStop \/ UpTag \/ UpSend \/ \E p \in DevPkts : UpRead(p)
                         \/ DownStop \/ DownCopy \/ DownWrite
                         \/ \E p \in PeerPkts : DownRecv(p)) => Inv'
<1> SUFFICES ASSUME PacketsFit, Inv
             PROVE  (\/ UpStop \/ UpTag \/ UpSend \/ \E p \in DevPkts : UpRead(p)
                     \/ DownStop \/ DownCopy \/ DownWrite
                     \/ \E p \in PeerPkts : DownRecv(p)) => Inv'
    OBVIOUS
<1> USE ConstantsAssumption
<1>f. \A p \in Pkts, b \in Bufs : Shorter(Size[p], cap[b]) = Size[p]
    BY DEF Inv, CapsNominal, PacketsFit, Shorter
<1>1. ASSUME UpStop PROVE Inv'
    BY <1>1 DEF UpStop, Inv, PoolTypes, ExclusiveOwner, CapsNominal, UpInFlight,
                DownInFlight, Idle, pool, HoldsBuf
<1>2. ASSUME UpTag PROVE Inv'
  <2>1. /\ up.pc = "tag"
        /\ up' = [up EXCEPT !.pc = "send", !.tag = Version[data[up.buf].pkt]]
        /\ UNCHANGED <<pooled, cap, data, down, inp, out>>
      BY <1>2 DEF UpTag, pool
  <2>2. /\ up.pkt \in DevPkts
        /\ Version[data[up.buf].pkt] = Version[up.pkt]
        /\ Version[up.pkt] \in 0..15
      BY <2>1 DEF Inv, UpInFlight, Whole, Bytes, Pkts
  <2>3. PoolTypes'
      BY <2>1, <2>2 DEF Inv, PoolTypes, HoldsBuf
  <2>4. ExclusiveOwner' /\ CapsNominal' /\ DownInFlight'
      BY <2>1 DEF Inv, PoolTypes, ExclusiveOwner, CapsNominal, DownInFlight
  <2>5. UpInFlight'
      BY <2>1, <2>2 DEF Inv, PoolTypes, UpInFlight
  <2> QED BY <2>3, <2>4, <2>5 DEF Inv
<1>3. ASSUME UpSend PROVE Inv'
  <2>1. /\ up.pc = "send"
        /\ out' = [out EXCEPT !["up"] = Append(@, AsFrame(up.tag, data[up.buf]))]
        /\ up' = [up EXCEPT !.pc = "put"]
        /\ UNCHANGED <<pooled, cap, data, down, inp>>
      BY <1>3 DEF UpSend, pool
  <2>2. up.buf \in Bufs /\ AsFrame(up.tag, data[up.buf]) \in TaggedFrames
      BY <2>1 DEF Inv, PoolTypes, HoldsBuf, AsFrame, TaggedFrames
  <2>3. /\ out["up"] \in Seq(TaggedFrames \cup Contents)
        /\ out' \in [Dirs -> Seq(TaggedFrames \cup Contents)]
        /\ Len(out'["up"]) = Len(out["up"]) + 1
        /\ out'["down"] = out["down"]
      BY <2>1, <2>2 DEF Inv, PoolTypes, Dirs
  <2>4. PoolTypes'
      BY <2>1, <2>3 DEF Inv, PoolTypes, HoldsBuf
  <2>5. ExclusiveOwner' /\ CapsNominal'
      BY <2>1 DEF Inv, PoolTypes, ExclusiveOwner, CapsNominal
  <2>6. UpInFlight' /\ DownInFlight'
      BY <2>1, <2>3 DEF Inv, PoolTypes, UpInFlight, DownInFlight
  <2> QED BY <2>4, <2>5, <2>6 DEF Inv
<1>4. ASSUME NEW p \in DevPkts, UpRead(p) PROVE Inv'
  <2>1. /\ up.pc = "read"
        /\ data' = [data EXCEPT ![up.buf] = Bytes(p, Shorter(Size[p], cap[up.buf]))]
        /\ inp' = [inp EXCEPT !["up"] = Append(@, AsFrame(Version[p], Whole(p)))]
        /\ up' = [up EXCEPT !.pc = "tag", !.pkt = p]
        /\ UNCHANGED <<pooled, cap, down, out>>
      BY <1>4 DEF UpRead, pool
  <2>2. up.buf \in Bufs /\ up.buf # down.buf
      BY <2>1 DEF Inv, PoolTypes, ExclusiveOwner, HoldsBuf
  <2>3. p \in Pkts /\ Whole(p) \in Contents /\ AsFrame(Version[p], Whole(p)) \in TaggedFrames
      BY DEF Pkts, Contents, TaggedFrames, Whole, Bytes, AsFrame
  <2>4. /\ data' \in [Bufs -> Contents]
        /\ data'[up.buf] = Whole(p)
        /\ \A x \in Bufs : x # up.buf => data'[x] = data[x]
      BY <1>f, <2>1, <2>2, <2>3 DEF Inv, PoolTypes, Whole
  <2>5. /\ inp' \in [Dirs -> Seq(TaggedFrames \cup Contents)]
        /\ Len(inp'["up"]) = Len(inp["up"]) + 1
        /\ inp'["up"][Len(inp'["up"])] = AsFrame(Version[p], Whole(p))
        /\ inp'["down"] = inp["down"]
      BY <2>1, <2>3 DEF Inv, PoolTypes, Dirs
  <2>6. PoolTypes'
      BY <2>1, <2>4, <2>5 DEF Inv, PoolTypes, HoldsBuf
  <2>7. ExclusiveOwner' /\ CapsNominal'
      BY <2>1 DEF Inv, PoolTypes, ExclusiveOwner, CapsNominal
  <2>8. UpInFlight'
      BY <2>1, <2>4, <2>5 DEF Inv, PoolTypes, UpInFlight
  <2>9. DownInFlight'
      BY <2>1, <2>2, <2>4, <2>5 DEF Inv, PoolTypes, DownInFlight, HoldsBuf
  <2> QED BY <2>6, <2>7, <2>8, <2>9 DEF Inv
<1>5. ASSUME DownStop PROVE Inv'
    BY <1>5 DEF DownStop, Inv, PoolTypes, ExclusiveOwner, CapsNominal, UpInFlight,
                DownInFlight, Idle, pool, HoldsBuf
<1>6. ASSUME DownCopy PROVE Inv'
  <2>1. /\ down.pc = "copy"
        /\ data' = [data EXCEPT ![down.buf] =
                       Bytes(down.pkt, Shorter(Size[down.pkt], cap[down.buf]))]
        /\ down' = [down EXCEPT !.pc = "write"]
        /\ UNCHANGED <<pooled, cap, up, inp, out>>
      BY <1>6 DEF DownCopy, pool
  <2>2. down.buf \in Bufs /\ up.buf # down.buf
      BY <2>1 DEF Inv, PoolTypes, ExclusiveOwner, HoldsBuf
  <2>3. down.pkt \in Pkts /\ Whole(down.pkt) \in Contents
      BY <2>1 DEF Inv, DownInFlight, Pkts, Contents, Whole, Bytes
  <2>4. /\ data' \in [Bufs -> Contents]
        /\ data'[down.buf] = Whole(down.pkt)
        /\ \A x \in Bufs : x # down.buf => data'[x] = data[x]
      BY <1>f, <2>1, <2>2, <2>3 DEF Inv, PoolTypes, Whole
  <2>5. PoolTypes'
      BY <2>1, <2>4 DEF Inv, PoolTypes, HoldsBuf
  <2>6. ExclusiveOwner' /\ CapsNominal'
      BY <2>1 DEF Inv, PoolTypes, ExclusiveOwner, CapsNominal
  <2>7. UpInFlight'
      BY <2>1, <2>2, <2>4 DEF Inv, PoolTypes, UpInFlight, HoldsBuf
  <2>8. DownInFlight'
      BY <2>1, <2>4 DEF Inv, PoolTypes, DownInFlight
  <2> QED BY <2>5, <2>6, <2>7, <2>8 DEF Inv
<1>7. ASSUME DownWrite PROVE Inv'
  <2>1. /\ down.pc = "write"
        /\ out' = [out EXCEPT !["down"] = Append(@, data[down.buf])]
        /\ down' = [down EXCEPT !.pc = "put"]
        /\ UNCHANGED <<pooled, cap, data, up, inp>>
      BY <1>7 DEF DownWrite, pool
  <2>2. down.buf \in Bufs /\ data[down.buf] \in Contents
      BY <2>1 DEF Inv, PoolTypes, HoldsBuf
  <2>3. /\ out' \in [Dirs -> Seq(TaggedFrames \cup Contents)]
        /\ Len(out'["down"]) = Len(out["down"]) + 1
        /\ out'["up"] = out["up"]
      BY <2>1, <2>2 DEF Inv, PoolTypes, Dirs
  <2>4. PoolTypes'
      BY <2>1, <2>3 DEF Inv, PoolTypes, HoldsBuf
  <2>5. ExclusiveOwner' /\ CapsNominal'
      BY <2>1 DEF Inv, PoolTypes, ExclusiveOwner, CapsNominal
  <2>6. UpInFlight' /\ DownInFlight'
      BY <2>1, <2>3 DEF Inv, PoolTypes, UpInFlight, DownInFlight
  <2> QED BY <2>4, <2>5, <2>6 DEF Inv
<1>8. ASSUME NEW p \in PeerPkts, DownRecv(p) PROVE Inv'
  <2>1. /\ down.pc = "top"
        /\ inp' = [inp EXCEPT !["down"] = Append(@, Whole(p))]
        /\ down' = [down EXCEPT !.pc = "get", !.pkt = p]
        /\ UNCHANGED <<pooled, cap, data, up, out>>
      BY <1>8 DEF DownRecv, pool
  <2>2. Whole(p) \in Contents
      BY DEF Pkts, Contents, Whole, Bytes
  <2>3. /\ inp' \in [Dirs -> Seq(TaggedFrames \cup Contents)]
        /\ Len(inp'["down"]) = Len(inp["down"]) + 1
        /\ inp'["down"][Len(inp'["down"])] = Whole(p)
        /\ inp'["up"] = inp["up"]
      BY <2>1, <2>2 DEF Inv, PoolTypes, Dirs
  <2>4. PoolTypes'
      BY <2>1, <2>3 DEF Inv, PoolTypes, HoldsBuf
  <2>5. ExclusiveOwner' /\ CapsNominal'
      BY <2>1 DEF Inv, PoolTypes, ExclusiveOwner, CapsNominal
  <2>6. UpInFlight' /\ DownInFlight'
      BY <2>1, <2>3 DEF Inv, PoolTypes, UpInFlight, DownInFlight
  <2> QED BY <2>4, <2>5, <2>6 DEF Inv
<1> QED BY <1>1, <1>2, <1>3, <1>4, <1>5, <1>6, <1>7, <1>8

\* Inv is inductive while packets fit.
LEMMA NextInv == PacketsFit /\ Inv /\ [PoolNext]_poolVars => Inv'
<1> SUFFICES ASSUME PacketsFit, Inv, [PoolNext]_poolVars PROVE Inv'
    OBVIOUS
<1>1. ASSUME UpNext PROVE Inv'
    BY <1>1, GetPreserves, PutPreserves, CarryPreserves DEF UpNext
<1>2. ASSUME DownNext PROVE Inv'
    BY <1>2, GetPreserves, PutPreserves, CarryPreserves DEF DownNext
<1>3. ASSUME NEW b \in Bufs, Collect(b) PROVE Inv'
  <2>1. /\ pooled' \in [Bufs -> Nat]
        /\ \A x \in Bufs : pooled'[x] <= pooled[x]
        /\ UNCHANGED <<cap, data, up, down, inp, out>>
      BY <1>3 DEF Collect, Inv, PoolTypes
  <2>2. PoolTypes'
      BY <2>1 DEF Inv, PoolTypes
  <2>3. \A x \in Bufs : pooled'[x] <= 1 /\ (pooled[x] = 0 => pooled'[x] = 0)
      BY <2>1 DEF Inv, PoolTypes, ExclusiveOwner
  <2>4. ExclusiveOwner'
      BY <2>1, <2>3 DEF Inv, PoolTypes, ExclusiveOwner
  <2>5. CapsNominal' /\ UpInFlight' /\ DownInFlight'
      BY <2>1 DEF Inv, CapsNominal, UpInFlight, DownInFlight
  <2> QED BY <2>2, <2>4, <2>5 DEF Inv
<1>4. ASSUME UNCHANGED poolVars PROVE Inv'
    BY <1>4 DEF poolVars, Inv, PoolTypes, ExclusiveOwner, CapsNominal, UpInFlight, DownInFlight
<1> QED BY <1>1, <1>2, <1>3, <1>4 DEF PoolNext

\* Inv holds throughout every session whose packets fit.
LEMMA Invariance == ASSUME PacketsFit PROVE PoolSpec => []Inv
<1>1. PoolInit => Inv
    BY InitInv
<1>2. Inv /\ [PoolNext]_poolVars => Inv'
    BY PacketsFit, NextInv
<1> QED BY <1>1, <1>2, PTL DEF PoolSpec

\* No backing array is ever shared: neither by pumpUp and pumpDown, nor by a
\* direction and the pool, nor twice in the pool (getBuf, putBuf).
THEOREM Ownership == ASSUME PacketsFit PROVE PoolSpec => []ExclusiveOwner
<1>1. Inv => ExclusiveOwner
    BY DEF Inv
<1> QED BY <1>1, PacketsFit, Invariance, PTL

-----------------------------------------------------------------------------
(* The session implements Relay. *)

\* The session as Run starts it, with both loops about to take a buffer, is an
\* initial state of Relay.
LEMMA InitRefines == PoolInit => R!Init
<1> SUFFICES ASSUME PoolInit PROVE R!Init
    OBVIOUS
<1>1. up.pc # "done" /\ down.pc # "done"
    BY DEF PoolInit, Idle
<1> QED BY <1>1 DEF PoolInit, R!Init, Dirs

\* Every step of the two loops is a step of Relay or leaves its state alone:
\* a send or a write emits the packet in flight because its buffer still holds it.
LEMMA NextRefines == Inv /\ [PoolNext]_poolVars => [R!Next]_(R!vars)
<1> SUFFICES ASSUME Inv, [PoolNext]_poolVars PROVE [R!Next]_(R!vars)
    OBVIOUS
<1> USE DEF Dirs
<1>t. up \in [pc : {"top", "read", "tag", "send", "put", "done"},
              buf : Bufs \cup {NoBuf}, pkt : DevPkts \cup {NoPkt}, tag : 0..15]
      /\ down \in [pc : {"top", "get", "copy", "write", "put", "done"},
                   buf : Bufs \cup {NoBuf}, pkt : PeerPkts \cup {NoPkt}, tag : {0}]
    BY DEF Inv, PoolTypes
<1>1. ASSUME UpStop \/ UpTagUnknown \/ UpReadFails \/ UpSendFails PROVE R!Stop("up")
  <2>1. up.pc # "done" /\ up'.pc = "done" /\ UNCHANGED <<down, inp, out>>
      BY <1>1 DEF UpStop, UpTagUnknown, UpReadFails, UpSendFails, Idle
  <2> QED BY <2>1 DEF R!Stop
<1>2. ASSUME DownStop \/ DownFail PROVE R!Stop("down")
  <2>1. down.pc # "done" /\ down'.pc = "done" /\ UNCHANGED <<up, inp, out>>
      BY <1>2 DEF DownStop, DownFail, Idle
  <2> QED BY <2>1 DEF R!Stop
<1>3. ASSUME NEW p \in DevPkts, UpRead(p)
      PROVE  R!Accept("up", AsFrame(Version[p], Whole(p)))
  <2>1. /\ up.pc = "read" /\ up'.pc = "tag"
        /\ inp' = [inp EXCEPT !["up"] = Append(@, AsFrame(Version[p], Whole(p)))]
        /\ UNCHANGED <<down, out>>
      BY <1>3, <1>t DEF UpRead
  <2> QED BY <2>1 DEF R!Accept, Inv, UpInFlight
<1>4. ASSUME NEW p \in PeerPkts, DownRecv(p) PROVE R!Accept("down", Whole(p))
  <2>1. /\ down.pc = "top" /\ down'.pc = "get"
        /\ inp' = [inp EXCEPT !["down"] = Append(@, Whole(p))]
        /\ UNCHANGED <<up, out>>
      BY <1>4, <1>t DEF DownRecv
  <2> QED BY <2>1 DEF R!Accept, Inv, DownInFlight
<1>5. ASSUME UpSend PROVE R!Emit("up")
  <2>1. /\ up.pc = "send" /\ up'.pc = "put"
        /\ out' = [out EXCEPT !["up"] = Append(@, AsFrame(up.tag, data[up.buf]))]
        /\ UNCHANGED <<down, inp>>
      BY <1>5, <1>t DEF UpSend
  <2>2. /\ AsFrame(up.tag, data[up.buf]) = inp["up"][Len(inp["up"])]
        /\ Len(inp["up"]) = Len(out["up"]) + 1
      BY <2>1 DEF Inv, UpInFlight
  <2> QED BY <2>1, <2>2 DEF R!Emit
<1>6. ASSUME DownWrite PROVE R!Emit("down")
  <2>1. /\ down.pc = "write" /\ down'.pc = "put"
        /\ out' = [out EXCEPT !["down"] = Append(@, data[down.buf])]
        /\ UNCHANGED <<up, inp>>
      BY <1>6, <1>t DEF DownWrite
  <2>2. /\ data[down.buf] = inp["down"][Len(inp["down"])]
        /\ Len(inp["down"]) = Len(out["down"]) + 1
      BY <2>1 DEF Inv, DownInFlight
  <2> QED BY <2>1, <2>2 DEF R!Emit
<1>7. ASSUME \/ UpGet \/ UpReadNothing \/ UpTag \/ UpPut
             \/ DownGet \/ DownCopy \/ DownPut
             \/ \E b \in Bufs : Collect(b)
             \/ UNCHANGED poolVars
      PROVE  UNCHANGED R!vars
  <2>1. /\ (up'.pc = "done") <=> (up.pc = "done")
        /\ (down'.pc = "done") <=> (down.pc = "done")
        /\ UNCHANGED <<inp, out>>
    <3>1. ASSUME UpGet \/ DownGet PROVE <2>1!1 /\ <2>1!2 /\ <2>1!3
        BY <3>1, <1>t DEF UpGet, DownGet
    <3>2. ASSUME UpReadNothing \/ UpTag \/ UpPut PROVE <2>1!1 /\ <2>1!2 /\ <2>1!3
      <4>1. CASE UpReadNothing \/ UpPut
          BY <4>1, <1>t DEF UpReadNothing, UpPut, Idle
      <4>2. CASE UpTag
          BY <4>2, <1>t DEF UpTag
      <4> QED BY <3>2, <4>1, <4>2
    <3>3. ASSUME DownCopy \/ DownPut PROVE <2>1!1 /\ <2>1!2 /\ <2>1!3
        BY <3>3, <1>t DEF DownCopy, DownPut, Idle
    <3>4. ASSUME (\E b \in Bufs : Collect(b)) \/ UNCHANGED poolVars
          PROVE  <2>1!1 /\ <2>1!2 /\ <2>1!3
        BY <3>4 DEF Collect, poolVars
    <3> QED BY <1>7, <3>1, <3>2, <3>3, <3>4
  <2> QED BY <2>1 DEF R!vars
<1>8. ASSUME R!Stop("up") \/ R!Stop("down") \/ R!Emit("up") \/ R!Emit("down")
             \/ (\E p \in DevPkts : R!Accept("up", AsFrame(Version[p], Whole(p))))
             \/ (\E p \in PeerPkts : R!Accept("down", Whole(p)))
      PROVE  R!Next
    BY <1>8 DEF R!Next
<1> QED BY <1>1, <1>2, <1>3, <1>4, <1>5, <1>6, <1>7, <1>8 DEF PoolNext, UpNext, DownNext

\* In both directions packets leave in order, unchanged and under the tag of
\* their IP version: pumpUp and pumpDown implement Relay while packets fit.
THEOREM Refinement == ASSUME PacketsFit PROVE PoolSpec => RelaySpec
<1>1. PoolInit => R!Init
    BY InitRefines
<1>2. Inv /\ [PoolNext]_poolVars => [R!Next]_(R!vars)
    BY NextRefines
<1> QED BY <1>1, <1>2, PacketsFit, Invariance, PTL DEF PoolSpec, RelaySpec, R!Spec

\* A step of Relay takes in behind what must leave, and lets leave what is next.
LEMMA RelayKeeps ==
    ASSUME inp \in [Dirs -> Seq(TaggedFrames \cup Contents)],
           out \in [Dirs -> Seq(TaggedFrames \cup Contents)],
           inp' \in [Dirs -> Seq(TaggedFrames \cup Contents)],
           out' \in [Dirs -> Seq(TaggedFrames \cup Contents)],
           Faithful, [R!Next]_(R!vars)
    PROVE  Faithful'
<1> DEFINE S == TaggedFrames \cup Contents
<1> HIDE DEF S
<1>t. inp \in [Dirs -> Seq(S)] /\ out \in [Dirs -> Seq(S)]
    BY DEF S
<1>u. inp' \in [Dirs -> Seq(S)] /\ out' \in [Dirs -> Seq(S)]
    BY DEF S
<1>1. CASE UNCHANGED <<inp, out>>
    BY <1>1 DEF Faithful
<1>2. ASSUME NEW d \in Dirs, NEW i, R!Accept(d, i) PROVE Faithful'
  <2>1. /\ Len(inp[d]) = Len(out[d]) /\ out' = out
        /\ inp' = [inp EXCEPT ![d] = Append(inp[d], i)]
      BY <1>2 DEF R!Accept
  <2>2. inp'[d] = Append(inp[d], i) /\ \A e \in Dirs \ {d} : inp'[e] = inp[e]
      BY <1>t, <2>1
  <2>3. Len(inp'[d]) = Len(inp[d]) + 1 /\ \A k \in 1..Len(inp[d]) : inp'[d][k] = inp[d][k]
    <3>1. inp[d] \in Seq(S)
        BY <1>t
    <3> QED BY <2>2, <3>1
  <2> SUFFICES ASSUME NEW e \in Dirs
               PROVE  /\ Len(out'[e]) <= Len(inp'[e])
                      /\ \A k \in 1..Len(out'[e]) : out'[e][k] = inp'[e][k]
      BY DEF Faithful
  <2>4. CASE e = d
    <3>1. Len(inp[d]) \in Nat
        BY <1>t
    <3> QED BY <2>1, <2>3, <2>4, <3>1 DEF Faithful
  <2>5. CASE e # d
      BY <2>1, <2>2, <2>5 DEF Faithful
  <2> QED BY <2>4, <2>5
<1>3. ASSUME NEW d \in Dirs, R!Emit(d) PROVE Faithful'
  <2>1. /\ Len(inp[d]) = Len(out[d]) + 1 /\ inp' = inp
        /\ out' = [out EXCEPT ![d] = Append(out[d], inp[d][Len(inp[d])])]
      BY <1>3 DEF R!Emit
  <2>2. /\ out'[d] = Append(out[d], inp[d][Len(inp[d])])
        /\ \A e \in Dirs \ {d} : out'[e] = out[e]
      BY <1>t, <2>1
  <2>3. /\ Len(out[d]) \in Nat /\ Len(out'[d]) = Len(out[d]) + 1
        /\ out'[d][Len(out[d]) + 1] = inp[d][Len(inp[d])]
        /\ \A k \in 1..Len(out[d]) : out'[d][k] = out[d][k]
    <3>1. out[d] \in Seq(S)
        BY <1>t
    <3> QED BY <2>2, <3>1
  <2> SUFFICES ASSUME NEW e \in Dirs
               PROVE  /\ Len(out'[e]) <= Len(inp'[e])
                      /\ \A k \in 1..Len(out'[e]) : out'[e][k] = inp'[e][k]
      BY DEF Faithful
  <2>4. CASE e = d
    <3>1. Len(out'[d]) = Len(inp'[d]) /\ Len(inp'[d]) \in Nat
        BY <2>1, <2>3
    <3>2. ASSUME NEW k \in 1..Len(out'[d]) PROVE out'[d][k] = inp'[d][k]
      <4>1. CASE k = Len(out[d]) + 1
          BY <2>1, <2>3, <4>1
      <4>2. CASE k # Len(out[d]) + 1
        <5>1. k \in 1..Len(out[d])
            BY <2>3, <4>2
        <5> QED BY <2>1, <2>3, <5>1 DEF Faithful
      <4> QED BY <4>1, <4>2
    <3> QED BY <2>4, <3>1, <3>2
  <2>5. CASE e # d
      BY <2>1, <2>2, <2>5 DEF Faithful
  <2> QED BY <2>4, <2>5
<1>4. ASSUME NEW d \in Dirs, R!Stop(d) PROVE UNCHANGED <<inp, out>>
    BY <1>4 DEF R!Stop
<1> QED BY <1>1, <1>2, <1>3, <1>4 DEF R!Next, R!vars

\* While packets fit, what has left the session is a prefix of what must leave it,
\* in each direction: no packet leaves with another's bytes, which is what
\* getBuf's resizing branch (pump_linux.go:221-231) makes of an oversized one.
THEOREM Faithfulness == ASSUME PacketsFit PROVE PoolSpec => []Faithful
<1>1. PoolInit => Faithful
    BY DEF PoolInit, Faithful, Dirs
<1>2. Inv /\ Inv' /\ [PoolNext]_poolVars /\ Faithful => Faithful'
  <2> SUFFICES ASSUME Inv, Inv', [PoolNext]_poolVars, Faithful PROVE Faithful'
      OBVIOUS
  <2>1. [R!Next]_(R!vars)
      BY NextRefines
  <2> QED BY <2>1, RelayKeeps DEF Inv, PoolTypes
<1> QED BY <1>1, <1>2, PacketsFit, Invariance, PTL DEF PoolSpec

-----------------------------------------------------------------------------
(* Packets of any size *)

\* An array of the pool's nominal capacity has one owner, whatever the packets'
\* sizes.
NominalOwned ==
    /\ \A b \in Bufs : cap[b] = SliceSize => pooled[b] <= 1
    /\ \A b \in {up.buf, down.buf} \cap Bufs : cap[b] = SliceSize => pooled[b] = 0
    /\ up.buf = down.buf /\ up.buf \in Bufs => cap[up.buf] # SliceSize

\* No array is smaller, so the resizing branch makes larger ones only; and what
\* pumpDown wants room for is a payload.
PoolInv ==
    /\ PoolTypes
    /\ \A b \in Bufs : cap[b] >= SliceSize
    /\ down.pc \in {"get", "copy"} => down.pkt \in PeerPkts
    /\ NominalOwned

\* getBuf hands out an array of nominal capacity only if nobody else refers to it.
LEMMA GetBufAnySize ==
    ASSUME PoolInv, NEW b \in Bufs, NEW n \in Bufs, NEW want \in Nat, getBuf(b, n, want)
    PROVE  /\ pooled' \in [Bufs -> Nat] /\ cap' \in [Bufs -> Nat]
           /\ data' \in [Bufs -> Contents]
           /\ \A x \in Bufs : cap'[x] >= SliceSize
           /\ \A x \in Bufs : x # n => cap'[x] = cap[x] /\ pooled'[x] <= pooled[x]
           /\ cap'[n] = SliceSize => pooled'[n] = 0 /\ n # up.buf /\ n # down.buf
<1> USE ConstantsAssumption
<1>t. /\ pooled \in [Bufs -> Nat] /\ cap \in [Bufs -> Nat]
      /\ \A x \in Bufs : cap[x] >= SliceSize
      BY DEF PoolInv, PoolTypes
<1>1. data' \in [Bufs -> Contents]
      BY DEF PoolInv, PoolTypes, getBuf, Contents, Zeroed
<1>2. GotCap(b) \in Nat /\ GotCap(b) >= SliceSize /\ (pooled[b] > 0 => GotCap(b) = cap[b])
      BY <1>t DEF GotCap
<1>3. /\ AfterGet(b) \in [Bufs -> Nat]
      /\ \A x \in Bufs : x # b => AfterGet(b)[x] = pooled[x]
      /\ AfterGet(b)[b] <= pooled[b] /\ (pooled[b] <= 1 => AfterGet(b)[b] = 0)
      BY <1>t DEF AfterGet
<1>4. CASE /\ n = b /\ pooled' = AfterGet(b) /\ cap' = [cap EXCEPT ![n] = GotCap(b)]
  <2>1. cap' \in [Bufs -> Nat] /\ cap'[n] = GotCap(b) /\ \A x \in Bufs : x # n => cap'[x] = cap[x]
        BY <1>t, <1>2, <1>4
  <2>2. ASSUME cap'[n] = SliceSize PROVE pooled[n] <= 1 /\ n # up.buf /\ n # down.buf
    <3>1. CASE pooled[b] > 0
      <4>1. cap[n] = SliceSize /\ pooled[n] # 0
            BY <1>2, <1>4, <1>t, <2>1, <2>2, <3>1
      <4> QED BY <4>1 DEF PoolInv, NominalOwned
    <3>2. CASE Free(b)
          BY <1>4, <3>2 DEF Free
    <3> QED BY <3>1, <3>2 DEF getBuf
  <2>3. \A x \in Bufs : x # n => pooled'[x] <= pooled[x]
        BY <1>t, <1>3, <1>4
  <2>4. \A x \in Bufs : cap'[x] >= SliceSize
        BY <1>t, <1>2, <2>1
  <2> QED BY <1>1, <1>3, <1>4, <2>1, <2>2, <2>3, <2>4
<1>5. CASE /\ GotCap(b) < want /\ n # b
           /\ pooled' = [AfterGet(b) EXCEPT ![n] = @ + 1]
           /\ cap' = [cap EXCEPT ![n] = want]
  <2>1. want > SliceSize
        BY <1>2, <1>5
  <2>2. cap' \in [Bufs -> Nat] /\ cap'[n] = want /\ \A x \in Bufs : x # n => cap'[x] = cap[x]
        BY <1>t, <1>5
  <2>3. /\ pooled' \in [Bufs -> Nat]
        /\ \A x \in Bufs : x # n => pooled'[x] <= pooled[x]
        BY <1>t, <1>3, <1>5
  <2>4. \A x \in Bufs : cap'[x] >= SliceSize
        BY <1>t, <2>1, <2>2
  <2> QED BY <1>1, <2>1, <2>2, <2>3, <2>4
<1> QED BY <1>4, <1>5 DEF getBuf

LEMMA AnySizeStep == PoolInv /\ [PoolNext]_poolVars => PoolInv'
<1> SUFFICES ASSUME PoolInv, [PoolNext]_poolVars PROVE PoolInv'
    OBVIOUS
<1> USE ConstantsAssumption
<1>t. /\ pooled \in [Bufs -> Nat] /\ cap \in [Bufs -> Nat] /\ data \in [Bufs -> Contents]
      /\ up.buf \in Bufs <=> up.pc \in HoldsBuf
      /\ down.buf \in Bufs <=> down.pc \in HoldsBuf
      BY DEF PoolInv, PoolTypes
<1>1. CASE UpGet
  <2>1. PICK b \in Bufs, n \in Bufs : /\ getBuf(b, n, 0)
                                      /\ up' = [up EXCEPT !.pc = "read", !.buf = n]
      BY <1>1 DEF UpGet
  <2>2. /\ pooled' \in [Bufs -> Nat] /\ cap' \in [Bufs -> Nat] /\ data' \in [Bufs -> Contents]
        /\ \A x \in Bufs : cap'[x] >= SliceSize
        /\ \A x \in Bufs : x # n => cap'[x] = cap[x] /\ pooled'[x] <= pooled[x]
        /\ cap'[n] = SliceSize => pooled'[n] = 0 /\ n # up.buf /\ n # down.buf
      BY <2>1, GetBufAnySize
  <2>3. up.pc = "top" /\ UNCHANGED <<down, inp, out>>
      BY <1>1 DEF UpGet
  <2>4. PoolTypes'
      BY <2>1, <2>2, <2>3 DEF PoolInv, PoolTypes, HoldsBuf
  <2>5. up'.buf = n /\ down' = down
      BY <2>1, <2>3 DEF PoolInv, PoolTypes
  <2>6. NominalOwned'
    <3>1. \A x \in Bufs : cap'[x] = SliceSize => pooled'[x] <= 1
        BY <1>t, <2>2 DEF PoolInv, NominalOwned
    <3>2. ASSUME down.buf \in Bufs, cap'[down.buf] = SliceSize PROVE pooled'[down.buf] = 0
        BY <1>t, <2>2, <3>2 DEF PoolInv, NominalOwned
    <3> QED BY <2>2, <2>5, <3>1, <3>2 DEF NominalOwned
  <2> QED BY <2>2, <2>4, <2>5, <2>6 DEF PoolInv
<1>2. CASE DownGet
  <2>1. PICK b \in Bufs, n \in Bufs : /\ getBuf(b, n, Size[down.pkt])
                                      /\ down' = [down EXCEPT !.pc = "copy", !.buf = n]
      BY <1>2 DEF DownGet
  <2>3. down.pc = "get" /\ UNCHANGED <<up, inp, out>>
      BY <1>2 DEF DownGet
  <2>0. Size[down.pkt] \in Nat
      BY <2>3 DEF PoolInv, Pkts
  <2>2. /\ pooled' \in [Bufs -> Nat] /\ cap' \in [Bufs -> Nat] /\ data' \in [Bufs -> Contents]
        /\ \A x \in Bufs : cap'[x] >= SliceSize
        /\ \A x \in Bufs : x # n => cap'[x] = cap[x] /\ pooled'[x] <= pooled[x]
        /\ cap'[n] = SliceSize => pooled'[n] = 0 /\ n # up.buf /\ n # down.buf
      BY <2>0, <2>1, GetBufAnySize
  <2>4. PoolTypes'
      BY <2>1, <2>2, <2>3 DEF PoolInv, PoolTypes, HoldsBuf
  <2>5. down'.buf = n /\ up' = up /\ down'.pkt = down.pkt
      BY <2>1, <2>3 DEF PoolInv, PoolTypes
  <2>6. NominalOwned'
    <3>1. \A x \in Bufs : cap'[x] = SliceSize => pooled'[x] <= 1
        BY <1>t, <2>2 DEF PoolInv, NominalOwned
    <3>2. ASSUME up.buf \in Bufs, cap'[up.buf] = SliceSize PROVE pooled'[up.buf] = 0
        BY <1>t, <2>2, <3>2 DEF PoolInv, NominalOwned
    <3> QED BY <2>2, <2>5, <3>1, <3>2 DEF NominalOwned
  <2> QED BY <2>2, <2>3, <2>4, <2>5, <2>6 DEF PoolInv
<1>3. CASE UpReadNothing \/ UpTagUnknown \/ UpPut \/ UpReadFails \/ UpSendFails
  <2>1. /\ up.pc \in {"read", "tag", "send", "put"}
        /\ up' = Idle("done") \/ up' = Idle("top")
        /\ pooled' = [pooled EXCEPT ![up.buf] = @ + 1]
        /\ UNCHANGED <<cap, data, down, inp, out>>
      BY <1>3 DEF UpReadNothing, UpTagUnknown, UpPut, UpReadFails, UpSendFails, putBuf
  <2>2. up.buf \in Bufs
      BY <1>t, <2>1 DEF HoldsBuf
  <2>3. /\ pooled' \in [Bufs -> Nat] /\ pooled'[up.buf] = pooled[up.buf] + 1
        /\ \A x \in Bufs : x # up.buf => pooled'[x] = pooled[x]
      BY <1>t, <2>1, <2>2
  <2>4. PoolTypes'
      BY <2>1, <2>3 DEF PoolInv, PoolTypes, HoldsBuf, Idle
  <2>5. up'.buf = NoBuf
      BY <2>1 DEF Idle
  <2>6. NominalOwned'
    <3>1. \A x \in Bufs : cap[x] = SliceSize => pooled'[x] <= 1
        BY <1>t, <2>2, <2>3 DEF PoolInv, NominalOwned
    <3>2. ASSUME down.buf \in Bufs, cap[down.buf] = SliceSize PROVE pooled'[down.buf] = 0
        BY <2>2, <2>3, <3>2 DEF PoolInv, NominalOwned
    <3> QED BY <2>1, <2>5, <3>1, <3>2 DEF NominalOwned
  <2> QED BY <2>1, <2>4, <2>6 DEF PoolInv
<1>4. CASE DownPut \/ DownFail
  <2>1. /\ down.pc \in {"write", "put"}
        /\ down' = Idle("done") \/ down' = Idle("top")
        /\ pooled' = [pooled EXCEPT ![down.buf] = @ + 1]
        /\ UNCHANGED <<cap, data, up, inp, out>>
      BY <1>4 DEF DownPut, DownFail, putBuf
  <2>2. down.buf \in Bufs
      BY <1>t, <2>1 DEF HoldsBuf
  <2>3. /\ pooled' \in [Bufs -> Nat] /\ pooled'[down.buf] = pooled[down.buf] + 1
        /\ \A x \in Bufs : x # down.buf => pooled'[x] = pooled[x]
      BY <1>t, <2>1, <2>2
  <2>4. PoolTypes'
      BY <2>1, <2>3 DEF PoolInv, PoolTypes, HoldsBuf, Idle
  <2>5. down'.buf = NoBuf /\ down'.pc \in {"done", "top"}
      BY <2>1 DEF Idle
  <2>6. NominalOwned'
    <3>1. \A x \in Bufs : cap[x] = SliceSize => pooled'[x] <= 1
        BY <1>t, <2>2, <2>3 DEF PoolInv, NominalOwned
    <3>2. ASSUME up.buf \in Bufs, cap[up.buf] = SliceSize PROVE pooled'[up.buf] = 0
        BY <2>2, <2>3, <3>2 DEF PoolInv, NominalOwned
    <3> QED BY <2>1, <2>5, <3>1, <3>2 DEF NominalOwned
  <2> QED BY <2>1, <2>4, <2>5, <2>6 DEF PoolInv
<1>5. ASSUME PoolTypes', UNCHANGED pool, up'.buf = up.buf, down'.buf = down.buf,
             down'.pc \in {"get", "copy"} => down'.pkt \in PeerPkts
      PROVE  PoolInv'
      BY <1>5 DEF PoolInv, NominalOwned, pool
<1>6. CASE UpStop
  <2>1. /\ up.pc = "top" /\ up' = Idle("done")
        /\ UNCHANGED <<pooled, cap, data, down, inp, out>>
      BY <1>6 DEF UpStop, pool
  <2>2. up.buf \notin Bufs /\ up.buf \in Bufs \cup {NoBuf}
      BY <1>t, <2>1 DEF HoldsBuf, PoolInv, PoolTypes
  <2>3. up'.buf = NoBuf /\ PoolTypes'
      BY <2>1 DEF PoolInv, PoolTypes, Idle, HoldsBuf
  <2>4. up'.buf = up.buf
      BY <2>2, <2>3
  <2> QED BY <1>5, <2>1, <2>3, <2>4 DEF PoolInv, pool
<1>15. CASE DownStop
  <2>1. /\ down.pc = "top" /\ down' = Idle("done")
        /\ UNCHANGED <<pooled, cap, data, up, inp, out>>
      BY <1>15 DEF DownStop, pool
  <2>2. down.buf \notin Bufs /\ down.buf \in Bufs \cup {NoBuf}
      BY <1>t, <2>1 DEF HoldsBuf, PoolInv, PoolTypes
  <2>3. down'.buf = NoBuf /\ down'.pc = "done" /\ PoolTypes'
      BY <2>1 DEF PoolInv, PoolTypes, Idle, HoldsBuf
  <2>4. down'.buf = down.buf
      BY <2>2, <2>3
  <2> QED BY <1>5, <2>1, <2>3, <2>4 DEF PoolInv, pool
<1>7. CASE UpTag
  <2>1. /\ up.pc = "tag" /\ Version[data[up.buf].pkt] \in 0..15
        /\ up' = [up EXCEPT !.pc = "send", !.tag = Version[data[up.buf].pkt]]
        /\ UNCHANGED <<pooled, cap, data, down, inp, out>>
      BY <1>7 DEF UpTag, pool
  <2>2. PoolTypes' /\ up'.buf = up.buf
      BY <2>1 DEF PoolInv, PoolTypes, HoldsBuf
  <2> QED BY <1>5, <2>1, <2>2 DEF PoolInv, pool
<1>8. CASE UpSend
  <2>1. /\ up.pc = "send"
        /\ out' = [out EXCEPT !["up"] = Append(@, AsFrame(up.tag, data[up.buf]))]
        /\ up' = [up EXCEPT !.pc = "put"]
        /\ UNCHANGED <<pooled, cap, data, down, inp>>
      BY <1>8 DEF UpSend, pool
  <2>2. AsFrame(up.tag, data[up.buf]) \in TaggedFrames
      BY <2>1, <1>t DEF PoolInv, PoolTypes, HoldsBuf, AsFrame, TaggedFrames
  <2>3. out' \in [Dirs -> Seq(TaggedFrames \cup Contents)]
      BY <2>1, <2>2 DEF PoolInv, PoolTypes, Dirs
  <2>4. PoolTypes' /\ up'.buf = up.buf
      BY <2>1, <2>3 DEF PoolInv, PoolTypes, HoldsBuf
  <2> QED BY <1>5, <2>1, <2>4 DEF PoolInv, pool
<1>9. ASSUME NEW p \in DevPkts, UpRead(p) PROVE PoolInv'
  <2>1. /\ up.pc = "read"
        /\ data' = [data EXCEPT ![up.buf] = Bytes(p, Shorter(Size[p], cap[up.buf]))]
        /\ inp' = [inp EXCEPT !["up"] = Append(@, AsFrame(Version[p], Whole(p)))]
        /\ up' = [up EXCEPT !.pc = "tag", !.pkt = p]
        /\ UNCHANGED <<pooled, cap, down, out>>
      BY <1>9 DEF UpRead, pool
  <2>2. up.buf \in Bufs /\ p \in Pkts /\ Size[p] \in Nat
      BY <1>t, <2>1 DEF HoldsBuf, Pkts
  <2>3. AsFrame(Version[p], Whole(p)) \in TaggedFrames
      BY <2>2 DEF Contents, TaggedFrames, Whole, Bytes, AsFrame
  <2>4. data' \in [Bufs -> Contents]
      BY <1>t, <2>1, <2>2 DEF Bytes, Shorter, Contents
  <2>5. inp' \in [Dirs -> Seq(TaggedFrames \cup Contents)]
      BY <2>1, <2>3 DEF PoolInv, PoolTypes, Dirs
  <2>6. PoolTypes' /\ up'.buf = up.buf
      BY <2>1, <2>4, <2>5 DEF PoolInv, PoolTypes, HoldsBuf
  <2> QED BY <1>5, <2>1, <2>6 DEF PoolInv, pool
<1>10. CASE DownCopy
  <2>1. /\ down.pc = "copy"
        /\ data' = [data EXCEPT ![down.buf] =
                       Bytes(down.pkt, Shorter(Size[down.pkt], cap[down.buf]))]
        /\ down' = [down EXCEPT !.pc = "write"]
        /\ UNCHANGED <<pooled, cap, up, inp, out>>
      BY <1>10 DEF DownCopy, pool
  <2>2. down.buf \in Bufs /\ down.pkt \in Pkts /\ Size[down.pkt] \in Nat
      BY <1>t, <2>1 DEF HoldsBuf, Pkts, PoolInv
  <2>3. data' \in [Bufs -> Contents]
      BY <1>t, <2>1, <2>2 DEF Bytes, Shorter, Contents
  <2>4. PoolTypes' /\ down'.buf = down.buf /\ down'.pc = "write"
      BY <2>1, <2>3 DEF PoolInv, PoolTypes, HoldsBuf
  <2> QED BY <1>5, <2>1, <2>4 DEF PoolInv, pool
<1>11. CASE DownWrite
  <2>1. /\ down.pc = "write"
        /\ out' = [out EXCEPT !["down"] = Append(@, data[down.buf])]
        /\ down' = [down EXCEPT !.pc = "put"]
        /\ UNCHANGED <<pooled, cap, data, up, inp>>
      BY <1>11 DEF DownWrite, pool
  <2>2. data[down.buf] \in Contents
      BY <1>t, <2>1 DEF HoldsBuf
  <2>3. out' \in [Dirs -> Seq(TaggedFrames \cup Contents)]
      BY <2>1, <2>2 DEF PoolInv, PoolTypes, Dirs
  <2>4. PoolTypes' /\ down'.buf = down.buf /\ down'.pc = "put"
      BY <2>1, <2>3 DEF PoolInv, PoolTypes, HoldsBuf
  <2> QED BY <1>5, <2>1, <2>4 DEF PoolInv, pool
<1>12. ASSUME NEW p \in PeerPkts, DownRecv(p) PROVE PoolInv'
  <2>1. /\ down.pc = "top"
        /\ inp' = [inp EXCEPT !["down"] = Append(@, Whole(p))]
        /\ down' = [down EXCEPT !.pc = "get", !.pkt = p]
        /\ UNCHANGED <<pooled, cap, data, up, out>>
      BY <1>12 DEF DownRecv, pool
  <2>2. Whole(p) \in Contents
      BY DEF Pkts, Contents, Whole, Bytes
  <2>3. inp' \in [Dirs -> Seq(TaggedFrames \cup Contents)]
      BY <2>1, <2>2 DEF PoolInv, PoolTypes, Dirs
  <2>4. PoolTypes' /\ down'.buf = down.buf /\ down'.pkt = p
      BY <2>1, <2>3 DEF PoolInv, PoolTypes, HoldsBuf
  <2> QED BY <1>5, <2>1, <2>4 DEF pool
<1>13. ASSUME NEW b \in Bufs, Collect(b) PROVE PoolInv'
  <2>1. /\ pooled' \in [Bufs -> Nat]
        /\ \A x \in Bufs : pooled'[x] <= pooled[x]
        /\ UNCHANGED <<cap, data, up, down, inp, out>>
      BY <1>t, <1>13 DEF Collect
  <2>2. PoolTypes'
      BY <2>1 DEF PoolInv, PoolTypes
  <2>3. \A x \in Bufs : (pooled[x] <= 1 => pooled'[x] <= 1) /\ (pooled[x] = 0 => pooled'[x] = 0)
      BY <1>t, <2>1
  <2>4. NominalOwned'
      BY <2>1, <2>3 DEF PoolInv, NominalOwned
  <2> QED BY <2>1, <2>2, <2>4 DEF PoolInv
<1>14. CASE UNCHANGED poolVars
      BY <1>14 DEF poolVars, PoolInv, PoolTypes, NominalOwned
<1> QED BY <1>1, <1>2, <1>3, <1>4, <1>6, <1>7, <1>8, <1>9, <1>10, <1>11, <1>12, <1>13, <1>14,
           <1>15
        DEF PoolNext, UpNext, DownNext

LEMMA AnySize == PoolSpec => []PoolInv
<1>1. PoolInit => PoolInv
  <2> SUFFICES ASSUME PoolInit PROVE PoolInv
      OBVIOUS
  <2>1. PoolTypes
      BY InitInv DEF Inv
  <2> QED BY <2>1, ConstantsAssumption DEF PoolInit, PoolInv, NominalOwned, Idle
<1> QED BY <1>1, AnySizeStep, PTL DEF PoolSpec

\* Type correctness, including that every return path has put its buffer back,
\* for packets of any size.
THEOREM TypeCorrect == PoolSpec => []PoolTypes
<1>1. PoolInv => PoolTypes
      BY DEF PoolInv
<1> QED BY <1>1, AnySize, PTL

\* Two owners of one array are confined to getBuf's resizing branch (pump_linux.go:
\* 221-228): whatever the peer sends, an array of the capacity newBufferPool gives is
\* the pool's, pumpUp's or pumpDown's alone; only one made for an oversized payload,
\* and put into the pool as it was handed out, may be another's too.
THEOREM SharingNeedsResize == PoolSpec => []NominalOwned
<1>1. PoolInv => NominalOwned
      BY DEF PoolInv
<1> QED BY <1>1, AnySize, PTL

=============================================================================
