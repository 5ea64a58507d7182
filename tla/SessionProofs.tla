--------------------------- MODULE SessionProofs ---------------------------
(***************************************************************************)
(* Module Session, for any number of pieces per frame, any window and any  *)
(* number of packets and cancellations.  EndToEnd: whatever the two Runs,  *)
(* their shutdowns and the stream do, packets come out on the far device   *)
(* one by one, in the order in which they arrived on the near one.  And    *)
(* RestsFourWays, RoomyCatchesUp and RoomyStops: what a session has done   *)
(* when it has nothing left to do.                                         *)
(*                                                                         *)
(* What one end does to the stream, and how it is found at rest, are       *)
(* lemmas of PumpProofs; here the two ends are joined.                     *)
(***************************************************************************)
EXTENDS Session, TLAPS

PA == INSTANCE PumpProofs WITH
        run <- runA, ctx <- ctxA, gErr <- gErrA, watcher <- watcherA, up <- upA,
        down <- downA, dev <- devA, seen <- seenA, mu <- muA, closed <- closedA,
        call <- callA, tx <- ab, rx <- ba
PB == INSTANCE PumpProofs WITH
        run <- runB, ctx <- ctxB, gErr <- gErrB, watcher <- watcherB, up <- upB,
        down <- downB, dev <- devB, seen <- seenB, mu <- muB, closed <- closedB,
        call <- callB, tx <- ba, rx <- ab

-----------------------------------------------------------------------------
(* The inductive invariant *)

\* The pieces of q follow one another, the first of them p.
Linked(p, q) == \A i \in 1..Len(q) : PA!Adj(IF i = 1 THEN p ELSE q[i - 1], q[i])

\* The last of p and then q.
LastOf(p, q) == IF q = <<>> THEN p ELSE q[Len(q)]

\* The packets in q are among the first t.
Among(q, t) == \A i \in 1..Len(q) : q[i].f.kind = "pkt" => q[i].f.id <= t

\* What is on the way from A to B: the stream carries on where B's pumpDown has
\* read to, and A will carry on from the stream's last piece.
FlowAB == \A t, p, o :
    /\ t = PA!Taken
    /\ p = PB!lastIn
    /\ o = LastOf(p, ab.q)
    => /\ Among(ab.q, t)
       /\ PB!Live => PB!GotOK(t) /\ Linked(p, ab.q) /\ PA!LastOut(o)

\* The same from B to A.
FlowBA == \A t, p, o :
    /\ t = PB!Taken
    /\ p = PA!lastIn
    /\ o = LastOf(p, ba.q)
    => /\ Among(ba.q, t)
       /\ PA!Live => PA!GotOK(t) /\ Linked(p, ba.q) /\ PB!LastOut(o)

SessionInv == PA!EndOK /\ PB!EndOK /\ FlowAB /\ FlowBA

-----------------------------------------------------------------------------
(* Session's instances of Pump and those the lemmas of PumpProofs are about are the same. *)

LEMMA Assumed == PA!PumpAssumption /\ PB!PumpAssumption
BY SessionAssumption DEF PA!PumpAssumption, PB!PumpAssumption, MaxRx

LEMMA SameEnds ==
    /\ PA!T!StreamHalf = PB!T!StreamHalf
    /\ PA!StreamPieces = PB!StreamPieces
    /\ \A p, r : PA!Adj(p, r) <=> PB!Adj(p, r)
    /\ \A m : PA!T!Piece(PA!Pkt(m), Pieces) = PB!T!Piece(PB!Pkt(m), Pieces)
    /\ PA!T!Piece(PA!T!CloseFrame(TRUE), Pieces) = PB!T!Piece(PB!T!CloseFrame(TRUE), Pieces)
BY DEF PA!T!StreamHalf, PB!T!StreamHalf, PA!StreamPieces, PB!StreamPieces,
       PA!T!AllFrames, PB!T!AllFrames, PA!T!CloseFrame, PB!T!CloseFrame,
       PA!T!NoFrame, PB!T!NoFrame, PA!T!Frame, PB!T!Frame, PA!Frames, PB!Frames,
       PA!Adj, PB!Adj, PA!T!Piece, PB!T!Piece, PA!Pkt, PB!Pkt

LEMMA SameTunnelA ==
    /\ \A c : A!T!TunStep(c) <=> PA!T!TunStep(c)
    /\ \A c : A!T!Return(c) <=> PA!T!Return(c)
    /\ \A c, op, f : A!T!Invoke(c, op, f) <=> PA!T!Invoke(c, op, f)
<1> USE DEF A!T!NoCall, PA!T!NoCall, A!T!NoFrame, PA!T!NoFrame, A!T!Frame, PA!T!Frame,
            A!NoCaller, PA!NoCaller
<1>1. ASSUME NEW c PROVE A!T!TunStep(c) <=> PA!T!TunStep(c)
      BY DEF A!T!TunStep, A!T!LockClosed, A!T!LockWriter, A!T!LockReader, A!T!WritePiece,
             A!T!WriteLast, A!T!WriteFailed, A!T!ReadPiece, A!T!ReadEnd, A!T!PutPiece,
             A!T!Refused, A!T!More, A!T!WriteError, A!T!ReadErrors, A!T!Returning, A!T!Piece,
             PA!T!TunStep, PA!T!LockClosed, PA!T!LockWriter, PA!T!LockReader,
             PA!T!WritePiece, PA!T!WriteLast, PA!T!WriteFailed, PA!T!ReadPiece,
             PA!T!ReadEnd, PA!T!PutPiece, PA!T!Refused, PA!T!More, PA!T!WriteError,
             PA!T!ReadErrors, PA!T!Returning, PA!T!Piece
<1>2. ASSUME NEW c PROVE A!T!Return(c) <=> PA!T!Return(c)
      BY DEF A!T!Return, PA!T!Return
<1>3. ASSUME NEW c, NEW op, NEW f PROVE A!T!Invoke(c, op, f) <=> PA!T!Invoke(c, op, f)
      BY DEF A!T!Invoke, PA!T!Invoke
<1> QED BY <1>1, <1>2, <1>3

LEMMA SameStartA == A!RunStart <=> PA!RunStart
BY DEF A!RunStart, PA!RunStart, A!tunVars, PA!tunVars

LEMMA SameStepsA ==
    /\ A!RunWait <=> PA!RunWait
    /\ A!Cancel <=> PA!Cancel
    /\ A!KernelPacket("ip") <=> PA!KernelPacket("ip")
    /\ A!WatcherNext <=> PA!WatcherNext
    /\ A!UpNext <=> PA!UpNext
    /\ A!DownNext <=> PA!DownNext
    /\ A!DownWritten <=> PA!DownWritten
<1> USE DEF A!tunVars, PA!tunVars, A!pumpVars, PA!pumpVars, A!gDone, PA!gDone,
            A!TunnelStep, PA!TunnelStep, A!Failed, PA!Failed
<1>1. A!RunWait <=> PA!RunWait
      BY DEF A!RunWait, PA!RunWait
<1>2. A!Cancel <=> PA!Cancel
      BY DEF A!Cancel, PA!Cancel, A!Happens, PA!Happens, A!Cardinality, PA!Cardinality
<1>3. A!KernelPacket("ip") <=> PA!KernelPacket("ip")
      BY DEF A!KernelPacket, PA!KernelPacket, A!Packet, PA!Packet
<1>4. A!WatcherNext <=> PA!WatcherNext
      BY SameTunnelA
         DEF A!WatcherNext, PA!WatcherNext, A!WatcherCloses, PA!WatcherCloses,
             A!WatcherDone, PA!WatcherDone, A!T!Close, PA!T!Close,
             A!T!CloseFrame, PA!T!CloseFrame, A!T!Frame, PA!T!Frame
<1>5. A!UpNext <=> PA!UpNext
      BY SameTunnelA
         DEF A!UpNext, PA!UpNext, A!UpTop, PA!UpTop, A!UpReadEmpty, PA!UpReadEmpty,
             A!UpReadIP, PA!UpReadIP, A!UpReadNotIP, PA!UpReadNotIP, A!UpReadFails,
             PA!UpReadFails, A!UpSent, PA!UpSent, A!ReadPacket, PA!ReadPacket,
             A!UpReturns, PA!UpReturns, A!T!SendFrame, PA!T!SendFrame, A!T!Frame, PA!T!Frame
<1>6. A!DownNext <=> PA!DownNext
      BY SameTunnelA
         DEF A!DownNext, PA!DownNext, A!DownStop, PA!DownStop, A!DownRecv, PA!DownRecv,
             A!DownRecvd, PA!DownRecvd, A!DownWrite, PA!DownWrite, A!DownWritten,
             PA!DownWritten, A!DownWriteFails, PA!DownWriteFails, A!DownReturns,
             PA!DownReturns, A!T!RecvFrame, PA!T!RecvFrame, A!T!NoFrame, PA!T!NoFrame,
             A!T!Frame, PA!T!Frame
<1>7. A!DownWritten <=> PA!DownWritten
      BY DEF A!DownWritten, PA!DownWritten
<1> QED BY <1>1, <1>2, <1>3, <1>4, <1>5, <1>6, <1>7

\* What end A may do but start.
AMoves == \/ A!RunWait \/ A!WatcherNext \/ A!UpNext \/ A!DownNext
          \/ A!KernelPacket("ip") \/ A!Cancel

LEMMA SameMovesA == AMoves => PA!Goes
BY SameStepsA DEF AMoves, PA!Goes

LEMMA SameTunnelB ==
    /\ \A c : B!T!TunStep(c) <=> PB!T!TunStep(c)
    /\ \A c : B!T!Return(c) <=> PB!T!Return(c)
    /\ \A c, op, f : B!T!Invoke(c, op, f) <=> PB!T!Invoke(c, op, f)
<1> USE DEF B!T!NoCall, PB!T!NoCall, B!T!NoFrame, PB!T!NoFrame, B!T!Frame, PB!T!Frame,
            B!NoCaller, PB!NoCaller
<1>1. ASSUME NEW c PROVE B!T!TunStep(c) <=> PB!T!TunStep(c)
      BY DEF B!T!TunStep, B!T!LockClosed, B!T!LockWriter, B!T!LockReader, B!T!WritePiece,
             B!T!WriteLast, B!T!WriteFailed, B!T!ReadPiece, B!T!ReadEnd, B!T!PutPiece,
             B!T!Refused, B!T!More, B!T!WriteError, B!T!ReadErrors, B!T!Returning, B!T!Piece,
             PB!T!TunStep, PB!T!LockClosed, PB!T!LockWriter, PB!T!LockReader,
             PB!T!WritePiece, PB!T!WriteLast, PB!T!WriteFailed, PB!T!ReadPiece,
             PB!T!ReadEnd, PB!T!PutPiece, PB!T!Refused, PB!T!More, PB!T!WriteError,
             PB!T!ReadErrors, PB!T!Returning, PB!T!Piece
<1>2. ASSUME NEW c PROVE B!T!Return(c) <=> PB!T!Return(c)
      BY DEF B!T!Return, PB!T!Return
<1>3. ASSUME NEW c, NEW op, NEW f PROVE B!T!Invoke(c, op, f) <=> PB!T!Invoke(c, op, f)
      BY DEF B!T!Invoke, PB!T!Invoke
<1> QED BY <1>1, <1>2, <1>3

LEMMA SameStartB == B!RunStart <=> PB!RunStart
BY DEF B!RunStart, PB!RunStart, B!tunVars, PB!tunVars

LEMMA SameStepsB ==
    /\ B!RunWait <=> PB!RunWait
    /\ B!Cancel <=> PB!Cancel
    /\ B!KernelPacket("ip") <=> PB!KernelPacket("ip")
    /\ B!WatcherNext <=> PB!WatcherNext
    /\ B!UpNext <=> PB!UpNext
    /\ B!DownNext <=> PB!DownNext
    /\ B!DownWritten <=> PB!DownWritten
<1> USE DEF B!tunVars, PB!tunVars, B!pumpVars, PB!pumpVars, B!gDone, PB!gDone,
            B!TunnelStep, PB!TunnelStep, B!Failed, PB!Failed
<1>1. B!RunWait <=> PB!RunWait
      BY DEF B!RunWait, PB!RunWait
<1>2. B!Cancel <=> PB!Cancel
      BY DEF B!Cancel, PB!Cancel, B!Happens, PB!Happens, B!Cardinality, PB!Cardinality
<1>3. B!KernelPacket("ip") <=> PB!KernelPacket("ip")
      BY DEF B!KernelPacket, PB!KernelPacket, B!Packet, PB!Packet
<1>4. B!WatcherNext <=> PB!WatcherNext
      BY SameTunnelB
         DEF B!WatcherNext, PB!WatcherNext, B!WatcherCloses, PB!WatcherCloses,
             B!WatcherDone, PB!WatcherDone, B!T!Close, PB!T!Close,
             B!T!CloseFrame, PB!T!CloseFrame, B!T!Frame, PB!T!Frame
<1>5. B!UpNext <=> PB!UpNext
      BY SameTunnelB
         DEF B!UpNext, PB!UpNext, B!UpTop, PB!UpTop, B!UpReadEmpty, PB!UpReadEmpty,
             B!UpReadIP, PB!UpReadIP, B!UpReadNotIP, PB!UpReadNotIP, B!UpReadFails,
             PB!UpReadFails, B!UpSent, PB!UpSent, B!ReadPacket, PB!ReadPacket,
             B!UpReturns, PB!UpReturns, B!T!SendFrame, PB!T!SendFrame, B!T!Frame, PB!T!Frame
<1>6. B!DownNext <=> PB!DownNext
      BY SameTunnelB
         DEF B!DownNext, PB!DownNext, B!DownStop, PB!DownStop, B!DownRecv, PB!DownRecv,
             B!DownRecvd, PB!DownRecvd, B!DownWrite, PB!DownWrite, B!DownWritten,
             PB!DownWritten, B!DownWriteFails, PB!DownWriteFails, B!DownReturns,
             PB!DownReturns, B!T!RecvFrame, PB!T!RecvFrame, B!T!NoFrame, PB!T!NoFrame,
             B!T!Frame, PB!T!Frame
<1>7. B!DownWritten <=> PB!DownWritten
      BY DEF B!DownWritten, PB!DownWritten
<1> QED BY <1>1, <1>2, <1>3, <1>4, <1>5, <1>6, <1>7

\* What end B may do but start.
BMoves == \/ B!RunWait \/ B!WatcherNext \/ B!UpNext \/ B!DownNext
          \/ B!KernelPacket("ip") \/ B!Cancel

LEMMA SameMovesB == BMoves => PB!Goes
BY SameStepsB DEF BMoves, PB!Goes

LEMMA SameInit == Init => PA!Init /\ PB!Init
<1> USE DEF A!T!NoCall, B!T!NoCall, PA!T!NoCall, PB!T!NoCall, A!T!NoFrame, B!T!NoFrame,
            PA!T!NoFrame, PB!T!NoFrame, A!T!Frame, B!T!Frame, PA!T!Frame, PB!T!Frame,
            A!Callers, B!Callers, PA!Callers, PB!Callers, A!NoCaller, B!NoCaller,
            PA!NoCaller, PB!NoCaller, A!T!OpenStream, B!T!OpenStream, PA!T!OpenStream,
            PB!T!OpenStream
<1> QED BY DEF Init, A!Init, B!Init, PA!Init, PB!Init, A!T!TunInit, B!T!TunInit,
               PA!T!TunInit, PB!T!TunInit

-----------------------------------------------------------------------------
(* The stream *)

\* A piece that follows the last one may be appended,
LEMMA PutLinked ==
    ASSUME NEW S, NEW q \in Seq(S), NEW r \in S, NEW p, NEW t, NEW u, t \in Nat, u \in Nat,
           t <= u, \A x \in S : x.f.id \in Nat,
           Among(q, t), r.f.kind = "pkt" => r.f.id <= t
    PROVE  /\ Among(Append(q, r), u)
           /\ Linked(p, q) /\ PA!Adj(LastOf(p, q), r) => Linked(p, Append(q, r))
           /\ LastOf(p, Append(q, r)) = r
<1>1. /\ Append(q, r) # <<>> /\ Len(Append(q, r)) = Len(q) + 1 /\ Len(q) \in Nat
      /\ Append(q, r)[Len(q) + 1] = r
      /\ \A i \in 1..Len(q) : Append(q, r)[i] = q[i] /\ q[i] \in S
      OBVIOUS
<1> DEFINE s == Append(q, r)
<1>2. \A i \in 1..Len(s) : i \in 1..Len(q) \/ i = Len(q) + 1
      BY <1>1
<1>3. LastOf(p, s) = r
      BY <1>1 DEF LastOf
<1>4. Among(s, u)
  <2> SUFFICES ASSUME NEW i \in 1..Len(s), s[i].f.kind = "pkt" PROVE s[i].f.id <= u
      BY DEF Among
  <2>1. s[i].f.id \in Nat /\ s[i].f.id <= t
        BY <1>1, <1>2 DEF Among
  <2> QED BY <2>1
<1>5. ASSUME Linked(p, q), PA!Adj(LastOf(p, q), r) PROVE Linked(p, s)
  <2> SUFFICES ASSUME NEW i \in 1..Len(s)
               PROVE  PA!Adj(IF i = 1 THEN p ELSE s[i - 1], s[i])
      BY DEF Linked
  <2>1. CASE i \in 1..Len(q)
    <3>1. s[i] = q[i] /\ (i # 1 => i - 1 \in 1..Len(q) /\ s[i - 1] = q[i - 1])
          BY <1>1, <2>1
    <3>2. PA!Adj(IF i = 1 THEN p ELSE q[i - 1], q[i])
          BY <1>5, <2>1 DEF Linked
    <3>3. (IF i = 1 THEN p ELSE s[i - 1]) = (IF i = 1 THEN p ELSE q[i - 1])
          BY <3>1
    <3> QED BY <3>1, <3>2, <3>3
  <2>2. CASE i = Len(q) + 1
    <3>1. s[i] = r /\ LastOf(p, q) = (IF i = 1 THEN p ELSE s[i - 1])
      <4>1. CASE q = <<>>
        <5>1. i = 1
              BY <2>2, <4>1
        <5> QED BY <1>1, <2>2, <4>1, <5>1 DEF LastOf
      <4>2. CASE q # <<>>
        <5>1. Len(q) \in 1..Len(q) /\ i # 1 /\ i - 1 = Len(q)
              BY <1>1, <2>2, <4>2
        <5>2. s[i - 1] = q[Len(q)]
              BY <1>1, <5>1
        <5> QED BY <1>1, <2>2, <4>2, <5>1, <5>2 DEF LastOf
      <4> QED BY <4>1, <4>2
    <3> QED BY <1>5, <3>1
  <2> QED BY <1>2, <2>1, <2>2
<1> QED BY <1>3, <1>4, <1>5

\* and the first one may be taken.
LEMMA TakeLinked ==
    ASSUME NEW S, NEW q \in Seq(S), q # <<>>, NEW p, NEW t, NEW u, t \in Nat, u \in Nat,
           t <= u, \A x \in S : x.f.id \in Nat, Among(q, t)
    PROVE  /\ Head(q) \in S /\ Among(Tail(q), u)
           /\ Head(q).f.kind = "pkt" => Head(q).f.id <= t
           /\ Linked(p, q) => PA!Adj(p, Head(q)) /\ Linked(Head(q), Tail(q))
           /\ LastOf(Head(q), Tail(q)) = LastOf(p, q)
<1>1. /\ Head(q) = q[1] /\ q[1] \in S /\ Len(q) \in Nat \ {0}
      /\ Tail(q) \in Seq(S) /\ Len(Tail(q)) = Len(q) - 1
      /\ \A i \in 1..Len(Tail(q)) :
           i + 1 \in 1..Len(q) /\ Tail(q)[i] = q[i + 1] /\ q[i + 1] \in S
      OBVIOUS
<1>2. Among(Tail(q), u)
  <2> SUFFICES ASSUME NEW i \in 1..Len(Tail(q)), Tail(q)[i].f.kind = "pkt"
               PROVE  Tail(q)[i].f.id <= u
      BY DEF Among
  <2>1. Tail(q)[i].f.id \in Nat /\ Tail(q)[i].f.id <= t
        BY <1>1 DEF Among
  <2> QED BY <2>1
<1>3. Head(q).f.kind = "pkt" => Head(q).f.id <= t
      BY <1>1 DEF Among
<1>4. ASSUME Linked(p, q) PROVE PA!Adj(p, Head(q)) /\ Linked(Head(q), Tail(q))
  <2>1. PA!Adj(p, Head(q))
    <3>1. 1 \in 1..Len(q)
          BY <1>1
    <3> QED BY <1>1, <1>4, <3>1 DEF Linked
  <2>2. ASSUME NEW i \in 1..Len(Tail(q))
        PROVE  PA!Adj(IF i = 1 THEN Head(q) ELSE Tail(q)[i - 1], Tail(q)[i])
    <3>1. i + 1 \in 1..Len(q) /\ i + 1 # 1 /\ (i + 1) - 1 = i /\ Tail(q)[i] = q[i + 1]
          BY <1>1
    <3>2. PA!Adj(q[i], q[i + 1])
          BY <1>4, <3>1 DEF Linked
    <3>3. (IF i = 1 THEN Head(q) ELSE Tail(q)[i - 1]) = q[i]
      <4>1. CASE i = 1
            BY <1>1, <4>1
      <4>2. CASE i # 1
        <5>1. i - 1 \in 1..Len(Tail(q)) /\ (i - 1) + 1 = i
              BY <1>1, <4>2
        <5> QED BY <1>1, <4>2, <5>1
      <4> QED BY <4>1, <4>2
    <3> QED BY <3>1, <3>2, <3>3
  <2> QED BY <2>1, <2>2 DEF Linked
<1>5. LastOf(Head(q), Tail(q)) = LastOf(p, q)
  <2>1. CASE Len(q) = 1
    <3>1. Tail(q) = <<>>
          BY <1>1, <2>1
    <3> QED BY <1>1, <2>1, <3>1 DEF LastOf
  <2>2. CASE Len(q) # 1
    <3>1. Len(Tail(q)) \in 1..Len(Tail(q)) /\ Len(Tail(q)) + 1 = Len(q) /\ Len(Tail(q)) # 0
          BY <1>1, <2>2
    <3>2. Tail(q) # <<>>
      <4>1. Len(<<>>) = 0
            OBVIOUS
      <4> QED BY <3>1, <4>1, Zenon
    <3>3. Tail(q)[Len(Tail(q))] = q[Len(q)]
          BY <1>1, <3>1
    <3> QED BY <3>2, <3>3 DEF LastOf
  <2> QED BY <2>1, <2>2
<1> QED BY <1>1, <1>2, <1>3, <1>4, <1>5

LEMMA PieceIds ==
    /\ \A x \in PA!StreamPieces : x.f.id \in Nat
    /\ \A x \in PB!StreamPieces : x.f.id \in Nat
<1>1. \A f \in PA!T!AllFrames : f.id \in 0..MaxDev
      BY Assumed, PA!FrameFacts
<1>2. \A x \in PA!StreamPieces : x.f.id \in Nat
      BY <1>1, SessionAssumption DEF PA!StreamPieces
<1> QED BY <1>2, SameEnds

\* What A's sending and B's receiving do to the flow.
LEMMA FlowsAB ==
    ASSUME PA!EndOK, PB!EndOK, PA!EndOK', PA!Taken' >= PA!Taken, FlowAB,
           \/ ab'.q = ab.q /\ PA!OutView /\ PB!InView
           \/ (\E r : PA!SendPuts(r)) /\ PB!InView
           \/ PB!RecvTakes /\ PA!OutView
    PROVE  FlowAB'
<1>t. PICK t \in Nat, u \in Nat : t = PA!Taken /\ u = PA!Taken' /\ t <= u
  <2>1. PA!Taken \in Nat
        BY Assumed, PA!EndFacts
  <2>2. PA!Taken' \in Nat
        BY DEF PA!EndOK, PA!InOrder
  <2> QED BY <2>1, <2>2
<1>p. PICK p, o, q : p = PB!lastIn /\ q = ab.q /\ o = LastOf(p, q)
      OBVIOUS
<1>q. q \in Seq(PA!StreamPieces)
      BY <1>p, Assumed, PA!EndFacts
<1>f. Among(q, t) /\ (PB!Live => PB!GotOK(t) /\ Linked(p, q) /\ PA!LastOut(o))
      BY <1>t, <1>p DEF FlowAB
<1>g. PB!GotOK(t) => PB!GotOK(u)
      BY <1>t, Assumed, PB!GotMore
<1> SUFFICES ASSUME NEW x, NEW y, x = PB!lastIn', y = LastOf(x, ab'.q)
             PROVE  /\ Among(ab'.q, u)
                    /\ PB!Live' => PB!GotOK(u)' /\ Linked(x, ab'.q) /\ PA!LastOut(y)'
    BY <1>t DEF FlowAB
<1>1. CASE ab'.q = ab.q /\ PA!OutView /\ PB!InView
  <2>1. Among(q, u)
    <3> SUFFICES ASSUME NEW i \in 1..Len(q), q[i].f.kind = "pkt" PROVE q[i].f.id <= u
        BY DEF Among
    <3>1. q[i].f.id <= t /\ q[i] \in PA!StreamPieces
          BY <1>f, <1>q DEF Among
    <3>2. q[i].f.id \in Nat
          BY <3>1, PieceIds
    <3> QED BY <1>t, <3>1, <3>2
  <2>2. ASSUME PB!Live' PROVE PB!GotOK(u)' /\ Linked(x, q) /\ PA!LastOut(y)'
    <3>1. PB!Live
          BY <1>1, <2>2 DEF PB!InView
    <3>2. PB!GotOK(u)' /\ x = p
          BY <1>f, <1>g, <1>1, <1>p, <2>2, <3>1 DEF PB!InView
    <3>3. y = o
          BY <1>p, <1>1, <3>2
    <3>4. PA!LastOut(o)'
          BY <1>f, <1>1, <3>1 DEF PA!OutView
    <3> QED BY <1>f, <3>1, <3>2, <3>3, <3>4
  <2> QED BY <1>p, <1>1, <2>1, <2>2
<1>2. CASE (\E r : PA!SendPuts(r)) /\ PB!InView
  <2>1. PICK r : PA!SendPuts(r)
        BY <1>2
  <2>2. /\ ab'.q = Append(q, r) /\ r \in PA!StreamPieces
        /\ r.f.kind = "pkt" => r.f.id <= t
        /\ PA!LastOut(o) => PA!Adj(o, r)
        /\ PA!LastOut(r)'
        BY <1>t, <1>p, <2>1, SameEnds DEF PA!SendPuts
  <2>3. /\ Among(Append(q, r), u)
        /\ Linked(p, q) /\ PA!Adj(LastOf(p, q), r) => Linked(p, Append(q, r))
        /\ LastOf(p, Append(q, r)) = r
    <3>1. /\ r \in PA!StreamPieces /\ Among(q, t) /\ (r.f.kind = "pkt" => r.f.id <= t)
          /\ \A z \in PA!StreamPieces : z.f.id \in Nat
          BY <1>f, <2>2, PieceIds
    <3> QED BY <1>t, <1>q, <3>1, PutLinked
  <2>4. ASSUME PB!Live' PROVE PB!GotOK(u)' /\ Linked(x, ab'.q) /\ PA!LastOut(y)'
    <3>1. PB!Live
          BY <1>2, <2>4 DEF PB!InView
    <3>2. PB!GotOK(u)' /\ x = p
          BY <1>f, <1>g, <1>2, <1>p, <2>4, <3>1 DEF PB!InView
    <3>3. y = r
          BY <2>2, <2>3, <3>2
    <3>4. Linked(p, ab'.q)
          BY <1>p, <1>f, <2>2, <2>3, <3>1
    <3> QED BY <2>2, <3>2, <3>3, <3>4
  <2> QED BY <2>2, <2>3, <2>4
<1>3. CASE PB!RecvTakes /\ PA!OutView
  <2>1. q # <<>> /\ ab'.q = Tail(q) /\ PB!Live
        BY <1>p, <1>3 DEF PB!RecvTakes
  <2>2. PICK h : h = Head(q)
        OBVIOUS
  <2>3. /\ Among(ab'.q, u)
        /\ h.f.kind = "pkt" => h.f.id <= u
        /\ PB!Adj(p, h) /\ Linked(h, ab'.q)
        /\ LastOf(h, ab'.q) = o
    <3>1. /\ h \in PA!StreamPieces /\ Among(ab'.q, u)
          /\ h.f.kind = "pkt" => h.f.id <= t
          /\ PA!Adj(p, h) /\ Linked(h, ab'.q)
          /\ LastOf(h, ab'.q) = o
          BY <1>t, <1>p, <1>q, <1>f, <2>1, <2>2, PieceIds, TakeLinked
    <3>2. h.f.id \in Nat
          BY <3>1, PieceIds
    <3> QED BY <1>t, <3>1, <3>2, SameEnds
  <2>4. ASSUME PB!Live' PROVE PB!GotOK(u)' /\ Linked(x, ab'.q) /\ PA!LastOut(y)'
    <3>1. PB!GotOK(u)' /\ x = h
          BY <1>f, <1>g, <1>3, <1>p, <2>1, <2>2, <2>3, <2>4 DEF PB!RecvTakes
    <3>2. PA!LastOut(o)' /\ y = o
          BY <1>f, <1>3, <2>1, <2>3, <3>1 DEF PA!OutView
    <3> QED BY <2>3, <3>1, <3>2
  <2> QED BY <2>3, <2>4
<1> QED BY <1>1, <1>2, <1>3

\* What B's sending and A's receiving do to the flow.
LEMMA FlowsBA ==
    ASSUME PB!EndOK, PA!EndOK, PB!EndOK', PB!Taken' >= PB!Taken, FlowBA,
           \/ ba'.q = ba.q /\ PB!OutView /\ PA!InView
           \/ (\E r : PB!SendPuts(r)) /\ PA!InView
           \/ PA!RecvTakes /\ PB!OutView
    PROVE  FlowBA'
<1>t. PICK t \in Nat, u \in Nat : t = PB!Taken /\ u = PB!Taken' /\ t <= u
  <2>1. PB!Taken \in Nat
        BY Assumed, PB!EndFacts
  <2>2. PB!Taken' \in Nat
        BY DEF PB!EndOK, PB!InOrder
  <2> QED BY <2>1, <2>2
<1>p. PICK p, o, q : p = PA!lastIn /\ q = ba.q /\ o = LastOf(p, q)
      OBVIOUS
<1>q. q \in Seq(PB!StreamPieces)
      BY <1>p, Assumed, PB!EndFacts
<1>f. Among(q, t) /\ (PA!Live => PA!GotOK(t) /\ Linked(p, q) /\ PB!LastOut(o))
      BY <1>t, <1>p DEF FlowBA
<1>g. PA!GotOK(t) => PA!GotOK(u)
      BY <1>t, Assumed, PA!GotMore
<1> SUFFICES ASSUME NEW x, NEW y, x = PA!lastIn', y = LastOf(x, ba'.q)
             PROVE  /\ Among(ba'.q, u)
                    /\ PA!Live' => PA!GotOK(u)' /\ Linked(x, ba'.q) /\ PB!LastOut(y)'
    BY <1>t DEF FlowBA
<1>1. CASE ba'.q = ba.q /\ PB!OutView /\ PA!InView
  <2>1. Among(q, u)
    <3> SUFFICES ASSUME NEW i \in 1..Len(q), q[i].f.kind = "pkt" PROVE q[i].f.id <= u
        BY DEF Among
    <3>1. q[i].f.id <= t /\ q[i] \in PB!StreamPieces
          BY <1>f, <1>q DEF Among
    <3>2. q[i].f.id \in Nat
          BY <3>1, PieceIds
    <3> QED BY <1>t, <3>1, <3>2
  <2>2. ASSUME PA!Live' PROVE PA!GotOK(u)' /\ Linked(x, q) /\ PB!LastOut(y)'
    <3>1. PA!Live
          BY <1>1, <2>2 DEF PA!InView
    <3>2. PA!GotOK(u)' /\ x = p
          BY <1>f, <1>g, <1>1, <1>p, <2>2, <3>1 DEF PA!InView
    <3>3. y = o
          BY <1>p, <1>1, <3>2
    <3>4. PB!LastOut(o)'
          BY <1>f, <1>1, <3>1 DEF PB!OutView
    <3> QED BY <1>f, <3>1, <3>2, <3>3, <3>4
  <2> QED BY <1>p, <1>1, <2>1, <2>2
<1>2. CASE (\E r : PB!SendPuts(r)) /\ PA!InView
  <2>1. PICK r : PB!SendPuts(r)
        BY <1>2
  <2>2. /\ ba'.q = Append(q, r) /\ r \in PB!StreamPieces
        /\ r.f.kind = "pkt" => r.f.id <= t
        /\ PB!LastOut(o) => PA!Adj(o, r)
        /\ PB!LastOut(r)'
        BY <1>t, <1>p, <2>1, SameEnds DEF PB!SendPuts
  <2>3. /\ Among(Append(q, r), u)
        /\ Linked(p, q) /\ PA!Adj(LastOf(p, q), r) => Linked(p, Append(q, r))
        /\ LastOf(p, Append(q, r)) = r
    <3>1. /\ r \in PB!StreamPieces /\ Among(q, t) /\ (r.f.kind = "pkt" => r.f.id <= t)
          /\ \A z \in PB!StreamPieces : z.f.id \in Nat
          BY <1>f, <2>2, PieceIds
    <3> QED BY <1>t, <1>q, <3>1, PutLinked
  <2>4. ASSUME PA!Live' PROVE PA!GotOK(u)' /\ Linked(x, ba'.q) /\ PB!LastOut(y)'
    <3>1. PA!Live
          BY <1>2, <2>4 DEF PA!InView
    <3>2. PA!GotOK(u)' /\ x = p
          BY <1>f, <1>g, <1>2, <1>p, <2>4, <3>1 DEF PA!InView
    <3>3. y = r
          BY <2>2, <2>3, <3>2
    <3>4. Linked(p, ba'.q)
          BY <1>p, <1>f, <2>2, <2>3, <3>1
    <3> QED BY <2>2, <3>2, <3>3, <3>4
  <2> QED BY <2>2, <2>3, <2>4
<1>3. CASE PA!RecvTakes /\ PB!OutView
  <2>1. q # <<>> /\ ba'.q = Tail(q) /\ PA!Live
        BY <1>p, <1>3 DEF PA!RecvTakes
  <2>2. PICK h : h = Head(q)
        OBVIOUS
  <2>3. /\ Among(ba'.q, u)
        /\ h.f.kind = "pkt" => h.f.id <= u
        /\ PA!Adj(p, h) /\ Linked(h, ba'.q)
        /\ LastOf(h, ba'.q) = o
    <3>1. /\ h \in PB!StreamPieces /\ Among(ba'.q, u)
          /\ h.f.kind = "pkt" => h.f.id <= t
          /\ PA!Adj(p, h) /\ Linked(h, ba'.q)
          /\ LastOf(h, ba'.q) = o
          BY <1>t, <1>p, <1>q, <1>f, <2>1, <2>2, PieceIds, TakeLinked
    <3>2. h.f.id \in Nat
          BY <3>1, PieceIds
    <3> QED BY <1>t, <3>1, <3>2, SameEnds
  <2>4. ASSUME PA!Live' PROVE PA!GotOK(u)' /\ Linked(x, ba'.q) /\ PB!LastOut(y)'
    <3>1. PA!GotOK(u)' /\ x = h
          BY <1>f, <1>g, <1>3, <1>p, <2>1, <2>2, <2>3, <2>4 DEF PA!RecvTakes
    <3>2. PB!LastOut(o)' /\ y = o
          BY <1>f, <1>3, <2>1, <2>3, <3>1 DEF PB!OutView
    <3> QED BY <2>3, <3>1, <3>2
  <2> QED BY <2>3, <2>4
<1> QED BY <1>1, <1>2, <1>3

-----------------------------------------------------------------------------
(* The steps *)

\* What a step may write on the devices: the next packet, one that has arrived.
Delivers ==
    /\ IF B!DownWritten THEN devB'.wrote = devB.wrote + 1 /\ devB'.wrote <= devA.arrived
                        ELSE devB'.wrote = devB.wrote
    /\ IF A!DownWritten THEN devA'.wrote = devA.wrote + 1 /\ devA'.wrote <= devB.arrived
                        ELSE devA'.wrote = devA.wrote
    /\ devA'.arrived >= devA.arrived /\ devB'.arrived >= devB.arrived

\* What is not done leaves no trace.
LEMMA NotWritten ==
    /\ downA' = downA => ~A!DownWritten
    /\ downB' = downB => ~B!DownWritten
BY DEF A!DownWritten, B!DownWritten

LEMMA Arrivals ==
    ASSUME SessionInv
    PROVE  /\ devA.arrived \in Nat /\ devA.wrote \in Nat
           /\ devB.arrived \in Nat /\ devB.wrote \in Nat
BY SessionAssumption DEF SessionInv, PA!EndOK, PB!EndOK, PA!EndTypes, PB!EndTypes,
                         PA!DevRecords, PB!DevRecords

\* Steps of end A.
LEMMA AStep ==
    ASSUME SessionInv, AMoves, UNCHANGED bVars PROVE SessionInv' /\ Delivers
<1>1. PA!EndOK' /\ PA!Sends /\ PA!Receives
      BY Assumed, SameMovesA, PA!EndStep DEF SessionInv
<1>2. UNCHANGED <<runB, downB, devB, muB, closedB, callB>>
      BY DEF bVars
<1>3. PB!OutView /\ PB!InView /\ PB!Taken' = PB!Taken
  <2>1. ba'.end = ba.end
        BY Assumed, SameMovesA, PA!EndsStay DEF SessionInv, PA!EndsKept
  <2> QED BY <1>2, <2>1, Assumed, PB!StillViews
<1>4. PB!EndOK'
  <2>1. ab' \in PB!T!StreamHalf /\ ba' \in PB!T!StreamHalf
    <3>1. (PA!T!TunTypes)'
          BY <1>1 DEF PA!EndOK, PA!EndTypes
    <3>2. ab' \in PA!T!StreamHalf /\ ba' \in PA!T!StreamHalf
          BY <3>1 DEF PA!T!TunTypes
    <3> QED BY <3>2, SameEnds
  <2> QED BY <1>2, <2>1, Assumed, PB!StillEnd DEF SessionInv
<1>5. FlowAB'
      BY <1>1, <1>3, FlowsAB DEF SessionInv, PA!Sends, PA!SendKeeps
<1>6. FlowBA'
  <2>1. PB!Taken' >= PB!Taken
        BY <1>3, Assumed, PB!EndFacts DEF SessionInv
  <2> QED BY <1>1, <1>3, <1>4, <2>1, FlowsBA DEF SessionInv, PA!Receives, PA!RecvKeeps
<1>7. Delivers
  <2>1. /\ ~A!DownWritten => devA'.wrote = devA.wrote
        /\ A!DownWritten => PA!Live /\ \A t \in Nat : PA!GotOK(t) =>
                                devA'.wrote = devA.wrote + 1 /\ devA'.wrote <= t
        BY Assumed, SameMovesA, SameStepsA, PA!WritesOne DEF SessionInv
  <2>2. ASSUME A!DownWritten
        PROVE  devA'.wrote = devA.wrote + 1 /\ devA'.wrote <= devB.arrived
    <3>1. PICK t \in Nat : t = PB!Taken
          BY Assumed, PB!EndFacts DEF SessionInv
    <3>2. PA!GotOK(t)
          BY <2>1, <2>2, <3>1 DEF SessionInv, FlowBA
    <3>3. t <= devB.arrived
          BY <3>1, Assumed, PB!EndFacts DEF SessionInv
    <3>4. devA'.wrote = devA.wrote + 1 /\ devA'.wrote <= t
          BY <2>1, <2>2, <3>2
    <3> QED BY <3>3, <3>4, Arrivals
  <2>3. devA'.arrived >= devA.arrived /\ devB'.arrived >= devB.arrived
        BY <1>2, Assumed, Arrivals, SameMovesA, PA!ArrivedGrows DEF SessionInv
  <2> QED BY <1>2, <2>1, <2>2, <2>3, NotWritten DEF Delivers
<1> QED BY <1>1, <1>4, <1>5, <1>6, <1>7 DEF SessionInv

\* Steps of end B.
LEMMA BStep ==
    ASSUME SessionInv, BMoves, UNCHANGED aVars PROVE SessionInv' /\ Delivers
<1>1. PB!EndOK' /\ PB!Sends /\ PB!Receives
      BY Assumed, SameMovesB, PB!EndStep DEF SessionInv
<1>2. UNCHANGED <<runA, downA, devA, muA, closedA, callA>>
      BY DEF aVars
<1>3. PA!OutView /\ PA!InView /\ PA!Taken' = PA!Taken
  <2>1. ab'.end = ab.end
        BY Assumed, SameMovesB, PB!EndsStay DEF SessionInv, PB!EndsKept
  <2> QED BY <1>2, <2>1, Assumed, PA!StillViews
<1>4. PA!EndOK'
  <2>1. ba' \in PA!T!StreamHalf /\ ab' \in PA!T!StreamHalf
    <3>1. (PB!T!TunTypes)'
          BY <1>1 DEF PB!EndOK, PB!EndTypes
    <3>2. ba' \in PB!T!StreamHalf /\ ab' \in PB!T!StreamHalf
          BY <3>1 DEF PB!T!TunTypes
    <3> QED BY <3>2, SameEnds
  <2> QED BY <1>2, <2>1, Assumed, PA!StillEnd DEF SessionInv
<1>5. FlowBA'
      BY <1>1, <1>3, FlowsBA DEF SessionInv, PB!Sends, PB!SendKeeps
<1>6. FlowAB'
  <2>1. PA!Taken' >= PA!Taken
        BY <1>3, Assumed, PA!EndFacts DEF SessionInv
  <2> QED BY <1>1, <1>3, <1>4, <2>1, FlowsAB DEF SessionInv, PB!Receives, PB!RecvKeeps
<1>7. Delivers
  <2>1. /\ ~B!DownWritten => devB'.wrote = devB.wrote
        /\ B!DownWritten => PB!Live /\ \A t \in Nat : PB!GotOK(t) =>
                                devB'.wrote = devB.wrote + 1 /\ devB'.wrote <= t
        BY Assumed, SameMovesB, SameStepsB, PB!WritesOne DEF SessionInv
  <2>2. ASSUME B!DownWritten
        PROVE  devB'.wrote = devB.wrote + 1 /\ devB'.wrote <= devA.arrived
    <3>1. PICK t \in Nat : t = PA!Taken
          BY Assumed, PA!EndFacts DEF SessionInv
    <3>2. PB!GotOK(t)
          BY <2>1, <2>2, <3>1 DEF SessionInv, FlowAB
    <3>3. t <= devA.arrived
          BY <3>1, Assumed, PA!EndFacts DEF SessionInv
    <3>4. devB'.wrote = devB.wrote + 1 /\ devB'.wrote <= t
          BY <2>1, <2>2, <3>2
    <3> QED BY <3>3, <3>4, Arrivals
  <2>3. devB'.arrived >= devB.arrived /\ devA'.arrived >= devA.arrived
        BY <1>2, Assumed, Arrivals, SameMovesB, PB!ArrivedGrows DEF SessionInv
  <2> QED BY <1>2, <2>1, <2>2, <2>3, NotWritten DEF Delivers
<1> QED BY <1>1, <1>4, <1>5, <1>6, <1>7 DEF SessionInv

\* Steps that only end the stream, and stuttering.
LEMMA StreamStep ==
    ASSUME SessionInv, UNCHANGED <<aVars, bVars>>, ab'.q = ab.q, ba'.q = ba.q,
           ab'.end \in {ab.end, "eof"}, ba'.end \in {ba.end, "eof"},
           ab' \in PA!T!StreamHalf, ba' \in PA!T!StreamHalf
    PROVE  SessionInv' /\ Delivers
<1>1. /\ UNCHANGED <<runA, downA, devA, muA, closedA, callA>>
      /\ UNCHANGED <<runB, downB, devB, muB, closedB, callB>>
      BY DEF aVars, bVars
<1>2. /\ PA!OutView /\ PA!InView /\ PA!Taken' = PA!Taken
      /\ PB!OutView /\ PB!InView /\ PB!Taken' = PB!Taken
      BY <1>1, Assumed, PA!StillViews, PB!StillViews
<1>3. PA!EndOK' /\ PB!EndOK'
      BY <1>1, Assumed, SameEnds, PA!StillEnd, PB!StillEnd DEF SessionInv
<1>4. PA!Taken' >= PA!Taken /\ PB!Taken' >= PB!Taken
      BY <1>2, Assumed, PA!EndFacts, PB!EndFacts DEF SessionInv
<1>5. FlowAB' /\ FlowBA'
      BY <1>2, <1>3, <1>4, FlowsAB, FlowsBA DEF SessionInv
<1>6. Delivers
      BY <1>1, NotWritten, Arrivals DEF Delivers
<1> QED BY <1>3, <1>5, <1>6 DEF SessionInv

LEMMA StartStep == ASSUME SessionInv, Start PROVE SessionInv' /\ Delivers
<1>1. PA!RunStart /\ PB!RunStart
      BY SameStartA, SameStartB DEF Start
<1>2. /\ PA!OutView /\ PA!InView /\ UNCHANGED <<devA, PA!tunVars>> /\ PA!Taken' = PA!Taken
      /\ PB!OutView /\ PB!InView /\ UNCHANGED <<devB, PB!tunVars>> /\ PB!Taken' = PB!Taken
      BY <1>1, Assumed, PA!StartViews, PB!StartViews DEF SessionInv
<1>3. PA!EndOK' /\ PB!EndOK'
      BY <1>1, Assumed, PA!EndStep, PB!EndStep DEF SessionInv, PA!Goes, PB!Goes
<1>4. PA!Taken' >= PA!Taken /\ PB!Taken' >= PB!Taken
      BY <1>2, Assumed, PA!EndFacts, PB!EndFacts DEF SessionInv
<1>5. FlowAB' /\ FlowBA'
      BY <1>2, <1>3, <1>4, FlowsAB, FlowsBA DEF SessionInv, PA!tunVars
<1>6. Delivers
  <2>1. ~A!DownWritten /\ ~B!DownWritten
        BY DEF Start, A!RunStart, B!RunStart, A!DownWritten, B!DownWritten, SessionInv,
               PA!EndOK, PB!EndOK, PA!Started, PB!Started
  <2> QED BY <1>2, <2>1, Arrivals DEF Delivers
<1> QED BY <1>3, <1>5, <1>6 DEF SessionInv

LEMMA SessionStep ==
    SessionInv /\ [Next]_vars => SessionInv' /\ Delivers
<1> SUFFICES ASSUME SessionInv, [Next]_vars PROVE SessionInv' /\ Delivers
    OBVIOUS
<1>s. ab \in PA!T!StreamHalf /\ ba \in PA!T!StreamHalf
      BY Assumed, PA!EndFacts DEF SessionInv
<1>1. CASE Start
      BY <1>1, StartStep
<1>2. CASE AGoes \/ APacket \/ ACancel
      BY <1>2, AStep DEF AGoes, APacket, ACancel, AMoves
<1>3. CASE BGoes \/ BPacket \/ BCancel
      BY <1>3, BStep DEF BGoes, BPacket, BCancel, BMoves
<1>4. CASE HangsUp
  <2>1. /\ UNCHANGED <<aVars, bVars>> /\ ab'.q = ab.q /\ ba'.q = ba.q
        /\ ab'.end = "eof" /\ ba'.end = "eof"
        /\ ab' \in PA!T!StreamHalf /\ ba' \in PA!T!StreamHalf
        BY <1>s, <1>4 DEF HangsUp, PA!T!StreamHalf
  <2> QED BY <2>1, StreamStep
<1>5. CASE UNCHANGED vars
  <2>1. UNCHANGED <<ab, ba, aVars, bVars>>
        BY <1>5 DEF vars, aVars, bVars
  <2> QED BY <1>s, <2>1, StreamStep
<1> QED BY <1>1, <1>2, <1>3, <1>4, <1>5 DEF Next, Step

LEMMA SessionStarts == Init => SessionInv
<1> SUFFICES ASSUME Init PROVE SessionInv
    OBVIOUS
<1>1. PA!Init /\ PB!Init
      BY SameInit
<1>2. PICK z : z = PA!T!Piece(PA!Pkt(0), Pieces) /\ z = PB!T!Piece(PB!Pkt(0), Pieces)
      BY SameEnds
<1>3. /\ PA!EndOK /\ PA!Taken = 0 /\ ab.q = <<>> /\ PA!Live /\ PA!GotOK(0)
      /\ PA!lastIn = z /\ PA!LastOut(PA!T!Piece(PA!Pkt(0), Pieces))
      BY <1>1, <1>2, Assumed, PA!EndInit
<1>4. /\ PB!EndOK /\ PB!Taken = 0 /\ ba.q = <<>> /\ PB!Live /\ PB!GotOK(0)
      /\ PB!lastIn = z /\ PB!LastOut(PB!T!Piece(PB!Pkt(0), Pieces))
      BY <1>1, <1>2, Assumed, PB!EndInit
<1>5. PA!LastOut(z) /\ PB!LastOut(z)
      BY <1>2, <1>3, <1>4
<1>6. \A p, t : LastOf(p, <<>>) = p /\ Linked(p, <<>>) /\ Among(<<>>, t)
      BY DEF LastOf, Linked, Among
<1>7. FlowAB /\ FlowBA
      BY <1>3, <1>4, <1>5, <1>6 DEF FlowAB, FlowBA
<1> QED BY <1>3, <1>4, <1>7 DEF SessionInv

LEMMA CountStep ==
    ASSUME SessionInv, SessionInv', EndToEnd, Delivers, Counted \/ UNCHANGED vars
    PROVE  EndToEnd'
<1>1. CASE Counted
  <2>1. /\ writes'["A"] = IF A!DownWritten THEN writes["A"] + 1 ELSE writes["A"]
        /\ writes'["B"] = IF B!DownWritten THEN writes["B"] + 1 ELSE writes["B"]
        BY <1>1 DEF Counted
  <2>2. \A k, m, n \in Nat : k <= m /\ n >= m => k <= n
        OBVIOUS
  <2>3. devA'.arrived \in Nat /\ devB'.arrived \in Nat /\ devA'.wrote \in Nat /\ devB'.wrote \in Nat
        BY SessionAssumption DEF SessionInv, PA!EndOK, PB!EndOK, PA!EndTypes, PB!EndTypes,
                                 PA!DevRecords, PB!DevRecords
  <2> QED BY <2>1, <2>2, <2>3, Arrivals DEF EndToEnd, Delivers
<1>2. CASE UNCHANGED vars
      BY <1>2 DEF vars, aVars, bVars, EndToEnd
<1> QED BY <1>1, <1>2

\* However the two Runs of a session interleave, whoever cancels when and wherever
\* a frame is cut, the n-th write on a device is of the n-th packet that arrived on
\* the other one: in order, none twice, none skipped, none invented.
THEOREM DeliveredInOrder == Spec => []EndToEnd
<1>1. Init => SessionInv /\ EndToEnd
  <2> SUFFICES ASSUME Init PROVE EndToEnd
      BY SessionStarts
  <2>1. devA.wrote = 0 /\ devB.wrote = 0 /\ devA.arrived = 0 /\ devB.arrived = 0
        BY DEF Init, A!Init, B!Init
  <2> QED BY <2>1 DEF Init, EndToEnd
<1>2. SessionInv /\ EndToEnd /\ [Next]_vars => (SessionInv /\ EndToEnd)'
      BY SessionStep, CountStep DEF Next
<1> QED BY <1>1, <1>2, PTL DEF Spec

-----------------------------------------------------------------------------
(* The session at rest *)

\* What leads to a state of rest: how far each end has got, that an end nobody
\* cancelled is calm while the stream is open and its pumpDown returns only for the
\* other end's Close frame, that the stream is ended both ways at once and after a
\* cancellation, and that what is in flight was sent and what was sent had arrived.
RestInv ==
    /\ SessionInv
    /\ PA!Stages /\ PB!Stages
    /\ ~ctxA /\ ab.end = "open" => PA!Calm /\ (PA!Live \/ closedB)
    /\ ~ctxB /\ ab.end = "open" => PB!Calm /\ (PB!Live \/ closedA)
    /\ ab.end = "open" <=> ba.end = "open"
    /\ ab.end = "open" \/ ~Undisturbed
    /\ PA!SentOK /\ PB!SentOK

LEMMA HeadOf ==
    ASSUME NEW S, NEW q \in Seq(S), q # <<>>
    PROVE  /\ Head(q) = q[1] /\ Head(q) \in S /\ Len(q) \in Nat /\ 1 \in 1..Len(q)
           /\ Len(q) # 1 => 2 \in 1..Len(q)
<1>1. Head(q) = q[1] /\ Head(q) \in S /\ Len(q) \in Nat /\ Len(q) # 0
      OBVIOUS
<1>2. \A n \in Nat : n # 0 => 1 \in 1..n /\ (n # 1 => 2 \in 1..n)
      OBVIOUS
<1> QED BY <1>1, <1>2

\* What B reads are frames, and if it reads the last of a Close frame, A is closed.
LEMMA BReads ==
    ASSUME RestInv
    PROVE  PB!ReadsFrames /\ (PB!Live /\ PB!TakesClose => closedA)
<1> SUFFICES ASSUME PB!Live, ab.q # <<>>
             PROVE  /\ callB["down"].pc = "read" => Head(ab.q).f.kind \in {"pkt", "close"}
                    /\ PB!TakesClose => closedA
  <2>1. callB["down"].pc = "read" => PB!Live
        BY DEF RestInv, SessionInv, PB!EndOK, PB!CallsDo, PB!Live
  <2> QED BY <2>1 DEF PB!ReadsFrames, PB!TakesClose
<1>1. PB!EndOK /\ PA!EndOK /\ PA!SentOK
      BY DEF RestInv, SessionInv
<1>2. ab.q \in Seq(PB!StreamPieces) /\ PA!Taken \in Nat
      BY <1>1, Assumed, PB!EndFacts, PA!EndFacts
<1>3. PICK t \in Nat : t = PA!Taken
      BY <1>2
<1>p. PICK p : p = PB!lastIn
      OBVIOUS
<1>4. PICK q \in Seq(PB!StreamPieces) : q = ab.q
      BY <1>2
<1>5. PICK h : h = Head(q)
      OBVIOUS
<1>6. PB!GotOK(t) /\ Linked(p, q) /\ PA!LastOut(LastOf(p, q))
      BY <1>3, <1>p, <1>4 DEF RestInv, SessionInv, FlowAB
<1>7. /\ h = q[1] /\ h \in PB!StreamPieces /\ 1 \in 1..Len(q) /\ Len(q) \in Nat
      /\ Len(q) # 1 => 2 \in 1..Len(q)
      /\ q # <<>>
      BY <1>4, <1>5, HeadOf
<1>8. PA!Adj(p, h)
      BY <1>6, <1>7 DEF Linked
<1>9. callB["down"].pc = "read" => h.f.kind \in {"pkt", "close"}
      BY <1>1, <1>3, <1>p, <1>6, <1>7, <1>8, SameEnds, Assumed, PB!NextKind
<1>10. ASSUME PB!TakesClose PROVE closedA
  <2>1. h.f.kind = "close" /\ h.i = Pieces
        BY <1>4, <1>5, <1>10 DEF PB!TakesClose
  <2>2. Len(q) = 1
    <3> SUFFICES ASSUME Len(q) # 1 PROVE FALSE
        OBVIOUS
    <3>1. PA!Adj(q[1], q[2])
      <4>1. 2 \in 1..Len(q) /\ 2 # 1 /\ 2 - 1 = 1
            BY <1>7
      <4>2. PA!Adj(IF 2 = 1 THEN p ELSE q[2 - 1], q[2])
            BY <1>6, <4>1, Zenon DEF Linked
      <4> QED BY <4>1, <4>2
    <3>2. ~(Pieces < Pieces)
          BY SessionAssumption
    <3> QED BY <1>7, <2>1, <3>1, <3>2 DEF PA!Adj
  <2>3. LastOf(p, q) = h
        BY <1>7, <2>2 DEF LastOf
  <2>4. PA!LastOut(h)
        BY <1>6, <2>3
  <2> QED BY <1>1, <2>1, <2>4, Assumed, PA!CloseWritten
<1> QED BY <1>4, <1>5, <1>9, <1>10

\* What A reads are frames, and if it reads the last of a Close frame, B is closed.
LEMMA AReads ==
    ASSUME RestInv
    PROVE  PA!ReadsFrames /\ (PA!Live /\ PA!TakesClose => closedB)
<1> SUFFICES ASSUME PA!Live, ba.q # <<>>
             PROVE  /\ callA["down"].pc = "read" => Head(ba.q).f.kind \in {"pkt", "close"}
                    /\ PA!TakesClose => closedB
  <2>1. callA["down"].pc = "read" => PA!Live
        BY DEF RestInv, SessionInv, PA!EndOK, PA!CallsDo, PA!Live
  <2> QED BY <2>1 DEF PA!ReadsFrames, PA!TakesClose
<1>1. PA!EndOK /\ PB!EndOK /\ PB!SentOK
      BY DEF RestInv, SessionInv
<1>2. ba.q \in Seq(PA!StreamPieces) /\ PB!Taken \in Nat
      BY <1>1, Assumed, PA!EndFacts, PB!EndFacts
<1>3. PICK t \in Nat : t = PB!Taken
      BY <1>2
<1>p. PICK p : p = PA!lastIn
      OBVIOUS
<1>4. PICK q \in Seq(PA!StreamPieces) : q = ba.q
      BY <1>2
<1>5. PICK h : h = Head(q)
      OBVIOUS
<1>6. PA!GotOK(t) /\ Linked(p, q) /\ PB!LastOut(LastOf(p, q))
      BY <1>3, <1>p, <1>4 DEF RestInv, SessionInv, FlowBA
<1>7. /\ h = q[1] /\ h \in PA!StreamPieces /\ 1 \in 1..Len(q) /\ Len(q) \in Nat
      /\ Len(q) # 1 => 2 \in 1..Len(q)
      /\ q # <<>>
      BY <1>4, <1>5, HeadOf
<1>8. PA!Adj(p, h)
      BY <1>6, <1>7 DEF Linked
<1>9. callA["down"].pc = "read" => h.f.kind \in {"pkt", "close"}
      BY <1>1, <1>3, <1>p, <1>6, <1>7, <1>8, SameEnds, Assumed, PA!NextKind
<1>10. ASSUME PA!TakesClose PROVE closedB
  <2>1. h.f.kind = "close" /\ h.i = Pieces
        BY <1>4, <1>5, <1>10 DEF PA!TakesClose
  <2>2. Len(q) = 1
    <3> SUFFICES ASSUME Len(q) # 1 PROVE FALSE
        OBVIOUS
    <3>1. PA!Adj(q[1], q[2])
      <4>1. 2 \in 1..Len(q) /\ 2 # 1 /\ 2 - 1 = 1
            BY <1>7
      <4>2. PA!Adj(IF 2 = 1 THEN p ELSE q[2 - 1], q[2])
            BY <1>6, <4>1, Zenon DEF Linked
      <4> QED BY <4>1, <4>2
    <3>2. ~(Pieces < Pieces)
          BY SessionAssumption
    <3> QED BY <1>7, <2>1, <3>1, <3>2 DEF PA!Adj
  <2>3. LastOf(p, q) = h
        BY <1>7, <2>2 DEF LastOf
  <2>4. PB!LastOut(h)
        BY <1>6, <2>3
  <2> QED BY <1>1, <2>1, <2>4, Assumed, PB!CloseWritten
<1> QED BY <1>4, <1>5, <1>9, <1>10

\* Steps of end A.
LEMMA ARests == ASSUME RestInv, AMoves, UNCHANGED bVars PROVE RestInv'
<1>1. PA!Goes /\ SessionInv /\ SessionInv' /\ PA!EndOK /\ PB!EndOK
      BY SameMovesA, AStep DEF RestInv, SessionInv
<1>2. ab'.end = ab.end /\ ba'.end = ba.end
      BY <1>1, Assumed, PA!EndsStay DEF PA!EndsKept
<1>3. /\ UNCHANGED <<runB, ctxB, gErrB, watcherB, upB, downB, devB, closedB, callB>>
      BY DEF bVars
<1>4. PA!Stages' /\ PB!Stages'
  <2>1. PA!Stages'
        BY <1>1, Assumed, PA!StagesStep DEF RestInv
  <2>2. PB!Stages'
        BY <1>3 DEF RestInv, PB!Stages
  <2> QED BY <2>1, <2>2
<1>5. ASSUME ~ctxA', ab'.end = "open" PROVE PA!Calm' /\ (PA!Live' \/ closedB')
  <2>1. ~ctxA /\ ab.end = "open"
        BY <1>1, <1>2, <1>5, Assumed, PA!CtxStays
  <2>2. PA!Calm /\ (PA!Live \/ closedB) /\ closedB' = closedB
        BY <1>3, <2>1 DEF RestInv
  <2>3. PA!ReadsFrames /\ (PA!Live /\ PA!TakesClose => closedB)
        BY AReads
  <2>4. PA!Calm' /\ PA!StaysLive
        BY <1>1, <1>5, <2>2, <2>3, Assumed, PA!CalmStep DEF RestInv
  <2> QED BY <2>2, <2>3, <2>4 DEF PA!StaysLive
<1>7. ASSUME ~ctxB', ab'.end = "open" PROVE PB!Calm' /\ (PB!Live' \/ closedA')
  <2>1. PB!Calm /\ (PB!Live \/ closedA) /\ PB!EndsKept
        BY <1>2, <1>3, <1>7 DEF RestInv, PB!EndsKept
  <2>2. PB!Calm'
        BY <1>3, <2>1, Assumed, PB!CalmStill
  <2>3. closedA => closedA'
        BY <1>1, Assumed, PA!ClosedStays
  <2>4. PB!Live => PB!Live'
        BY <1>3 DEF PB!Live
  <2> QED BY <2>1, <2>2, <2>3, <2>4
<1>8. Undisturbed' => Undisturbed
      BY <1>1, <1>3, Assumed, PA!CtxStays DEF Undisturbed
<1>6. PA!SentOK' /\ PB!SentOK'
  <2>1. PA!SentOK'
        BY <1>1, Assumed, PA!SentStep DEF RestInv
  <2>2. ba'.q = ba.q \/ (ba.q # <<>> /\ ba'.q = Tail(ba.q))
        BY <1>1, Assumed, PA!EndStep DEF PA!Receives, PA!RecvKeeps, PA!RecvTakes
  <2>3. ba.q \in Seq(PB!StreamPieces)
        BY <1>1, Assumed, PB!EndFacts
  <2>4. Len(ba'.q) \in Nat /\ Len(ba'.q) <= Len(ba.q)
    <3>1. PICK q \in Seq(PB!StreamPieces) : q = ba.q
          BY <2>3
    <3>2. PICK s : s = ba'.q
          OBVIOUS
    <3>3. s = q \/ (q # <<>> /\ s = Tail(q))
          BY <2>2, <3>1, <3>2
    <3>4. Len(s) \in Nat /\ Len(s) <= Len(q)
          BY <3>3
    <3> QED BY <3>1, <3>2, <3>4
  <2>5. PB!SentOK'
        BY <1>1, <1>3, <2>4, Assumed, PB!SentStill DEF RestInv
  <2> QED BY <2>1, <2>5
<1> QED BY <1>1, <1>2, <1>4, <1>5, <1>6, <1>7, <1>8 DEF RestInv

\* Steps of end B.
LEMMA BRests == ASSUME RestInv, BMoves, UNCHANGED aVars PROVE RestInv'
<1>1. PB!Goes /\ SessionInv /\ SessionInv' /\ PB!EndOK /\ PA!EndOK
      BY SameMovesB, BStep DEF RestInv, SessionInv
<1>2. ba'.end = ba.end /\ ab'.end = ab.end
      BY <1>1, Assumed, PB!EndsStay DEF PB!EndsKept
<1>3. /\ UNCHANGED <<runA, ctxA, gErrA, watcherA, upA, downA, devA, closedA, callA>>
      BY DEF aVars
<1>4. PB!Stages' /\ PA!Stages'
  <2>1. PB!Stages'
        BY <1>1, Assumed, PB!StagesStep DEF RestInv
  <2>2. PA!Stages'
        BY <1>3 DEF RestInv, PA!Stages
  <2> QED BY <2>1, <2>2
<1>5. ASSUME ~ctxB', ab'.end = "open" PROVE PB!Calm' /\ (PB!Live' \/ closedA')
  <2>1. ~ctxB /\ ab.end = "open"
        BY <1>1, <1>2, <1>5, Assumed, PB!CtxStays
  <2>2. PB!Calm /\ (PB!Live \/ closedA) /\ closedA' = closedA
        BY <1>3, <2>1 DEF RestInv
  <2>3. PB!ReadsFrames /\ (PB!Live /\ PB!TakesClose => closedA)
        BY BReads
  <2>4. PB!Calm' /\ PB!StaysLive
        BY <1>1, <1>5, <2>2, <2>3, Assumed, PB!CalmStep DEF RestInv
  <2> QED BY <2>2, <2>3, <2>4 DEF PB!StaysLive
<1>7. ASSUME ~ctxA', ab'.end = "open" PROVE PA!Calm' /\ (PA!Live' \/ closedB')
  <2>1. PA!Calm /\ (PA!Live \/ closedB) /\ PA!EndsKept
        BY <1>2, <1>3, <1>7 DEF RestInv, PA!EndsKept
  <2>2. PA!Calm'
        BY <1>3, <2>1, Assumed, PA!CalmStill
  <2>3. closedB => closedB'
        BY <1>1, Assumed, PB!ClosedStays
  <2>4. PA!Live => PA!Live'
        BY <1>3 DEF PA!Live
  <2> QED BY <2>1, <2>2, <2>3, <2>4
<1>8. Undisturbed' => Undisturbed
      BY <1>1, <1>3, Assumed, PB!CtxStays DEF Undisturbed
<1>6. PB!SentOK' /\ PA!SentOK'
  <2>1. PB!SentOK'
        BY <1>1, Assumed, PB!SentStep DEF RestInv
  <2>2. ab'.q = ab.q \/ (ab.q # <<>> /\ ab'.q = Tail(ab.q))
        BY <1>1, Assumed, PB!EndStep DEF PB!Receives, PB!RecvKeeps, PB!RecvTakes
  <2>3. ab.q \in Seq(PA!StreamPieces)
        BY <1>1, Assumed, PA!EndFacts
  <2>4. Len(ab'.q) \in Nat /\ Len(ab'.q) <= Len(ab.q)
    <3>1. PICK q \in Seq(PA!StreamPieces) : q = ab.q
          BY <2>3
    <3>2. PICK s : s = ab'.q
          OBVIOUS
    <3>3. s = q \/ (q # <<>> /\ s = Tail(q))
          BY <2>2, <3>1, <3>2
    <3>4. Len(s) \in Nat /\ Len(s) <= Len(q)
          BY <3>3
    <3> QED BY <3>1, <3>2, <3>4
  <2>5. PA!SentOK'
        BY <1>1, <1>3, <2>4, Assumed, PA!SentStill DEF RestInv
  <2> QED BY <2>1, <2>5
<1> QED BY <1>1, <1>2, <1>4, <1>5, <1>6, <1>7, <1>8 DEF RestInv

LEMMA RestStarts == Init => RestInv
<1> SUFFICES ASSUME Init PROVE RestInv
    OBVIOUS
<1>1. PA!Init /\ PB!Init /\ SessionInv
      BY SameInit, SessionStarts
<1>2. /\ PA!Stages /\ PA!Calm /\ PA!SentOK
      /\ PB!Stages /\ PB!Calm /\ PB!SentOK
      BY <1>1, Assumed, PA!RestInit, PB!RestInit
<1>3. ab.end = "open" /\ ba.end = "open"
      BY <1>2 DEF PA!Calm
<1>4. PA!Live /\ PB!Live
      BY <1>1, Assumed, PA!EndInit, PB!EndInit
<1> QED BY <1>1, <1>2, <1>3, <1>4 DEF RestInv

\* Both Runs start.
LEMMA StartRests == ASSUME RestInv, Start PROVE RestInv'
<1>1. PA!RunStart /\ PB!RunStart /\ PA!Goes /\ PB!Goes
      BY SameStartA, SameStartB DEF Start, PA!Goes, PB!Goes
<1>2. SessionInv' /\ PA!EndOK /\ PB!EndOK
      BY StartStep DEF RestInv, SessionInv
<1>s. PA!Live' /\ PB!Live'
  <2>1. downA'.pc = "top" /\ callA'["down"] = callA["down"] /\ callA["down"].pc = "idle"
        BY <1>1, <1>2 DEF PA!RunStart, PA!tunVars, PA!EndOK, PA!EndTypes, PA!Started, PA!CallsDo
  <2>2. downB'.pc = "top" /\ callB'["down"] = callB["down"] /\ callB["down"].pc = "idle"
        BY <1>1, <1>2 DEF PB!RunStart, PB!tunVars, PB!EndOK, PB!EndTypes, PB!Started, PB!CallsDo
  <2> QED BY <2>1, <2>2 DEF PA!Live, PB!Live
<1>3. PA!Stages' /\ PB!Stages' /\ PA!SentOK' /\ PB!SentOK'
      BY <1>1, <1>2, Assumed, PA!StagesStep, PB!StagesStep, PA!SentStep, PB!SentStep
         DEF RestInv
<1>4. ab'.end = ab.end /\ ba'.end = ba.end
      BY <1>1, <1>2, Assumed, PA!EndsStay DEF PA!EndsKept
<1>5. ctxA' = ctxA /\ ctxB' = ctxB /\ closedA' = closedA /\ closedB' = closedB
      BY <1>1 DEF PA!RunStart, PB!RunStart, PA!tunVars, PB!tunVars
<1>6. ASSUME ~ctxA', ab'.end = "open" PROVE PA!Calm' /\ (PA!Live' \/ closedB')
  <2>1. PA!Calm /\ PA!ReadsFrames
        BY <1>4, <1>5, <1>6, AReads DEF RestInv
  <2>2. PA!Calm'
        BY <1>1, <1>2, <1>6, <2>1, Assumed, PA!CalmStep DEF RestInv
  <2> QED BY <1>2, <1>s, <2>2
<1>7. ASSUME ~ctxB', ab'.end = "open" PROVE PB!Calm' /\ (PB!Live' \/ closedA')
  <2>1. PB!Calm /\ PB!ReadsFrames
        BY <1>4, <1>5, <1>7, BReads DEF RestInv
  <2>2. PB!Calm'
        BY <1>1, <1>2, <1>7, <2>1, Assumed, PB!CalmStep DEF RestInv
  <2> QED BY <1>2, <1>s, <2>2
<1> QED BY <1>2, <1>3, <1>4, <1>5, <1>6, <1>7 DEF RestInv, Undisturbed

LEMMA RestStep == RestInv /\ [Next]_vars => RestInv'
<1> SUFFICES ASSUME RestInv, [Next]_vars PROVE RestInv'
    OBVIOUS
<1>s. SessionInv' /\ PA!EndOK /\ PB!EndOK
      BY SessionStep DEF RestInv, SessionInv
<1>1. CASE Start
      BY <1>1, StartRests
<1>2. CASE AGoes \/ APacket \/ ACancel
  <2>1. AMoves /\ UNCHANGED bVars
        BY <1>2 DEF AGoes, APacket, ACancel, AMoves
  <2> QED BY <2>1, ARests
<1>3. CASE BGoes \/ BPacket \/ BCancel
  <2>1. BMoves /\ UNCHANGED aVars
        BY <1>3 DEF BGoes, BPacket, BCancel, BMoves
  <2> QED BY <2>1, BRests
<1>4. CASE HangsUp
  <2>1. /\ UNCHANGED <<aVars, bVars>> /\ ab'.q = ab.q /\ ba'.q = ba.q
        /\ ab'.end = "eof" /\ ba'.end = "eof"
        BY <1>s, <1>4, Assumed, PA!EndFacts DEF HangsUp, PA!T!StreamHalf
  <2>2. ~Undisturbed'
    <3>1. ~Undisturbed
          BY <1>4 DEF HangsUp, Over, RestInv, Undisturbed, PA!Calm, PB!Calm
    <3> QED BY <2>1, <3>1 DEF Undisturbed, aVars, bVars
  <2>3. PA!Stages' /\ PB!Stages' /\ PA!SentOK' /\ PB!SentOK'
    <3>1. PA!Stages' /\ PB!Stages'
          BY <2>1 DEF RestInv, PA!Stages, PB!Stages, aVars, bVars
    <3>2. PA!SentOK' /\ PB!SentOK'
          BY <2>1 DEF RestInv, PA!SentOK, PB!SentOK, PA!Owed, PB!Owed, PA!Extra, PB!Extra,
                      PA!Taken, PB!Taken, aVars, bVars
    <3> QED BY <3>1, <3>2
  <2> QED BY <1>s, <2>1, <2>2, <2>3 DEF RestInv
<1>5. CASE UNCHANGED vars
  <2>1. UNCHANGED <<ab, ba, aVars, bVars>>
        BY <1>5 DEF vars, aVars, bVars
  <2>2. PA!Stages' /\ PB!Stages'
        BY <2>1 DEF RestInv, PA!Stages, PB!Stages, aVars, bVars
  <2>3. PA!SentOK' /\ PB!SentOK'
        BY <2>1 DEF RestInv, PA!SentOK, PB!SentOK, PA!Owed, PB!Owed, PA!Extra, PB!Extra,
                    PA!Taken, PB!Taken, aVars, bVars
  <2>4. /\ ~ctxA' /\ ab'.end = "open" => PA!Calm' /\ (PA!Live' \/ closedB')
        /\ ~ctxB' /\ ab'.end = "open" => PB!Calm' /\ (PB!Live' \/ closedA')
        BY <2>1 DEF RestInv, PA!Calm, PB!Calm, PA!Live, PB!Live, aVars, bVars
  <2>5. (ab'.end = "open" <=> ba'.end = "open") /\ (ab'.end = "open" \/ ~Undisturbed')
        BY <2>1 DEF RestInv, Undisturbed, aVars, bVars
  <2> QED BY <1>s, <2>2, <2>3, <2>4, <2>5 DEF RestInv
<1> QED BY <1>1, <1>2, <1>3, <1>4, <1>5 DEF Next, Step

\* Session's instances and those of the lemmas rest alike.
RestsAlike ==
    /\ PA!Asleep /\ runA.pc # "start" /\ A!NoCaller = PA!NoCaller
    /\ PB!Asleep /\ runB.pc # "start" /\ B!NoCaller = PB!NoCaller

LEMMA SameRest == AtRest => RestsAlike
<1>1. A!Asleep => PA!Asleep
      BY DEF A!Asleep, PA!Asleep, A!gDone, PA!gDone, A!T!Blocked, PA!T!Blocked,
             A!T!Refused, PA!T!Refused, A!NoCaller, PA!NoCaller
<1>2. B!Asleep => PB!Asleep
      BY DEF B!Asleep, PB!Asleep, B!gDone, PB!gDone, B!T!Blocked, PB!T!Blocked,
             B!T!Refused, PB!T!Refused, B!NoCaller, PB!NoCaller
<1> QED BY <1>1, <1>2 DEF AtRest, RestsAlike, A!NoCaller, PA!NoCaller, B!NoCaller, PB!NoCaller

LEMMA Grows ==
    \A m \in Nat, n \in Nat, k \in Nat :
        m <= n => m * k <= n * k /\ (m + 1) * k <= (n + 1) * k
<1>1. ASSUME NEW m \in Nat, NEW n \in Nat, NEW k \in Nat, m <= n PROVE m * k <= n * k
  <2>1. PICK d \in Nat : n = m + d
        BY <1>1
  <2>2. n * k = m * k + d * k /\ m * k \in Nat /\ d * k \in Nat
        BY <2>1
  <2> QED BY <2>2
<1>2. ASSUME NEW m \in Nat, NEW n \in Nat, NEW k \in Nat, m <= n
      PROVE  (m + 1) * k <= (n + 1) * k
  <2>1. m + 1 \in Nat /\ n + 1 \in Nat /\ m + 1 <= n + 1
        BY <1>2
  <2> QED BY <1>1, <2>1
<1> QED BY <1>1, <1>2

\* If A has a writer that waits for room, B has one too.
LEMMA AFree ==
    ASSUME RestInv, AtRest, ~Jammed PROVE muA = PA!NoCaller
<1> SUFFICES ASSUME muA # PA!NoCaller PROVE FALSE
    OBVIOUS
<1>1. RestsAlike /\ PA!EndOK /\ PB!EndOK /\ PB!Stages
      BY SameRest DEF RestInv, SessionInv
<1>2. ab.end = "open" /\ Len(ab.q) >= Window
      BY <1>1, Assumed, PA!HeldRests DEF RestsAlike
<1>3. ab.q # <<>>
      BY <1>2, SessionAssumption
<1>4. muB = PB!NoCaller
  <2> SUFFICES ASSUME muB # PB!NoCaller PROVE FALSE
      OBVIOUS
  <2>1. ba.end = "open" /\ Len(ba.q) >= Window
        BY <1>1, Assumed, PB!HeldRests DEF RestsAlike
  <2> QED BY <1>1, <1>2, <2>1 DEF Jammed, RestsAlike
<1>5. CASE ~ctxB
  <2>1. PB!Calm /\ (PB!Live \/ closedA)
        BY <1>2, <1>5 DEF RestInv
  <2>2. ~closedA
        BY <1>1 DEF PA!EndOK, PA!Locked
  <2> QED BY <1>1, <1>3, <1>4, <2>1, <2>2, Assumed, PB!CalmRests DEF RestsAlike
<1>6. CASE ctxB
  <2>1. watcherB = "done" /\ (runB.pc = "returned" \/ downB.pc = "recv")
        BY <1>1, <1>4, <1>6, Assumed, PB!StoppedRests DEF RestsAlike
  <2>2. runB.pc # "returned"
        BY <1>2, <2>1 DEF AtRest, Over, RestInv
  <2> QED BY <1>1, <1>3, <1>4, <2>1, <2>2, Assumed, PB!FreeRests DEF RestsAlike
<1> QED BY <1>5, <1>6

\* If B has a writer that waits for room, A has one too.
LEMMA BFree ==
    ASSUME RestInv, AtRest, ~Jammed PROVE muB = PB!NoCaller
<1> SUFFICES ASSUME muB # PB!NoCaller PROVE FALSE
    OBVIOUS
<1>1. RestsAlike /\ PB!EndOK /\ PA!EndOK /\ PA!Stages
      BY SameRest DEF RestInv, SessionInv
<1>2. ba.end = "open" /\ Len(ba.q) >= Window
      BY <1>1, Assumed, PB!HeldRests DEF RestsAlike
<1>3. ba.q # <<>>
      BY <1>2, SessionAssumption
<1>4. muA = PA!NoCaller
  <2> SUFFICES ASSUME muA # PA!NoCaller PROVE FALSE
      OBVIOUS
  <2>1. ab.end = "open" /\ Len(ab.q) >= Window
        BY <1>1, Assumed, PA!HeldRests DEF RestsAlike
  <2> QED BY <1>1, <1>2, <2>1 DEF Jammed, RestsAlike
<1>5. CASE ~ctxA
  <2>1. PA!Calm /\ (PA!Live \/ closedB)
        BY <1>2, <1>5 DEF RestInv
  <2>2. ~closedB
        BY <1>1 DEF PB!EndOK, PB!Locked
  <2> QED BY <1>1, <1>3, <1>4, <2>1, <2>2, Assumed, PA!CalmRests DEF RestsAlike
<1>6. CASE ctxA
  <2>1. watcherA = "done" /\ (runA.pc = "returned" \/ downA.pc = "recv")
        BY <1>1, <1>4, <1>6, Assumed, PA!StoppedRests DEF RestsAlike
  <2>2. runA.pc # "returned"
        BY <1>2, <2>1 DEF AtRest, Over, RestInv
  <2> QED BY <1>1, <1>3, <1>4, <2>1, <2>2, Assumed, PA!FreeRests DEF RestsAlike
<1> QED BY <1>5, <1>6

\* What A sent last, B read last.
LEMMA AtoB ==
    ASSUME RestInv, AtRest, ab.q = <<>>, PB!Live, NEW p, p = PB!lastIn PROVE PA!LastOut(p)
<1>1. LastOf(p, ab.q) = p
      BY DEF LastOf
<1>2. PICK t : t = PA!Taken
      OBVIOUS
<1> QED BY <1>1, <1>2 DEF RestInv, SessionInv, FlowAB

\* Undisturbed, B has written all that arrived at A;
LEMMA BCatchesUp ==
    ASSUME RestInv, AtRest, muA = PA!NoCaller, muB = PB!NoCaller, Undisturbed
    PROVE  devB.wrote = devA.arrived
<1>1. RestsAlike /\ PA!EndOK /\ PB!EndOK /\ PA!Stages /\ PB!Stages
      BY SameRest DEF RestInv, SessionInv
<1>c. PA!Calm /\ PB!Calm /\ (PB!Live \/ closedA)
      BY DEF RestInv, Undisturbed
<1>2. devA.q = <<>> /\ ~closedA
      BY <1>1, <1>c, Assumed, PA!CalmRests DEF RestsAlike, PA!Calm
<1>3. ab.q = <<>> /\ callB["down"].pc = "read" /\ PB!Live
      BY <1>1, <1>c, <1>2, Assumed, PB!CalmRests DEF RestsAlike
<1>4. PICK p : p = PB!lastIn
      OBVIOUS
<1>5. PA!LastOut(p)
      BY <1>3, <1>4, AtoB
<1>6. p = PA!T!Piece(PA!Pkt(devA.arrived), Pieces)
      BY <1>1, <1>2, <1>5, Assumed, PA!LastOutRests DEF RestsAlike
<1>7. p = PB!T!Piece(PB!Pkt(devA.arrived), Pieces)
      BY <1>6, SameEnds
<1> QED BY <1>1, <1>3, <1>4, <1>7, Assumed, PB!LastInRests

\* cancelled at A, B's pumpDown does not wait for more.
LEMMA BIsTold ==
    ASSUME RestInv, AtRest, muA = PA!NoCaller, muB = PB!NoCaller, ctxA
    PROVE  downB.pc = "done"
<1> SUFFICES ASSUME downB.pc # "done" PROVE FALSE
    OBVIOUS
<1>1. RestsAlike /\ PA!EndOK /\ PB!EndOK /\ PA!Stages /\ PB!Stages
      BY SameRest DEF RestInv, SessionInv
<1>2. closedA
      BY <1>1, Assumed, PA!StoppedRests DEF RestsAlike
<1>3. downB.pc = "recv" /\ callB["down"].pc = "read"
      BY <1>1, Assumed, PB!FreeRests DEF RestsAlike, PB!Stages
<1>4. ab.q = <<>> /\ ab.end = "open"
      BY <1>1, <1>3, Assumed, PB!FreeRests DEF RestsAlike
<1>5. PICK p : p = PB!lastIn
      OBVIOUS
<1>6. PA!LastOut(p)
      BY <1>3, <1>4, <1>5, AtoB DEF PB!Live
<1>7. p = PA!T!Piece(PA!T!CloseFrame(TRUE), Pieces)
      BY <1>1, <1>2, <1>4, <1>6, Assumed, PA!LastOutRests DEF RestsAlike
<1>8. p = PB!T!Piece(PB!T!CloseFrame(TRUE), Pieces)
      BY <1>7, SameEnds
<1> QED BY <1>1, <1>3, <1>5, <1>8, Assumed, PB!LastInRests

\* With room for all that has arrived at A, and for its Close frame if it sends one,
\* no writer of A waits for room.
LEMMA ARoom ==
    ASSUME RestInv, AtRest, muA # PA!NoCaller
    PROVE  /\ ~((devA.arrived + 1) * Pieces <= Window)
           /\ Undisturbed => ~((devA.arrived + 0) * Pieces <= Window)
<1>1. RestsAlike /\ PA!EndOK /\ PA!Stages /\ PA!SentOK
      BY SameRest DEF RestInv, SessionInv
<1>2. muA \in {"up", "watcher"} /\ callA[muA].pc = "write" /\ Len(ab.q) >= Window
      BY <1>1, Assumed, PA!HeldRests DEF RestsAlike
<1>a. PA!Taken \in Nat /\ PA!Taken <= devA.arrived /\ ab.q \in Seq(PA!StreamPieces)
      BY <1>1, Assumed, PA!EndFacts
<1>b. devA.arrived \in Nat /\ Len(ab.q) \in Nat
      BY <1>1, <1>a DEF PA!EndOK, PA!EndTypes, PA!DevRecords
<1>3. PICK t \in Nat, l \in Nat, n \in Nat :
          t = PA!Taken /\ l = devA.arrived /\ n = Len(ab.q) /\ t <= l
      BY <1>a, <1>b
<1>4. n < (t + 1) * Pieces /\ (muA = "up" => n < t * Pieces)
      BY <1>1, <1>2, <1>3, Assumed, PA!RoomLeft
<1>5. t * Pieces <= l * Pieces /\ (t + 1) * Pieces <= (l + 1) * Pieces
      BY <1>3, SessionAssumption, Grows
<1>6. Undisturbed => muA = "up"
      BY <1>1, <1>2 DEF RestInv, Undisturbed, PA!Calm, PA!Stages
<1>7. t * Pieces \in Nat /\ l * Pieces \in Nat /\ (t + 1) * Pieces \in Nat
      /\ (l + 1) * Pieces \in Nat /\ Window \in Nat
      BY <1>3, SessionAssumption
<1>8. PICK u \in Nat, v \in Nat, x \in Nat, y \in Nat :
          u = t * Pieces /\ v = l * Pieces /\ x = (t + 1) * Pieces /\ y = (l + 1) * Pieces
      BY <1>7
<1>9. n >= Window /\ n < x /\ (muA = "up" => n < u) /\ u <= v /\ x <= y
      BY <1>2, <1>3, <1>4, <1>5, <1>8
<1>10. ~(y <= Window) /\ (muA = "up" => ~(v <= Window))
      BY <1>7, <1>9
<1> QED BY <1>3, <1>6, <1>8, <1>10

\* What B sent last, A read last.
LEMMA BtoA ==
    ASSUME RestInv, AtRest, ba.q = <<>>, PA!Live, NEW p, p = PA!lastIn PROVE PB!LastOut(p)
<1>1. LastOf(p, ba.q) = p
      BY DEF LastOf
<1>2. PICK t : t = PB!Taken
      OBVIOUS
<1> QED BY <1>1, <1>2 DEF RestInv, SessionInv, FlowBA

\* Undisturbed, A has written all that arrived at B;
LEMMA ACatchesUp ==
    ASSUME RestInv, AtRest, muB = PB!NoCaller, muA = PA!NoCaller, Undisturbed
    PROVE  devA.wrote = devB.arrived
<1>1. RestsAlike /\ PB!EndOK /\ PA!EndOK /\ PB!Stages /\ PA!Stages
      BY SameRest DEF RestInv, SessionInv
<1>c. PB!Calm /\ PA!Calm /\ (PA!Live \/ closedB)
      BY DEF RestInv, Undisturbed
<1>2. devB.q = <<>> /\ ~closedB
      BY <1>1, <1>c, Assumed, PB!CalmRests DEF RestsAlike, PB!Calm
<1>3. ba.q = <<>> /\ callA["down"].pc = "read" /\ PA!Live
      BY <1>1, <1>c, <1>2, Assumed, PA!CalmRests DEF RestsAlike
<1>4. PICK p : p = PA!lastIn
      OBVIOUS
<1>5. PB!LastOut(p)
      BY <1>3, <1>4, BtoA
<1>6. p = PB!T!Piece(PB!Pkt(devB.arrived), Pieces)
      BY <1>1, <1>2, <1>5, Assumed, PB!LastOutRests DEF RestsAlike
<1>7. p = PA!T!Piece(PA!Pkt(devB.arrived), Pieces)
      BY <1>6, SameEnds
<1> QED BY <1>1, <1>3, <1>4, <1>7, Assumed, PA!LastInRests

\* cancelled at B, A's pumpDown does not wait for more.
LEMMA AIsTold ==
    ASSUME RestInv, AtRest, muB = PB!NoCaller, muA = PA!NoCaller, ctxB
    PROVE  downA.pc = "done"
<1> SUFFICES ASSUME downA.pc # "done" PROVE FALSE
    OBVIOUS
<1>1. RestsAlike /\ PB!EndOK /\ PA!EndOK /\ PB!Stages /\ PA!Stages
      BY SameRest DEF RestInv, SessionInv
<1>2. closedB
      BY <1>1, Assumed, PB!StoppedRests DEF RestsAlike
<1>3. downA.pc = "recv" /\ callA["down"].pc = "read"
      BY <1>1, Assumed, PA!FreeRests DEF RestsAlike, PA!Stages
<1>4. ba.q = <<>> /\ ba.end = "open"
      BY <1>1, <1>3, Assumed, PA!FreeRests DEF RestsAlike
<1>5. PICK p : p = PA!lastIn
      OBVIOUS
<1>6. PB!LastOut(p)
      BY <1>3, <1>4, <1>5, BtoA DEF PA!Live
<1>7. p = PB!T!Piece(PB!T!CloseFrame(TRUE), Pieces)
      BY <1>1, <1>2, <1>4, <1>6, Assumed, PB!LastOutRests DEF RestsAlike
<1>8. p = PA!T!Piece(PA!T!CloseFrame(TRUE), Pieces)
      BY <1>7, SameEnds
<1> QED BY <1>1, <1>3, <1>5, <1>8, Assumed, PA!LastInRests

\* With room for all that has arrived at B, and for its Close frame if it sends one,
\* no writer of B waits for room.
LEMMA BRoom ==
    ASSUME RestInv, AtRest, muB # PB!NoCaller
    PROVE  /\ ~((devB.arrived + 1) * Pieces <= Window)
           /\ Undisturbed => ~((devB.arrived + 0) * Pieces <= Window)
<1>1. RestsAlike /\ PB!EndOK /\ PB!Stages /\ PB!SentOK
      BY SameRest DEF RestInv, SessionInv
<1>2. muB \in {"up", "watcher"} /\ callB[muB].pc = "write" /\ Len(ba.q) >= Window
      BY <1>1, Assumed, PB!HeldRests DEF RestsAlike
<1>a. PB!Taken \in Nat /\ PB!Taken <= devB.arrived /\ ba.q \in Seq(PB!StreamPieces)
      BY <1>1, Assumed, PB!EndFacts
<1>b. devB.arrived \in Nat /\ Len(ba.q) \in Nat
      BY <1>1, <1>a DEF PB!EndOK, PB!EndTypes, PB!DevRecords
<1>3. PICK t \in Nat, l \in Nat, n \in Nat :
          t = PB!Taken /\ l = devB.arrived /\ n = Len(ba.q) /\ t <= l
      BY <1>a, <1>b
<1>4. n < (t + 1) * Pieces /\ (muB = "up" => n < t * Pieces)
      BY <1>1, <1>2, <1>3, Assumed, PB!RoomLeft
<1>5. t * Pieces <= l * Pieces /\ (t + 1) * Pieces <= (l + 1) * Pieces
      BY <1>3, SessionAssumption, Grows
<1>6. Undisturbed => muB = "up"
      BY <1>1, <1>2 DEF RestInv, Undisturbed, PB!Calm, PB!Stages
<1>7. t * Pieces \in Nat /\ l * Pieces \in Nat /\ (t + 1) * Pieces \in Nat
      /\ (l + 1) * Pieces \in Nat /\ Window \in Nat
      BY <1>3, SessionAssumption
<1>8. PICK u \in Nat, v \in Nat, x \in Nat, y \in Nat :
          u = t * Pieces /\ v = l * Pieces /\ x = (t + 1) * Pieces /\ y = (l + 1) * Pieces
      BY <1>7
<1>9. n >= Window /\ n < x /\ (muB = "up" => n < u) /\ u <= v /\ x <= y
      BY <1>2, <1>3, <1>4, <1>5, <1>8
<1>10. ~(y <= Window) /\ (muB = "up" => ~(v <= Window))
      BY <1>7, <1>9
<1> QED BY <1>3, <1>6, <1>8, <1>10

\* At rest and unjammed, an undisturbed session has delivered every packet;
LEMMA Delivered == ASSUME RestInv, AtRest, ~Jammed, Undisturbed PROVE CaughtUp
BY AFree, BFree, ACatchesUp, BCatchesUp DEF CaughtUp

\* cancelled at both ends, both Runs have returned;
LEMMA BothStop == ASSUME RestInv, AtRest, ~Jammed, ctxA, ctxB PROVE Stopped
<1>1. /\ RestsAlike /\ PA!EndOK /\ PB!EndOK /\ PA!Stages /\ PB!Stages
      /\ muA = PA!NoCaller /\ muB = PB!NoCaller
      BY SameRest, AFree, BFree DEF RestInv, SessionInv
<1>2. downA.pc = "done" /\ downB.pc = "done"
      BY <1>1, AIsTold, BIsTold
<1> QED BY <1>1, <1>2, Assumed, PA!StoppedRests, PB!StoppedRests DEF RestsAlike, Stopped

\* cancelled at A alone, either both Runs have returned or B waits for its device.
LEMMA AAlone ==
    ASSUME RestInv, AtRest, ~Jammed, ctxA, ~ctxB
    PROVE  Stopped \/ (runB.pc = "wait" /\ downB.pc = "done" /\ upB = "read")
<1>1. /\ RestsAlike /\ PA!EndOK /\ PB!EndOK /\ PA!Stages /\ PB!Stages
      /\ muA = PA!NoCaller /\ muB = PB!NoCaller
      BY SameRest, AFree, BFree DEF RestInv, SessionInv
<1>2. downB.pc = "done"
      BY <1>1, BIsTold
<1>3. CASE ab.end = "open"
      BY <1>1, <1>2, <1>3, Assumed, PB!CalmRests DEF RestInv, RestsAlike
<1>4. CASE ab.end # "open"
  <2>1. runA.pc = "returned"
        BY <1>1, <1>4, Assumed, PA!StoppedRests, PA!FreeRests DEF RestsAlike, RestInv
  <2>2. upB \in {"read", "done"} /\ runB.pc \in {"wait", "returned"}
        BY <1>1, Assumed, PB!FreeRests DEF RestsAlike, PB!Stages
  <2>3. upB = "done" => runB.pc = "returned"
        BY <1>1, <1>2, <2>2 DEF RestsAlike, PB!Asleep
  <2>4. upB = "read" => runB.pc = "wait"
        BY <1>1, <2>2 DEF PB!Stages
  <2> QED BY <1>2, <2>1, <2>2, <2>3, <2>4 DEF Stopped
<1> QED BY <1>3, <1>4

\* cancelled at B alone, either both Runs have returned or A waits for its device.
LEMMA BAlone ==
    ASSUME RestInv, AtRest, ~Jammed, ctxB, ~ctxA
    PROVE  Stopped \/ (runA.pc = "wait" /\ downA.pc = "done" /\ upA = "read")
<1>1. /\ RestsAlike /\ PB!EndOK /\ PA!EndOK /\ PB!Stages /\ PA!Stages
      /\ muB = PB!NoCaller /\ muA = PA!NoCaller
      BY SameRest, AFree, BFree DEF RestInv, SessionInv
<1>2. downA.pc = "done"
      BY <1>1, AIsTold
<1>3. CASE ab.end = "open"
      BY <1>1, <1>2, <1>3, Assumed, PA!CalmRests DEF RestInv, RestsAlike
<1>4. CASE ab.end # "open"
  <2>1. runB.pc = "returned"
        BY <1>1, <1>4, Assumed, PB!StoppedRests, PB!FreeRests DEF RestsAlike, RestInv
  <2>2. upA \in {"read", "done"} /\ runA.pc \in {"wait", "returned"}
        BY <1>1, Assumed, PA!FreeRests DEF RestsAlike, PA!Stages
  <2>3. upA = "done" => runA.pc = "returned"
        BY <1>1, <1>2, <2>2 DEF RestsAlike, PA!Asleep
  <2>4. upA = "read" => runA.pc = "wait"
        BY <1>1, <2>2 DEF PA!Stages
  <2> QED BY <1>2, <2>1, <2>2, <2>3, <2>4 DEF Stopped
<1> QED BY <1>3, <1>4

LEMMA FourWays == ASSUME RestInv PROVE RestsFourWays
<1> SUFFICES ASSUME AtRest, ~Jammed
             PROVE  (Undisturbed /\ CaughtUp) \/ Stopped \/ LoneCancel
    BY DEF RestsFourWays
<1>1. CASE Undisturbed
      BY <1>1, Delivered
<1>2. CASE ctxA /\ ctxB
      BY <1>2, BothStop
<1>3. CASE ctxA /\ ~ctxB
      BY <1>3, AAlone DEF LoneCancel
<1>4. CASE ctxB /\ ~ctxA
      BY <1>4, BAlone DEF LoneCancel
<1> QED BY <1>1, <1>2, <1>3, <1>4 DEF Undisturbed

LEMMA RestHolds == Spec => []RestInv
<1>1. Init => RestInv
      BY RestStarts
<1>2. RestInv /\ [Next]_vars => RestInv'
      BY RestStep
<1> QED BY <1>1, <1>2, PTL DEF Spec

\* Whatever the window and the traffic, a session comes to rest in four ways and no
\* other: with both ends' writers each waiting for the other's reader, with every
\* packet delivered and nobody having cancelled, with both Runs returned, or with one
\* operator's cancellation received by a Run that goes on waiting for its device.
THEOREM FourWaysToRest == Spec => []RestsFourWays
<1>1. RestInv => RestsFourWays
      BY FourWays
<1> QED BY <1>1, RestHolds, PTL

LEMMA RoomyRests == ASSUME RestInv PROVE RoomyCatchesUp /\ RoomyStops
<1>1. ASSUME Room(0), AtRest, Undisturbed PROVE CaughtUp
  <2>1. RestsAlike
        BY <1>1, SameRest
  <2>2. ~Jammed
        BY <1>1, <2>1, ARoom, BRoom DEF Room, Jammed, RestsAlike
  <2> QED BY <1>1, <2>2, Delivered
<1>2. ASSUME Room(1), AtRest, ctxA, ctxB PROVE Stopped
  <2>1. RestsAlike
        BY <1>2, SameRest
  <2>2. ~Jammed
        BY <1>2, <2>1, ARoom, BRoom DEF Room, Jammed, RestsAlike
  <2> QED BY <1>2, <2>2, BothStop
<1> QED BY <1>1, <1>2 DEF RoomyCatchesUp, RestsCaughtUp, RoomyStops

\* While the window has room for all that has arrived on one of the devices, a session
\* nobody shuts down rests only when both devices have been written every packet: no
\* SendFrame under mu keeps the packets of both directions waiting for ever.
THEOREM CatchesUp == Spec => []RoomyCatchesUp
<1>1. RestInv => RoomyCatchesUp
      BY RoomyRests
<1> QED BY <1>1, RestHolds, PTL

\* With room for the Close frame of one end besides, both Runs return once both
\* operators have cancelled, at whatever moments: each Close lets the other end's
\* pumpDown go.
THEOREM StopsTogether == Spec => []RoomyStops
<1>1. RestInv => RoomyStops
      BY RoomyRests
<1> QED BY <1>1, RestHolds, PTL

\* At rest no goroutine of either end and not the owner of the stream takes a step,
\* so what is not done there stays undone until a packet arrives or an operator
\* cancels (that AtRest misses no such state is RestIsNoStep, which TLC checks).
THEOREM RestIsStill == Spec => [][AtRest => ~(Start \/ AGoes \/ BGoes \/ HangsUp)]_vars
<1>1. ASSUME RestInv, AtRest, Start \/ AGoes \/ BGoes \/ HangsUp PROVE FALSE
  <2>1. RestsAlike /\ PA!EndOK /\ PB!EndOK /\ PA!Stages /\ PB!Stages
        BY <1>1, SameRest DEF RestInv, SessionInv
  <2>2. ~Start /\ ~HangsUp
        BY <1>1, <2>1, SameStartA DEF Start, HangsUp, AtRest, RestsAlike, PA!RunStart
  <2>3. ~AGoes
        BY <2>1, Assumed, SameStepsA, PA!AsleepStays DEF AGoes, RestsAlike
  <2>4. ~BGoes
        BY <2>1, Assumed, SameStepsB, PB!AsleepStays DEF BGoes, RestsAlike
  <2> QED BY <1>1, <2>2, <2>3, <2>4
<1>2. RestInv => [AtRest => ~(Start \/ AGoes \/ BGoes \/ HangsUp)]_vars
      BY <1>1
<1> QED BY <1>2, RestHolds, PTL

-----------------------------------------------------------------------------
(* A jam is for good *)

\* Both ends have a writer that waits for room, and neither is reading.
Deadlocked == Jammed /\ callA["down"].pc # "read" /\ callB["down"].pc # "read"

\* A Run with a writer that waits is not over: the writer is pumpUp or the watcher.
LEMMA NotOver == ASSUME RestInv, Jammed PROVE ~Over
<1>1. ASSUME muA # A!NoCaller PROVE ~(runA.pc = "returned" /\ watcherA = "done")
  <2>1. PA!EndOK /\ PA!Stages /\ A!NoCaller = PA!NoCaller
        BY DEF RestInv, SessionInv, A!NoCaller, PA!NoCaller
  <2>2. muA \in {"up", "watcher"} /\ callA[muA].pc = "write"
        BY <1>1, <2>1, Assumed, PA!Holder
  <2> QED BY <2>1, <2>2 DEF PA!Stages
<1>2. ASSUME muB # B!NoCaller PROVE ~(runB.pc = "returned" /\ watcherB = "done")
  <2>1. PB!EndOK /\ PB!Stages /\ B!NoCaller = PB!NoCaller
        BY DEF RestInv, SessionInv, B!NoCaller, PB!NoCaller
  <2>2. muB \in {"up", "watcher"} /\ callB[muB].pc = "write"
        BY <1>2, <2>1, Assumed, PB!Holder
  <2> QED BY <2>1, <2>2 DEF PB!Stages
<1> QED BY <1>1, <1>2 DEF Jammed, Over

LEMMA DeadlockStays ==
    ASSUME RestInv, Deadlocked, [Next]_vars PROVE Deadlocked' /\ UNCHANGED <<ab, ba>>
<1>1. /\ PA!EndOK /\ A!NoCaller = PA!NoCaller /\ PB!EndOK /\ B!NoCaller = PB!NoCaller
      BY DEF RestInv, SessionInv, A!NoCaller, PA!NoCaller, B!NoCaller, PB!NoCaller
<1>2. ASSUME PA!Goes PROVE UNCHANGED <<muA, ab, ba>> /\ callA'["down"].pc # "read"
      BY <1>1, <1>2, Assumed, PA!JamStays DEF Deadlocked, Jammed
<1>3. ASSUME PB!Goes PROVE UNCHANGED <<muB, ab, ba>> /\ callB'["down"].pc # "read"
      BY <1>1, <1>3, Assumed, PB!JamStays DEF Deadlocked, Jammed
<1>4. CASE Start
  <2>1. PA!Goes /\ PB!Goes
        BY <1>4, SameStartA, SameStartB DEF Start, PA!Goes, PB!Goes
  <2> QED BY <1>2, <1>3, <2>1 DEF Deadlocked, Jammed, A!NoCaller, B!NoCaller
<1>5. CASE AGoes \/ APacket \/ ACancel
  <2>1. AMoves /\ UNCHANGED <<muB, callB>>
        BY <1>5 DEF AGoes, APacket, ACancel, AMoves, bVars
  <2> QED BY <1>2, <2>1, SameMovesA DEF Deadlocked, Jammed, A!NoCaller, B!NoCaller
<1>6. CASE BGoes \/ BPacket \/ BCancel
  <2>1. BMoves /\ UNCHANGED <<muA, callA>>
        BY <1>6 DEF BGoes, BPacket, BCancel, BMoves, aVars
  <2> QED BY <1>3, <2>1, SameMovesB DEF Deadlocked, Jammed, A!NoCaller, B!NoCaller
<1>7. CASE HangsUp
      BY <1>7, NotOver DEF HangsUp, Deadlocked
<1>8. CASE UNCHANGED vars
      BY <1>8 DEF vars, aVars, bVars, Deadlocked, Jammed, A!NoCaller, B!NoCaller
<1> QED BY <1>4, <1>5, <1>6, <1>7, <1>8 DEF Next, Step

\* A session that jams is stuck for good: both ends' writers
\* hold mu, pumpDown is kept from its lock or gone, and neither more packets nor the
\* cancellation of both Runs moves a byte on the stream again.
THEOREM JamsAreForGood ==
    Spec => /\ [](AtRest /\ Jammed => Deadlocked)
            /\ [][Deadlocked => Deadlocked' /\ UNCHANGED <<ab, ba>>]_vars
<1>1. RestInv => (AtRest /\ Jammed => Deadlocked)
  <2> SUFFICES ASSUME RestInv, AtRest, Jammed PROVE Deadlocked
      OBVIOUS
  <2>1. ab.q # <<>> /\ ba.q # <<>>
        BY SessionAssumption DEF Jammed
  <2>2. RestsAlike
        BY SameRest
  <2> QED BY <2>1, <2>2 DEF Deadlocked, RestsAlike, PA!Asleep, PB!Asleep, PA!T!Blocked,
                            PB!T!Blocked
<1>2. RestInv /\ [Next]_vars => [Deadlocked => Deadlocked' /\ UNCHANGED <<ab, ba>>]_vars
      BY DeadlockStays
<1>3. Spec => [][Next]_vars
      BY DEF Spec
<1> QED BY <1>1, <1>2, <1>3, RestHolds, PTL

============================================================================
