---------------------------- MODULE TunnelProofs ----------------------------
(***************************************************************************)
(* Theorems about module Tunnel, for any number of callers, any frames and *)
(* any number of pieces per frame.                                         *)
(*                                                                         *)
(* That the stream stays well formed is not inductive by itself: the next  *)
(* piece fits only because its writer alone holds mu (Held), the tunnel is *)
(* open meanwhile (OpenWhileHeld), and the stream ends where that writer   *)
(* left it, or between two frames (TxTail).                                *)
(***************************************************************************)
EXTENDS Tunnel, TLAPS

\* Exactly the holder of mu is writing, and what it writes is a frame of its
\* call: only Close writes a Close frame.
Held == \A c \in Callers :
          /\ call[c].pc = "write" <=> mu = c
          /\ call[c].pc = "lock" => call[c].n = 0
          /\ call[c].pc = "write" => call[c].n < Pieces
          /\ call[c].pc \in {"lock", "write"} /\ call[c].op = "send"
                => call[c].f.kind # "close"
          /\ call[c].pc = "write" => call[c].op \in {"send", "close"}

OpenWhileHeld == mu # NoCaller => ~closed

\* The stream ends between two frames, and not after a Close frame.
BetweenFrames == tx.q # <<>> => /\ tx.q[Len(tx.q)].i = Pieces
                                /\ tx.q[Len(tx.q)].f.kind # "close"

\* An open tunnel's stream ends between two frames, or where the writer left it.
TxTail ==
    /\ mu = NoCaller /\ ~closed => BetweenFrames
    /\ mu # NoCaller =>
         IF call[mu].n = 0 THEN BetweenFrames
         ELSE tx.q # <<>> /\ tx.q[Len(tx.q)] = Piece(call[mu].f, call[mu].n)

Inv == TunTypes /\ Held /\ OpenWhileHeld /\ TxTail /\ WireWellFormed

-----------------------------------------------------------------------------
(* Facts about frames and calls *)

\* The frames of the model, and which of them are Close frames.
LEMMA FrameFacts ==
    /\ Frames \subseteq AllFrames
    /\ NoFrame \in AllFrames
    /\ \A ok \in BOOLEAN : CloseFrame(ok) \in AllFrames
    /\ \A f \in Frames : f.kind # "close"
    /\ Inbound \subseteq AllFrames
BY TunnelAssumption DEF AllFrames, CloseFrame, Inbound

PieceRecords == [f : AllFrames, i : 1..Pieces]

\* A half of the stream with another queue of pieces, or another end, is one.
LEMMA HalfTyped ==
    ASSUME NEW h \in StreamHalf
    PROVE  /\ h.q \in Seq(PieceRecords)
           /\ \A q \in Seq(PieceRecords) : [h EXCEPT !.q = q] \in StreamHalf
           /\ \A f \in AllFrames, i \in 1..Pieces : Piece(f, i) \in PieceRecords
BY DEF StreamHalf, PieceRecords, Piece

\* A piece more makes another half of the stream.
LEMMA AppendPiece ==
    ASSUME NEW h \in StreamHalf, NEW f \in AllFrames, NEW i \in 1..Pieces
    PROVE  [h EXCEPT !.q = Append(@, Piece(f, i))] \in StreamHalf
<1>1. Append(h.q, Piece(f, i)) \in Seq(PieceRecords)
      BY HalfTyped
<1> QED BY <1>1, HalfTyped

Results == {"nil", "ErrClosed", "EOF", "err"}

\* The calls with c's replaced are calls, and a returning call is one.
LEMMA CallsTyped ==
    ASSUME TunTypes, NEW c \in Callers
    PROVE  /\ \A r \in CallRecords : [call EXCEPT ![c] = r] \in [Callers -> CallRecords]
           /\ \A f \in AllFrames, res \in Results :
                [Returning(c, res) EXCEPT ![c].f = f] \in [Callers -> CallRecords]
           /\ \A res \in Results : Returning(c, res) \in [Callers -> CallRecords]
           /\ NoCall \in CallRecords
           /\ \A f \in AllFrames, op \in {"send", "recv", "close"} :
                [NoCall EXCEPT !.op = op, !.pc = "lock", !.f = f] \in CallRecords
<1>1. call \in [Callers -> CallRecords] /\ 0 \in 0..Pieces /\ NoFrame \in AllFrames
      BY FrameFacts, TunnelAssumption DEF TunTypes
<1>2. ASSUME NEW r \in CallRecords PROVE [call EXCEPT ![c] = r] \in [Callers -> CallRecords]
      BY <1>1
<1>3. NoCall \in CallRecords
      BY <1>1 DEF NoCall, CallRecords
<1>4. ASSUME NEW res \in Results PROVE Returning(c, res) \in [Callers -> CallRecords]
  <2>1. [NoCall EXCEPT !.op = call[c].op, !.pc = "ret", !.res = res] \in CallRecords
        BY <1>1, <1>3 DEF CallRecords, Results
  <2> QED BY <1>2, <2>1 DEF Returning
<1>5. ASSUME NEW res \in Results, NEW f \in AllFrames
      PROVE  [Returning(c, res) EXCEPT ![c].f = f] \in [Callers -> CallRecords]
      BY <1>4 DEF CallRecords
<1>6. ASSUME NEW f \in AllFrames, NEW op \in {"send", "recv", "close"}
      PROVE  [NoCall EXCEPT !.op = op, !.pc = "lock", !.f = f] \in CallRecords
      BY <1>3 DEF CallRecords
<1> QED BY <1>2, <1>3, <1>4, <1>5, <1>6

-----------------------------------------------------------------------------
(* Type correctness *)

\* The initial state is well typed.
LEMMA InitType == TunInit => TunTypes
<1> SUFFICES ASSUME TunInit PROVE TunTypes
    OBVIOUS
<1>1. NoCall \in CallRecords
      BY FrameFacts, TunnelAssumption DEF NoCall, CallRecords
<1>2. OpenStream \in StreamHalf
      BY DEF OpenStream, StreamHalf
<1> QED BY <1>1, <1>2 DEF TunInit, TunTypes

\* Calls and their steps keep the types.
LEMMA CallType ==
    ASSUME TunTypes, NEW c \in Callers, Calls(c) \/ TunStep(c) \/ Return(c)
    PROVE  TunTypes'
<1>a. /\ mu \in Callers \cup {NoCaller} /\ closed \in BOOLEAN
      /\ call \in [Callers -> CallRecords] /\ tx \in StreamHalf /\ rx \in StreamHalf
      BY DEF TunTypes
<1>b. SUFFICES /\ mu' \in Callers \cup {NoCaller} /\ closed' \in BOOLEAN
               /\ call' \in [Callers -> CallRecords] /\ tx' \in StreamHalf
               /\ rx' \in StreamHalf
      BY DEF TunTypes
<1>0. ASSUME NEW op \in {"send", "recv", "close"}, NEW f \in AllFrames, Invoke(c, op, f)
      PROVE  call' \in [Callers -> CallRecords] /\ UNCHANGED <<mu, closed, tx, rx>>
      BY <1>0, CallsTyped DEF Invoke
<1>1. CASE RecvFrame(c)
      BY <1>a, <1>0, <1>1, FrameFacts DEF RecvFrame
<1>2. ASSUME NEW ok \in BOOLEAN, Close(c, ok) PROVE <1>b!1
      BY <1>a, <1>0, <1>2, FrameFacts DEF Close
<1>3. ASSUME NEW f \in Frames, SendFrame(c, f) PROVE <1>b!1
      BY <1>a, <1>0, <1>3, FrameFacts DEF SendFrame
<1>4. CASE LockClosed(c)
      BY <1>a, <1>4, CallsTyped DEF LockClosed, Results
<1>5. CASE LockWriter(c) \/ LockReader(c)
      BY <1>a, <1>5 DEF LockWriter, LockReader, CallRecords
<1>6. ASSUME PutPiece(c), call[c].n + 1 <= Pieces PROVE tx' \in StreamHalf
  <2>1. call[c].f \in AllFrames /\ call[c].n + 1 \in 1..Pieces
        BY <1>a, <1>6, TunnelAssumption DEF CallRecords
  <2> QED BY <1>a, <1>6, <2>1, AppendPiece DEF PutPiece
<1>7. CASE WritePiece(c)
  <2>1. call[c].n + 1 \in 0..Pieces /\ call[c].n + 1 <= Pieces
        BY <1>a, <1>7, TunnelAssumption DEF WritePiece, CallRecords
  <2>2. call' \in [Callers -> CallRecords]
        BY <1>a, <1>7, <2>1 DEF WritePiece, CallRecords
  <2> QED BY <1>a, <1>6, <1>7, <2>1, <2>2 DEF WritePiece
<1>8. CASE WriteLast(c)
  <2>1. call[c].n + 1 <= Pieces
        BY <1>8, TunnelAssumption DEF WriteLast
  <2>2. closed' \in BOOLEAN
        BY <1>8 DEF WriteLast
  <2> QED BY <1>a, <1>6, <1>8, <2>1, <2>2, CallsTyped DEF WriteLast, Results
<1>9. CASE WriteFailed(c)
  <2>1. (IF Refused(c) THEN "err" ELSE WriteError) \in Results
        BY DEF WriteError, Results
  <2> QED BY <1>a, <1>9, <2>1, CallsTyped DEF WriteFailed
<1>10. CASE ReadPiece(c)
  <2>1. Head(rx.q) \in PieceRecords /\ Tail(rx.q) \in Seq(PieceRecords)
        BY <1>a, <1>10, HalfTyped DEF ReadPiece
  <2>2. rx' \in StreamHalf
        BY <1>a, <1>10, <2>1, HalfTyped DEF ReadPiece
  <2>3. Head(rx.q).f \in AllFrames /\ Head(rx.q).i \in 0..Pieces
        BY <2>1, TunnelAssumption DEF PieceRecords
  <2>4. [call EXCEPT ![c].n = Head(rx.q).i, ![c].f = Head(rx.q).f] \in [Callers -> CallRecords]
        BY <1>a, <2>3 DEF CallRecords
  <2>5. call' \in [Callers -> CallRecords]
        BY <1>10, <2>3, <2>4, CallsTyped, Zenon DEF ReadPiece, Results
  <2> QED BY <1>a, <1>10, <2>2, <2>5 DEF ReadPiece
<1>11. CASE ReadEnd(c)
  <2>1. ReadErrors(c) \subseteq Results
        BY DEF ReadErrors, Results
  <2>2. PICK res \in Results : call' = Returning(c, res)
        BY <1>11, <2>1, Zenon DEF ReadEnd
  <2>3. UNCHANGED <<mu, closed, tx, rx>>
        BY <1>11 DEF ReadEnd
  <2> QED BY <1>a, <2>2, <2>3, CallsTyped
<1>12. CASE Return(c)
      BY <1>a, <1>12, CallsTyped DEF Return
<1> QED BY <1>1, <1>2, <1>3, <1>4, <1>5, <1>7, <1>8, <1>9, <1>10, <1>11, <1>12
        DEF Calls, TunStep

\* What the stream's other end and its owner do keeps the types.
LEMMA StreamType == ASSUME TunTypes, Stream PROVE TunTypes'
<1> USE FrameFacts, TunnelAssumption DEF TunTypes
<1>1. ASSUME NEW f \in Inbound, RxFrame(f) PROVE TunTypes'
  <2>1. [i \in 1..Pieces |-> Piece(f, i)] \in Seq(PieceRecords)
        BY HalfTyped
  <2>2. rx.q \o [i \in 1..Pieces |-> Piece(f, i)] \in Seq(PieceRecords)
        BY <2>1, HalfTyped
  <2> QED BY <1>1, <2>2, HalfTyped DEF RxFrame
<1>2. ASSUME NEW e \in {"eof", "err"}, RxEnds(e) \/ TxEnds(e) PROVE TunTypes'
      BY <1>2 DEF RxEnds, TxEnds, StreamHalf
<1>3. ASSUME NEW e \in {"eof", "err"}, NEW f \in Inbound, RxTorn(f, e) PROVE TunTypes'
      BY <1>3 DEF RxTorn, StreamHalf, Piece
<1> QED BY <1>1, <1>2, <1>3 DEF Stream

\* The tunnel's state, the calls in progress and both halves of the stream keep
\* their types (wrapper.go:36-80).
THEOREM TunnelTypeCorrect == TunSpec => []TunTypes
<1>1. TunTypes /\ [TunNext]_tunVars => TunTypes'
      BY CallType, StreamType DEF TunNext, tunVars, TunTypes
<1> QED BY <1>1, InitType, PTL DEF TunSpec

-----------------------------------------------------------------------------
(* The lock *)

\* Calls, Returns and steps of one caller leave the other callers' calls alone,
\* and only a call that starts or finishes writing takes or lets go of mu.
LEMMA NextHeld == ASSUME TunTypes, Held, OpenWhileHeld, TunNext PROVE Held' /\ OpenWhileHeld'
<1> USE TunnelAssumption DEF TunTypes, Held, OpenWhileHeld, CallRecords
<1>1. CASE Stream
      BY <1>1 DEF Stream, RxFrame, RxEnds, TxEnds, RxTorn
<1>2. ASSUME NEW c \in Callers, NEW op \in {"send", "recv", "close"}, NEW f,
             Invoke(c, op, f), op = "send" => f.kind # "close"
      PROVE  Held' /\ OpenWhileHeld'
      BY <1>2 DEF Invoke, NoCall
<1>3. ASSUME NEW c \in Callers, Calls(c) PROVE Held' /\ OpenWhileHeld'
      BY <1>2, <1>3, FrameFacts DEF Calls, RecvFrame, Close, SendFrame
<1>4. ASSUME NEW c \in Callers, TunStep(c) PROVE Held' /\ OpenWhileHeld'
  <2>0. CASE LockReader(c)
        BY <2>0 DEF LockReader
  <2>1. CASE LockClosed(c)
    <3>1. /\ \A d \in Callers \ {c} : call'[d] = call[d]
          /\ call'[c].pc = "ret"
          BY <2>1 DEF LockClosed, Returning, NoCall
    <3> QED BY <2>1, <3>1 DEF LockClosed
  <2>2. CASE LockWriter(c)
        BY <2>2 DEF LockWriter
  <2>3. CASE WritePiece(c)
        BY <2>3 DEF WritePiece, PutPiece
  <2>4. CASE WriteLast(c)
        BY <2>4 DEF WriteLast, PutPiece, Returning, NoCall
  <2>5. CASE WriteFailed(c)
        BY <2>5 DEF WriteFailed, Returning, NoCall
  <2>6. CASE ReadPiece(c)
    <3>1. /\ \A d \in Callers \ {c} : call'[d] = call[d]
          /\ call'[c].pc \in {"read", "ret"}
          BY <2>6 DEF ReadPiece, Returning, NoCall
    <3> QED BY <2>6, <3>1 DEF ReadPiece
  <2>7. CASE ReadEnd(c)
        BY <2>7 DEF ReadEnd, Returning, NoCall
  <2> QED BY <1>4, <2>0, <2>1, <2>2, <2>3, <2>4, <2>5, <2>6, <2>7 DEF TunStep
<1>5. ASSUME NEW c \in Callers, Return(c) PROVE Held' /\ OpenWhileHeld'
      BY <1>5 DEF Return, NoCall
<1> QED BY <1>1, <1>3, <1>4, <1>5 DEF TunNext

-----------------------------------------------------------------------------
(* The stream *)

\* A step that writes nothing, and neither opens the tunnel nor moves the writer,
\* leaves the stream as it was.
LEMMA QuietStep ==
    ASSUME TxTail, WireWellFormed, tx'.q = tx.q, mu' = mu, closed' = closed,
           mu # NoCaller => call'[mu].n = call[mu].n /\ call'[mu].f = call[mu].f
    PROVE  TxTail' /\ WireWellFormed'
BY DEF TxTail, WireWellFormed, BetweenFrames

\* The writer's next piece follows what the stream ends with.
LEMMA PieceFits ==
    ASSUME Inv, NEW c \in Callers, PutPiece(c), call[c].n + 1 <= Pieces
    PROVE  /\ WireWellFormed'
           /\ tx'.q # <<>>
           /\ tx'.q[Len(tx'.q)] = Piece(call[c].f, call[c].n + 1)
<1> DEFINE p == Piece(call[c].f, call[c].n + 1)
<1>1. /\ mu = c /\ mu # NoCaller
      /\ tx.q \in Seq(PieceRecords)
      /\ call[c].n \in Nat
      /\ tx'.q = Append(tx.q, p)
  <2>1. mu = c /\ mu # NoCaller
        BY TunnelAssumption DEF Inv, Held, PutPiece
  <2>2. tx.q \in Seq(PieceRecords)
        BY HalfTyped DEF Inv, TunTypes
  <2>3. call[c].n \in Nat
        BY TunnelAssumption DEF Inv, TunTypes, CallRecords
  <2>4. tx'.q = Append(tx.q, p)
        BY DEF Inv, TunTypes, StreamHalf, PutPiece
  <2> QED BY <2>1, <2>2, <2>3, <2>4
<1>2. p.i = call[c].n + 1 /\ p.f = call[c].f
      BY DEF Piece
<1>3. tx.q = <<>> => p.i = 1
      BY <1>1, <1>2 DEF Inv, TxTail
<1>4. tx.q # <<>> => MayFollow(tx.q[Len(tx.q)], p)
  <2>1. CASE call[c].n = 0
    <3>1. tx.q # <<>> => /\ tx.q[Len(tx.q)].i = Pieces
                         /\ tx.q[Len(tx.q)].f.kind # "close"
          BY <1>1, <2>1 DEF Inv, TxTail, BetweenFrames
    <3> QED BY <1>1, <1>2, <2>1, <3>1, TunnelAssumption DEF MayFollow
  <2>2. CASE call[c].n # 0
    <3>1. tx.q[Len(tx.q)] = Piece(call[c].f, call[c].n)
          BY <1>1, <2>2 DEF Inv, TxTail
    <3>2. call[c].n < Pieces
          BY TunnelAssumption, <1>1
    <3> QED BY <3>1, <3>2 DEF MayFollow, Piece
  <2> QED BY <2>1, <2>2
<1>5. ASSUME NEW k \in 1..Len(tx'.q)
      PROVE  IF k = 1 THEN tx'.q[1].i = 1 ELSE MayFollow(tx'.q[k - 1], tx'.q[k])
  <2>1. Len(tx'.q) = Len(tx.q) + 1 /\ Len(tx.q) \in Nat
        BY <1>1
  <2>2. \A j \in 1..Len(tx.q) : tx'.q[j] = tx.q[j]
        BY <1>1
  <2>3. tx'.q[Len(tx.q) + 1] = p
        BY <1>1
  <2>4. CASE k <= Len(tx.q)
    <3>1. k \in 1..Len(tx.q) /\ (k # 1 => k - 1 \in 1..Len(tx.q))
          BY <2>1, <2>4
    <3> QED BY <2>2, <3>1 DEF Inv, WireWellFormed
  <2>5. CASE k = Len(tx.q) + 1
    <3>1. CASE Len(tx.q) = 0
          BY <1>1, <1>3, <2>3, <2>5, <3>1
    <3>2. CASE Len(tx.q) # 0
      <4>1. k # 1 /\ k - 1 = Len(tx.q) /\ Len(tx.q) \in 1..Len(tx.q) /\ tx.q # <<>>
            BY <2>1, <2>5, <3>2
      <4> QED BY <1>4, <2>2, <2>3, <2>5, <4>1
    <3> QED BY <3>1, <3>2
  <2> QED BY <2>1, <2>4, <2>5
<1>6. WireWellFormed'
      BY <1>5 DEF WireWellFormed, MayFollow
<1>7. tx'.q # <<>> /\ tx'.q[Len(tx'.q)] = p
      BY <1>1
<1> QED BY <1>6, <1>7

\* Every step leaves the stream well formed and its end where the lock says.
LEMMA NextStream == ASSUME Inv, TunNext PROVE TxTail' /\ WireWellFormed'
<1> USE TunnelAssumption
<1>1. CASE Stream
  <2>1. tx'.q = tx.q /\ UNCHANGED <<mu, closed, call>>
        BY <1>1 DEF Stream, RxFrame, RxEnds, TxEnds, RxTorn, Inv, TunTypes, StreamHalf
  <2> QED BY <2>1, QuietStep DEF Inv
<1>2. ASSUME NEW c \in Callers,
             Calls(c) \/ Return(c) \/ LockClosed(c) \/ LockReader(c) \/ ReadPiece(c) \/ ReadEnd(c)
      PROVE  TxTail' /\ WireWellFormed'
  <2>1. tx' = tx /\ UNCHANGED <<mu, closed>> /\ call[c].pc # "write"
        BY <1>2 DEF Calls, RecvFrame, Close, SendFrame, Invoke, Return, LockClosed,
                    LockReader, ReadPiece, ReadEnd
  <2>2. \A d \in Callers \ {c} : call'[d] = call[d]
        BY <1>2 DEF Calls, RecvFrame, Close, SendFrame, Invoke, Return, LockClosed,
                    LockReader, ReadPiece, ReadEnd, Returning, Inv, TunTypes
  <2>3. mu # NoCaller => mu \in Callers \ {c}
        BY <2>1 DEF Inv, Held, TunTypes
  <2> QED BY <2>1, <2>2, <2>3, QuietStep DEF Inv
<1>3. ASSUME NEW c \in Callers, LockWriter(c) PROVE TxTail' /\ WireWellFormed'
  <2>1. /\ BetweenFrames /\ tx' = tx
        /\ mu' = c /\ call'[c].n = 0
        BY <1>3 DEF LockWriter, Inv, TxTail, Held, TunTypes, CallRecords
  <2> QED BY <2>1 DEF TxTail, BetweenFrames, Inv, WireWellFormed
<1>4. ASSUME NEW c \in Callers, WritePiece(c) PROVE TxTail' /\ WireWellFormed'
  <2>1. /\ PutPiece(c) /\ call[c].n + 1 <= Pieces /\ call[c].n \in Nat
        /\ mu = c /\ mu' = c
        /\ call'[c].n = call[c].n + 1 /\ call'[c].f = call[c].f
        BY <1>4 DEF WritePiece, PutPiece, Inv, TunTypes, CallRecords, Held
  <2>2. call'[c].n # 0
        BY <2>1
  <2> QED BY <2>1, <2>2, PieceFits DEF TxTail
<1>5. ASSUME NEW c \in Callers, WriteLast(c) PROVE TxTail' /\ WireWellFormed'
  <2>1. /\ PutPiece(c) /\ call[c].n + 1 <= Pieces /\ call[c].n + 1 = Pieces
        /\ mu' = NoCaller /\ call[c].pc = "write"
        BY <1>5 DEF WriteLast, PutPiece
  <2>2. ~closed' => call[c].op = "send"
        BY <1>5, <2>1 DEF WriteLast, Inv, Held
  <2>3. ~closed' => call[c].f.kind # "close"
        BY <2>1, <2>2 DEF Inv, Held
  <2>4. ~closed' => BetweenFrames'
    <3>1. tx'.q[Len(tx'.q)] = Piece(call[c].f, call[c].n + 1)
          BY <2>1, PieceFits
    <3>2. tx'.q[Len(tx'.q)].i = Pieces /\ tx'.q[Len(tx'.q)].f = call[c].f
          BY <2>1, <3>1 DEF Piece
    <3> QED BY <2>3, <3>2 DEF BetweenFrames
  <2> QED BY <2>1, <2>4, PieceFits DEF TxTail
<1>6. ASSUME NEW c \in Callers, WriteFailed(c) PROVE TxTail' /\ WireWellFormed'
      BY <1>6 DEF WriteFailed, TxTail, Inv, WireWellFormed
<1> QED BY <1>1, <1>2, <1>3, <1>4, <1>5, <1>6 DEF TunNext, TunStep

\* Inv holds initially and every step keeps it.
LEMMA Invariance == TunSpec => []Inv
<1>1. TunInit => Inv
  <2> SUFFICES ASSUME TunInit PROVE Inv
      OBVIOUS
  <2>1. Held /\ OpenWhileHeld
        BY TunnelAssumption DEF TunInit, Held, OpenWhileHeld, NoCall
  <2>2. TxTail /\ WireWellFormed
        BY DEF TunInit, TxTail, BetweenFrames, WireWellFormed, OpenStream
  <2> QED BY <2>1, <2>2, InitType DEF Inv
<1>2. Inv /\ TunNext => Inv'
      BY NextHeld, NextStream, CallType, StreamType DEF Inv, TunNext
<1>3. Inv /\ UNCHANGED tunVars => Inv'
  <2> SUFFICES ASSUME Inv, UNCHANGED tunVars PROVE Inv'
      OBVIOUS
  <2>1. TunTypes'
        BY DEF Inv, TunTypes, tunVars
  <2>2. Held' /\ OpenWhileHeld'
        BY DEF Inv, Held, OpenWhileHeld, tunVars
  <2>3. TxTail' /\ WireWellFormed'
        BY QuietStep DEF Inv, tunVars
  <2> QED BY <2>1, <2>2, <2>3 DEF Inv
<1> QED BY <1>1, <1>2, <1>3, PTL DEF TunSpec

\* However many callers send and close, the stream carries whole frames one
\* after the other, at most the last one cut short, and nothing after a Close
\* frame (wrapper.go:44-55 and 67-80).
THEOREM StreamWellFormed == TunSpec => []WireWellFormed
<1> QED BY Invariance, PTL DEF Inv

\* A frame is cut short on the stream only while its writer holds mu, or in a
\* tunnel that is closed (wrapper.go:49-53: every error of WriteFrame closes it).
THEOREM TornMeansClosed == TunSpec => []TornOnlyWhenClosed
<1>1. Inv => TornOnlyWhenClosed
  <2> SUFFICES ASSUME Inv, tx.q # <<>>, tx.q[Len(tx.q)].i < Pieces, ~closed, mu = NoCaller
               PROVE  FALSE
      BY DEF TornOnlyWhenClosed
  <2>1. tx.q[Len(tx.q)].i = Pieces
        BY DEF Inv, TxTail, BetweenFrames
  <2> QED BY <2>1, TunnelAssumption
<1> QED BY <1>1, Invariance, PTL

\* No step reopens a closed tunnel or writes on its stream
\* (contract/transport/transport.go:28-30).
THEOREM StaysClosed == TunSpec => ClosedForGood
<1>1. Inv /\ [TunNext]_tunVars => [closed => closed' /\ tx'.q = tx.q]_tunVars
  <2> SUFFICES ASSUME Inv, TunNext, closed PROVE closed' /\ tx'.q = tx.q
      OBVIOUS
  <2>1. mu = NoCaller /\ \A c \in Callers : call[c].pc # "write"
        BY TunnelAssumption DEF Inv, OpenWhileHeld, Held
  <2>2. CASE Stream
        BY <2>2 DEF Stream, RxFrame, RxEnds, TxEnds, RxTorn, Inv, TunTypes, StreamHalf
  <2>3. ASSUME NEW c \in Callers, Calls(c) \/ TunStep(c) \/ Return(c)
        PROVE  closed' = closed /\ tx' = tx
        BY <2>1, <2>3 DEF Calls, RecvFrame, Close, SendFrame, Invoke, Return, TunStep,
              LockClosed, LockWriter, LockReader, WritePiece, WriteLast, WriteFailed,
              PutPiece, ReadPiece, ReadEnd
  <2> QED BY <2>2, <2>3 DEF TunNext
<1> QED BY <1>1, Invariance, PTL DEF TunSpec, ClosedForGood

=============================================================================
