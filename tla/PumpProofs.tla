----------------------------- MODULE PumpProofs -----------------------------
(***************************************************************************)
(* Theorems about module Pump, for any number of pieces per frame, any     *)
(* window, and any number of packets and events: type correctness, what    *)
(* Run's result says about the session, and quiet after Run's return.      *)
(* The last section is about one end of a session, for SessionProofs.      *)
(*                                                                         *)
(* The tunnel's types are kept by TunnelProofs's lemmas.                   *)
(***************************************************************************)
EXTENDS Pump, TLAPS

TP == INSTANCE TunnelProofs

-----------------------------------------------------------------------------
(* The inductive invariant *)

\* What each goroutine calls the tunnel for.
Role == [up |-> "send", down |-> "recv", watcher |-> "close", owner |-> "close"]

\* A call in progress is its goroutine's: only pumpDown reads, and what the
\* others write can be encoded.
CallOK(c) ==
    call[c].pc # "idle" =>
        /\ call[c].op = Role[c]
        /\ call[c].pc = "write" => call[c].op # "recv"
        /\ call[c].pc = "read" => call[c].op = "recv"
        /\ call[c].pc \in {"lock", "write"} /\ call[c].op # "recv" =>
             call[c].f.ok /\ (call[c].op = "close" => call[c].f.kind = "close")

\* A goroutine is in a call exactly where its code waits for one.
CallsOK ==
    /\ \A c \in Callers : CallOK(c)
    /\ call["up"].pc # "idle" <=> up = "send"
    /\ call["down"].pc # "idle" <=> down.pc = "recv"
    /\ call["watcher"].pc # "idle" <=> watcher = "closing"
    /\ call["owner"].pc # "idle" => "tunClosed" \in seen

\* Nothing runs before Run starts it.  Run has returned what the group kept, and
\* both directions are done.
ReturnOK ==
    /\ run.pc \in {"start", "refused"} => watcher = "none" /\ up = "none" /\ down.pc = "none"
    /\ run.pc = "returned" => up = "done" /\ down.pc = "done" /\ run.res = gErr

\* What is wrong with device and stream has happened to them, and is in seen.
FaultsSeen ==
    /\ dev.failed => "devFailed" \in seen
    /\ \A i \in 1..Len(dev.q) : dev.q[i].kind = "notip" => "notip" \in seen
    /\ tx.end = "err" => "txErr" \in seen
    /\ tx.end = "eof" => "txEOF" \in seen
    /\ \A i \in 1..Len(rx.q) : rx.q[i].f.kind = "bad" => {"badFrame", "rxTorn"} \cap seen # {}
    /\ rx.end = "err" => {"rxErr", "rxTorn"} \cap seen # {}

\* Unless the stream was torn it ends with a whole frame, of which pumpDown may
\* have read a part.
WholeFrames ==
    "rxTorn" \notin seen => IF rx.q = <<>> THEN call["down"].n = 0
                            ELSE rx.q[Len(rx.q)].i = Pieces

\* So have the errors the tunnel is about to return.
ErrorsSeen ==
    /\ call["up"].pc = "ret" /\ call["up"].res = "err" => "txErr" \in seen
    /\ call["up"].pc = "ret" /\ call["up"].res = "EOF" => "txEOF" \in seen
    /\ call["down"].pc = "ret" /\ call["down"].res = "err" =>
         {"badFrame", "rxErr", "rxTorn"} \cap seen # {}

\* The group's error has a cause, if the device reports its close as it should.
GroupCause == CloseError = "ErrClosed" /\ gErr # "nil" => Causes[gErr] \cap seen # {}

\* Somebody has ended the session in an orderly way; or a direction has failed.
Orderly == seen \ Faults # {}
Over == Orderly \/ gErr # "nil"

\* Nothing is torn down but at the end of the session.  While SendFrame is on its
\* way to report that it failed, pumpUp has not failed yet.
OverOK ==
    /\ ctx => Orderly
    /\ watcher \in {"closing", "done"} => Over
    /\ dev.closed => Over
    /\ closed => Over \/ (call["up"].pc = "ret" /\ call["up"].res = "err")
    /\ call["up"].pc = "ret" /\ call["up"].res \in {"ErrClosed", "EOF"} => Over
    /\ up = "done" => Over

DevRecords == [closed : BOOLEAN, failed : BOOLEAN, q : Seq(Packets),
               arrived : 0..MaxDev, wrote : 0..MaxDev]

\* The types of what is Pump's own.
PumpTypes ==
    /\ run \in [pc : {"start", "refused", "wait", "returned"}, res : Reasons]
    /\ ctx \in BOOLEAN
    /\ seen \subseteq Events
    /\ gErr \in Reasons
    /\ watcher \in {"none", "wait", "closing", "done"}
    /\ up \in {"none", "top", "read", "send", "done"}
    /\ down \in [pc : {"none", "top", "recv", "write", "writing", "done"}, id : 0..MaxDev]
    /\ dev \in DevRecords
    /\ down.pc \in {"write", "writing"} <=> down.id # 0

\* An IP packet on the device has a number.
Numbered == \A i \in 1..Len(dev.q) : dev.q[i].kind = "ip" => dev.q[i].id # 0

PumpInv == /\ PumpTypes /\ T!TunTypes /\ Numbered /\ CallsOK /\ ReturnOK
           /\ FaultsSeen /\ WholeFrames /\ ErrorsSeen /\ GroupCause /\ OverOK

-----------------------------------------------------------------------------
(* The tunnel *)

\* The constants Pump gives to Tunnel satisfy what Tunnel assumes.
LEMMA TunnelConstants == TP!TunnelAssumption
<1>1. NoCaller \notin Callers
      BY DEF NoCaller, Callers
<1>2. \A f \in Frames : /\ DOMAIN f = {"kind", "ok", "id"}
                        /\ f.kind \in {"pkt", "ctl", "bad"}
                        /\ f.ok \in BOOLEAN
                        /\ f.id \in Nat
  <2> SUFFICES ASSUME NEW f \in Frames
               PROVE  /\ DOMAIN f = {"kind", "ok", "id"}
                      /\ f.kind \in {"pkt", "ctl", "bad"}
                      /\ f.ok \in BOOLEAN
                      /\ f.id \in Nat
      OBVIOUS
  <2>1. CASE \E n \in 1..MaxDev : f = [kind |-> "pkt", ok |-> TRUE, id |-> n]
        BY <2>1
  <2>2. CASE \E k \in {"ctl", "bad"} : f = [kind |-> k, ok |-> TRUE, id |-> 0]
        BY <2>2
  <2> QED BY <2>1, <2>2 DEF Frames
<1> QED BY <1>1, <1>2, PumpAssumption DEF TP!TunnelAssumption

\* The frames of a session: only packets have a number, and only pumpUp's
\* and the peer's packets are "pkt".
LEMMA FrameFacts ==
    /\ \A f \in T!AllFrames : /\ f.kind \in {"pkt", "ctl", "bad", "close", "none"}
                              /\ f.id \in 0..MaxDev
                              /\ f.kind = "pkt" => f.id # 0
                              /\ f.ok \in BOOLEAN
    /\ \A n \in 1..MaxDev : T!Frame("pkt", TRUE, n) \in T!AllFrames
    /\ T!NoFrame \in T!AllFrames
    /\ T!CloseFrame(TRUE) \in T!AllFrames
    /\ T!Inbound \subseteq T!AllFrames
<1> USE DEF T!AllFrames, T!CloseFrame, T!NoFrame, T!Frame, T!Inbound
<1>1. ASSUME NEW f \in T!AllFrames
      PROVE  /\ f.kind \in {"pkt", "ctl", "bad", "close", "none"}
             /\ f.id \in 0..MaxDev
             /\ f.kind = "pkt" => f.id # 0
             /\ f.ok \in BOOLEAN
  <2>1. CASE \E n \in 1..MaxDev : f = [kind |-> "pkt", ok |-> TRUE, id |-> n]
        BY <2>1, PumpAssumption
  <2>2. CASE \E k \in {"ctl", "bad"} : f = [kind |-> k, ok |-> TRUE, id |-> 0]
        BY <2>2, PumpAssumption
  <2>3. CASE f \in {T!CloseFrame(TRUE), T!CloseFrame(FALSE), T!NoFrame}
    <3>1. 0 \in 0..MaxDev
          BY PumpAssumption
    <3>2. CASE f = T!CloseFrame(TRUE)
          BY <3>1, <3>2
    <3>3. CASE f = T!CloseFrame(FALSE)
          BY <3>1, <3>3
    <3>4. CASE f = T!NoFrame
          BY <3>1, <3>4
    <3> QED BY <2>3, <3>2, <3>3, <3>4
  <2> QED BY <1>1, <2>1, <2>2, <2>3 DEF Frames
<1>2. \A n \in 1..MaxDev : T!Frame("pkt", TRUE, n) \in T!AllFrames
      BY DEF Frames
<1> QED BY <1>1, <1>2

\* Pump's instance of Tunnel and the one the lemmas of TunnelProofs are about are the same.
LEMMA SameTunnel ==
    /\ T!TunTypes = TP!TunTypes /\ (T!TunTypes)' = (TP!TunTypes)'
    /\ T!TunInit = TP!TunInit
    /\ \A c : T!TunStep(c) <=> TP!TunStep(c)
    /\ \A c : T!Return(c) <=> TP!Return(c)
    /\ \A c, op, f : T!Invoke(c, op, f) <=> TP!Invoke(c, op, f)
<1> USE DEF T!NoCall, TP!NoCall, T!NoFrame, TP!NoFrame, T!Frame, TP!Frame
<1>1. T!TunTypes = TP!TunTypes /\ (T!TunTypes)' = (TP!TunTypes)'
      BY DEF T!TunTypes, TP!TunTypes, T!CallRecords, TP!CallRecords, T!StreamHalf,
         TP!StreamHalf,
             T!AllFrames, TP!AllFrames, T!CloseFrame, TP!CloseFrame
<1>2. T!TunInit = TP!TunInit
      BY DEF T!TunInit, TP!TunInit, T!OpenStream, TP!OpenStream
<1>3. ASSUME NEW c PROVE T!TunStep(c) <=> TP!TunStep(c)
      BY DEF T!TunStep, T!LockClosed, T!LockWriter, T!LockReader, T!WritePiece, T!WriteLast,
             T!WriteFailed, T!ReadPiece, T!ReadEnd, T!PutPiece, T!More, T!Refused, T!WriteError,
             T!ReadErrors, T!Returning, T!Piece,
             TP!TunStep, TP!LockClosed, TP!LockWriter, TP!LockReader, TP!WritePiece,
             TP!WriteLast, TP!WriteFailed, TP!ReadPiece, TP!ReadEnd, TP!PutPiece,
             TP!Refused, TP!More, TP!WriteError, TP!ReadErrors, TP!Returning, TP!Piece
<1>4. ASSUME NEW c PROVE T!Return(c) <=> TP!Return(c)
      BY DEF T!Return, TP!Return
<1>5. ASSUME NEW c, NEW op, NEW f PROVE T!Invoke(c, op, f) <=> TP!Invoke(c, op, f)
      BY DEF T!Invoke, TP!Invoke
<1> QED BY <1>1, <1>2, <1>3, <1>4, <1>5

\* The steps of Pump keep the tunnel's types.
LEMMA TunnelTypes ==
    ASSUME T!TunTypes, NEW c \in Callers, T!TunStep(c) \/ T!Return(c) PROVE T!TunTypes'
<1>1. TP!TunTypes /\ (TP!TunStep(c) \/ TP!Return(c))
      BY SameTunnel
<1>2. TP!TunTypes'
      BY <1>1, TunnelConstants, TP!CallType
<1> QED BY <1>2, SameTunnel

LEMMA InvokeTypes ==
    ASSUME T!TunTypes, NEW c \in Callers, NEW op \in {"send", "recv", "close"},
           NEW f \in T!AllFrames, T!Invoke(c, op, f)
    PROVE  T!TunTypes'
<1>1. [T!NoCall EXCEPT !.op = op, !.pc = "lock", !.f = f] \in T!CallRecords
  <2>1. 0 \in 0..Pieces
        BY PumpAssumption
  <2>2. T!NoCall \in T!CallRecords
        BY <2>1, FrameFacts DEF T!NoCall, T!CallRecords
  <2> QED BY <2>2 DEF T!CallRecords
<1> QED BY <1>1 DEF T!Invoke, T!TunTypes

LEMMA StreamTypes ==
    ASSUME T!TunTypes, NEW f \in T!Inbound, NEW e \in {"eof", "err"},
           T!RxFrame(f) \/ T!RxEnds(e) \/ T!TxEnds(e) \/ T!RxTorn(f, e)
    PROVE  T!TunTypes'
<1>1. TP!TunTypes
      BY SameTunnel
<1>2. f \in TP!Inbound
      BY DEF T!Inbound, TP!Inbound, T!CloseFrame, TP!CloseFrame, T!Frame, TP!Frame
<1>3. TP!RxFrame(f) \/ TP!RxEnds(e) \/ TP!TxEnds(e) \/ TP!RxTorn(f, e)
      BY DEF T!RxFrame, T!RxEnds, T!TxEnds, T!RxTorn, T!Piece,
             TP!RxFrame, TP!RxEnds, TP!TxEnds, TP!RxTorn, TP!Piece
<1>4. TP!Stream
      BY <1>2, <1>3 DEF TP!Stream
<1>5. TP!TunTypes'
      BY <1>1, <1>4, TunnelConstants, TP!StreamType
<1> QED BY <1>5, SameTunnel

-----------------------------------------------------------------------------
(* What a step of a call does *)

\* mu was free: in, to write or to read.
Entered(c) ==
    /\ call[c].pc = "lock" /\ ~closed
    /\ mu = NoCaller /\ mu' = (IF call[c].op = "recv" THEN NoCaller ELSE c)
    /\ call'[c].pc = (IF call[c].op = "recv" THEN "read" ELSE "write")
    /\ call'[c].f = call[c].f /\ call'[c].n = call[c].n
    /\ UNCHANGED <<closed, tx, rx>>

TurnedAway(c) ==
    /\ call[c].pc = "lock" /\ closed
    /\ call'[c].pc = "ret" /\ call'[c].n = 0
    /\ call'[c].res = (IF call[c].op = "close" THEN "nil" ELSE "ErrClosed")
    /\ UNCHANGED <<mu, closed, tx, rx>>

\* A piece is written, perhaps the last.
Wrote(c) ==
    /\ call[c].pc = "write"
    /\ tx'.q = Append(tx.q, T!Piece(call[c].f, call[c].n + 1)) /\ tx'.end = tx.end
    /\ \/ /\ call[c].n + 1 < Pieces
          /\ call'[c].pc = "write" /\ call'[c].f = call[c].f /\ call'[c].n = call[c].n + 1
          /\ UNCHANGED <<mu, closed>>
       \/ /\ call[c].n + 1 = Pieces
          /\ call'[c].pc = "ret" /\ call'[c].res = "nil"
          /\ mu' = NoCaller
          /\ closed' = (closed \/ call[c].op = "close")
    /\ UNCHANGED rx

Broke(c) ==
    /\ call[c].pc = "write"
    /\ call'[c].pc = "ret" /\ closed' = TRUE /\ mu' = NoCaller
    /\ call[c].f.ok => /\ tx.end # "open"
                       /\ call'[c].res = (IF tx.end = "eof" THEN "EOF" ELSE "err")
    /\ UNCHANGED <<tx, rx>>

\* A piece is read: garbage, the last of a frame, or another.
Took(c) ==
    /\ call[c].pc = "read"
    /\ rx.q # <<>> /\ rx'.q = Tail(rx.q) /\ rx'.end = rx.end
    /\ LET p == Head(rx.q) IN
         \/ /\ p.f.kind = "bad"
            /\ call'[c].pc = "ret" /\ call'[c].res = "err" /\ call'[c].n = 0
         \/ /\ p.f.kind # "bad" /\ p.i = Pieces
            /\ call'[c].pc = "ret" /\ call'[c].res = "nil" /\ call'[c].n = 0
            /\ call'[c].f = p.f
         \/ /\ p.f.kind # "bad" /\ p.i # Pieces
            /\ call'[c].pc = "read" /\ call'[c].n = p.i /\ call'[c].f = p.f
    /\ UNCHANGED <<mu, closed, tx>>

Ended(c) ==
    /\ call[c].pc = "read"
    /\ rx.q = <<>> /\ rx.end # "open"
    /\ call'[c].pc = "ret" /\ call'[c].n = 0 /\ call'[c].res # "nil"
    /\ rx.end = "eof" /\ call[c].n = 0 => call'[c].res = "EOF"
    /\ UNCHANGED <<mu, closed, tx, rx>>

Others(c) == \A d \in Callers \ {c} : call'[d] = call[d]

\* Every step of a call is one of these, and is its caller's alone.
LEMMA CallStep ==
    ASSUME T!TunTypes, NEW c \in Callers, T!TunStep(c)
    PROVE  /\ Others(c) /\ call'[c].op = call[c].op
           /\ Entered(c) \/ TurnedAway(c) \/ Wrote(c) \/ Broke(c) \/ Took(c) \/ Ended(c)
<1> USE DEF Others
<1>a. /\ call \in [Callers -> T!CallRecords] /\ call[c] \in T!CallRecords
      /\ tx \in T!StreamHalf /\ rx \in T!StreamHalf /\ closed \in BOOLEAN
      BY DEF T!TunTypes
<1>b. ASSUME NEW res, call' = T!Returning(c, res)
      PROVE  /\ Others(c) /\ call'[c].op = call[c].op
             /\ call'[c].pc = "ret" /\ call'[c].res = res /\ call'[c].n = 0
      BY <1>a, <1>b DEF T!Returning, T!NoCall
<1>1. CASE T!LockClosed(c)
      BY <1>b, <1>1 DEF T!LockClosed, TurnedAway
<1>2. CASE T!LockWriter(c)
      BY <1>a, <1>2 DEF T!LockWriter, T!CallRecords, Entered
<1>3. CASE T!LockReader(c)
      BY <1>a, <1>3 DEF T!LockReader, T!CallRecords, Entered
<1>c. ASSUME T!PutPiece(c)
      PROVE  /\ call[c].pc = "write"
             /\ tx'.q = Append(tx.q, T!Piece(call[c].f, call[c].n + 1)) /\ tx'.end = tx.end
      BY <1>a, <1>c DEF T!PutPiece, T!StreamHalf
<1>4. CASE T!WritePiece(c)
  <2>1. /\ Others(c) /\ call'[c].op = call[c].op
        /\ call'[c].pc = call[c].pc /\ call'[c].f = call[c].f /\ call'[c].n = call[c].n + 1
        BY <1>a, <1>4 DEF T!WritePiece, T!CallRecords
  <2> QED BY <1>c, <1>4, <2>1 DEF T!WritePiece, Wrote
<1>5. CASE T!WriteLast(c)
      BY <1>b, <1>c, <1>5 DEF T!WriteLast, Wrote
<1>6. CASE T!WriteFailed(c)
  <2>1. call[c].f.ok => ~T!Refused(c)
        BY DEF T!Refused
  <2> QED BY <1>b, <1>6, <2>1 DEF T!WriteFailed, T!WriteError, Broke
<1>7. CASE T!ReadPiece(c)
  <2>1. /\ call[c].pc = "read"
        /\ rx.q # <<>> /\ rx'.q = Tail(rx.q) /\ rx'.end = rx.end
        /\ UNCHANGED <<mu, closed, tx>>
        BY <1>a, <1>7 DEF T!ReadPiece, T!StreamHalf
  <2> DEFINE p == Head(rx.q)
  <2>2. CASE p.f.kind = "bad"
        BY <1>b, <1>7, <2>1, <2>2 DEF T!ReadPiece, Took
  <2>3. CASE p.f.kind # "bad" /\ p.i = Pieces
    <3>1. call' = [T!Returning(c, "nil") EXCEPT ![c].f = p.f]
          BY <1>7, <2>3 DEF T!ReadPiece
    <3>2. /\ Others(c) /\ call'[c].op = call[c].op
          /\ call'[c].pc = "ret" /\ call'[c].res = "nil" /\ call'[c].n = 0
          /\ call'[c].f = p.f
          BY <1>a, <3>1 DEF T!Returning, T!NoCall
    <3> QED BY <2>1, <2>3, <3>2 DEF Took
  <2>4. CASE p.f.kind # "bad" /\ p.i # Pieces
    <3>1. call' = [call EXCEPT ![c].n = p.i, ![c].f = p.f]
          BY <1>7, <2>4 DEF T!ReadPiece
    <3>2. /\ Others(c) /\ call'[c].op = call[c].op
          /\ call'[c].pc = "read" /\ call'[c].n = p.i /\ call'[c].f = p.f
          BY <1>a, <2>1, <3>1 DEF T!CallRecords
    <3> QED BY <2>1, <2>4, <3>2 DEF Took
  <2> QED BY <2>2, <2>3, <2>4
<1>8. CASE T!ReadEnd(c)
  <2>1. PICK res \in T!ReadErrors(c) : call' = T!Returning(c, res)
        BY <1>8 DEF T!ReadEnd
  <2>2. res # "nil" /\ (rx.end = "eof" /\ call[c].n = 0 => res = "EOF")
        BY <2>1 DEF T!ReadErrors
  <2> QED BY <1>b, <1>8, <2>1, <2>2 DEF T!ReadEnd, Ended
<1> QED BY <1>1, <1>2, <1>3, <1>4, <1>5, <1>6, <1>7, <1>8 DEF T!TunStep

\* A call begins and ends.
LEMMA Invoked ==
    ASSUME T!TunTypes, NEW c \in Callers, NEW op, NEW f, T!Invoke(c, op, f)
    PROVE  /\ Others(c) /\ UNCHANGED <<mu, closed, tx, rx>>
           /\ call[c].pc = "idle"
           /\ call'[c].pc = "lock" /\ call'[c].op = op /\ call'[c].f = f /\ call'[c].n = 0
BY DEF T!Invoke, T!NoCall, T!TunTypes, Others

LEMMA Finished ==
    ASSUME T!TunTypes, NEW c \in Callers, T!Return(c)
    PROVE  /\ Others(c) /\ UNCHANGED <<mu, closed, tx, rx>>
           /\ call[c].pc = "ret"
           /\ call'[c].pc = "idle" /\ call'[c].n = 0
BY DEF T!Return, T!NoCall, T!TunTypes, Others

-----------------------------------------------------------------------------
(* The device *)

LEMMA SeqFacts ==
    ASSUME NEW S, NEW q \in Seq(S), q # <<>>
    PROVE  /\ Head(q) \in S /\ Head(q) = q[1] /\ 1 \in 1..Len(q)
           /\ Tail(q) \in Seq(S) /\ Len(Tail(q)) = Len(q) - 1
           /\ \A i \in 1..Len(Tail(q)) : i + 1 \in 1..Len(q) /\ Tail(q)[i] = q[i + 1]
OBVIOUS

\* The device with a field changed is one, and the other fields are as they were.
LEMMA DevSet ==
    ASSUME dev \in DevRecords
    PROVE  /\ [dev EXCEPT !.closed = TRUE] \in DevRecords
           /\ [dev EXCEPT !.failed = TRUE] \in DevRecords
           /\ \A q \in Seq(Packets), n \in 0..MaxDev :
                [dev EXCEPT !.q = q, !.arrived = n] \in DevRecords
           /\ \A q \in Seq(Packets) : [dev EXCEPT !.q = q] \in DevRecords
           /\ \A n \in 0..MaxDev : [dev EXCEPT !.wrote = n] \in DevRecords
BY DEF DevRecords

\* Reading takes the first packet off.
LEMMA ReadFacts ==
    ASSUME PumpInv, NEW k, ReadPacket(k)
    PROVE  /\ dev' \in DevRecords /\ Numbered'
           /\ dev'.failed = dev.failed /\ dev'.closed = dev.closed
           /\ Head(dev.q) \in Packets /\ Head(dev.q).kind = k
           /\ k = "ip" => Head(dev.q).id \in 1..MaxDev
           /\ k = "notip" => "notip" \in seen
           /\ \A i \in 1..Len(dev'.q) : dev'.q[i].kind = "notip" => "notip" \in seen
<1>1. dev \in DevRecords /\ dev.q \in Seq(Packets) /\ dev.q # <<>> /\ Head(dev.q).kind = k
      BY DEF PumpInv, PumpTypes, DevRecords, ReadPacket
<1>2. /\ Head(dev.q) \in Packets /\ Head(dev.q) = dev.q[1] /\ 1 \in 1..Len(dev.q)
      /\ Tail(dev.q) \in Seq(Packets)
      /\ \A i \in 1..Len(Tail(dev.q)) :
           i + 1 \in 1..Len(dev.q) /\ Tail(dev.q)[i] = dev.q[i + 1]
      BY <1>1, SeqFacts
<1>3. dev' = [dev EXCEPT !.q = Tail(dev.q)]
      BY DEF ReadPacket
<1>4. dev' \in DevRecords
      BY <1>1, <1>2, <1>3, DevSet
<1>5. dev'.q = Tail(dev.q) /\ dev'.failed = dev.failed /\ dev'.closed = dev.closed
      BY <1>1, <1>3 DEF DevRecords
<1>6. Numbered' /\ \A i \in 1..Len(dev'.q) : dev'.q[i].kind = "notip" => "notip" \in seen
      BY <1>2, <1>5 DEF PumpInv, Numbered, FaultsSeen
<1>7. k = "ip" => Head(dev.q).id # 0
      BY <1>1, <1>2 DEF PumpInv, Numbered
<1>8. Head(dev.q).id \in 0..MaxDev
      BY <1>2 DEF Packets
<1>9. k = "notip" => "notip" \in seen
      BY <1>1, <1>2 DEF PumpInv, FaultsSeen
<1> QED BY <1>1, <1>2, <1>4, <1>5, <1>6, <1>7, <1>8, <1>9, PumpAssumption

-----------------------------------------------------------------------------
(* Steps that leave the tunnel alone *)

LEMMA KeepTunnel ==
    ASSUME PumpInv, UNCHANGED tunVars, seen \subseteq seen'
    PROVE  (T!TunTypes)' /\ WholeFrames' /\ ErrorsSeen'
BY DEF PumpInv, tunVars, T!TunTypes, WholeFrames, ErrorsSeen

LEMMA KeepDevice ==
    ASSUME PumpInv, UNCHANGED <<dev, tunVars>>, seen \subseteq seen'
    PROVE  Numbered' /\ FaultsSeen'
BY DEF PumpInv, tunVars, Numbered, FaultsSeen

LEMMA RunNilKeeps ==
    ASSUME PumpInv, NEW e \in {"read_tun_failed", "send_frame_failed"}, RunNil(e)
    PROVE  PumpInv'
<1>1. (T!TunTypes)' /\ WholeFrames' /\ ErrorsSeen'
      BY KeepTunnel DEF RunNil
<1>2. Numbered' /\ FaultsSeen'
      BY KeepDevice DEF RunNil
<1>3. PumpTypes'
      BY PumpAssumption DEF RunNil, PumpInv, PumpTypes, Reasons, Events, Faults
<1>4. CallsOK' /\ ReturnOK'
      BY DEF RunNil, PumpInv, PumpTypes, CallsOK, CallOK, ReturnOK, tunVars
<1>5. GroupCause'
      BY DEF RunNil, PumpInv, PumpTypes, GroupCause, Causes, FaultsSeen, Reasons
<1>6. OverOK'
      BY DEF RunNil, PumpInv, PumpTypes, ReturnOK, OverOK, Over, Orderly, Faults, gDone,
             tunVars, DevRecords
<1> QED BY <1>1, <1>2, <1>3, <1>4, <1>5, <1>6 DEF PumpInv

LEMMA RunNoMTUKeeps == ASSUME PumpInv, RunNoMTU PROVE PumpInv'
<1>1. (T!TunTypes)' /\ WholeFrames' /\ ErrorsSeen'
      BY KeepTunnel DEF RunNoMTU
<1>2. Numbered' /\ FaultsSeen'
      BY KeepDevice DEF RunNoMTU
<1>3. PumpTypes'
      BY PumpAssumption DEF RunNoMTU, PumpInv, PumpTypes, Reasons, Events, Faults
<1>4. CallsOK' /\ ReturnOK'
      BY DEF RunNoMTU, PumpInv, PumpTypes, CallsOK, CallOK, ReturnOK, tunVars
<1>5. GroupCause'
      BY DEF RunNoMTU, PumpInv, PumpTypes, GroupCause, Causes, FaultsSeen, Reasons
<1>6. OverOK'
      BY DEF RunNoMTU, PumpInv, PumpTypes, ReturnOK, OverOK, Over, Orderly, Faults, gDone,
             tunVars, DevRecords
<1> QED BY <1>1, <1>2, <1>3, <1>4, <1>5, <1>6 DEF PumpInv

LEMMA RunStartKeeps == ASSUME PumpInv, RunStart PROVE PumpInv'
<1>1. (T!TunTypes)' /\ WholeFrames' /\ ErrorsSeen'
      BY KeepTunnel DEF RunStart
<1>2. Numbered' /\ FaultsSeen'
      BY KeepDevice DEF RunStart
<1>3. PumpTypes'
      BY PumpAssumption DEF RunStart, PumpInv, PumpTypes, Reasons, Events, Faults, ReturnOK
<1>4. CallsOK' /\ ReturnOK'
      BY DEF RunStart, PumpInv, PumpTypes, CallsOK, CallOK, ReturnOK, tunVars
<1>5. GroupCause'
      BY DEF RunStart, PumpInv, PumpTypes, GroupCause, Causes, FaultsSeen, Reasons
<1>6. OverOK'
      BY DEF RunStart, PumpInv, PumpTypes, ReturnOK, OverOK, Over, Orderly, Faults, gDone,
             tunVars, DevRecords
<1> QED BY <1>1, <1>2, <1>3, <1>4, <1>5, <1>6 DEF PumpInv

LEMMA RunWaitKeeps == ASSUME PumpInv, RunWait PROVE PumpInv'
<1>1. (T!TunTypes)' /\ WholeFrames' /\ ErrorsSeen'
      BY KeepTunnel DEF RunWait
<1>2. Numbered' /\ FaultsSeen'
      BY KeepDevice DEF RunWait
<1>3. PumpTypes'
      BY PumpAssumption DEF RunWait, PumpInv, PumpTypes, Reasons, Events, Faults
<1>4. CallsOK' /\ ReturnOK'
      BY DEF RunWait, PumpInv, PumpTypes, CallsOK, CallOK, ReturnOK, tunVars
<1>5. GroupCause'
      BY DEF RunWait, PumpInv, PumpTypes, GroupCause, Causes, FaultsSeen, Reasons
<1>6. OverOK'
      BY DEF RunWait, PumpInv, PumpTypes, ReturnOK, OverOK, Over, Orderly, Faults, gDone,
             tunVars, DevRecords
<1> QED BY <1>1, <1>2, <1>3, <1>4, <1>5, <1>6 DEF PumpInv

LEMMA UpTopKeeps == ASSUME PumpInv, UpTop PROVE PumpInv'
<1>1. (T!TunTypes)' /\ WholeFrames' /\ ErrorsSeen'
      BY KeepTunnel DEF UpTop
<1>2. Numbered' /\ FaultsSeen'
      BY KeepDevice DEF UpTop
<1>3. PumpTypes'
      BY PumpAssumption DEF UpTop, UpReturns, Failed, PumpInv, PumpTypes, Reasons, Events,
             Faults
<1>4. CallsOK' /\ ReturnOK'
      BY DEF UpTop, UpReturns, Failed, PumpInv, PumpTypes, CallsOK, CallOK, ReturnOK,
             tunVars
<1>5. GroupCause'
      BY DEF UpTop, UpReturns, Failed, PumpInv, PumpTypes, GroupCause, Causes, FaultsSeen,
             Reasons
<1>6. OverOK'
      BY DEF UpTop, UpReturns, Failed, PumpInv, PumpTypes, ReturnOK, OverOK, Over, Orderly,
             Faults, gDone, tunVars, DevRecords
<1> QED BY <1>1, <1>2, <1>3, <1>4, <1>5, <1>6 DEF PumpInv

LEMMA UpReadEmptyKeeps == ASSUME PumpInv, UpReadEmpty PROVE PumpInv'
<1>1. (T!TunTypes)' /\ WholeFrames' /\ ErrorsSeen'
      BY KeepTunnel DEF UpReadEmpty
<1>r. ReadPacket("empty") /\ up = "read"
      BY DEF UpReadEmpty, ReadPacket
<1>2. Numbered' /\ FaultsSeen'
      BY <1>r, ReadFacts DEF UpReadEmpty, PumpInv, FaultsSeen, tunVars
<1>3. PumpTypes'
      BY <1>r, ReadFacts, PumpAssumption DEF UpReadEmpty, PumpInv, PumpTypes, Reasons,
             Events, Faults
<1>4. CallsOK' /\ ReturnOK'
      BY <1>r, ReadFacts DEF UpReadEmpty, PumpInv, PumpTypes, CallsOK, CallOK, ReturnOK,
             tunVars
<1>5. GroupCause'
      BY <1>r, ReadFacts DEF UpReadEmpty, PumpInv, PumpTypes, GroupCause, Causes,
             FaultsSeen, Reasons
<1>6. OverOK'
      BY <1>r, ReadFacts DEF UpReadEmpty, PumpInv, PumpTypes, ReturnOK, OverOK, Over,
             Orderly, Faults, gDone, tunVars, DevRecords
<1> QED BY <1>1, <1>2, <1>3, <1>4, <1>5, <1>6 DEF PumpInv

LEMMA UpReadNotIPKeeps == ASSUME PumpInv, UpReadNotIP PROVE PumpInv'
<1>1. (T!TunTypes)' /\ WholeFrames' /\ ErrorsSeen'
      BY KeepTunnel DEF UpReadNotIP
<1>r. ReadPacket("notip") /\ up = "read"
      BY DEF UpReadNotIP, ReadPacket
<1>2. Numbered' /\ FaultsSeen'
      BY <1>r, ReadFacts DEF UpReadNotIP, PumpInv, FaultsSeen, tunVars
<1>3. PumpTypes'
      BY <1>r, ReadFacts, PumpAssumption DEF UpReadNotIP, UpReturns, Failed, PumpInv,
             PumpTypes, Reasons, Events, Faults
<1>4. CallsOK' /\ ReturnOK'
      BY <1>r, ReadFacts DEF UpReadNotIP, UpReturns, Failed, PumpInv, PumpTypes, CallsOK,
             CallOK, ReturnOK, tunVars
<1>5. GroupCause'
      BY <1>r, ReadFacts DEF UpReadNotIP, UpReturns, Failed, PumpInv, PumpTypes, GroupCause,
             Causes, FaultsSeen, Reasons
<1>6. OverOK'
      BY <1>r, ReadFacts DEF UpReadNotIP, UpReturns, Failed, PumpInv, PumpTypes, ReturnOK,
             OverOK, Over, Orderly, Faults, gDone, tunVars, DevRecords
<1> QED BY <1>1, <1>2, <1>3, <1>4, <1>5, <1>6 DEF PumpInv

LEMMA UpReadFailsKeeps == ASSUME PumpInv, UpReadFails PROVE PumpInv'
<1>1. (T!TunTypes)' /\ WholeFrames' /\ ErrorsSeen'
      BY KeepTunnel DEF UpReadFails
<1>2. Numbered' /\ FaultsSeen'
      BY KeepDevice DEF UpReadFails
<1>3. PumpTypes'
      BY PumpAssumption DEF UpReadFails, UpReturns, Failed, PumpInv, PumpTypes, Reasons,
             Events, Faults
<1>4. CallsOK' /\ ReturnOK'
      BY DEF UpReadFails, UpReturns, Failed, PumpInv, PumpTypes, CallsOK, CallOK, ReturnOK,
             tunVars
<1>5. GroupCause'
      BY DEF UpReadFails, UpReturns, Failed, PumpInv, PumpTypes, GroupCause, Causes,
             FaultsSeen, Reasons
<1>6. OverOK'
      BY DEF UpReadFails, UpReturns, Failed, PumpInv, PumpTypes, ReturnOK, OverOK, Over,
             Orderly, Faults, gDone, tunVars, DevRecords
<1> QED BY <1>1, <1>2, <1>3, <1>4, <1>5, <1>6 DEF PumpInv

LEMMA DownStopKeeps == ASSUME PumpInv, DownStop PROVE PumpInv'
<1>1. (T!TunTypes)' /\ WholeFrames' /\ ErrorsSeen'
      BY KeepTunnel DEF DownStop
<1>2. Numbered' /\ FaultsSeen'
      BY KeepDevice DEF DownStop
<1>3. PumpTypes'
      BY PumpAssumption DEF DownStop, DownReturns, Failed, PumpInv, PumpTypes, Reasons,
             Events, Faults
<1>4. CallsOK' /\ ReturnOK'
      BY DEF DownStop, DownReturns, Failed, PumpInv, PumpTypes, CallsOK, CallOK, ReturnOK,
             tunVars
<1>5. GroupCause'
      BY DEF DownStop, DownReturns, Failed, PumpInv, PumpTypes, GroupCause, Causes,
             FaultsSeen, Reasons
<1>6. OverOK'
      BY DEF DownStop, DownReturns, Failed, PumpInv, PumpTypes, ReturnOK, OverOK, Over,
             Orderly, Faults, gDone, tunVars, DevRecords
<1> QED BY <1>1, <1>2, <1>3, <1>4, <1>5, <1>6 DEF PumpInv

LEMMA DownWriteKeeps == ASSUME PumpInv, DownWrite PROVE PumpInv'
<1>1. (T!TunTypes)' /\ WholeFrames' /\ ErrorsSeen'
      BY KeepTunnel DEF DownWrite
<1>2. Numbered' /\ FaultsSeen'
      BY KeepDevice DEF DownWrite
<1>3. PumpTypes'
      BY PumpAssumption DEF DownWrite, DownReturns, Failed, PumpInv, PumpTypes, Reasons,
             Events, Faults
<1>4. CallsOK' /\ ReturnOK'
      BY DEF DownWrite, DownReturns, Failed, PumpInv, PumpTypes, CallsOK, CallOK, ReturnOK,
             tunVars
<1>5. GroupCause'
      BY DEF DownWrite, DownReturns, Failed, PumpInv, PumpTypes, GroupCause, Causes,
             FaultsSeen, Reasons
<1>6. OverOK'
      BY DEF DownWrite, DownReturns, Failed, PumpInv, PumpTypes, ReturnOK, OverOK, Over,
             Orderly, Faults, gDone, tunVars, DevRecords
<1> QED BY <1>1, <1>2, <1>3, <1>4, <1>5, <1>6 DEF PumpInv

LEMMA DownWrittenKeeps == ASSUME PumpInv, DownWritten PROVE PumpInv'
<1>1. (T!TunTypes)' /\ WholeFrames' /\ ErrorsSeen'
      BY KeepTunnel DEF DownWritten
<1>r. /\ dev \in DevRecords /\ dev' = [dev EXCEPT !.wrote = down.id]
      /\ dev' \in DevRecords /\ dev'.q = dev.q
      BY DevSet, PumpAssumption DEF DownWritten, PumpInv, PumpTypes, DevRecords
<1>2. Numbered' /\ FaultsSeen'
      BY <1>r DEF DownWritten, PumpInv, Numbered, FaultsSeen, tunVars, DevRecords
<1>3. PumpTypes'
      BY <1>r, PumpAssumption DEF DownWritten, PumpInv, PumpTypes, Reasons, Events, Faults
<1>4. CallsOK' /\ ReturnOK'
      BY <1>r DEF DownWritten, PumpInv, PumpTypes, CallsOK, CallOK, ReturnOK, tunVars
<1>5. GroupCause'
      BY <1>r DEF DownWritten, PumpInv, PumpTypes, GroupCause, Causes, FaultsSeen, Reasons
<1>6. OverOK'
      BY <1>r DEF DownWritten, PumpInv, PumpTypes, ReturnOK, OverOK, Over, Orderly, Faults,
             gDone, tunVars, DevRecords
<1> QED BY <1>1, <1>2, <1>3, <1>4, <1>5, <1>6 DEF PumpInv

LEMMA DownWriteFailsKeeps == ASSUME PumpInv, DownWriteFails PROVE PumpInv'
<1>1. (T!TunTypes)' /\ WholeFrames' /\ ErrorsSeen'
      BY KeepTunnel DEF DownWriteFails
<1>2. Numbered' /\ FaultsSeen'
      BY KeepDevice DEF DownWriteFails
<1>3. PumpTypes'
      BY PumpAssumption DEF DownWriteFails, DownReturns, Failed, PumpInv, PumpTypes,
             Reasons, Events, Faults
<1>4. CallsOK' /\ ReturnOK'
      BY DEF DownWriteFails, DownReturns, Failed, PumpInv, PumpTypes, CallsOK, CallOK,
             ReturnOK, tunVars
<1>5. GroupCause'
      BY DEF DownWriteFails, DownReturns, Failed, PumpInv, PumpTypes, GroupCause, Causes,
             FaultsSeen, Reasons
<1>6. OverOK'
      BY DEF DownWriteFails, DownReturns, Failed, PumpInv, PumpTypes, ReturnOK, OverOK,
             Over, Orderly, Faults, gDone, tunVars, DevRecords
<1> QED BY <1>1, <1>2, <1>3, <1>4, <1>5, <1>6 DEF PumpInv

LEMMA DeviceFailsKeeps == ASSUME PumpInv, DeviceFails PROVE PumpInv'
<1>1. (T!TunTypes)' /\ WholeFrames' /\ ErrorsSeen'
      BY KeepTunnel DEF DeviceFails, Happens
<1>r. /\ dev \in DevRecords /\ dev' = [dev EXCEPT !.failed = TRUE]
      /\ dev' \in DevRecords /\ dev'.q = dev.q
      BY DevSet, PumpAssumption DEF DeviceFails, PumpInv, PumpTypes, DevRecords
<1>2. Numbered' /\ FaultsSeen'
      BY <1>r DEF DeviceFails, Happens, PumpInv, Numbered, FaultsSeen, tunVars, DevRecords
<1>3. PumpTypes'
      BY <1>r, PumpAssumption DEF DeviceFails, Happens, PumpInv, PumpTypes, Reasons, Events,
             Faults
<1>4. CallsOK' /\ ReturnOK'
      BY <1>r DEF DeviceFails, Happens, PumpInv, PumpTypes, CallsOK, CallOK, ReturnOK,
             tunVars
<1>5. GroupCause'
      BY <1>r DEF DeviceFails, Happens, PumpInv, PumpTypes, GroupCause, Causes, FaultsSeen,
             Reasons
<1>6. OverOK'
      BY <1>r DEF DeviceFails, Happens, PumpInv, PumpTypes, ReturnOK, OverOK, Over, Orderly,
             Faults, gDone, tunVars, DevRecords
<1> QED BY <1>1, <1>2, <1>3, <1>4, <1>5, <1>6 DEF PumpInv

LEMMA CancelKeeps == ASSUME PumpInv, Cancel PROVE PumpInv'
<1>1. (T!TunTypes)' /\ WholeFrames' /\ ErrorsSeen'
      BY KeepTunnel DEF Cancel, Happens
<1>2. Numbered' /\ FaultsSeen'
      BY KeepDevice DEF Cancel, Happens
<1>3. PumpTypes'
      BY PumpAssumption DEF Cancel, Happens, PumpInv, PumpTypes, Reasons, Events, Faults
<1>4. CallsOK' /\ ReturnOK'
      BY DEF Cancel, Happens, PumpInv, PumpTypes, CallsOK, CallOK, ReturnOK, tunVars
<1>5. GroupCause'
      BY DEF Cancel, Happens, PumpInv, PumpTypes, GroupCause, Causes, FaultsSeen, Reasons
<1>6. OverOK'
      BY DEF Cancel, Happens, PumpInv, PumpTypes, ReturnOK, OverOK, Over, Orderly, Faults,
             gDone, tunVars, DevRecords
<1> QED BY <1>1, <1>2, <1>3, <1>4, <1>5, <1>6 DEF PumpInv

LEMMA OwnerClosesDevKeeps == ASSUME PumpInv, OwnerClosesDev PROVE PumpInv'
<1>1. (T!TunTypes)' /\ WholeFrames' /\ ErrorsSeen'
      BY KeepTunnel DEF OwnerClosesDev, Happens
<1>r. /\ dev \in DevRecords /\ dev' = [dev EXCEPT !.closed = TRUE]
      /\ dev' \in DevRecords /\ dev'.q = dev.q
      BY DevSet, PumpAssumption DEF OwnerClosesDev, PumpInv, PumpTypes, DevRecords
<1>2. Numbered' /\ FaultsSeen'
      BY <1>r DEF OwnerClosesDev, Happens, PumpInv, Numbered, FaultsSeen, tunVars,
             DevRecords
<1>3. PumpTypes'
      BY <1>r, PumpAssumption DEF OwnerClosesDev, Happens, PumpInv, PumpTypes, Reasons,
             Events, Faults
<1>4. CallsOK' /\ ReturnOK'
      BY <1>r DEF OwnerClosesDev, Happens, PumpInv, PumpTypes, CallsOK, CallOK, ReturnOK,
             tunVars
<1>5. GroupCause'
      BY <1>r DEF OwnerClosesDev, Happens, PumpInv, PumpTypes, GroupCause, Causes,
             FaultsSeen, Reasons
<1>6. OverOK'
      BY <1>r DEF OwnerClosesDev, Happens, PumpInv, PumpTypes, ReturnOK, OverOK, Over,
             Orderly, Faults, gDone, tunVars, DevRecords
<1> QED BY <1>1, <1>2, <1>3, <1>4, <1>5, <1>6 DEF PumpInv

LEMMA KernelPacketKeeps ==
    ASSUME PumpInv, NEW k \in Kinds, KernelPacket(k) PROVE PumpInv'
<1>1. (T!TunTypes)' /\ WholeFrames' /\ ErrorsSeen'
      BY KeepTunnel DEF KernelPacket, Happens
<1> DEFINE n == IF k = "ip" THEN dev.arrived + 1 ELSE dev.arrived
<1>a. dev \in DevRecords /\ dev.q \in Seq(Packets) /\ dev.arrived \in 0..MaxDev
      BY DEF PumpInv, PumpTypes, DevRecords
<1>b. n \in 0..MaxDev /\ (k = "ip" => n # 0)
      BY <1>a, PumpAssumption DEF KernelPacket
<1>c. Packet(k, n) \in Packets /\ Packet(k, n).kind = k /\ Packet(k, n).id = n
      BY <1>b DEF Packet, Packets
<1>d. Append(dev.q, Packet(k, n)) \in Seq(Packets)
      BY <1>a, <1>c
<1>e. dev' = [dev EXCEPT !.q = Append(dev.q, Packet(k, n)), !.arrived = n]
      BY DEF KernelPacket
<1>f. dev' \in DevRecords
      BY <1>a, <1>b, <1>d, <1>e, DevSet
<1>g. /\ dev'.q = Append(dev.q, Packet(k, n))
      /\ dev'.failed = dev.failed /\ dev'.closed = dev.closed
      BY <1>a, <1>e DEF DevRecords
<1>h. \A i \in 1..Len(dev'.q) : \/ dev'.q[i] = Packet(k, n)
                                \/ i \in 1..Len(dev.q) /\ dev'.q[i] = dev.q[i]
      BY <1>a, <1>c, <1>g
<1> HIDE DEF n
<1>s. seen \subseteq seen' /\ (k = "notip" => "notip" \in seen')
      BY DEF KernelPacket, Happens
<1>2. Numbered'
      BY <1>b, <1>c, <1>h DEF PumpInv, Numbered
<1>7. FaultsSeen'
  <2>1. \A i \in 1..Len(dev'.q) : dev'.q[i].kind = "notip" => "notip" \in seen'
        BY <1>c, <1>h, <1>s DEF PumpInv, FaultsSeen
  <2> QED BY <1>g, <1>s, <2>1 DEF PumpInv, FaultsSeen, KernelPacket, tunVars
<1>3. PumpTypes'
      BY <1>f, PumpAssumption DEF KernelPacket, Happens, PumpInv, PumpTypes, Reasons,
         Events,
             Faults, Kinds
<1>4. CallsOK' /\ ReturnOK'
      BY <1>s DEF KernelPacket, PumpInv, PumpTypes, CallsOK, CallOK, ReturnOK, tunVars
<1>5. GroupCause'
      BY <1>s DEF KernelPacket, PumpInv, GroupCause
<1>6. OverOK'
      BY <1>s, <1>g DEF KernelPacket, PumpInv, OverOK, Over, Orderly, tunVars
<1> QED BY <1>1, <1>2, <1>3, <1>4, <1>5, <1>6, <1>7 DEF PumpInv

\* Steps in which a goroutine calls the tunnel, or takes what a call returned:
\* the stream and the other calls are as they were.
Handover(c) == /\ Others(c) /\ UNCHANGED <<closed, tx, rx>>
               /\ call'[c].n = 0 /\ call'[c].pc \in {"lock", "idle"}
               /\ seen \subseteq seen'

LEMMA HandoverKeeps ==
    ASSUME PumpInv, NEW c \in Callers, Handover(c)
    PROVE  /\ WholeFrames' /\ ErrorsSeen'
           /\ UNCHANGED dev => Numbered' /\ FaultsSeen'
<1>1. \A d \in Callers : \/ call'[d] = call[d]
                         \/ call'[d].n = 0 /\ call'[d].pc \in {"lock", "idle"}
      BY DEF Handover, Others
<1>2. "up" \in Callers /\ "down" \in Callers
      BY DEF Callers
<1>3. WholeFrames'
      BY <1>1, <1>2 DEF PumpInv, WholeFrames, Handover
<1>4. ErrorsSeen'
  <2>1. \A d \in {"up", "down"} : call'[d].pc = "ret" => call'[d] = call[d]
        BY <1>1, <1>2
  <2> QED BY <2>1 DEF PumpInv, ErrorsSeen, Handover
<1>5. UNCHANGED dev => Numbered' /\ FaultsSeen'
      BY DEF PumpInv, Numbered, FaultsSeen, Handover
<1> QED BY <1>3, <1>4, <1>5

LEMMA UpReadIPKeeps == ASSUME PumpInv, UpReadIP PROVE PumpInv'
<1>r. ReadPacket("ip") /\ up = "read" /\ Head(dev.q).id \in 1..MaxDev
      BY ReadFacts DEF UpReadIP, ReadPacket
<1> DEFINE f == T!Frame("pkt", TRUE, Head(dev.q).id)
<1>f. f \in T!AllFrames /\ f.ok /\ T!Invoke("up", "send", f)
      BY <1>r, FrameFacts DEF UpReadIP, T!SendFrame, T!Frame
<1> HIDE DEF f
<1>i. /\ Others("up") /\ UNCHANGED <<closed, tx, rx>> /\ call["up"].pc = "idle"
      /\ call'["up"].pc = "lock" /\ call'["up"].op = "send" /\ call'["up"].f = f
      /\ call'["up"].n = 0 /\ UNCHANGED seen
      BY <1>f, Invoked DEF Callers, PumpInv, UpReadIP
<1>1. (T!TunTypes)'
      BY <1>f, InvokeTypes DEF Callers, PumpInv
<1>h. Handover("up")
      BY <1>i DEF Handover
<1>2. WholeFrames' /\ ErrorsSeen'
      BY <1>h, HandoverKeeps DEF Callers
<1>7. Numbered' /\ FaultsSeen'
      BY <1>r, <1>i, ReadFacts DEF PumpInv, FaultsSeen
<1>3. PumpTypes'
      BY <1>r, ReadFacts, PumpAssumption DEF UpReadIP, PumpInv, PumpTypes
<1>4. CallsOK' /\ ReturnOK'
      BY <1>r, <1>f, <1>i DEF UpReadIP, PumpInv, PumpTypes, CallsOK, CallOK, ReturnOK,
         Others,
             Callers, Role
<1>5. GroupCause'
      BY DEF UpReadIP, PumpInv, GroupCause
<1>6. OverOK'
      BY <1>r, <1>i, ReadFacts DEF UpReadIP, PumpInv, OverOK, Over, Orderly
<1> QED BY <1>1, <1>2, <1>3, <1>4, <1>5, <1>6, <1>7 DEF PumpInv

LEMMA DownRecvKeeps == ASSUME PumpInv, DownRecv PROVE PumpInv'
<1>f. T!NoFrame \in T!AllFrames /\ T!Invoke("down", "recv", T!NoFrame)
      BY FrameFacts DEF DownRecv, T!RecvFrame
<1>i. /\ Others("down") /\ UNCHANGED <<closed, tx, rx>> /\ call["down"].pc = "idle"
      /\ call'["down"].pc = "lock" /\ call'["down"].op = "recv"
      /\ call'["down"].n = 0 /\ UNCHANGED seen
      BY <1>f, Invoked DEF Callers, PumpInv, DownRecv
<1>1. (T!TunTypes)'
      BY <1>f, InvokeTypes DEF Callers, PumpInv
<1>h. Handover("down")
      BY <1>i DEF Handover
<1>2. WholeFrames' /\ ErrorsSeen' /\ Numbered' /\ FaultsSeen'
      BY <1>h, HandoverKeeps DEF Callers, DownRecv
<1>3. PumpTypes'
      BY PumpAssumption DEF DownRecv, PumpInv, PumpTypes
<1>4. CallsOK' /\ ReturnOK'
      BY <1>i DEF DownRecv, PumpInv, PumpTypes, CallsOK, CallOK, ReturnOK, Others,
             Callers, Role
<1>5. GroupCause'
      BY DEF DownRecv, PumpInv, GroupCause
<1>6. OverOK'
      BY <1>i DEF DownRecv, PumpInv, OverOK, Over, Orderly, Others, Callers
<1> QED BY <1>1, <1>2, <1>3, <1>4, <1>5, <1>6 DEF PumpInv

LEMMA WatcherClosesKeeps == ASSUME PumpInv, WatcherCloses PROVE PumpInv'
<1> DEFINE f == T!CloseFrame(TRUE)
<1>f. f \in T!AllFrames /\ f.ok /\ f.kind = "close" /\ T!Invoke("watcher", "close", f)
      BY FrameFacts DEF WatcherCloses, T!Close, T!CloseFrame, T!Frame
<1> HIDE DEF f
<1>i. /\ Others("watcher") /\ UNCHANGED <<closed, tx, rx>> /\ call["watcher"].pc = "idle"
      /\ call'["watcher"].pc = "lock" /\ call'["watcher"].op = "close"
      /\ call'["watcher"].f = f
      /\ call'["watcher"].n = 0
      BY <1>f, Invoked DEF Callers, PumpInv
<1>1. (T!TunTypes)'
      BY <1>f, InvokeTypes DEF Callers, PumpInv
<1>s. UNCHANGED seen
      BY DEF WatcherCloses
<1>h. Handover("watcher")
      BY <1>i, <1>s DEF Handover
<1>r. /\ dev' \in DevRecords /\ dev'.q = dev.q /\ dev'.failed = dev.failed
      BY DevSet DEF WatcherCloses, PumpInv, PumpTypes, DevRecords
<1>2. WholeFrames' /\ ErrorsSeen'
      BY <1>h, HandoverKeeps DEF Callers
<1>7. Numbered' /\ FaultsSeen'
      BY <1>i, <1>r, <1>s DEF PumpInv, Numbered, FaultsSeen
<1>3. PumpTypes'
      BY <1>r, PumpAssumption DEF WatcherCloses, PumpInv, PumpTypes
<1>4. CallsOK' /\ ReturnOK'
      BY <1>f, <1>i DEF WatcherCloses, PumpInv, PumpTypes, CallsOK, CallOK, ReturnOK,
         Others,
             Callers, Role
<1>5. GroupCause'
      BY DEF WatcherCloses, PumpInv, GroupCause
<1>6. OverOK'
  <2>1. Over
        BY DEF WatcherCloses, gDone, PumpInv, PumpTypes, ReturnOK, OverOK, Over
  <2> QED BY <2>1, <1>i DEF WatcherCloses, PumpInv, OverOK, Over, Orderly, Others, Callers
<1> QED BY <1>1, <1>2, <1>3, <1>4, <1>5, <1>6, <1>7 DEF PumpInv

LEMMA OwnerClosesTunKeeps == ASSUME PumpInv, OwnerClosesTun PROVE PumpInv'
<1>f. T!CloseFrame(TRUE) \in T!AllFrames /\ T!Invoke("owner", "close", T!CloseFrame(TRUE))
      BY FrameFacts DEF OwnerClosesTun, T!Close
<1>s. seen' = seen \cup {"tunClosed"}
      BY DEF OwnerClosesTun, Happens
<1>i. /\ Others("owner") /\ UNCHANGED <<closed, tx, rx>> /\ call["owner"].pc = "idle"
      /\ call'["owner"].pc = "lock" /\ call'["owner"].op = "close"
      /\ call'["owner"].f = T!CloseFrame(TRUE)
      /\ call'["owner"].n = 0
      BY <1>f, Invoked DEF Callers, PumpInv
<1>1. (T!TunTypes)'
      BY <1>f, InvokeTypes DEF Callers, PumpInv
<1>h. Handover("owner")
      BY <1>i, <1>s DEF Handover
<1>2. WholeFrames' /\ ErrorsSeen' /\ Numbered' /\ FaultsSeen'
      BY <1>h, HandoverKeeps DEF Callers, OwnerClosesTun
<1>3. PumpTypes'
      BY <1>s, PumpAssumption DEF OwnerClosesTun, PumpInv, PumpTypes, Events, Faults
<1>4. CallsOK' /\ ReturnOK'
      BY <1>i, <1>s DEF OwnerClosesTun, PumpInv, PumpTypes, CallsOK, CallOK, ReturnOK,
         Others,
             Callers, Role, T!CloseFrame, T!Frame
<1>5. GroupCause'
      BY <1>s DEF OwnerClosesTun, PumpInv, GroupCause
<1>6. OverOK'
      BY <1>i, <1>s DEF OwnerClosesTun, PumpInv, OverOK, Over, Orderly, Faults, Others,
         Callers
<1> QED BY <1>1, <1>2, <1>3, <1>4, <1>5, <1>6 DEF PumpInv

LEMMA WatcherDoneKeeps == ASSUME PumpInv, WatcherDone PROVE PumpInv'
<1>i. /\ Others("watcher") /\ UNCHANGED <<closed, tx, rx>> /\ call["watcher"].pc = "ret"
      /\ call'["watcher"].pc = "idle" /\ call'["watcher"].n = 0 /\ UNCHANGED seen
      BY Finished DEF WatcherDone, Callers, PumpInv
<1>1. (T!TunTypes)'
      BY TunnelTypes DEF Callers, PumpInv, WatcherDone
<1>h. Handover("watcher")
      BY <1>i DEF Handover
<1>2. WholeFrames' /\ ErrorsSeen' /\ Numbered' /\ FaultsSeen'
      BY <1>h, HandoverKeeps DEF Callers, WatcherDone
<1>3. PumpTypes'
      BY PumpAssumption DEF WatcherDone, PumpInv, PumpTypes
<1>4. CallsOK' /\ ReturnOK'
      BY <1>i DEF WatcherDone, PumpInv, PumpTypes, CallsOK, CallOK, ReturnOK, Others,
         Callers
<1>5. GroupCause'
      BY DEF WatcherDone, PumpInv, GroupCause
<1>6. OverOK'
      BY <1>i DEF WatcherDone, PumpInv, OverOK, Over, Orderly, Others, Callers
<1> QED BY <1>1, <1>2, <1>3, <1>4, <1>5, <1>6 DEF PumpInv

LEMMA OwnerClosedKeeps == ASSUME PumpInv, OwnerClosed PROVE PumpInv'
<1>i. /\ Others("owner") /\ UNCHANGED <<closed, tx, rx>> /\ call["owner"].pc = "ret"
      /\ call'["owner"].pc = "idle" /\ call'["owner"].n = 0 /\ UNCHANGED pumpVars
      BY Finished DEF OwnerClosed, Callers, PumpInv
<1>1. (T!TunTypes)'
      BY TunnelTypes DEF Callers, PumpInv, OwnerClosed
<1>h. Handover("owner")
      BY <1>i DEF Handover, pumpVars
<1>2. WholeFrames' /\ ErrorsSeen' /\ Numbered' /\ FaultsSeen'
      BY <1>h, <1>i, HandoverKeeps DEF Callers, pumpVars
<1>3. PumpTypes'
      BY <1>i, PumpAssumption DEF PumpInv, PumpTypes, pumpVars
<1>4. CallsOK' /\ ReturnOK'
      BY <1>i DEF PumpInv, PumpTypes, CallsOK, CallOK, ReturnOK, Others, Callers, pumpVars
<1>5. GroupCause'
      BY <1>i DEF PumpInv, GroupCause, pumpVars
<1>6. OverOK'
      BY <1>i DEF PumpInv, OverOK, Over, Orderly, Others, Callers, pumpVars
<1> QED BY <1>1, <1>2, <1>3, <1>4, <1>5, <1>6 DEF PumpInv

LEMMA UpSentKeeps == ASSUME PumpInv, UpSent PROVE PumpInv'
<1>i. /\ Others("up") /\ UNCHANGED <<closed, tx, rx>> /\ call["up"].pc = "ret"
      /\ call'["up"].pc = "idle" /\ call'["up"].n = 0 /\ UNCHANGED seen
      BY Finished DEF UpSent, Callers, PumpInv
<1>t. call["up"].res \in {"nil", "ErrClosed", "EOF", "err"}
      BY DEF PumpInv, T!TunTypes, T!CallRecords, Callers
<1>1. (T!TunTypes)'
      BY TunnelTypes DEF Callers, PumpInv, UpSent
<1>h. Handover("up")
      BY <1>i DEF Handover
<1>2. WholeFrames' /\ ErrorsSeen' /\ Numbered' /\ FaultsSeen'
      BY <1>h, HandoverKeeps DEF Callers, UpSent
<1>3. PumpTypes'
      BY PumpAssumption DEF UpSent, UpReturns, Failed, PumpInv, PumpTypes, Reasons
<1>4. CallsOK' /\ ReturnOK'
      BY <1>i DEF UpSent, UpReturns, Failed, PumpInv, PumpTypes, CallsOK, CallOK, ReturnOK,
             Others, Callers
<1>5. GroupCause'
      BY <1>i, <1>t DEF UpSent, UpReturns, Failed, PumpInv, GroupCause, ErrorsSeen, Causes
<1>6. OverOK'
      BY <1>i, <1>t DEF UpSent, UpReturns, Failed, PumpInv, OverOK, Over, Orderly, Others,
         Callers
<1> QED BY <1>1, <1>2, <1>3, <1>4, <1>5, <1>6 DEF PumpInv

LEMMA DownRecvdKeeps == ASSUME PumpInv, DownRecvd PROVE PumpInv'
<1>i. /\ Others("down") /\ UNCHANGED <<closed, tx, rx>> /\ call["down"].pc = "ret"
      /\ call'["down"].pc = "idle" /\ call'["down"].n = 0 /\ UNCHANGED seen
      BY Finished DEF DownRecvd, Callers, PumpInv
<1>t. /\ call["down"].res \in {"nil", "ErrClosed", "EOF", "err"}
      /\ call["down"].f \in T!AllFrames
      BY DEF PumpInv, T!TunTypes, T!CallRecords, Callers
<1>f. /\ call["down"].f.id \in 0..MaxDev
      /\ call["down"].f.kind = "pkt" => call["down"].f.id # 0
      BY <1>t, FrameFacts
<1>1. (T!TunTypes)'
      BY TunnelTypes DEF Callers, PumpInv, DownRecvd
<1>h. Handover("down")
      BY <1>i DEF Handover
<1>2. WholeFrames' /\ ErrorsSeen' /\ Numbered' /\ FaultsSeen'
      BY <1>h, HandoverKeeps DEF Callers, DownRecvd
<1>c. \/ DownReturns("nil")
      \/ call["down"].res = "err" /\ DownReturns("recv_frame_failed")
      \/ /\ call["down"].f.kind = "pkt"
         /\ down' = [pc |-> "write", id |-> call["down"].f.id] /\ UNCHANGED gErr
      \/ down' = [down EXCEPT !.pc = "top"] /\ UNCHANGED gErr
      BY DEF DownRecvd
<1>d. down.pc = "recv" /\ UNCHANGED <<run, ctx, watcher, up, dev, seen>>
      BY DEF DownRecvd
<1>3. PumpTypes'
      BY <1>c, <1>d, <1>f, PumpAssumption DEF DownReturns, Failed, PumpInv, PumpTypes,
         Reasons
<1>4. CallsOK' /\ ReturnOK'
      BY <1>i, <1>c, <1>d DEF DownReturns, Failed, PumpInv, PumpTypes, CallsOK, CallOK,
         ReturnOK,
             Others, Callers
<1>5. GroupCause'
      BY <1>i, <1>c, <1>d DEF DownReturns, Failed, PumpInv, GroupCause, ErrorsSeen, Causes
<1>6. OverOK'
      BY <1>i, <1>c, <1>d DEF DownReturns, Failed, PumpInv, OverOK, Over, Orderly, Others,
         Callers
<1> QED BY <1>1, <1>2, <1>3, <1>4, <1>5, <1>6 DEF PumpInv

LEMMA TunnelStepKeeps ==
    ASSUME PumpInv, NEW c \in Callers, TunnelStep(c) PROVE PumpInv'
<1>s. /\ Others(c) /\ call'[c].op = call[c].op
      /\ Entered(c) \/ TurnedAway(c) \/ Wrote(c) \/ Broke(c) \/ Took(c) \/ Ended(c)
      BY CallStep DEF PumpInv, TunnelStep
<1>p. UNCHANGED pumpVars
      BY DEF TunnelStep
<1>1. (T!TunTypes)'
      BY TunnelTypes DEF PumpInv, TunnelStep
<1>t. /\ call[c] \in T!CallRecords /\ call'[c] \in T!CallRecords
      /\ rx.q \in Seq([f : T!AllFrames, i : 1..Pieces])
      BY <1>1 DEF PumpInv, T!TunTypes, T!StreamHalf
<1>a. /\ CallOK(c) /\ (c = "down" <=> Role[c] = "recv") /\ (c = "up" <=> Role[c] = "send")
      /\ c \in {"up", "down", "watcher", "owner"}
      BY DEF PumpInv, CallsOK, Callers, Role
<1>b. call[c].pc # "idle" /\ call'[c].pc # "idle" /\ call[c].op = Role[c]
      BY <1>s, <1>a DEF CallOK, Entered, TurnedAway, Wrote, Broke, Took, Ended
<1>2. PumpTypes' /\ Numbered'
      BY <1>p DEF PumpInv, PumpTypes, Numbered, pumpVars
<1>3. CallsOK'
  <2>1. CallOK(c)'
        BY <1>s, <1>a, <1>b DEF CallOK, Entered, TurnedAway, Wrote, Broke, Took, Ended
  <2>2. \A d \in Callers \ {c} : CallOK(d)'
        BY <1>s DEF PumpInv, CallsOK, CallOK, Others
  <2> QED BY <1>s, <1>b, <1>p, <2>1, <2>2 DEF PumpInv, CallsOK, Others, Callers, pumpVars
<1>4. ReturnOK' /\ GroupCause'
      BY <1>p DEF PumpInv, ReturnOK, GroupCause, pumpVars
<1>w. WholeFrames' /\ FaultsSeen'
  <2>d. c # "down" => call'["down"] = call["down"]
        BY <1>s DEF Others, Callers
  <2>1. CASE UNCHANGED rx /\ (c = "down" => call'[c].n = call[c].n \/ call'[c].n = 0)
    <3>1. WholeFrames'
          BY <1>p, <2>1, <2>d DEF PumpInv, WholeFrames, pumpVars
    <3>2. tx'.end = tx.end
          BY <1>s DEF Entered, TurnedAway, Wrote, Broke, Took, Ended
    <3> QED BY <1>p, <2>1, <3>1, <3>2 DEF PumpInv, FaultsSeen, pumpVars
  <2>2. CASE Took(c)
    <3>1. c = "down" /\ tx' = tx /\ rx'.end = rx.end /\ rx'.q = Tail(rx.q) /\ rx.q # <<>>
          BY <2>2, <1>a, <1>b DEF CallOK, Took
    <3>2. /\ Head(rx.q) = rx.q[1] /\ Len(rx'.q) = Len(rx.q) - 1 /\ Len(rx.q) \in Nat
          /\ \A i \in 1..Len(rx'.q) : i + 1 \in 1..Len(rx.q) /\ rx'.q[i] = rx.q[i + 1]
          /\ rx'.q \in Seq([f : T!AllFrames, i : 1..Pieces])
          BY <1>t, <3>1, SeqFacts
    <3>3. FaultsSeen'
          BY <1>p, <3>1, <3>2 DEF PumpInv, FaultsSeen, pumpVars
    <3>4. CASE rx'.q = <<>>
      <4>1. Len(rx.q) = 1
            BY <3>2, <3>4
      <4>2. "rxTorn" \notin seen => Head(rx.q).i = Pieces
            BY <3>1, <3>2, <4>1 DEF PumpInv, WholeFrames
      <4> QED BY <1>p, <2>2, <3>1, <3>3, <3>4, <4>2 DEF Took, WholeFrames, pumpVars
    <3>5. CASE rx'.q # <<>>
      <4>1. Len(rx'.q) \in 1..Len(rx'.q)
            BY <3>2, <3>5
      <4>2. rx'.q[Len(rx'.q)] = rx.q[Len(rx.q)]
            BY <3>2, <4>1
      <4> QED BY <1>p, <3>1, <3>3, <3>5, <4>2 DEF PumpInv, WholeFrames, pumpVars
    <3> QED BY <3>4, <3>5
  <2> QED BY <1>s, <1>a, <1>b, <2>1, <2>2 DEF CallOK, Entered, TurnedAway, Wrote, Broke,
             Ended
<1>5. ErrorsSeen'
  <2>1. CASE c = "up"
    <3>1. /\ call'["up"].pc = "ret" /\ call'["up"].res = "err" => "txErr" \in seen
          /\ call'["up"].pc = "ret" /\ call'["up"].res = "EOF" => "txEOF" \in seen
      <4>1. tx.end \in {"open", "eof", "err"}
            BY DEF PumpInv, T!TunTypes, T!StreamHalf
      <4> QED BY <1>s, <1>a, <1>b, <2>1, <4>1 DEF CallOK, Entered, TurnedAway, Wrote, Broke,
                 Took,
                 Ended, PumpInv, FaultsSeen
    <3> QED BY <1>s, <1>p, <2>1, <3>1 DEF PumpInv, ErrorsSeen, Others, Callers, pumpVars
  <2>2. CASE c = "down"
    <3>1. call'["down"].pc = "ret" /\ call'["down"].res = "err" =>
             {"badFrame", "rxErr", "rxTorn"} \cap seen # {}
      <4>1. rx.end \in {"open", "eof", "err"}
            BY DEF PumpInv, T!TunTypes, T!StreamHalf
      <4>2. CASE Took(c)
        <5>1. rx.q # <<>> /\ Head(rx.q) = rx.q[1] /\ 1 \in 1..Len(rx.q)
              BY <1>t, <4>2, SeqFacts DEF Took
        <5> QED BY <2>2, <4>2, <5>1 DEF Took, PumpInv, FaultsSeen
      <4>3. CASE Ended(c)
            BY <2>2, <4>1, <4>3 DEF Ended, PumpInv, FaultsSeen, WholeFrames
      <4> QED BY <1>s, <1>a, <1>b, <2>2, <4>2, <4>3 DEF CallOK, Entered, TurnedAway, Wrote,
                 Broke
    <3> QED BY <1>s, <1>p, <2>2, <3>1 DEF PumpInv, ErrorsSeen, Others, Callers, pumpVars
  <2>3. CASE c \notin {"up", "down"}
        BY <1>s, <1>p, <2>3 DEF PumpInv, ErrorsSeen, Others, Callers, pumpVars
  <2> QED BY <2>1, <2>2, <2>3
<1>6. OverOK'
  <2>1. Over' = Over /\ Orderly' = Orderly
        BY <1>p DEF Over, Orderly, pumpVars
  <2>2. /\ c = "watcher" => Over
        /\ c = "owner" => Over
        BY <1>b DEF PumpInv, CallsOK, OverOK, Over, Orderly, Faults
  <2>u. c # "up" => call'["up"] = call["up"]
        BY <1>s DEF Others, Callers
  <2>3. closed' => Over \/ (call'["up"].pc = "ret" /\ call'["up"].res = "err")
    <3>1. CASE closed /\ c # "up"
          BY <3>1, <2>u DEF PumpInv, OverOK
    <3>2. CASE closed /\ c = "up"
          BY <3>2, <1>s DEF PumpInv, OverOK, Entered, TurnedAway, Wrote, Broke, Took, Ended
    <3>3. CASE ~closed
      <4>1. CASE c = "up"
        <5>1. CASE Broke(c)
              BY <1>a, <1>b, <4>1, <5>1 DEF CallOK, PumpInv, FaultsSeen, Over, Orderly,
                 Faults, Broke
        <5>2. CASE ~Broke(c)
          <6>1. ~closed'
                BY <1>s, <1>a, <1>b, <3>3, <4>1, <5>2 DEF Entered, TurnedAway, Wrote, Took,
                   Ended
          <6> QED BY <6>1
        <5> QED BY <5>1, <5>2
      <4>2. CASE c = "down"
            BY <1>s, <1>a, <1>b, <3>3, <4>2 DEF CallOK, 
               Entered, TurnedAway, Wrote, Broke, Took, Ended
      <4> QED BY <1>a, <2>2, <4>1, <4>2
    <3> QED BY <3>1, <3>2, <3>3
  <2>4. call'["up"].pc = "ret" /\ call'["up"].res \in {"ErrClosed", "EOF"} => Over
    <3>1. CASE c # "up"
          BY <3>1, <2>u DEF PumpInv, OverOK
    <3>2. CASE c = "up"
          BY <1>s, <1>a, <1>b, <3>2 DEF CallOK, PumpInv, OverOK, FaultsSeen, Over, Orderly,
             Faults,
               Entered, TurnedAway, Wrote, Broke, Took, Ended
    <3> QED BY <3>1, <3>2
  <2> QED BY <1>p, <2>1, <2>3, <2>4 DEF PumpInv, OverOK, pumpVars
<1> QED BY <1>1, <1>2, <1>3, <1>4, <1>5, <1>6, <1>w DEF PumpInv

\* Steps of the stream's other end: calls and goroutines are as they were.
Remote == /\ UNCHANGED <<run, ctx, gErr, watcher, up, down, dev, closed, call>>
          /\ seen \subseteq seen' /\ seen' \subseteq Events

LEMMA RemoteKeeps ==
    ASSUME PumpInv, Remote
    PROVE  /\ PumpTypes' /\ Numbered' /\ CallsOK' /\ ReturnOK'
           /\ ErrorsSeen' /\ GroupCause' /\ OverOK'
<1>1. PumpTypes' /\ Numbered'
      BY DEF Remote, PumpInv, PumpTypes, Numbered
<1>2. CallsOK' /\ ReturnOK' /\ ErrorsSeen'
      BY DEF Remote, PumpInv, CallsOK, CallOK, ReturnOK, ErrorsSeen
<1>3. GroupCause'
      BY DEF Remote, PumpInv, GroupCause
<1>4. OverOK'
      BY DEF Remote, PumpInv, OverOK, Over, Orderly
<1> QED BY <1>1, <1>2, <1>3, <1>4

LEMMA ConcatFacts ==
    ASSUME NEW S, NEW q \in Seq(S), NEW r \in Seq(S)
    PROVE  /\ Len(q \o r) = Len(q) + Len(r) /\ Len(q) \in Nat
           /\ \A i \in 1..Len(q \o r) :
                IF i <= Len(q) THEN (q \o r)[i] = q[i]
                ELSE i - Len(q) \in 1..Len(r) /\ (q \o r)[i] = r[i - Len(q)]
OBVIOUS

LEMMA PeerReadsKeeps == ASSUME PumpInv, PeerReads PROVE PumpInv'
<1>1. Remote
      BY DEF PeerReads, pumpVars, Remote, PumpInv, PumpTypes
<1>2. tx \in T!StreamHalf /\ Tail(tx.q) \in Seq([f : T!AllFrames, i : 1..Pieces])
      BY DEF PeerReads, PumpInv, T!TunTypes, T!StreamHalf
<1>3. tx' \in T!StreamHalf /\ tx'.end = tx.end
      BY <1>2 DEF PeerReads, T!StreamHalf
<1>4. (T!TunTypes)'
      BY <1>3 DEF PeerReads, PumpInv, T!TunTypes
<1>5. FaultsSeen' /\ WholeFrames'
      BY <1>3 DEF PeerReads, pumpVars, PumpInv, FaultsSeen, WholeFrames
<1> QED BY <1>1, <1>4, <1>5, RemoteKeeps DEF PumpInv

LEMMA PeerHangsUpKeeps == ASSUME PumpInv, PeerHangsUp PROVE PumpInv'
<1>1. Remote
      BY DEF PeerHangsUp, T!RxEnds, pumpVars, Remote, PumpInv, PumpTypes
<1>2. rx'.q = rx.q /\ rx'.end = "eof"
      BY DEF PeerHangsUp, T!RxEnds, PumpInv, T!TunTypes, T!StreamHalf
<1>4. (T!TunTypes)'
      BY StreamTypes DEF PeerHangsUp, PumpInv, T!Inbound
<1>5. FaultsSeen' /\ WholeFrames'
      BY <1>2 DEF PeerHangsUp, T!RxEnds, pumpVars, PumpInv, FaultsSeen, WholeFrames
<1> QED BY <1>1, <1>4, <1>5, RemoteKeeps DEF PumpInv

LEMMA PeerNextKeeps == ASSUME PumpInv, PeerNext PROVE PumpInv'
<1>c. T!CloseFrame(TRUE) \in T!Inbound
      BY DEF T!Inbound
<1>t. /\ rx \in T!StreamHalf /\ tx \in T!StreamHalf
      /\ rx.q \in Seq([f : T!AllFrames, i : 1..Pieces])
      BY DEF PumpInv, T!TunTypes, T!StreamHalf
<1>u. /\ UNCHANGED <<run, ctx, gErr, watcher, up, down, dev>>
      BY DEF PeerNext
<1>e. ASSUME NEW e \in Events, Happens(e) \/ UNCHANGED seen, UNCHANGED <<closed, call>>
      PROVE  Remote
      BY <1>e, <1>u DEF Happens, Remote, PumpInv, PumpTypes
<1>1. ASSUME NEW f \in T!Inbound, T!RxFrame(f),
             IF f.kind = "bad" THEN Happens("badFrame") ELSE UNCHANGED seen
      PROVE  PumpInv'
  <2>1. (T!TunTypes)'
        BY <1>1, StreamTypes DEF PumpInv
  <2>2. Remote
        BY <1>1, <1>e DEF T!RxFrame, Events, Faults
  <2> DEFINE w == [i \in 1..Pieces |-> T!Piece(f, i)]
  <2>3. /\ rx'.q = rx.q \o w /\ rx'.end = rx.end
        BY <1>1, <1>t DEF T!RxFrame, T!StreamHalf
  <2>p. w \in Seq([f : T!AllFrames, i : 1..Pieces]) /\ Len(w) = Pieces
    <3>1. \A i \in 1..Pieces : T!Piece(f, i) \in [f : T!AllFrames, i : 1..Pieces]
          BY FrameFacts DEF T!Piece
    <3> QED BY <3>1, PumpAssumption
  <2>w. \A i \in 1..Pieces : w[i].f = f /\ w[i].i = i
        BY DEF T!Piece
  <2> HIDE DEF w
  <2>4. /\ Len(rx'.q) = Len(rx.q) + Pieces /\ Len(rx.q) \in Nat
        /\ \A i \in 1..Len(rx'.q) :
             IF i <= Len(rx.q) THEN rx'.q[i] = rx.q[i]
             ELSE i - Len(rx.q) \in 1..Pieces /\ rx'.q[i] = w[i - Len(rx.q)]
    <3> DEFINE S == [f : T!AllFrames, i : 1..Pieces]
    <3>1. rx.q \in Seq(S) /\ w \in Seq(S)
          BY <1>t, <2>p
    <3> HIDE DEF S
    <3>2. /\ Len(rx.q \o w) = Len(rx.q) + Len(w) /\ Len(rx.q) \in Nat
          /\ \A i \in 1..Len(rx.q \o w) :
               IF i <= Len(rx.q) THEN (rx.q \o w)[i] = rx.q[i]
               ELSE i - Len(rx.q) \in 1..Len(w) /\ (rx.q \o w)[i] = w[i - Len(rx.q)]
          BY <3>1, ConcatFacts
    <3> QED BY <2>3, <2>p, <3>2
  <2>5. rx'.q # <<>> /\ rx'.q[Len(rx'.q)].i = Pieces
    <3>1. /\ Len(rx'.q) \in 1..Len(rx'.q) /\ ~(Len(rx'.q) <= Len(rx.q))
          /\ Len(rx'.q) - Len(rx.q) = Pieces
          BY <2>4, PumpAssumption
    <3>2. rx'.q[Len(rx'.q)] = w[Pieces] /\ Pieces \in 1..Pieces
          BY <2>4, <3>1, PumpAssumption
    <3>3. rx'.q # <<>>
          BY <3>1
    <3> QED BY <2>w, <3>2, <3>3
  <2>6. WholeFrames'
        BY <2>5 DEF WholeFrames
  <2>7. \A i \in 1..Len(rx'.q) :
           rx'.q[i].f.kind = "bad" => {"badFrame", "rxTorn"} \cap seen' # {}
    <3> SUFFICES ASSUME NEW i \in 1..Len(rx'.q), rx'.q[i].f.kind = "bad"
                 PROVE  {"badFrame", "rxTorn"} \cap seen' # {}
        OBVIOUS
    <3>1. CASE i <= Len(rx.q)
          BY <2>2, <2>4, <3>1 DEF Remote, PumpInv, FaultsSeen
    <3>2. CASE ~(i <= Len(rx.q))
          BY <1>1, <2>4, <2>w, <3>2 DEF Happens
    <3> QED BY <3>1, <3>2
  <2>8. FaultsSeen'
        BY <1>1, <2>2, <2>3, <2>7 DEF T!RxFrame, Remote, PumpInv, FaultsSeen
  <2> QED BY <2>1, <2>2, <2>6, <2>8, RemoteKeeps DEF PumpInv
<1>2. ASSUME NEW e \in {"eof", "err"}, NEW h \in {"rxEOF", "rxErr"},
             T!RxEnds(e), Happens(h), e = "err" => h = "rxErr"
      PROVE  PumpInv'
  <2>1. (T!TunTypes)'
        BY <1>2, <1>c, StreamTypes DEF PumpInv
  <2>2. Remote
        BY <1>2, <1>e DEF T!RxEnds, Events, Faults
  <2>3. rx'.q = rx.q /\ rx'.end = e
        BY <1>2, <1>t DEF T!RxEnds, T!StreamHalf
  <2>4. FaultsSeen' /\ WholeFrames'
        BY <1>2, <2>2, <2>3 DEF T!RxEnds, Remote, PumpInv, FaultsSeen, WholeFrames, Happens
  <2> QED BY <2>1, <2>2, <2>4, RemoteKeeps DEF PumpInv
<1>3. ASSUME NEW e \in {"eof", "err"}, NEW h \in {"txEOF", "txErr"},
             T!TxEnds(e), Happens(h), e = "err" <=> h = "txErr"
      PROVE  PumpInv'
  <2>1. (T!TunTypes)'
        BY <1>3, <1>c, StreamTypes DEF PumpInv
  <2>2. Remote
        BY <1>3, <1>e DEF T!TxEnds, Events, Faults
  <2>3. tx'.end = e
        BY <1>3, <1>t DEF T!TxEnds, T!StreamHalf
  <2>4. FaultsSeen' /\ WholeFrames'
        BY <1>3, <2>2, <2>3 DEF T!TxEnds, Remote, PumpInv, FaultsSeen, WholeFrames, Happens
  <2> QED BY <2>1, <2>2, <2>4, RemoteKeeps DEF PumpInv
<1>4. ASSUME NEW f \in T!Inbound, NEW e \in {"eof", "err"}, T!RxTorn(f, e), Happens("rxTorn")
      PROVE  PumpInv'
  <2>1. (T!TunTypes)'
        BY <1>4, StreamTypes DEF PumpInv
  <2>2. Remote
        BY <1>4, <1>e DEF T!RxTorn, Events, Faults
  <2>3. "rxTorn" \in seen'
        BY <1>4 DEF Happens
  <2>4. FaultsSeen' /\ WholeFrames'
        BY <1>4, <2>2, <2>3 DEF T!RxTorn, Remote, PumpInv, FaultsSeen, WholeFrames
  <2> QED BY <2>1, <2>2, <2>4, RemoteKeeps DEF PumpInv
<1> QED BY <1>1, <1>2, <1>3, <1>4 DEF PeerNext

LEMMA Initially == Init => PumpInv
<1> SUFFICES ASSUME Init PROVE PumpInv
    OBVIOUS
<1>1. T!TunTypes
      BY TunnelConstants, TP!InitType, SameTunnel DEF Init
<1>c. /\ \A c \in Callers : call[c] = T!NoCall
      /\ tx = T!OpenStream /\ rx = T!OpenStream /\ closed = FALSE
      BY DEF Init, T!TunInit
<1>d. dev \in DevRecords /\ dev.q = <<>>
  <2>1. 0 \in 0..MaxDev /\ <<>> \in Seq(Packets)
        BY PumpAssumption
  <2> QED BY <2>1 DEF Init, DevRecords
<1>2. PumpTypes /\ Numbered
  <2>1. 0 \in 0..MaxDev
        BY PumpAssumption
  <2>2. /\ run \in [pc : {"start", "refused", "wait", "returned"}, res : Reasons]
        /\ down \in [pc : {"none", "top", "recv", "write", "writing", "done"}, id : 0..MaxDev]
        /\ ~(down.pc \in {"write", "writing"}) /\ down.id = 0
        BY <2>1 DEF Init, Reasons
  <2>3. Numbered
        BY <1>d DEF Numbered
  <2> QED BY <1>d, <2>2, <2>3 DEF Init, PumpTypes, Reasons
<1>3. CallsOK /\ ReturnOK
      BY <1>c DEF Init, CallsOK, CallOK, ReturnOK, Callers, T!NoCall
<1>4. FaultsSeen /\ WholeFrames /\ ErrorsSeen
      BY <1>c DEF Init, FaultsSeen, WholeFrames, ErrorsSeen, Callers, T!NoCall, T!OpenStream
<1>5. GroupCause /\ OverOK
      BY <1>c DEF Init, GroupCause, OverOK, Callers, T!NoCall
<1> QED BY <1>1, <1>2, <1>3, <1>4, <1>5 DEF PumpInv

LEMMA StutterKeeps == ASSUME PumpInv, UNCHANGED vars PROVE PumpInv'
<1>1. UNCHANGED <<pumpVars, tunVars>>
      BY DEF vars
<1>2. Remote /\ UNCHANGED <<mu, tx, rx, seen>>
      BY <1>1 DEF pumpVars, tunVars, Remote, PumpInv, PumpTypes
<1>3. (T!TunTypes)' /\ FaultsSeen' /\ WholeFrames'
      BY <1>2 DEF Remote, PumpInv, T!TunTypes, FaultsSeen, WholeFrames
<1> QED BY <1>2, <1>3, RemoteKeeps DEF PumpInv

LEMMA PumpStep == PumpInv /\ [Next]_vars => PumpInv'
<1> SUFFICES ASSUME PumpInv, [Next]_vars PROVE PumpInv'
    OBVIOUS
<1>1. CASE RunNext
      BY <1>1, RunNilKeeps, RunNoMTUKeeps, RunStartKeeps, RunWaitKeeps DEF RunNext
<1>2. CASE WatcherNext
      BY <1>2, WatcherClosesKeeps, WatcherDoneKeeps, TunnelStepKeeps DEF WatcherNext,
         Callers
<1>3. CASE UpNext
      BY <1>3, UpTopKeeps, UpReadEmptyKeeps, UpReadIPKeeps, UpReadNotIPKeeps,
         UpReadFailsKeeps,
         UpSentKeeps, TunnelStepKeeps DEF UpNext, Callers
<1>4. CASE DownNext
      BY <1>4, DownStopKeeps, DownRecvKeeps, DownRecvdKeeps, DownWriteKeeps,
         DownWrittenKeeps,
         DownWriteFailsKeeps, TunnelStepKeeps DEF DownNext, Callers
<1>5. CASE OwnerNext
      BY <1>5, OwnerClosesDevKeeps, OwnerClosesTunKeeps, OwnerClosedKeeps, TunnelStepKeeps
      DEF OwnerNext, Callers
<1>6. CASE KernelNext
      BY <1>6, DeviceFailsKeeps, KernelPacketKeeps DEF KernelNext
<1>7. CASE PeerReads \/ PeerNext \/ PeerHangsUp \/ Cancel
      BY <1>7, PeerReadsKeeps, PeerNextKeeps, PeerHangsUpKeeps, CancelKeeps
<1>8. CASE UNCHANGED vars
      BY <1>8, StutterKeeps
<1> QED BY <1>1, <1>2, <1>3, <1>4, <1>5, <1>6, <1>7, <1>8 DEF Next

LEMMA PumpInvariance == Spec => []PumpInv
BY Initially, PumpStep, PTL DEF Spec

-----------------------------------------------------------------------------
(* Theorems *)

\* Type correctness of Run, its goroutines, its device and its tunnel, for any
\* bounds and either error of a closed device.
THEOREM PumpTypeCorrect == Spec => []TypeOK
<1>1. PumpInv => TypeOK
      BY DEF PumpInv, PumpTypes, DevRecords, TypeOK
<1> QED BY <1>1, PumpInvariance, PTL

\* Run's nil is honest: whatever fails, in whatever order with the teardown it
\* causes, Run returns nil only if somebody ended the session in an orderly way.
THEOREM NilIsGraceful == Spec => []NilMeansGraceful
<1>1. PumpInv => NilMeansGraceful
      BY DEF PumpInv, ReturnOK, OverOK, Over, Orderly, NilMeansGraceful
<1> QED BY <1>1, PumpInvariance, PTL

\* Run's error is honest, with a device that reports its close as the contract
\* says: the error names a fault that did happen, and is never the teardown's.
THEOREM ErrorsHaveCauses ==
    ASSUME CloseError = "ErrClosed" PROVE Spec => []CauseNamed
<1>1. PumpInv => CauseNamed
      BY DEF PumpInv, ReturnOK, GroupCause, CauseNamed
<1> QED BY <1>1, PumpInvariance, PTL

\* With such a device Run returns nil whenever nothing failed, as the contract
\* of Pump promises (Pump.go:52-57).
THEOREM GracefulEndsAreNil ==
    ASSUME CloseError = "ErrClosed" PROVE Spec => []GracefulIsNil
<1>1. PumpInv => GracefulIsNil
  <2> SUFFICES ASSUME PumpInv, run.pc = "returned", seen \cap Faults = {}, run.res # "nil"
               PROVE  FALSE
      BY DEF GracefulIsNil
  <2>1. Causes[run.res] \cap seen # {} /\ run.res \in Reasons
        BY DEF PumpInv, PumpTypes, ReturnOK, GroupCause
  <2>2. Causes[run.res] \subseteq Faults
        BY <2>1 DEF Causes, Reasons, Faults
  <2> QED BY <2>1, <2>2
<1> QED BY <1>1, PumpInvariance, PTL

LEMMA QuietStep ==
    ASSUME PumpInv, run.pc = "returned", Next
    PROVE  /\ dev'.wrote = dev.wrote
           /\ Len(tx'.q) > Len(tx.q) => tx'.q[Len(tx'.q)].f.kind = "close"
<1>1. up = "done" /\ down.pc = "done" /\ call["up"].pc = "idle" /\ call["down"].pc = "idle"
      BY DEF PumpInv, ReturnOK, CallsOK
<1>t. /\ dev \in DevRecords /\ tx \in T!StreamHalf
      /\ tx.q \in Seq([f : T!AllFrames, i : 1..Pieces])
      BY DEF PumpInv, PumpTypes, T!TunTypes, T!StreamHalf
<1>2. dev'.wrote = dev.wrote
      BY <1>1, <1>t DEF Next, RunNext, RunNil, RunNoMTU, RunStart, RunWait, WatcherNext,
         WatcherCloses, WatcherDone, TunnelStep, UpNext, UpTop, UpReadEmpty, UpReadIP,
         UpReadNotIP,
         UpReadFails, UpSent, ReadPacket, DownNext, DownStop, DownRecv, DownRecvd,
         DownWrite, DownWritten,
         DownWriteFails, OwnerNext, OwnerClosesDev, OwnerClosesTun, OwnerClosed, KernelNext,
         DeviceFails, KernelPacket, PeerReads, PeerNext, PeerHangsUp, Cancel, pumpVars,
         DevRecords
<1>3. CASE \E c \in Callers : TunnelStep(c)
  <2>1. PICK c \in Callers : T!TunStep(c)
        BY <1>3 DEF TunnelStep
  <2>2. /\ Entered(c) \/ TurnedAway(c) \/ Wrote(c) \/ Broke(c) \/ Took(c) \/ Ended(c)
        /\ CallOK(c)
        BY <2>1, CallStep DEF PumpInv, CallsOK
  <2>3. CASE Wrote(c)
    <3>1. c \in {"watcher", "owner"}
          BY <1>1, <2>3 DEF Wrote, Callers
    <3>2. call[c].f.kind = "close" /\ call[c].f \in T!AllFrames
          BY <2>2, <2>3, <3>1 DEF CallOK, Wrote, Role, PumpInv, T!TunTypes, T!CallRecords
    <3>3. tx'.q[Len(tx'.q)] = T!Piece(call[c].f, call[c].n + 1)
          BY <1>t, <2>3 DEF Wrote
    <3> QED BY <1>2, <3>2, <3>3 DEF T!Piece
  <2>4. CASE ~Wrote(c)
    <3>1. tx' = tx
          BY <2>2, <2>4 DEF Entered, TurnedAway, Broke, Took, Ended
    <3> QED BY <1>2, <1>t, <3>1
  <2> QED BY <2>3, <2>4
<1>4. CASE PeerReads
  <2>1. tx'.q = Tail(tx.q) /\ tx.q # <<>>
        BY <1>4, <1>t DEF PeerReads, T!StreamHalf
  <2> QED BY <1>2, <1>t, <2>1
<1>5. CASE ~PeerReads /\ ~(\E c \in Callers : TunnelStep(c))
  <2>1. tx'.q = tx.q
    <3>1. CASE \/ RunNext \/ UpTop \/ UpReadEmpty \/ UpReadNotIP \/ UpReadFails \/ DownStop
               \/ DownWrite \/ DownWritten \/ DownWriteFails
               \/ OwnerClosesDev \/ KernelNext \/ Cancel
          BY <3>1 DEF RunNext, RunNil, RunNoMTU, RunStart, RunWait, UpTop, UpReadEmpty,
             UpReadNotIP,
             UpReadFails, DownStop, DownWrite, DownWritten, DownWriteFails, OwnerClosesDev,
             KernelNext, DeviceFails, KernelPacket, Cancel, tunVars
    <3>2. CASE WatcherCloses \/ WatcherDone \/ UpReadIP \/ UpSent \/ DownRecv \/ DownRecvd
               \/ OwnerClosesTun \/ OwnerClosed
          BY <3>2 DEF WatcherCloses, WatcherDone, UpReadIP, UpSent, DownRecv, DownRecvd,
             OwnerClosesTun, OwnerClosed, T!Close, T!SendFrame, T!RecvFrame, T!Invoke,
             T!Return
    <3>3. CASE PeerNext \/ PeerHangsUp
          BY <1>t, <3>3 DEF PeerNext, PeerHangsUp, T!RxFrame, T!RxEnds, T!TxEnds, T!RxTorn,
             T!StreamHalf
    <3> QED BY <1>5, <3>1, <3>2, <3>3 DEF Next, WatcherNext, UpNext, DownNext, OwnerNext,
               Callers
  <2> QED BY <1>2, <1>t, <2>1
<1> QED BY <1>3, <1>4, <1>5

\* After Run has returned nothing is written to the device, and nothing but a
\* Close frame goes out on the stream.
THEOREM QuietOnceReturned == Spec => QuietAfterReturn
<1>1. PumpInv /\ [Next]_vars =>
        [run.pc = "returned" =>
            /\ dev'.wrote = dev.wrote
            /\ Len(tx'.q) > Len(tx.q) => tx'.q[Len(tx'.q)].f.kind = "close"]_vars
      BY QuietStep
<1> QED BY <1>1, PumpInvariance, PTL DEF Spec, QuietAfterReturn

-----------------------------------------------------------------------------
(* One end of a session *)

\* What a Run does in a session whose owners only cancel.
Goes == \/ RunStart \/ RunWait \/ Cancel \/ KernelPacket("ip")
        \/ WatcherNext \/ UpNext \/ DownNext

Pkt(n) == T!Frame("pkt", TRUE, n)
StreamPieces == [f : T!AllFrames, i : 1..Pieces]

\* How many packets pumpUp has taken off the device.  The others wait there in
\* order; SendFrame has the last one.
Taken == dev.arrived - Len(dev.q)
InOrder == /\ Taken \in Nat
           /\ \A i \in 1..Len(dev.q) : dev.q[i] = Packet("ip", Taken + i)
           /\ call["up"].pc \in {"lock", "write"} => call["up"].f = Pkt(Taken)

\* Whoever writes holds mu, and the tunnel is open.
Locked == /\ \A c \in Callers : call[c].pc = "write" <=> mu = c
          /\ mu # NoCaller => ~closed

CallsDo == /\ \A c \in Callers : CallOK(c) /\ (call[c].pc = "lock" => call[c].n = 0)
           /\ call["watcher"].pc \in {"lock", "write"} => call["watcher"].f = T!CloseFrame(TRUE)
           /\ call["owner"].pc = "idle"
           /\ call["down"].pc # "idle" <=> down.pc = "recv"
           /\ call["down"].pc = "read" => call["down"].n < Pieces

EndTypes == /\ T!TunTypes /\ dev \in DevRecords
            /\ down \in [pc : {"none", "top", "recv", "write", "writing", "done"}, id : 0..MaxDev]

\* Run has not started pumpDown yet.
Started == "pc" \in DOMAIN run /\ (run.pc = "start" => down.pc = "none")

EndOK == EndTypes /\ Started /\ InOrder /\ Locked /\ CallsDo

\* Piece r comes after piece p on the stream: the rest of a frame, then the packet
\* with the next number or the Close frame.
Adj(p, r) == IF p.i < Pieces THEN r = T!Piece(p.f, p.i + 1)
             ELSE /\ p.f.kind = "pkt"
                  /\ r = T!Piece(Pkt(p.f.id + 1), 1) \/ r = T!Piece(T!CloseFrame(TRUE), 1)

\* Unless the tunnel is closed, p is the piece last written, packet 0 before any.
\* If it is closed and the stream has not ended, p is the end of the Close frame.
LastOut(p) ==
    IF closed THEN tx.end = "open" => p = T!Piece(T!CloseFrame(TRUE), Pieces)
    ELSE p = IF call["up"].pc = "write" /\ call["up"].n > 0
             THEN T!Piece(Pkt(Taken), call["up"].n)
             ELSE IF call["watcher"].pc = "write" /\ call["watcher"].n > 0
             THEN T!Piece(T!CloseFrame(TRUE), call["watcher"].n)
             ELSE T!Piece(Pkt(IF call["up"].pc \in {"lock", "write"} THEN Taken - 1 ELSE Taken),
                          Pieces)

\* pumpDown goes on: it has not returned and is not about to.
Live == /\ down.pc # "done"
        /\ call["down"].pc = "ret" => call["down"].res = "nil" /\ call["down"].f.kind # "close"

\* The piece pumpDown last read, of packet 0 before any.
lastIn ==
    IF call["down"].pc = "read" /\ call["down"].n > 0
    THEN T!Piece(call["down"].f, call["down"].n)
    ELSE T!Piece(Pkt(IF call["down"].pc = "ret" THEN call["down"].f.id
                     ELSE IF down.pc \in {"write", "writing"} THEN down.id ELSE dev.wrote),
                 Pieces)

\* The packet pumpDown is reading or writing follows the one it wrote last, and
\* is one of the first t.
GotOK(t) ==
    /\ dev.wrote <= t
    /\ down.pc \in {"write", "writing"} => down.id = dev.wrote + 1 /\ down.id <= t
    /\ \/ call["down"].pc = "read" /\ call["down"].n > 0
       \/ call["down"].pc = "ret" /\ call["down"].res = "nil"
       => /\ call["down"].f.kind \in {"pkt", "close"}
          /\ call["down"].f.kind = "pkt" => /\ call["down"].f.id = dev.wrote + 1
                                            /\ call["down"].f.id <= t

\* What a step of an end does to the stream it writes to.
OutView == \A p : LastOut(p) => LastOut(p)'
SendKeeps == tx'.q = tx.q /\ OutView
SendPuts(r) == /\ tx'.q = Append(tx.q, r) /\ r \in StreamPieces
               /\ \A p : LastOut(p) => Adj(p, r)
               /\ LastOut(r)'
               /\ r.f.kind = "pkt" => r.f.id <= Taken
Sends == (SendKeeps \/ \E r : SendPuts(r)) /\ Taken' >= Taken

\* And to the one it reads from.
InView == /\ Live' => Live
          /\ \A t \in Nat : Live' /\ GotOK(t) => GotOK(t)' /\ lastIn' = lastIn
RecvKeeps == rx'.q = rx.q /\ InView
RecvTakes ==
    /\ rx.q # <<>> /\ rx'.q = Tail(rx.q) /\ Live
    /\ \A t \in Nat : /\ Live' /\ GotOK(t) /\ Adj(lastIn, Head(rx.q))
                      /\ Head(rx.q).f.kind = "pkt" => Head(rx.q).f.id <= t
                      => GotOK(t)' /\ lastIn' = Head(rx.q)
Receives == RecvKeeps \/ RecvTakes

\* What sender and receiver have in view.
OutSame == /\ call'["up"] = call["up"] /\ call'["watcher"] = call["watcher"]
           /\ UNCHANGED <<closed, tx>> /\ dev'.arrived = dev.arrived /\ dev'.q = dev.q
InSame == /\ call'["down"] = call["down"]
          /\ UNCHANGED <<down, rx>> /\ dev'.wrote = dev.wrote

LEMMA SameViews ==
    ASSUME EndOK PROVE (OutSame => Sends) /\ (InSame => Receives)
<1>1. ASSUME OutSame PROVE Sends
  <2>1. Taken' = Taken
        BY <1>1 DEF OutSame, Taken
  <2>2. \A p : LastOut(p)' <=> LastOut(p)
        BY <1>1, <2>1 DEF OutSame, LastOut
  <2> QED BY <1>1, <2>1, <2>2 DEF OutSame, EndOK, InOrder, Sends, SendKeeps, OutView
<1>2. InSame => Receives
      BY DEF InSame, Receives, RecvKeeps, InView, Live, GotOK, lastIn
<1> QED BY <1>1, <1>2

\* pumpDown is done with the stream.
LEMMA RecvEnds ==
    ASSUME ~Live', rx' = rx PROVE Receives
BY DEF Receives, RecvKeeps, InView

LEMMA PktFacts ==
    /\ \A f \in T!AllFrames : f.kind = "pkt" => f = Pkt(f.id) /\ f.id \in Nat
    /\ \A n : Pkt(n).kind = "pkt" /\ Pkt(n).id = n /\ Pkt(n).ok
    /\ T!CloseFrame(TRUE) \in T!AllFrames /\ T!CloseFrame(TRUE).kind = "close"
    /\ T!CloseFrame(TRUE).ok
<1>1. ASSUME NEW f \in T!AllFrames, f.kind = "pkt" PROVE f = Pkt(f.id) /\ f.id \in Nat
      BY <1>1, PumpAssumption DEF T!AllFrames, Frames, Pkt, T!Frame, T!CloseFrame, T!NoFrame
<1> QED BY <1>1, FrameFacts DEF Pkt, T!Frame, T!CloseFrame


\* A step that is no call's keeps what is true of the calls.
LEMMA SameCalls ==
    ASSUME EndOK, UNCHANGED tunVars, dev' \in DevRecords,
           dev'.arrived = dev.arrived, dev'.q = dev.q,
           down' \in [pc : {"none", "top", "recv", "write", "writing", "done"}, id : 0..MaxDev],
           down'.pc = "recv" <=> down.pc = "recv", Started'
    PROVE  EndOK'
<1>1. EndTypes'
      BY DEF EndOK, EndTypes, T!TunTypes, tunVars
<1>2. InOrder' /\ Locked'
      BY DEF EndOK, InOrder, Taken, Locked, tunVars
<1>3. CallsDo'
      BY DEF EndOK, CallsDo, CallOK, tunVars
<1> QED BY <1>1, <1>2, <1>3 DEF EndOK

LEMMA RunGoes ==
    ASSUME EndOK, RunStart \/ RunWait \/ Cancel \/ UpTop \/ UpReadFails
    PROVE  EndOK' /\ Sends /\ Receives
<1>1. /\ UNCHANGED <<dev, tunVars>>
      /\ down' \in [pc : {"none", "top", "recv", "write", "writing", "done"}, id : 0..MaxDev]
      /\ down' = down \/ (down.pc = "none" /\ down'.pc = "top")
      /\ Started'
      BY DEF EndOK, EndTypes, Started, RunStart, RunWait, Cancel, UpTop, UpReadFails
<1>2. EndOK'
      BY <1>1, SameCalls DEF EndOK, EndTypes
<1>3. OutSame
      BY <1>1 DEF OutSame, tunVars
<1>4. Receives
      BY <1>1 DEF Receives, RecvKeeps, InView, Live, GotOK, lastIn, tunVars
<1> QED BY <1>2, <1>3, <1>4, SameViews

LEMMA DownGoes ==
    ASSUME EndOK, DownStop \/ DownWrite \/ DownWritten \/ DownWriteFails
    PROVE  EndOK' /\ Sends /\ Receives
<1>t. /\ dev \in DevRecords /\ down.id \in 0..MaxDev
      /\ down \in [pc : {"none", "top", "recv", "write", "writing", "done"}, id : 0..MaxDev]
      BY DEF EndOK, EndTypes
<1>w. DownWritten => /\ dev' \in DevRecords /\ dev'.wrote = down.id
                     /\ dev'.arrived = dev.arrived /\ dev'.q = dev.q
      BY <1>t DEF DownWritten, DevRecords
<1>1. /\ UNCHANGED tunVars /\ dev' \in DevRecords
      /\ dev'.arrived = dev.arrived /\ dev'.q = dev.q
      BY <1>t, <1>w DEF DownStop, DownWrite, DownWritten, DownWriteFails
<1>d. /\ down' \in [pc : {"none", "top", "recv", "write", "writing", "done"}, id : 0..MaxDev]
      /\ down'.pc # "recv" /\ down.pc \in {"top", "write", "writing"} /\ Started'
      BY <1>t, PumpAssumption
         DEF EndOK, Started, DownStop, DownWrite, DownWritten, DownWriteFails, DownReturns
<1>2. EndOK'
      BY <1>1, <1>d, SameCalls
<1>3. OutSame
      BY <1>1 DEF OutSame, tunVars
<1>i. call["down"].pc = "idle" /\ UNCHANGED <<call, rx>> /\ Live
      BY <1>1, <1>d DEF EndOK, CallsDo, tunVars, Live
<1>r. Receives
  <2>4. CASE DownStop \/ DownWriteFails
    <3>1. down'.pc = "done" /\ UNCHANGED dev
          BY <2>4 DEF DownStop, DownWriteFails, DownReturns
    <3>2. ~Live' /\ rx' = rx
          BY <1>i, <3>1 DEF Live
    <3> QED BY <3>2, RecvEnds
  <2>5. CASE DownWrite
    <3>1. /\ UNCHANGED dev
          /\ \/ down'.pc = "done"
             \/ down.pc = "write" /\ down'.pc = "writing" /\ down'.id = down.id
          BY <2>5, <1>t DEF DownWrite, DownReturns
    <3>2. CASE down'.pc = "done"
      <4>1. ~Live' /\ rx' = rx
            BY <1>i, <3>1, <3>2 DEF Live
      <4> QED BY <4>1, RecvEnds
    <3>3. CASE down'.pc = "writing"
      <4>1. lastIn' = lastIn /\ \A t : GotOK(t) => GotOK(t)'
            BY <1>i, <3>1, <3>3 DEF lastIn, GotOK
      <4>2. rx' = rx
            BY <1>i, <3>1
      <4> QED BY <1>i, <4>1, <4>2 DEF Receives, RecvKeeps, InView
    <3> QED BY <3>1, <3>2, <3>3
  <2>6. CASE DownWritten
    <3>1. down.pc = "writing" /\ down'.pc = "top" /\ dev'.wrote = down.id
          BY <2>6, <1>w DEF DownWritten
    <3>2. lastIn' = lastIn
          BY <1>i, <3>1 DEF lastIn
    <3>3. \A t \in Nat : GotOK(t) => GotOK(t)'
          BY <1>i, <3>1 DEF GotOK
    <3>4. rx'.q = rx.q
          BY <1>i
    <3> QED BY <1>i, <3>2, <3>3, <3>4 DEF Receives, RecvKeeps, InView
  <2> QED BY <2>4, <2>5, <2>6
<1> QED BY <1>2, <1>3, <1>r, SameViews

LEMMA KernelGoes ==
    ASSUME EndOK, KernelPacket("ip") PROVE EndOK' /\ Sends /\ Receives
<1>t. /\ dev \in DevRecords /\ dev.q \in Seq(Packets) /\ dev.arrived \in 0..MaxDev
      BY DEF EndOK, EndTypes, DevRecords
<1> DEFINE n == dev.arrived + 1
<1>1. /\ UNCHANGED <<run, down, tunVars>>
      /\ dev' = [dev EXCEPT !.q = Append(dev.q, Packet("ip", n)), !.arrived = n]
      BY DEF KernelPacket
<1>2. n \in 0..MaxDev
      BY <1>t, PumpAssumption DEF KernelPacket
<1>3. Packet("ip", n) \in Packets
      BY <1>2 DEF Packet, Packets, Kinds
<1> HIDE DEF n
<1>4. Append(dev.q, Packet("ip", n)) \in Seq(Packets)
      BY <1>t, <1>3
<1>5. dev' \in DevRecords
      BY <1>t, <1>1, <1>2, <1>4, DevSet
<1>6. dev'.q = Append(dev.q, Packet("ip", n)) /\ dev'.arrived = n /\ dev'.wrote = dev.wrote
      BY <1>t, <1>1 DEF DevRecords
<1>7. /\ Len(dev'.q) = Len(dev.q) + 1 /\ Len(dev.q) \in Nat
      /\ \A i \in 1..Len(dev'.q) :
           dev'.q[i] = IF i <= Len(dev.q) THEN dev.q[i] ELSE Packet("ip", n)
      BY <1>t, <1>3, <1>6
<1>8. Taken' = Taken /\ Taken \in Nat /\ n = Taken + Len(dev'.q)
      BY <1>t, <1>6, <1>7 DEF Taken, EndOK, InOrder, n
<1>9. InOrder'
  <2>1. \A i \in 1..Len(dev'.q) : dev'.q[i] = Packet("ip", Taken + i)
    <3> SUFFICES ASSUME NEW i \in 1..Len(dev'.q) PROVE dev'.q[i] = Packet("ip", Taken + i)
        OBVIOUS
    <3>1. CASE i <= Len(dev.q)
          BY <1>7, <3>1 DEF EndOK, InOrder
    <3>2. CASE ~(i <= Len(dev.q))
      <4>1. i = Len(dev'.q)
            BY <1>7, <3>2
      <4> QED BY <1>7, <1>8, <3>2, <4>1
    <3> QED BY <3>1, <3>2
  <2> QED BY <1>1, <1>8, <2>1 DEF EndOK, InOrder, tunVars
<1>10. EndTypes' /\ Started' /\ Locked' /\ CallsDo'
  <2>1. EndTypes' /\ Started'
        BY <1>1, <1>5 DEF EndOK, EndTypes, T!TunTypes, tunVars, Started
  <2>2. Locked' /\ CallsDo'
        BY <1>1 DEF EndOK, Locked, CallsDo, CallOK, tunVars
  <2> QED BY <2>1, <2>2
<1>11. Sends
  <2>1. \A p : LastOut(p)' <=> LastOut(p)
        BY <1>1, <1>8 DEF LastOut, tunVars
  <2> QED BY <1>1, <1>8, <2>1 DEF Sends, SendKeeps, OutView, tunVars
<1>12. InSame
      BY <1>1, <1>6 DEF InSame, tunVars
<1> QED BY <1>9, <1>10, <1>11, <1>12, SameViews DEF EndOK


\* Of a call handed over between a goroutine and the tunnel.
Hands(c) == Others(c) /\ UNCHANGED <<mu, closed, tx, rx>>

LEMMA InvokeFacts ==
    ASSUME T!TunTypes, NEW c \in Callers, NEW op, NEW f, T!Invoke(c, op, f)
    PROVE  /\ Hands(c) /\ call[c].pc = "idle"
           /\ call'[c].op = op /\ call'[c].pc = "lock" /\ call'[c].f = f /\ call'[c].n = 0
BY DEF T!Invoke, T!TunTypes, T!NoCall, Hands, Others

LEMMA ReturnFacts ==
    ASSUME T!TunTypes, NEW c \in Callers, T!Return(c)
    PROVE  Hands(c) /\ call[c].pc = "ret" /\ call'[c] = T!NoCall /\ call'[c].pc = "idle"
BY DEF T!Return, T!TunTypes, T!NoCall, Hands, Others

LEMMA WatcherGoes ==
    ASSUME EndOK, WatcherCloses \/ WatcherDone PROVE EndOK' /\ Sends /\ Receives
<1>t. T!TunTypes /\ dev \in DevRecords /\ "watcher" \in Callers
      BY DEF EndOK, EndTypes, Callers
<1>1. /\ Hands("watcher") /\ call["watcher"].pc \in {"idle", "ret"}
      /\ call'["watcher"].pc \in {"idle", "lock"}
      /\ call'["watcher"].pc = "lock" => /\ call'["watcher"].op = "close"
                                         /\ call'["watcher"].f = T!CloseFrame(TRUE)
                                         /\ call'["watcher"].n = 0
  <2>1. CASE WatcherCloses
    <3>1. T!Invoke("watcher", "close", T!CloseFrame(TRUE))
          BY <2>1 DEF WatcherCloses, T!Close
    <3> QED BY <1>t, <3>1, InvokeFacts
  <2>2. CASE WatcherDone
    <3>1. T!Return("watcher")
          BY <2>2 DEF WatcherDone
    <3> QED BY <1>t, <3>1, ReturnFacts
  <2> QED BY <2>1, <2>2
<1>2. /\ UNCHANGED <<run, down>> /\ dev' \in DevRecords
      /\ dev'.q = dev.q /\ dev'.arrived = dev.arrived /\ dev'.wrote = dev.wrote
      BY <1>t DEF WatcherCloses, WatcherDone, DevRecords
<1>3. T!TunTypes'
      BY <1>t, InvokeTypes, TunnelTypes, FrameFacts DEF WatcherCloses, WatcherDone, T!Close
<1>4. \A c \in Callers \ {"watcher"} : call'[c] = call[c]
      BY <1>1 DEF Hands, Others
<1>5. EndTypes' /\ Started'
      BY <1>2, <1>3 DEF EndOK, EndTypes, Started
<1>6. InOrder'
      BY <1>2, <1>4 DEF EndOK, InOrder, Taken, Callers
<1>7. Locked'
      BY <1>1, <1>4 DEF EndOK, Locked, Hands, Callers
<1>8. CallsDo'
  <2>1. CallOK("watcher")'
        BY <1>1, PktFacts DEF CallOK, Role
  <2>2. \A c \in Callers : CallOK(c)' /\ (call'[c].pc = "lock" => call'[c].n = 0)
    <3> SUFFICES ASSUME NEW c \in Callers
                 PROVE  CallOK(c)' /\ (call'[c].pc = "lock" => call'[c].n = 0)
        OBVIOUS
    <3>1. CASE c = "watcher"
          BY <1>1, <2>1, <3>1
    <3>2. CASE c # "watcher"
          BY <1>4, <3>2 DEF EndOK, CallsDo, CallOK
    <3> QED BY <3>1, <3>2
  <2> QED BY <1>1, <1>2, <1>4, <2>2 DEF EndOK, CallsDo, Callers
<1>9. Sends
  <2>1. Taken' = Taken
        BY <1>2 DEF Taken
  <2>2. \A p : LastOut(p) => LastOut(p)'
        BY <1>1, <1>4, <2>1 DEF LastOut, Hands, Callers
  <2> QED BY <1>1, <2>1, <2>2 DEF EndOK, InOrder, Sends, SendKeeps, OutView, Hands
<1>10. InSame
      BY <1>1, <1>2, <1>4 DEF InSame, Hands, Callers
<1> QED BY <1>5, <1>6, <1>7, <1>8, <1>9, <1>10, SameViews DEF EndOK


\* Only IP packets are on the device, and they are numbered in order.
LEMMA ReadIPFacts ==
    ASSUME EndOK, NEW k, ReadPacket(k)
    PROVE  /\ k = "ip" /\ Head(dev.q).id = Taken + 1 /\ Taken + 1 \in 1..MaxDev
           /\ dev' \in DevRecords /\ dev'.arrived = dev.arrived /\ dev'.wrote = dev.wrote
           /\ Taken' = Taken + 1 /\ Len(dev'.q) \in Nat /\ Taken' \in Nat
           /\ \A i \in 1..Len(dev'.q) : dev'.q[i] = Packet("ip", Taken' + i)
<1>1. /\ dev \in DevRecords /\ dev.q \in Seq(Packets) /\ dev.q # <<>>
      /\ dev.arrived \in 0..MaxDev
      /\ Taken \in Nat /\ \A i \in 1..Len(dev.q) : dev.q[i] = Packet("ip", Taken + i)
      BY DEF EndOK, EndTypes, DevRecords, ReadPacket, InOrder
<1>2. /\ dev'.q = Tail(dev.q) /\ dev'.arrived = dev.arrived /\ dev'.wrote = dev.wrote
      /\ dev' \in DevRecords
  <2>1. Tail(dev.q) \in Seq(Packets)
        BY <1>1
  <2>2. dev' = [dev EXCEPT !.q = Tail(dev.q)]
        BY DEF ReadPacket
  <2> QED BY <1>1, <2>1, <2>2 DEF DevRecords
<1>3. /\ Len(dev.q) \in Nat \ {0} /\ Len(dev'.q) = Len(dev.q) - 1
      /\ \A i \in 1..Len(dev'.q) : dev'.q[i] = dev.q[i + 1]
      BY <1>1, <1>2
<1>4. Head(dev.q) = Packet("ip", Taken + 1) /\ Head(dev.q).kind = k
  <2>1. Head(dev.q) = dev.q[1] /\ 1 \in 1..Len(dev.q)
        BY <1>1, <1>3
  <2> QED BY <1>1, <2>1 DEF ReadPacket
<1>5. Taken' = Taken + 1
      BY <1>1, <1>2, <1>3 DEF Taken
<1>6. Taken + 1 \in 1..MaxDev
      BY <1>1, <1>3, PumpAssumption DEF Taken
<1>7. ASSUME NEW i \in 1..Len(dev'.q) PROVE dev'.q[i] = Packet("ip", Taken' + i)
  <2>1. i + 1 \in 1..Len(dev.q) /\ i \in Nat
        BY <1>3
  <2>2. dev'.q[i] = Packet("ip", Taken + (i + 1))
        BY <1>1, <1>3, <2>1
  <2>3. Taken + (i + 1) = Taken' + i
        BY <1>1, <1>5, <2>1
  <2> QED BY <2>2, <2>3
<1> QED BY <1>1, <1>2, <1>3, <1>4, <1>5, <1>6, <1>7 DEF Packet

\* pumpUp hands a packet to SendFrame, or takes its result.
LEMMA UpGoes ==
    ASSUME EndOK, UpReadIP \/ UpSent PROVE EndOK' /\ Sends /\ Receives
<1>t. T!TunTypes /\ dev \in DevRecords /\ "up" \in Callers /\ Taken \in Nat
      BY DEF EndOK, EndTypes, InOrder, Callers
<1>p. UpReadIP => ReadPacket("ip")
      BY DEF UpReadIP
<1>1. /\ Hands("up")
      /\ \/ /\ ReadPacket("ip") /\ call["up"].pc = "idle" /\ call'["up"].pc = "lock"
            /\ call'["up"].op = "send" /\ call'["up"].f = Pkt(Taken + 1) /\ call'["up"].n = 0
         \/ UNCHANGED dev /\ call["up"].pc = "ret" /\ call'["up"].pc = "idle"
  <2>1. CASE UpReadIP
    <3>1. T!Invoke("up", "send", Pkt(Taken + 1))
          BY <2>1, <1>p, ReadIPFacts DEF UpReadIP, T!SendFrame, Pkt
    <3> QED BY <1>t, <1>p, <2>1, <3>1, InvokeFacts
  <2>2. CASE UpSent
    <3>1. T!Return("up") /\ UNCHANGED dev
          BY <2>2 DEF UpSent
    <3> QED BY <1>t, <3>1, ReturnFacts
  <2> QED BY <2>1, <2>2
<1>2. UNCHANGED <<run, down>>
      BY DEF UpReadIP, UpSent
<1>3. /\ dev' \in DevRecords /\ dev'.wrote = dev.wrote /\ Taken' \in Nat
      /\ \A i \in 1..Len(dev'.q) : dev'.q[i] = Packet("ip", Taken' + i)
      /\ Taken' = IF call'["up"].pc = "lock" THEN Taken + 1 ELSE Taken
  <2>1. CASE ReadPacket("ip") /\ call'["up"].pc = "lock"
        BY <2>1, ReadIPFacts
  <2>2. CASE UNCHANGED dev /\ call'["up"].pc = "idle"
        BY <2>2, <1>t DEF EndOK, InOrder, Taken
  <2> QED BY <1>1, <2>1, <2>2
<1>4. T!TunTypes'
  <2>1. CASE UpReadIP
    <3>1. T!Invoke("up", "send", Pkt(Taken + 1)) /\ Taken + 1 \in 1..MaxDev
          BY <2>1, <1>p, ReadIPFacts DEF UpReadIP, T!SendFrame, Pkt
    <3>2. Pkt(Taken + 1) \in T!AllFrames
          BY <3>1, FrameFacts DEF Pkt
    <3> QED BY <1>t, <3>1, <3>2, InvokeTypes
  <2>2. CASE UpSent
        BY <2>2, <1>t, TunnelTypes DEF UpSent
  <2> QED BY <2>1, <2>2
<1>5. \A c \in Callers \ {"up"} : call'[c] = call[c]
      BY <1>1 DEF Hands, Others
<1>6. EndTypes' /\ Started'
      BY <1>2, <1>3, <1>4 DEF EndOK, EndTypes, Started
<1>7. InOrder'
      BY <1>1, <1>3 DEF InOrder
<1>8. Locked'
      BY <1>1, <1>5 DEF EndOK, Locked, Hands, Callers
<1>9. CallsDo'
  <2>1. CallOK("up")' /\ (call'["up"].pc = "lock" => call'["up"].n = 0)
        BY <1>1, PktFacts DEF CallOK, Role
  <2>2. \A c \in Callers : CallOK(c)' /\ (call'[c].pc = "lock" => call'[c].n = 0)
    <3> SUFFICES ASSUME NEW c \in Callers
                 PROVE  CallOK(c)' /\ (call'[c].pc = "lock" => call'[c].n = 0)
        OBVIOUS
    <3>1. CASE c = "up"
          BY <2>1, <3>1
    <3>2. CASE c # "up"
          BY <1>5, <3>2 DEF EndOK, CallsDo, CallOK
    <3> QED BY <3>1, <3>2
  <2> QED BY <1>2, <1>5, <2>2 DEF EndOK, CallsDo, Callers
<1>10. Sends
  <2>1. \A p : LastOut(p) => LastOut(p)'
    <3>1. UNCHANGED <<closed, tx>> /\ call'["watcher"] = call["watcher"]
          BY <1>1, <1>5 DEF Hands, Callers
    <3>2. CASE call'["up"].pc = "lock"
      <4>1. Taken' - 1 = Taken /\ call["up"].pc = "idle"
            BY <1>t, <1>1, <1>3, <3>2
      <4> QED BY <3>1, <3>2, <4>1 DEF LastOut
    <3>3. CASE call'["up"].pc = "idle"
      <4>1. Taken' = Taken /\ call["up"].pc = "ret"
            BY <1>1, <1>3, <3>3
      <4> QED BY <3>1, <3>3, <4>1 DEF LastOut
    <3> QED BY <1>1, <3>2, <3>3
  <2> QED BY <1>t, <1>1, <1>3, <2>1 DEF Sends, SendKeeps, OutView, Hands
<1>11. InSame
      BY <1>1, <1>2, <1>3, <1>5 DEF InSame, Hands, Callers
<1> QED BY <1>6, <1>7, <1>8, <1>9, <1>10, <1>11, SameViews DEF EndOK


\* pumpDown calls RecvFrame, or takes its result.
LEMMA RecvGoes ==
    ASSUME EndOK, DownRecv \/ DownRecvd PROVE EndOK' /\ Sends /\ Receives
<1>t. /\ T!TunTypes /\ dev \in DevRecords /\ "down" \in Callers
      /\ down \in [pc : {"none", "top", "recv", "write", "writing", "done"}, id : 0..MaxDev]
      /\ call["down"].f \in T!AllFrames
      BY DEF EndOK, EndTypes, Callers, T!TunTypes, T!CallRecords
<1>1. /\ Hands("down") /\ UNCHANGED <<run, dev>> /\ T!TunTypes'
      /\ \/ /\ call["down"].pc = "idle" /\ call'["down"].pc = "lock"
            /\ call'["down"].op = "recv" /\ call'["down"].n = 0
            /\ down.pc = "top" /\ down' = [down EXCEPT !.pc = "recv"]
         \/ call["down"].pc = "ret" /\ call'["down"].pc = "idle" /\ DownRecvd
  <2>1. CASE DownRecv
    <3>1. T!Invoke("down", "recv", T!NoFrame)
          BY <2>1 DEF DownRecv, T!RecvFrame
    <3> QED BY <1>t, <2>1, <3>1, InvokeFacts, InvokeTypes, FrameFacts DEF DownRecv
  <2>2. CASE DownRecvd
    <3>1. T!Return("down")
          BY <2>2 DEF DownRecvd
    <3> QED BY <1>t, <2>2, <3>1, ReturnFacts, TunnelTypes DEF DownRecvd
  <2> QED BY <2>1, <2>2
<1>2. DownRecvd => \/ down' = [pc |-> "done", id |-> 0]
                   \/ /\ call["down"].res = "nil" /\ call["down"].f.kind = "pkt"
                      /\ down' = [pc |-> "write", id |-> call["down"].f.id]
                   \/ /\ call["down"].f.kind \notin {"pkt", "close"}
                      /\ down' = [down EXCEPT !.pc = "top"]
                   \/ call["down"].res # "nil" /\ down' = [down EXCEPT !.pc = "top"]
      BY DEF DownRecvd, DownReturns
<1>3. /\ down' \in [pc : {"none", "top", "recv", "write", "writing", "done"}, id : 0..MaxDev]
      /\ down.pc # "none" /\ down'.pc # "none"
      /\ down'.pc = "recv" <=> call'["down"].pc = "lock"
  <2>1. 0 \in 0..MaxDev /\ call["down"].f.id \in 0..MaxDev
        BY <1>t, PumpAssumption, FrameFacts
  <2>2. call["down"].pc = "ret" => down.pc = "recv"
        BY DEF EndOK, CallsDo
  <2> QED BY <1>t, <1>1, <1>2, <2>1, <2>2
<1>4. \A c \in Callers \ {"down"} : call'[c] = call[c]
      BY <1>1 DEF Hands, Others
<1>5. EndTypes'
      BY <1>1, <1>3 DEF EndOK, EndTypes
<1>6. Started' /\ InOrder'
      BY <1>1, <1>3, <1>4 DEF EndOK, Started, InOrder, Taken, Callers
<1>7. Locked'
      BY <1>1, <1>4 DEF EndOK, Locked, Hands, Callers
<1>8. CallsDo'
  <2>1. CallOK("down")' /\ (call'["down"].pc = "lock" => call'["down"].n = 0)
        BY <1>1 DEF CallOK, Role
  <2>2. \A c \in Callers : CallOK(c)' /\ (call'[c].pc = "lock" => call'[c].n = 0)
    <3> SUFFICES ASSUME NEW c \in Callers
                 PROVE  CallOK(c)' /\ (call'[c].pc = "lock" => call'[c].n = 0)
        OBVIOUS
    <3>1. CASE c = "down"
          BY <2>1, <3>1
    <3>2. CASE c # "down"
          BY <1>4, <3>2 DEF EndOK, CallsDo, CallOK
    <3> QED BY <3>1, <3>2
  <2> QED BY <1>1, <1>3, <1>4, <2>2 DEF EndOK, CallsDo, Callers
<1>9. OutSame
      BY <1>1, <1>4 DEF OutSame, Hands, Callers
<1>10. Receives
  <2>1. rx'.q = rx.q /\ rx' = rx /\ dev'.wrote = dev.wrote
        BY <1>1 DEF Hands
  <2>2. CASE call'["down"].pc = "lock"
    <3>1. Live /\ Live' /\ lastIn' = lastIn /\ \A t : GotOK(t) => GotOK(t)'
      <4>1. down'.pc = "recv" /\ down.pc = "top" /\ call["down"].pc = "idle"
            BY <1>1, <1>3, <2>2
      <4> QED BY <1>1, <2>2, <4>1 DEF Live, lastIn, GotOK
    <3> QED BY <2>1, <3>1 DEF Receives, RecvKeeps, InView
  <2>3. CASE call'["down"].pc = "idle" /\ down'.pc = "done"
    <3>1. ~Live'
          BY <2>3 DEF Live
    <3> QED BY <2>1, <3>1, RecvEnds
  <2>4. CASE call'["down"].pc = "idle" /\ down'.pc # "done"
    <3>1. call["down"].pc = "ret" /\ DownRecvd /\ down.pc = "recv"
          BY <1>1, <2>4 DEF EndOK, CallsDo
    <3>2. Live'
          BY <2>4 DEF Live
    <3>3. /\ call["down"].res = "nil" /\ call["down"].f.kind # "close"
          /\ \/ /\ call["down"].f.kind = "pkt"
                /\ down'.pc = "write" /\ down'.id = call["down"].f.id
             \/ call["down"].f.kind # "pkt" /\ down'.pc = "top"
      <4>1. call["down"].res \in {"nil", "ErrClosed", "EOF", "err"}
            BY <1>t DEF T!TunTypes, T!CallRecords
      <4> QED BY <1>t, <2>4, <3>1, <4>1 DEF DownRecvd, DownReturns
    <3>4. Live
          BY <3>1, <3>3 DEF Live
    <3>5. ASSUME NEW t \in Nat, GotOK(t) PROVE GotOK(t)' /\ lastIn' = lastIn
      <4>1. call["down"].f.kind = "pkt" /\ down'.pc = "write" /\ down'.id = call["down"].f.id
            BY <3>1, <3>3, <3>5 DEF GotOK
      <4>2. GotOK(t)'
            BY <2>1, <2>4, <3>1, <3>3, <3>5, <4>1 DEF GotOK
      <4> QED BY <2>4, <3>1, <4>1, <4>2 DEF lastIn
    <3> QED BY <2>1, <3>4, <3>5 DEF Receives, RecvKeeps, InView
  <2> QED BY <1>1, <2>2, <2>3, <2>4
<1> QED BY <1>5, <1>6, <1>7, <1>8, <1>9, <1>10, SameViews DEF EndOK


\* A step of a call keeps what is true of an end.
LEMMA CallGoes ==
    ASSUME EndOK, NEW c \in {"up", "down", "watcher"}, TunnelStep(c) PROVE EndOK'
<1>t. T!TunTypes /\ dev \in DevRecords /\ c \in Callers /\ call[c] \in T!CallRecords
      BY DEF EndOK, EndTypes, T!TunTypes, Callers
<1>1. /\ UNCHANGED <<run, down, dev>> /\ T!TunTypes' /\ Others(c) /\ call'[c].op = call[c].op
      /\ Entered(c) \/ TurnedAway(c) \/ Wrote(c) \/ Broke(c) \/ Took(c) \/ Ended(c)
      BY <1>t, CallStep, TunnelTypes DEF TunnelStep, pumpVars
<1>2. \A d \in Callers \ {c} : call'[d] = call[d]
      BY <1>1 DEF Others
<1>3. /\ call[c].pc \in {"lock", "write", "read"} /\ call'[c].pc \in {"write", "read", "ret"}
      /\ call[c].op = Role[c] /\ CallOK(c)
  <2>1. call[c].pc \in {"lock", "write", "read"} /\ call'[c].pc \in {"write", "read", "ret"}
        BY <1>1 DEF Entered, TurnedAway, Wrote, Broke, Took, Ended
  <2> QED BY <1>t, <2>1 DEF EndOK, CallsDo, CallOK
<1>4. /\ call'[c].pc = "write" => /\ call[c].pc \in {"lock", "write"} /\ call[c].op # "recv"
                                  /\ call'[c].f = call[c].f
      /\ call'[c].pc = "read" => call[c].op = "recv"
      BY <1>1, <1>3 DEF Entered, TurnedAway, Wrote, Broke, Took, Ended, CallOK
<1>5. EndTypes' /\ Started'
      BY <1>1 DEF EndOK, EndTypes, Started
<1>6. InOrder'
  <2>1. Taken' = Taken
        BY <1>1 DEF Taken
  <2>2. call'["up"].pc \in {"lock", "write"} => call'["up"].f = Pkt(Taken)
    <3>1. CASE c = "up"
          BY <1>3, <1>4, <3>1 DEF EndOK, InOrder
    <3>2. CASE c # "up"
          BY <1>2, <3>2 DEF EndOK, InOrder, Callers
    <3> QED BY <3>1, <3>2
  <2> QED BY <1>1, <2>1, <2>2 DEF EndOK, InOrder
<1>7. Locked'
  <2>1. \A d \in Callers : call[d].pc = "write" <=> mu = d
        BY DEF EndOK, Locked
  <2>2. NoCaller \notin Callers /\ (mu # NoCaller => ~closed)
        BY DEF NoCaller, Callers, EndOK, Locked
  <2>3. (call'[c].pc = "write" <=> mu' = c) /\ (mu' # NoCaller => ~closed')
        BY <1>t, <1>1, <1>3, <1>4, <2>1, <2>2
           DEF Entered, TurnedAway, Wrote, Broke, Took, Ended
  <2>4. \A d \in Callers \ {c} : mu' = d <=> mu = d
        BY <1>t, <1>1, <1>3, <1>4, <2>1, <2>2
           DEF Entered, TurnedAway, Wrote, Broke, Took, Ended
  <2> QED BY <1>2, <2>1, <2>3, <2>4 DEF Locked
<1>8. CallsDo'
  <2>1. CallOK(c)'
        BY <1>1, <1>3, <1>4 DEF CallOK
  <2>2. \A d \in Callers : CallOK(d)' /\ (call'[d].pc = "lock" => call'[d].n = 0)
    <3> SUFFICES ASSUME NEW d \in Callers
                 PROVE  CallOK(d)' /\ (call'[d].pc = "lock" => call'[d].n = 0)
        OBVIOUS
    <3>1. CASE d = c
          BY <1>3, <2>1, <3>1
    <3>2. CASE d # c
          BY <1>2, <3>2 DEF EndOK, CallsDo, CallOK
    <3> QED BY <3>1, <3>2
  <2>3. call'["watcher"].pc \in {"lock", "write"} => call'["watcher"].f = T!CloseFrame(TRUE)
    <3>1. CASE c = "watcher"
          BY <1>3, <1>4, <3>1 DEF EndOK, CallsDo
    <3>2. CASE c # "watcher"
          BY <1>2, <3>2 DEF EndOK, CallsDo, Callers
    <3> QED BY <3>1, <3>2
  <2>4. call'["owner"].pc = "idle"
        BY <1>2 DEF EndOK, CallsDo, Callers
  <2>5. /\ call'["down"].pc # "idle" <=> down'.pc = "recv"
        /\ call'["down"].pc = "read" => call'["down"].n < Pieces
    <3>1. CASE c = "down"
      <4>1. call'["down"].pc # "idle" <=> down'.pc = "recv"
            BY <1>1, <1>3, <3>1 DEF EndOK, CallsDo
      <4>2. rx.q # <<>> => Head(rx.q).i \in 1..Pieces
        <5>1. rx.q \in Seq([f : T!AllFrames, i : 1..Pieces])
              BY <1>t DEF T!TunTypes, T!StreamHalf
        <5>2. rx.q # <<>> => Head(rx.q) \in [f : T!AllFrames, i : 1..Pieces]
              BY <5>1, SeqFacts
        <5> QED BY <5>2
      <4>3. call'["down"].pc = "read" => call'["down"].n < Pieces
        <5>1. CASE Entered("down")
              BY <1>t, <3>1, <5>1, PumpAssumption DEF EndOK, CallsDo, Entered
        <5>2. CASE Took("down")
              BY <4>2, <5>2, PumpAssumption DEF Took
        <5> QED BY <1>1, <1>4, <3>1, <5>1, <5>2 DEF TurnedAway, Wrote, Broke, Ended
      <4> QED BY <4>1, <4>3
    <3>2. CASE c # "down"
          BY <1>1, <1>2, <3>2 DEF EndOK, CallsDo, Callers
    <3> QED BY <3>1, <3>2
  <2> QED BY <2>2, <2>3, <2>4, <2>5 DEF CallsDo
<1> QED BY <1>5, <1>6, <1>7, <1>8 DEF EndOK


LEMMA WroteFacts ==
    ASSUME T!TunTypes, NEW c \in Callers, Wrote(c)
    PROVE  /\ call[c].n \in Nat /\ call[c].n + 1 \in 1..Pieces
           /\ call[c].n + 1 < Pieces => call'[c].pc = "write" /\ call'[c].n = call[c].n + 1
           /\ call[c].n + 1 = Pieces => /\ call'[c].pc = "ret"
                                        /\ call[c].op = "close" => closed' = TRUE
<1>1. call[c].n \in 0..Pieces
      BY DEF T!TunTypes, T!CallRecords
<1>2. \/ /\ call[c].n + 1 < Pieces
         /\ call'[c].pc = "write" /\ call'[c].n = call[c].n + 1
      \/ /\ call[c].n + 1 = Pieces
         /\ call'[c].pc = "ret" /\ (call[c].op = "close" => closed' = TRUE)
      BY Zenon DEF Wrote
<1> QED BY <1>1, <1>2, PumpAssumption

\* SendFrame of pumpUp takes a step.
LEMMA UpCalls ==
    ASSUME EndOK, TunnelStep("up") PROVE Sends /\ Receives
<1>t. /\ T!TunTypes /\ "up" \in Callers /\ call["up"].n \in 0..Pieces /\ Taken \in Nat
      /\ call["up"].f \in T!AllFrames /\ "watcher" \in Callers
      BY DEF EndOK, EndTypes, T!TunTypes, Callers, T!CallRecords, InOrder
<1>1. /\ UNCHANGED <<down, dev>> /\ Others("up")
      /\ \/ Entered("up") \/ TurnedAway("up") \/ Wrote("up")
         \/ Broke("up") \/ Took("up") \/ Ended("up")
      BY <1>t, CallStep DEF TunnelStep, pumpVars
<1>2. call["up"].op = "send" /\ call["up"].pc # "read"
  <2>1. call["up"].pc # "idle"
        BY <1>1 DEF Entered, TurnedAway, Wrote, Broke, Took, Ended
  <2>2. CallOK("up")
        BY <1>t DEF EndOK, CallsDo
  <2> QED BY <2>1, <2>2 DEF CallOK, Role
<1>3. InSame
      BY <1>1, <1>2 DEF InSame, Others, Callers, Entered, TurnedAway, Wrote, Broke, Took, Ended
<1>4. Taken' = Taken /\ call'["watcher"] = call["watcher"]
      BY <1>1 DEF Taken, Others, Callers
<1>5. CASE Entered("up")
  <2>1. /\ call["up"].n = 0 /\ call'["up"].n = 0 /\ UNCHANGED <<closed, tx>>
        /\ call["up"].pc = "lock" /\ call'["up"].pc = "write"
        BY <1>t, <1>2, <1>5 DEF Entered, EndOK, CallsDo
  <2>2. ASSUME NEW p, LastOut(p) PROVE LastOut(p)'
    <3>1. ~closed =>
              p = IF call["watcher"].pc = "write" /\ call["watcher"].n > 0
                  THEN T!Piece(T!CloseFrame(TRUE), call["watcher"].n)
                  ELSE T!Piece(Pkt(Taken - 1), Pieces)
          BY <2>1, <2>2 DEF LastOut
    <3>2. ~(call'["up"].n > 0)
          BY <2>1
    <3>3. CASE closed
          BY <2>1, <2>2, <3>3 DEF LastOut
    <3>4. CASE ~closed
          BY <1>4, <2>1, <3>1, <3>2, <3>4 DEF LastOut
    <3> QED BY <3>3, <3>4
  <2>3. Sends
        BY <1>t, <1>4, <1>5, <2>2 DEF Sends, SendKeeps, OutView, Entered
  <2> QED BY <2>3, <1>3, SameViews
<1>6. CASE TurnedAway("up") \/ Broke("up")
  <2>1. closed' = TRUE /\ tx' = tx /\ (closed \/ tx.end # "open")
    <3>1. CASE TurnedAway("up")
          BY <3>1 DEF TurnedAway, EndOK, EndTypes, T!TunTypes
    <3>2. CASE Broke("up")
      <4>1. CallOK("up")
            BY <1>t DEF EndOK, CallsDo
      <4> QED BY <1>2, <3>2, <4>1 DEF Broke, CallOK
    <3> QED BY <1>6, <3>1, <3>2
  <2>2. \A p : LastOut(p) => LastOut(p)'
        BY <2>1 DEF LastOut
  <2>3. Sends
        BY <1>t, <1>4, <2>1, <2>2 DEF Sends, SendKeeps, OutView
  <2> QED BY <2>3, <1>3, SameViews
<1>7. CASE Wrote("up")
  <2>n. PICK n \in 0..Pieces : n = call["up"].n
        BY <1>t
  <2>r. PICK r : r = T!Piece(Pkt(Taken), n + 1)
        OBVIOUS
  <2>1. /\ n + 1 \in 1..Pieces /\ n \in Nat /\ call["up"].pc = "write"
        /\ tx'.q = Append(tx.q, r) /\ call["up"].f = Pkt(Taken)
        BY <1>t, <1>7, <2>n, <2>r, WroteFacts DEF Wrote, EndOK, InOrder
  <2>2. mu = "up" /\ ~closed /\ call["watcher"].pc # "write"
        BY <1>t, <2>1 DEF EndOK, Locked, NoCaller
  <2>s. ~closed'
        BY <1>2, <1>7, <2>2 DEF Wrote
  <2>3. r \in StreamPieces
        BY <1>t, <2>1, <2>r DEF StreamPieces, T!Piece
  <2>4. ASSUME NEW p, LastOut(p) PROVE Adj(p, r)
    <3>1. CASE n > 0
      <4>1. p = T!Piece(Pkt(Taken), n)
            BY <2>n, <2>1, <2>2, <2>4, <3>1 DEF LastOut
      <4>2. p.i = n /\ p.f = Pkt(Taken) /\ n < Pieces
            BY <1>t, <2>1, <4>1, PumpAssumption DEF T!Piece
      <4> QED BY <2>r, <4>2 DEF Adj
    <3>2. CASE ~(n > 0)
      <4>1. p = T!Piece(Pkt(Taken - 1), Pieces)
            BY <2>n, <2>1, <2>2, <2>4, <3>2 DEF LastOut
      <4>2. p.i = Pieces /\ p.f = Pkt(Taken - 1)
            BY <4>1 DEF T!Piece
      <4>3. p.f.kind = "pkt" /\ p.f.id + 1 = Taken /\ n + 1 = 1
            BY <1>t, <2>1, <3>2, <4>2, PktFacts
      <4>4. r = T!Piece(Pkt(p.f.id + 1), 1)
            BY <2>r, <4>3
      <4> QED BY <4>2, <4>3, <4>4, PumpAssumption DEF Adj
    <3> QED BY <3>1, <3>2
  <2>5. LastOut(r)'
    <3>1. CASE n + 1 < Pieces
      <4>1. call'["up"].pc = "write" /\ call'["up"].n = n + 1
            BY <1>t, <1>7, <2>n, <3>1, WroteFacts
      <4>2. n + 1 > 0
            BY <2>1
      <4> QED BY <1>4, <2>r, <2>s, <4>1, <4>2 DEF LastOut
    <3>2. CASE n + 1 = Pieces
      <4>1. call'["up"].pc = "ret"
            BY <1>t, <1>7, <2>n, <2>1, <3>2, WroteFacts
      <4> QED BY <1>4, <2>r, <2>s, <2>2, <3>2, <4>1 DEF LastOut
    <3> QED BY <2>1, <3>1, <3>2, PumpAssumption
  <2>6. r.f.kind = "pkt" => r.f.id <= Taken
        BY <1>t, <2>r, PktFacts DEF T!Piece
  <2>7. SendPuts(r)
        BY <2>1, <2>3, <2>4, <2>5, <2>6 DEF SendPuts
  <2>8. Sends
        BY <1>t, <1>4, <2>7 DEF Sends
  <2> QED BY <2>8, <1>3, SameViews
<1> QED BY <1>1, <1>2, <1>5, <1>6, <1>7 DEF Took, Ended

\* So does Close of the watcher.
LEMMA WatcherCalls ==
    ASSUME EndOK, TunnelStep("watcher") PROVE Sends /\ Receives
<1>t. /\ T!TunTypes /\ "up" \in Callers /\ call["watcher"].n \in 0..Pieces /\ Taken \in Nat
      /\ call["watcher"].f \in T!AllFrames /\ "watcher" \in Callers
      BY DEF EndOK, EndTypes, T!TunTypes, Callers, T!CallRecords, InOrder
<1>1. /\ UNCHANGED <<down, dev>> /\ Others("watcher")
      /\ \/ Entered("watcher") \/ TurnedAway("watcher") \/ Wrote("watcher")
         \/ Broke("watcher") \/ Took("watcher") \/ Ended("watcher")
      BY <1>t, CallStep DEF TunnelStep, pumpVars
<1>2. call["watcher"].op = "close" /\ call["watcher"].pc # "read"
  <2>1. call["watcher"].pc # "idle"
        BY <1>1 DEF Entered, TurnedAway, Wrote, Broke, Took, Ended
  <2>2. CallOK("watcher")
        BY <1>t DEF EndOK, CallsDo
  <2> QED BY <2>1, <2>2 DEF CallOK, Role
<1>3. InSame
      BY <1>1, <1>2 DEF InSame, Others, Callers, Entered, TurnedAway, Wrote, Broke, Took, Ended
<1>4. Taken' = Taken /\ call'["up"] = call["up"]
      BY <1>1 DEF Taken, Others, Callers
<1>5. CASE Entered("watcher")
  <2>1. call["watcher"].n = 0 /\ call'["watcher"].n = 0 /\ call["watcher"].pc = "lock"
        BY <1>t, <1>2, <1>5 DEF Entered, EndOK, CallsDo
  <2>2. \A p : LastOut(p) => LastOut(p)'
        BY <1>4, <1>5, <2>1 DEF LastOut, Entered
  <2>3. Sends
        BY <1>t, <1>4, <1>5, <2>2 DEF Sends, SendKeeps, OutView, Entered
  <2> QED BY <2>3, <1>3, SameViews
<1>6. CASE TurnedAway("watcher") \/ Broke("watcher")
  <2>1. closed' = TRUE /\ tx' = tx /\ (closed \/ tx.end # "open")
    <3>1. CASE TurnedAway("watcher")
          BY <3>1 DEF TurnedAway, EndOK, EndTypes, T!TunTypes
    <3>2. CASE Broke("watcher")
      <4>1. CallOK("watcher")
            BY <1>t DEF EndOK, CallsDo
      <4> QED BY <1>2, <3>2, <4>1 DEF Broke, CallOK
    <3> QED BY <1>6, <3>1, <3>2
  <2>2. \A p : LastOut(p) => LastOut(p)'
        BY <2>1 DEF LastOut
  <2>3. Sends
        BY <1>t, <1>4, <2>1, <2>2 DEF Sends, SendKeeps, OutView
  <2> QED BY <2>3, <1>3, SameViews
<1>7. CASE Wrote("watcher")
  <2>n. PICK n \in 0..Pieces : n = call["watcher"].n
        BY <1>t
  <2>r. PICK r : r = T!Piece(T!CloseFrame(TRUE), n + 1)
        OBVIOUS
  <2>w. call["watcher"].pc = "write" /\ call["watcher"].f = T!CloseFrame(TRUE)
        BY <1>7 DEF Wrote, EndOK, CallsDo
  <2>1. n + 1 \in 1..Pieces /\ n \in Nat /\ tx'.q = Append(tx.q, r)
        BY <1>t, <1>7, <2>n, <2>r, <2>w, WroteFacts DEF Wrote
  <2>2. mu = "watcher" /\ ~closed /\ call["up"].pc # "write"
        BY <1>t, <2>w DEF EndOK, Locked, NoCaller
  <2>3. r \in StreamPieces
        BY <1>t, <2>w, <2>1, <2>r DEF StreamPieces, T!Piece
  <2>4. ASSUME NEW p, LastOut(p) PROVE Adj(p, r)
    <3>1. CASE n > 0
      <4>1. p = T!Piece(T!CloseFrame(TRUE), n)
            BY <2>n, <2>w, <2>2, <2>4, <3>1 DEF LastOut
      <4>2. p.i = n /\ p.f = T!CloseFrame(TRUE) /\ n < Pieces
            BY <1>t, <2>1, <4>1, PumpAssumption DEF T!Piece
      <4> QED BY <2>r, <4>2 DEF Adj
    <3>2. CASE ~(n > 0)
      <4>1. \E m : p = T!Piece(Pkt(m), Pieces)
            BY <2>n, <2>w, <2>2, <2>4, <3>2 DEF LastOut
      <4>2. ~(p.i < Pieces) /\ p.f.kind = "pkt" /\ n + 1 = 1
            BY <2>1, <3>2, <4>1, PktFacts, PumpAssumption DEF T!Piece
      <4>3. r = T!Piece(T!CloseFrame(TRUE), 1)
            BY <2>r, <4>2
      <4> QED BY <4>2, <4>3 DEF Adj
    <3> QED BY <3>1, <3>2
  <2>5. LastOut(r)'
    <3>1. CASE n + 1 < Pieces
      <4>1. call'["watcher"].pc = "write" /\ call'["watcher"].n = n + 1
            BY <1>t, <1>7, <2>n, <3>1, WroteFacts
      <4>2. n + 1 > 0
            BY <2>1
      <4>3. ~closed'
            BY <1>t, <1>7, <2>n, <2>2, <3>1, PumpAssumption DEF Wrote
      <4> QED BY <1>4, <2>r, <2>2, <4>1, <4>2, <4>3 DEF LastOut
    <3>2. CASE n + 1 = Pieces
      <4>1. closed'
            BY <1>t, <1>2, <1>7, <2>n, <2>1, <3>2, WroteFacts
      <4> QED BY <2>r, <3>2, <4>1 DEF LastOut
    <3> QED BY <2>1, <3>1, <3>2, PumpAssumption
  <2>6. r.f.kind # "pkt"
        BY <2>r, PktFacts DEF T!Piece
  <2>7. SendPuts(r)
        BY <2>1, <2>3, <2>4, <2>5, <2>6 DEF SendPuts
  <2>8. Sends
        BY <1>t, <1>4, <2>7 DEF Sends
  <2> QED BY <2>8, <1>3, SameViews
<1> QED BY <1>1, <1>2, <1>5, <1>6, <1>7 DEF Took, Ended


\* RecvFrame of pumpDown takes a step.
LEMMA DownCalls ==
    ASSUME EndOK, TunnelStep("down") PROVE Sends /\ Receives
<1>t. T!TunTypes /\ "down" \in Callers /\ call["down"].n \in 0..Pieces
      BY DEF EndOK, EndTypes, T!TunTypes, Callers, T!CallRecords
<1>1. /\ UNCHANGED <<down, dev>> /\ Others("down")
      /\ \/ Entered("down") \/ TurnedAway("down") \/ Wrote("down")
         \/ Broke("down") \/ Took("down") \/ Ended("down")
      BY <1>t, CallStep DEF TunnelStep, pumpVars
<1>2. call["down"].op = "recv" /\ call["down"].pc # "write" /\ down.pc = "recv"
  <2>1. call["down"].pc # "idle"
        BY <1>1 DEF Entered, TurnedAway, Wrote, Broke, Took, Ended
  <2>2. CallOK("down")
        BY <1>t DEF EndOK, CallsDo
  <2> QED BY <2>1, <2>2 DEF EndOK, CallsDo, CallOK, Role
<1>3. OutSame
      BY <1>1, <1>2 DEF OutSame, Others, Callers, Entered, TurnedAway, Wrote, Broke, Took, Ended
<1>4. CASE Entered("down")
  <2>1. /\ call["down"].n = 0 /\ call'["down"].n = 0 /\ rx' = rx
        /\ call["down"].pc = "lock" /\ call'["down"].pc = "read"
        BY <1>t, <1>2, <1>4 DEF Entered, EndOK, CallsDo
  <2>2. Live /\ lastIn' = lastIn /\ \A t : GotOK(t) => GotOK(t)'
        BY <1>1, <1>2, <2>1 DEF Live, lastIn, GotOK
  <2>3. Receives
        BY <1>1, <2>1, <2>2 DEF Receives, RecvKeeps, InView
  <2> QED BY <1>3, <2>3, SameViews
<1>5. CASE TurnedAway("down") \/ Ended("down")
  <2>1. call'["down"].pc = "ret" /\ call'["down"].res # "nil" /\ rx' = rx
        BY <1>2, <1>5 DEF TurnedAway, Ended
  <2>2. ~Live'
        BY <2>1 DEF Live
  <2>3. Receives
        BY <1>1, <2>1, <2>2, RecvEnds
  <2> QED BY <1>3, <2>3, SameViews
<1>6. CASE Took("down")
  <2>1. /\ call["down"].pc = "read" /\ rx.q # <<>> /\ rx'.q = Tail(rx.q)
        /\ Live /\ call["down"].n < Pieces
        BY <1>2, <1>6 DEF Took, Live, EndOK, CallsDo
  <2>p. PICK p : p = Head(rx.q)
        OBVIOUS
  <2>q. p \in [f : T!AllFrames, i : 1..Pieces]
    <3>1. rx.q \in Seq([f : T!AllFrames, i : 1..Pieces])
          BY <1>t DEF T!TunTypes, T!StreamHalf
    <3> QED BY <2>1, <2>p, <3>1, SeqFacts
  <2>2. ASSUME NEW t \in Nat, Live', GotOK(t), Adj(lastIn, p), p.f.kind = "pkt" => p.f.id <= t
        PROVE  GotOK(t)' /\ lastIn' = p
    <3>1. /\ p.f.kind \in {"pkt", "close"}
          /\ p.f.kind = "pkt" => p.f.id = dev.wrote + 1
      <4>1. CASE call["down"].n > 0
        <5>1. lastIn = T!Piece(call["down"].f, call["down"].n)
              BY <2>1, <4>1 DEF lastIn
        <5>2. lastIn.i < Pieces /\ lastIn.f = call["down"].f
              BY <2>1, <5>1 DEF T!Piece
        <5>3. p.f = call["down"].f
              BY <2>2, <5>2 DEF Adj, T!Piece
        <5> QED BY <2>1, <2>2, <4>1, <5>3 DEF GotOK
      <4>2. CASE ~(call["down"].n > 0)
        <5>1. lastIn = T!Piece(Pkt(dev.wrote), Pieces)
              BY <1>2, <2>1, <4>2 DEF lastIn
        <5>2. ~(lastIn.i < Pieces) /\ lastIn.f.id = dev.wrote
              BY <5>1, PktFacts, PumpAssumption DEF T!Piece
        <5>3. p = T!Piece(Pkt(dev.wrote + 1), 1) \/ p = T!Piece(T!CloseFrame(TRUE), 1)
              BY <2>2, <5>2 DEF Adj
        <5>4. p.f = Pkt(dev.wrote + 1) \/ p.f = T!CloseFrame(TRUE)
          <6>1. \A f : T!Piece(f, 1).f = f
                BY DEF T!Piece
          <6> QED BY <5>3, <6>1
        <5> QED BY <5>4, PktFacts
      <4> QED BY <4>1, <4>2
    <3>2. p = T!Piece(p.f, p.i) /\ p.i > 0
          BY <2>q DEF T!Piece
    <3>3. CASE p.i = Pieces
      <4>1. /\ call'["down"].pc = "ret" /\ call'["down"].res = "nil"
            /\ call'["down"].f = p.f
            BY <1>6, <2>p, <3>1, <3>3 DEF Took
      <4>2. p.f.kind = "pkt" /\ p.f.id = dev.wrote + 1 /\ p.f.id <= t
            BY <2>2, <3>1, <4>1 DEF Live
      <4>3. GotOK(t)'
            BY <1>1, <1>2, <2>2, <4>1, <4>2 DEF GotOK
      <4>4. p.f = Pkt(p.f.id)
            BY <2>q, <4>2, PktFacts
      <4>5. lastIn' = T!Piece(Pkt(p.f.id), Pieces)
            BY <4>1 DEF lastIn
      <4> QED BY <3>2, <3>3, <4>3, <4>4, <4>5
    <3>4. CASE p.i # Pieces
      <4>1. call'["down"].pc = "read" /\ call'["down"].n = p.i /\ call'["down"].f = p.f
            BY <1>6, <2>p, <3>1, <3>4 DEF Took
      <4>2. GotOK(t)'
            BY <1>1, <1>2, <2>2, <3>1, <4>1 DEF GotOK
      <4> QED BY <3>2, <4>1, <4>2 DEF lastIn
    <3> QED BY <3>3, <3>4
  <2>3. RecvTakes
        BY <2>1, <2>p, <2>2 DEF RecvTakes
  <2>4. Receives
        BY <1>1, <2>3 DEF Receives
  <2> QED BY <1>3, <2>4, SameViews
<1> QED BY <1>1, <1>2, <1>4, <1>5, <1>6 DEF Wrote, Broke

\* Every step of one end keeps what is true of it, writes the next piece if any,
\* and reads the next packet if any.
LEMMA EndStep == ASSUME EndOK, Goes PROVE EndOK' /\ Sends /\ Receives
<1>1. CASE RunStart \/ RunWait \/ Cancel \/ UpTop \/ UpReadFails
      BY <1>1, RunGoes
<1>2. CASE DownStop \/ DownWrite \/ DownWritten \/ DownWriteFails
      BY <1>2, DownGoes
<1>3. CASE KernelPacket("ip")
      BY <1>3, KernelGoes
<1>4. CASE WatcherCloses \/ WatcherDone
      BY <1>4, WatcherGoes
<1>5. CASE UpReadIP \/ UpSent
      BY <1>5, UpGoes
<1>6. CASE UpReadEmpty \/ UpReadNotIP
      BY <1>6, ReadIPFacts DEF UpReadEmpty, UpReadNotIP
<1>7. CASE DownRecv \/ DownRecvd
      BY <1>7, RecvGoes
<1>8. CASE TunnelStep("up")
      BY <1>8, CallGoes, UpCalls
<1>9. CASE TunnelStep("watcher")
      BY <1>9, CallGoes, WatcherCalls
<1>10. CASE TunnelStep("down")
      BY <1>10, CallGoes, DownCalls
<1> QED BY <1>1, <1>2, <1>3, <1>4, <1>5, <1>6, <1>7, <1>8, <1>9, <1>10
        DEF Goes, WatcherNext, UpNext, DownNext

\* Only DownWritten writes on the device, and the next packet each time.
LEMMA WritesOne ==
    ASSUME EndOK, Goes
    PROVE  /\ ~DownWritten => dev'.wrote = dev.wrote
           /\ DownWritten => Live /\ \A t \in Nat : GotOK(t) => /\ dev'.wrote = dev.wrote + 1
                                                             /\ dev'.wrote <= t
<1>d. dev \in DevRecords
      BY DEF EndOK, EndTypes
<1>1. ASSUME ~DownWritten PROVE dev'.wrote = dev.wrote
  <2>1. CASE RunStart \/ RunWait \/ Cancel \/ DownNext
        BY <1>1, <2>1 DEF RunStart, RunWait, Cancel, DownNext, DownStop, DownRecv, DownRecvd,
                          DownWrite, DownWriteFails, TunnelStep, pumpVars
  <2>2. CASE KernelPacket("ip")
        BY <1>d, <2>2 DEF KernelPacket, DevRecords
  <2>3. CASE WatcherNext
        BY <1>d, <2>3 DEF WatcherNext, WatcherCloses, WatcherDone, TunnelStep, pumpVars,
                          DevRecords
  <2>4. CASE UpNext
        BY <1>d, <2>4 DEF UpNext, UpTop, UpReadEmpty, UpReadIP, UpReadNotIP, UpReadFails,
                          UpSent, ReadPacket, TunnelStep, pumpVars, DevRecords
  <2> QED BY <2>1, <2>2, <2>3, <2>4 DEF Goes
<1>2. ASSUME DownWritten
      PROVE  Live /\ \A t \in Nat : GotOK(t) => dev'.wrote = dev.wrote + 1 /\ dev'.wrote <= t
  <2>1. down.pc = "writing" /\ dev'.wrote = down.id
        BY <1>d, <1>2 DEF DownWritten, DevRecords
  <2>2. Live
        BY <2>1 DEF EndOK, CallsDo, Live
  <2> QED BY <2>1, <2>2 DEF GotOK
<1> QED BY <1>1, <1>2

\* The packets that have arrived are only ever more.
LEMMA ArrivedGrows ==
    ASSUME EndOK, Goes PROVE dev'.arrived = dev.arrived \/ dev'.arrived = dev.arrived + 1
<1>d. dev \in DevRecords
      BY DEF EndOK, EndTypes
<1>1. CASE RunStart \/ RunWait \/ Cancel \/ DownNext
      BY <1>d, <1>1 DEF RunStart, RunWait, Cancel, DownNext, DownStop, DownRecv, DownRecvd,
                        DownWrite, DownWritten, DownWriteFails, TunnelStep, pumpVars, DevRecords
<1>2. CASE KernelPacket("ip")
      BY <1>d, <1>2 DEF KernelPacket, DevRecords
<1>3. CASE WatcherNext
      BY <1>d, <1>3 DEF WatcherNext, WatcherCloses, WatcherDone, TunnelStep, pumpVars,
                        DevRecords
<1>4. CASE UpNext
      BY <1>d, <1>4 DEF UpNext, UpTop, UpReadEmpty, UpReadIP, UpReadNotIP, UpReadFails,
                        UpSent, ReadPacket, TunnelStep, pumpVars, DevRecords
<1> QED BY <1>1, <1>2, <1>3, <1>4 DEF Goes

\* An end starts well, with nothing sent or received.
LEMMA EndInit ==
    ASSUME Init
    PROVE  /\ EndOK /\ Taken = 0 /\ tx.q = <<>> /\ Live /\ GotOK(0)
           /\ lastIn = T!Piece(Pkt(0), Pieces) /\ LastOut(T!Piece(Pkt(0), Pieces))
<1>1. /\ dev.arrived = 0 /\ dev.q = <<>> /\ dev.wrote = 0 /\ down = [pc |-> "none", id |-> 0]
      /\ run = [pc |-> "start", res |-> "nil"]
      /\ mu = NoCaller /\ tx.q = <<>> /\ ~closed
      /\ \A c \in Callers : call[c] = T!NoCall
      BY DEF Init, T!TunInit, T!OpenStream
<1>2. PumpInv
      BY Initially
<1>3. EndTypes
      BY <1>2 DEF PumpInv, PumpTypes, EndTypes
<1>4. \A c \in Callers : call[c].pc = "idle" /\ call[c].n = 0
      BY <1>1 DEF T!NoCall
<1>5. Started /\ Locked
      BY <1>1, <1>4 DEF Started, Locked, NoCaller, Callers
<1>6. Taken = 0
  <2>1. Len(dev.q) = 0 /\ dev.arrived = 0
        BY <1>1
  <2> QED BY <2>1 DEF Taken
<1>7. InOrder
      BY <1>1, <1>4, <1>6 DEF InOrder, Callers
<1>8. CallsDo
      BY <1>1, <1>4 DEF CallsDo, CallOK, Callers
<1>9. Live /\ GotOK(0) /\ lastIn = T!Piece(Pkt(0), Pieces) /\ LastOut(T!Piece(Pkt(0), Pieces))
  <2>1. /\ call["up"].pc = "idle" /\ call["watcher"].pc = "idle" /\ call["down"].pc = "idle"
        /\ down.pc = "none"
        BY <1>1, <1>4 DEF Callers
  <2>2. Live /\ GotOK(0)
        BY <1>1, <2>1 DEF Live, GotOK
  <2>3. lastIn = T!Piece(Pkt(0), Pieces)
        BY <1>1, <2>1 DEF lastIn
  <2>4. LastOut(T!Piece(Pkt(0), Pieces))
        BY <1>1, <1>6, <2>1 DEF LastOut
  <2> QED BY <2>2, <2>3, <2>4
<1> QED BY <1>1, <1>3, <1>5, <1>6, <1>7, <1>8, <1>9 DEF EndOK


\* Of more packets it is no less true.
LEMMA GotMore ==
    ASSUME EndOK, NEW t \in Nat, NEW u \in Nat, t <= u, GotOK(t) PROVE GotOK(u)
<1>1. dev.wrote \in Nat /\ down.id \in Nat /\ call["down"].f.id \in Nat
  <2>1. call["down"].f \in T!AllFrames
        BY DEF EndOK, EndTypes, T!TunTypes, T!CallRecords, Callers
  <2> QED BY <2>1, FrameFacts, PumpAssumption DEF EndOK, EndTypes, DevRecords
<1>2. \A n \in Nat : n <= t => n <= u
      OBVIOUS
<1> QED BY <1>1, <1>2 DEF GotOK

\* No end can tell whether Run has started.
LEMMA StartViews ==
    ASSUME EndOK, RunStart
    PROVE  OutView /\ InView /\ UNCHANGED <<dev, tunVars>> /\ Taken' = Taken
<1>1. /\ UNCHANGED <<dev, tunVars>> /\ down.pc = "none" /\ down' = [down EXCEPT !.pc = "top"]
      BY DEF EndOK, Started, RunStart
<1>2. down'.pc = "top"
      BY <1>1 DEF EndOK, EndTypes
<1>3. Taken' = Taken
      BY <1>1 DEF Taken
<1>4. OutView
      BY <1>1, <1>3 DEF OutView, LastOut, tunVars
<1>5. InView
      BY <1>1, <1>2 DEF InView, Live, GotOK, lastIn, tunVars
<1> QED BY <1>1, <1>3, <1>4, <1>5

\* Nor what the other one does.
LEMMA StillViews ==
    ASSUME UNCHANGED <<closed, call, down, dev>>, tx'.end = "open" => tx.end = "open"
    PROVE  OutView /\ InView /\ Taken' = Taken
<1>1. Taken' = Taken
      BY DEF Taken
<1>2. OutView
      BY <1>1 DEF OutView, LastOut
<1>3. InView
      BY DEF InView, Live, GotOK, lastIn
<1> QED BY <1>1, <1>2, <1>3

\* An end that does nothing is still well, whatever happens to the stream.
LEMMA StillEnd ==
    ASSUME EndOK, UNCHANGED <<run, down, dev, mu, closed, call>>,
           tx' \in T!StreamHalf, rx' \in T!StreamHalf
    PROVE  EndOK'
<1>1. EndTypes' /\ Started'
      BY DEF EndOK, EndTypes, T!TunTypes, Started
<1>2. InOrder' /\ Locked'
      BY DEF EndOK, InOrder, Taken, Locked
<1>3. CallsDo'
      BY DEF EndOK, CallsDo, CallOK
<1> QED BY <1>1, <1>2, <1>3 DEF EndOK

LEMMA EndFacts ==
    ASSUME EndOK
    PROVE  /\ tx \in T!StreamHalf /\ rx \in T!StreamHalf
           /\ tx.q \in Seq(StreamPieces) /\ rx.q \in Seq(StreamPieces)
           /\ Taken \in Nat /\ Taken <= dev.arrived
<1>1. tx \in T!StreamHalf /\ rx \in T!StreamHalf
      BY DEF EndOK, EndTypes, T!TunTypes
<1>2. tx.q \in Seq(StreamPieces) /\ rx.q \in Seq(StreamPieces)
      BY <1>1 DEF T!StreamHalf, StreamPieces
<1>3. Len(dev.q) \in Nat /\ dev.arrived \in Nat
      BY PumpAssumption DEF EndOK, EndTypes, DevRecords
<1>4. Taken \in Nat
      BY DEF EndOK, InOrder
<1> QED BY <1>1, <1>2, <1>3, <1>4 DEF Taken

-----------------------------------------------------------------------------
(* One end of a session at rest *)

\* How far a Run and its shutdown have got: nothing runs before Run starts it, a
\* goroutine is in a call where its code waits for one, and the watcher closes the
\* device first, then the tunnel.
Stages ==
    /\ run.pc \in {"start", "wait", "returned"}
    /\ watcher \in {"none", "wait", "closing", "done"} /\ (watcher = "none" <=> run.pc = "start")
    /\ up \in {"none", "top", "read", "send", "done"} /\ (up = "none" <=> run.pc = "start")
    /\ down.pc = "none" => run.pc = "start"
    /\ run.pc = "returned" => up = "done"
    /\ call["up"].pc # "idle" <=> up = "send"
    /\ call["watcher"].pc # "idle" <=> watcher = "closing"
    /\ watcher \in {"closing", "done"} => dev.closed
    /\ watcher = "done" \/ call["watcher"].pc = "ret" => closed

\* What holds of an end whose operator has not cancelled, while the stream is open.
Calm ==
    /\ ~ctx /\ gErr = "nil" /\ ~closed /\ ~dev.closed /\ ~dev.failed
    /\ run.pc # "returned" /\ watcher \in {"none", "wait"} /\ up # "done"
    /\ call["up"].pc = "ret" => call["up"].res = "nil"
    /\ call["down"].pc = "ret" => call["down"].res = "nil"
    /\ tx.end = "open" /\ rx.end = "open"

\* What pumpUp has still to write of the packet it took last, and what the watcher
\* has written of the Close frame, in pieces.
Owed == IF call["up"].pc \in {"lock", "write"} THEN Pieces - call["up"].n ELSE 0
Extra == IF call["watcher"].pc = "write" THEN call["watcher"].n ELSE 0

\* While the tunnel is open, what is in flight is of the packets taken from the
\* device and of the Close frame.
SentOK == /\ ~closed => Len(tx.q) + Owed <= Taken * Pieces + Extra
          /\ \A c \in Callers : call[c].pc = "write" => call[c].n < Pieces

\* An end never ends its stream, nor opens it again.
EndsKept == tx'.end = tx.end /\ rx'.end = rx.end

\* The steps outside the calls, the calls' beginnings and ends, and the steps inside.
Local == \/ RunStart \/ RunWait \/ Cancel \/ KernelPacket("ip") \/ UpTop \/ UpReadFails
         \/ DownStop \/ DownWrite \/ DownWritten \/ DownWriteFails
LEMMA GoesCases ==
    ASSUME EndOK, Goes
    PROVE  \/ Local \/ WatcherCloses \/ WatcherDone \/ UpReadIP \/ UpSent
           \/ DownRecv \/ DownRecvd
           \/ \E c \in {"up", "down", "watcher"} : TunnelStep(c)
<1>1. ~UpReadEmpty /\ ~UpReadNotIP
      BY ReadIPFacts DEF UpReadEmpty, UpReadNotIP
<1> QED BY <1>1 DEF Goes, Local, WatcherNext, UpNext, DownNext

\* What the calls' beginnings and ends change.
LEMMA HandsFacts ==
    ASSUME EndOK
    PROVE  /\ WatcherCloses => /\ Hands("watcher") /\ call["watcher"].pc = "idle"
                               /\ call'["watcher"].pc = "lock"
           /\ WatcherDone => /\ Hands("watcher") /\ call["watcher"].pc = "ret"
                             /\ call'["watcher"].pc = "idle"
           /\ UpReadIP => /\ Hands("up") /\ call["up"].pc = "idle"
                          /\ call'["up"].pc = "lock" /\ call'["up"].n = 0
                          /\ Taken' = Taken + 1
           /\ UpSent => /\ Hands("up") /\ call["up"].pc = "ret" /\ call'["up"].pc = "idle"
           /\ DownRecv => /\ Hands("down") /\ call["down"].pc = "idle"
                          /\ call'["down"].pc = "lock"
           /\ DownRecvd => /\ Hands("down") /\ call["down"].pc = "ret"
                           /\ call'["down"].pc = "idle"
<1>t. T!TunTypes /\ "up" \in Callers /\ "down" \in Callers /\ "watcher" \in Callers
      BY DEF EndOK, EndTypes, Callers
<1>1. WatcherCloses => T!Invoke("watcher", "close", T!CloseFrame(TRUE))
      BY DEF WatcherCloses, T!Close
<1>2. UpReadIP => T!Invoke("up", "send", T!Frame("pkt", TRUE, Head(dev.q).id))
      BY DEF UpReadIP, T!SendFrame
<1>3. DownRecv => T!Invoke("down", "recv", T!NoFrame)
      BY DEF DownRecv, T!RecvFrame
<1>4. /\ WatcherDone => T!Return("watcher")
      /\ UpSent => T!Return("up")
      /\ DownRecvd => T!Return("down")
      BY DEF WatcherDone, UpSent, DownRecvd
<1>5. UpReadIP => Taken' = Taken + 1
      BY ReadIPFacts DEF UpReadIP
<1>6. /\ WatcherCloses => /\ Hands("watcher") /\ call["watcher"].pc = "idle"
                          /\ call'["watcher"].pc = "lock"
      /\ UpReadIP => /\ Hands("up") /\ call["up"].pc = "idle"
                     /\ call'["up"].pc = "lock" /\ call'["up"].n = 0
      /\ DownRecv => /\ Hands("down") /\ call["down"].pc = "idle"
                     /\ call'["down"].pc = "lock"
      BY <1>t, <1>1, <1>2, <1>3, InvokeFacts
<1>7. /\ WatcherDone => /\ Hands("watcher") /\ call["watcher"].pc = "ret"
                        /\ call'["watcher"].pc = "idle"
      /\ UpSent => /\ Hands("up") /\ call["up"].pc = "ret" /\ call'["up"].pc = "idle"
      /\ DownRecvd => /\ Hands("down") /\ call["down"].pc = "ret"
                      /\ call'["down"].pc = "idle"
      BY <1>t, <1>4, ReturnFacts
<1> QED BY <1>5, <1>6, <1>7

\* What a step inside a call changes.
LEMMA InCallFacts ==
    ASSUME EndOK, NEW c \in {"up", "down", "watcher"}, TunnelStep(c)
    PROVE  /\ UNCHANGED pumpVars /\ EndsKept
           /\ \A d \in Callers \ {c} : call'[d] = call[d]
           /\ call[c].pc # "idle" /\ call'[c].pc # "idle" /\ call[c].op = Role[c]
           /\ Entered(c) \/ TurnedAway(c) \/ Wrote(c) \/ Broke(c) \/ Took(c) \/ Ended(c)
<1>t. T!TunTypes /\ c \in Callers /\ CallOK(c)
      BY DEF EndOK, EndTypes, CallsDo, Callers
<1>1. /\ UNCHANGED pumpVars /\ Others(c)
      /\ Entered(c) \/ TurnedAway(c) \/ Wrote(c) \/ Broke(c) \/ Took(c) \/ Ended(c)
      BY <1>t, CallStep DEF TunnelStep
<1>2. call[c].pc # "idle" /\ call'[c].pc # "idle"
      BY <1>1 DEF Entered, TurnedAway, Wrote, Broke, Took, Ended
<1>3. EndsKept
      BY <1>1 DEF EndsKept, Entered, TurnedAway, Wrote, Broke, Took, Ended
<1> QED BY <1>t, <1>1, <1>2, <1>3 DEF CallOK, Others

LEMMA EndsStay == ASSUME EndOK, Goes PROVE EndsKept
<1>1. CASE Local
      BY <1>1 DEF Local, EndsKept, tunVars, RunStart, RunWait, Cancel, KernelPacket, UpTop,
                  UpReadFails, DownStop, DownWrite, DownWritten, DownWriteFails
<1>2. CASE WatcherCloses \/ WatcherDone \/ UpReadIP \/ UpSent \/ DownRecv \/ DownRecvd
      BY <1>2, HandsFacts DEF EndsKept, Hands
<1>3. CASE \E c \in {"up", "down", "watcher"} : TunnelStep(c)
      BY <1>3, InCallFacts
<1> QED BY <1>1, <1>2, <1>3, GoesCases

LEMMA StagesStep == ASSUME EndOK, Stages, Goes PROVE Stages'
<1>d. /\ dev \in DevRecords /\ "up" \in Callers /\ "down" \in Callers /\ "watcher" \in Callers
      /\ down \in [pc : {"none", "top", "recv", "write", "writing", "done"}, id : 0..MaxDev]
      BY DEF EndOK, EndTypes, Callers
<1>1. CASE RunStart
  <2>1. run'.pc = "wait"
        BY <1>1 DEF RunStart, EndOK, Started
  <2>2. down'.pc = "top"
    <3>1. down' = [down EXCEPT !.pc = "top"]
          BY <1>1 DEF RunStart
    <3> QED BY <1>d, <3>1
  <2>3. run.pc = "start" /\ watcher' = "wait" /\ up' = "top" /\ UNCHANGED <<dev, closed, call>>
        BY <1>1 DEF RunStart, tunVars
  <2>5. call["up"].pc = "idle" /\ call["watcher"].pc = "idle"
        BY <2>3 DEF Stages
  <2> QED BY <2>1, <2>2, <2>3, <2>5 DEF Stages
<1>2. CASE RunWait \/ Cancel
      BY <1>2 DEF RunWait, Cancel, Stages, tunVars
<1>3. CASE KernelPacket("ip")
  <2>1. dev'.closed = dev.closed
        BY <1>3, <1>d DEF KernelPacket, DevRecords
  <2> QED BY <1>3, <2>1 DEF KernelPacket, Stages, tunVars
<1>4. CASE UpTop \/ UpReadFails
      BY <1>4 DEF UpTop, UpReadFails, UpReturns, Stages, tunVars
<1>5. CASE DownStop \/ DownWrite \/ DownWritten \/ DownWriteFails
  <2>1. down'.pc # "none" /\ dev'.closed = dev.closed
        BY <1>5, <1>d DEF DownStop, DownWrite, DownWritten, DownWriteFails, DownReturns, DevRecords
  <2> QED BY <1>5, <2>1 DEF DownStop, DownWrite, DownWritten, DownWriteFails, Stages, tunVars
<1>6. CASE WatcherCloses
  <2>1. dev'.closed = TRUE
        BY <1>6, <1>d DEF WatcherCloses, DevRecords
  <2>2. /\ watcher = "wait" /\ watcher' = "closing" /\ UNCHANGED <<run, up, down>>
        BY <1>6 DEF WatcherCloses
  <2> QED BY <1>6, <1>d, <2>1, <2>2, HandsFacts DEF Stages, Hands, Others
<1>7. CASE WatcherDone
  <2>1. /\ watcher = "closing" /\ watcher' = "done" /\ UNCHANGED <<run, up, down, dev>>
        BY <1>7 DEF WatcherDone
  <2> QED BY <1>7, <1>d, <2>1, HandsFacts DEF Stages, Hands, Others
<1>8. CASE UpReadIP
  <2>1. dev'.closed = dev.closed
        BY <1>8, <1>d DEF UpReadIP, ReadPacket, DevRecords
  <2>2. /\ up = "read" /\ up' = "send" /\ UNCHANGED <<run, watcher, down>>
        BY <1>8 DEF UpReadIP, ReadPacket
  <2> QED BY <1>8, <1>d, <2>1, <2>2, HandsFacts DEF Stages, Hands, Others
<1>9. CASE UpSent
  <2>1. /\ up = "send" /\ up' \in {"top", "done"} /\ UNCHANGED <<run, watcher, down, dev>>
        BY <1>9 DEF UpSent, UpReturns
  <2> QED BY <1>9, <1>d, <2>1, HandsFacts DEF Stages, Hands, Others
<1>10. CASE DownRecv \/ DownRecvd
  <2>1. UNCHANGED <<run, watcher, up, dev>>
        BY <1>10 DEF DownRecv, DownRecvd
  <2>2. down'.pc = "none" => down.pc = "none"
        BY <1>10, <1>d DEF DownRecv, DownRecvd, DownReturns
  <2> QED BY <1>10, <1>d, <2>1, <2>2, HandsFacts DEF Stages, Hands, Others
<1>11. ASSUME NEW c \in {"up", "down", "watcher"}, TunnelStep(c) PROVE Stages'
  <2>1. UNCHANGED <<run, watcher, up, down, dev>>
        BY <1>11, InCallFacts DEF pumpVars
  <2>2. closed => closed'
        BY <1>11, InCallFacts DEF Entered, TurnedAway, Wrote, Broke, Took, Ended
  <2>3. (call'["up"].pc # "idle" <=> call["up"].pc # "idle")
        /\ (call'["watcher"].pc # "idle" <=> call["watcher"].pc # "idle")
        BY <1>11, <1>d, InCallFacts
  <2>4. call'["watcher"].pc = "ret" => closed' \/ call["watcher"].pc = "ret"
    <3>1. CASE c = "watcher"
      <4>1. call["watcher"].op = "close" /\ call["watcher"].pc # "read"
        <5>1. CallOK("watcher")
              BY <1>d DEF EndOK, CallsDo
        <5>2. call["watcher"].pc # "idle"
              BY <1>11, <3>1, InCallFacts
        <5> QED BY <5>1, <5>2 DEF Role, CallOK
      <4>2. \/ Entered("watcher") \/ TurnedAway("watcher") \/ Wrote("watcher")
            \/ Broke("watcher") \/ Took("watcher") \/ Ended("watcher")
            BY <1>11, <3>1, InCallFacts
      <4>3. CASE TurnedAway("watcher") \/ Broke("watcher")
            BY <4>3 DEF TurnedAway, Broke
      <4>4. CASE Wrote("watcher")
            BY <4>1, <4>4 DEF Wrote
      <4> QED BY <4>1, <4>2, <4>3, <4>4 DEF Entered, Took, Ended
    <3>2. CASE c # "watcher"
          BY <1>11, <1>d, <3>2, InCallFacts
    <3> QED BY <3>1, <3>2
  <2> QED BY <2>1, <2>2, <2>3, <2>4 DEF Stages
<1> QED BY <1>1, <1>2, <1>3, <1>4, <1>5, <1>6, <1>7, <1>8, <1>9, <1>10, <1>11, GoesCases
           DEF Local

\* Not cancelled, an end stays calm, and pumpDown returns only for a Close frame.
TakesClose == rx.q # <<>> /\ Head(rx.q).f.kind = "close" /\ Head(rx.q).i = Pieces
StaysLive == Live => Live' \/ TakesClose
ReadsFrames ==
    call["down"].pc = "read" /\ rx.q # <<>> => Head(rx.q).f.kind \in {"pkt", "close"}
LEMMA CalmStep ==
    ASSUME EndOK, Stages, Calm, Goes, ~ctx', ReadsFrames PROVE Calm' /\ StaysLive
<1>d. /\ dev \in DevRecords /\ "up" \in Callers /\ "down" \in Callers /\ "watcher" \in Callers
      /\ down \in [pc : {"none", "top", "recv", "write", "writing", "done"}, id : 0..MaxDev]
      BY DEF EndOK, EndTypes, Callers
<1>g. ~gDone /\ ~dev.closed /\ ~dev.failed /\ up # "done" /\ watcher # "closing"
      BY DEF Calm, gDone
<1>1. CASE Local
  <2>1. UNCHANGED tunVars
        BY <1>1 DEF Local, RunStart, RunWait, Cancel, KernelPacket, UpTop, UpReadFails, DownStop,
                    DownWrite, DownWritten, DownWriteFails
  <2>2. dev'.closed = dev.closed /\ dev'.failed = dev.failed
        BY <1>1, <1>d DEF Local, RunStart, RunWait, Cancel, KernelPacket, UpTop, UpReadFails,
                          DownStop, DownWrite, DownWritten, DownWriteFails, DevRecords
  <2>3. ~RunWait /\ ~Cancel /\ ~UpReadFails /\ ~DownStop /\ ~DownWriteFails
    <3>1. ~Cancel
          BY DEF Cancel
    <3> QED BY <1>g, <3>1 DEF RunWait, UpReadFails, DownStop, DownWriteFails
  <2>4. UNCHANGED <<ctx, gErr>>
        BY <1>1, <1>g, <2>3 DEF Local, RunStart, KernelPacket, UpTop, DownWrite, DownWritten
  <2>5. run'.pc # "returned"
    <3>1. CASE RunStart
          BY <3>1 DEF RunStart, EndOK, Started
    <3> QED BY <1>1, <2>3, <3>1 DEF Local, KernelPacket, UpTop, DownWrite, DownWritten, Calm
  <2>6. watcher' \in {"none", "wait"} /\ up' # "done"
        BY <1>1, <1>g, <2>3 DEF Local, RunStart, KernelPacket, UpTop, DownWrite, DownWritten, Calm
  <2>7. StaysLive
    <3>1. CASE RunStart \/ DownWrite \/ DownWritten
      <4>1. down'.pc # "done"
            BY <1>d, <1>g, <3>1 DEF RunStart, DownWrite, DownWritten
      <4> QED BY <2>1, <4>1 DEF StaysLive, Live, tunVars
    <3>2. CASE UNCHANGED down
          BY <2>1, <3>2 DEF StaysLive, Live, tunVars
    <3> QED BY <1>1, <2>3, <3>1, <3>2 DEF Local, KernelPacket, UpTop
  <2> QED BY <2>1, <2>2, <2>4, <2>5, <2>6, <2>7 DEF Calm, tunVars
<1>2. ~WatcherCloses /\ ~WatcherDone
      BY <1>g DEF WatcherCloses, WatcherDone
<1>3. CASE UpReadIP \/ UpSent
  <2>1. Hands("up") /\ call'["up"].pc # "ret"
        BY <1>3, HandsFacts
  <2>2. UNCHANGED <<run, ctx, watcher, down>>
        BY <1>3 DEF UpReadIP, UpSent
  <2>3. dev'.closed = dev.closed /\ dev'.failed = dev.failed
        BY <1>3, <1>d DEF UpReadIP, UpSent, ReadPacket, DevRecords
  <2>4. UNCHANGED gErr /\ up' # "done"
    <3>1. CASE UpSent
      <4>1. call["up"].res = "nil"
            BY <3>1, HandsFacts DEF Calm
      <4> QED BY <3>1, <4>1 DEF UpSent
    <3> QED BY <1>3, <3>1 DEF UpReadIP
  <2>5. StaysLive
        BY <1>d, <2>1, <2>2 DEF StaysLive, Live, Hands, Others
  <2> QED BY <1>d, <2>1, <2>2, <2>3, <2>4, <2>5 DEF Calm, Hands, Others
<1>4. CASE DownRecv \/ DownRecvd
  <2>1. Hands("down") /\ call'["down"].pc # "ret"
        BY <1>4, HandsFacts
  <2>2. UNCHANGED <<run, ctx, watcher, up, dev>>
        BY <1>4 DEF DownRecv, DownRecvd
  <2>3. UNCHANGED gErr /\ (Live => down'.pc # "done")
    <3>1. CASE DownRecvd
      <4>1. call["down"].res = "nil" /\ call["down"].pc = "ret"
            BY <3>1, HandsFacts DEF Calm
      <4>2. UNCHANGED gErr
        <5>1. Failed("nil") => UNCHANGED gErr
              BY DEF Failed
        <5> QED BY <3>1, <4>1, <5>1 DEF DownRecvd, DownReturns
      <4>3. call["down"].f.kind # "close" => down'.pc # "done"
            BY <1>d, <3>1, <4>1 DEF DownRecvd
      <4> QED BY <4>1, <4>2, <4>3 DEF Live
    <3>2. CASE DownRecv
          BY <1>d, <3>2 DEF DownRecv
    <3> QED BY <1>4, <3>1, <3>2
  <2>4. StaysLive
        BY <2>1, <2>3 DEF StaysLive, Live
  <2> QED BY <1>d, <2>1, <2>2, <2>3, <2>4 DEF Calm, Hands, Others
<1>5. ASSUME NEW c \in {"up", "down", "watcher"}, TunnelStep(c) PROVE Calm' /\ StaysLive
  <2>1. /\ UNCHANGED <<run, ctx, gErr, watcher, up, down, dev>> /\ EndsKept
        /\ \A d \in Callers \ {c} : call'[d] = call[d]
        /\ call[c].pc # "idle" /\ call[c].op = Role[c]
        /\ Entered(c) \/ TurnedAway(c) \/ Wrote(c) \/ Broke(c) \/ Took(c) \/ Ended(c)
        BY <1>5, InCallFacts DEF pumpVars
  <2>2. CallOK(c) /\ ~closed
        BY <1>d DEF EndOK, CallsDo, Callers, Calm
  <2>3. CASE c = "up"
    <3>1. call["up"].op = "send" /\ call["up"].pc # "read" /\ CallOK("up")
          BY <2>1, <2>2, <2>3 DEF CallOK, Role
    <3>2. ~Broke("up")
          BY <3>1 DEF Broke, CallOK, Calm
    <3>3. Entered("up") \/ Wrote("up")
          BY <2>1, <2>2, <2>3, <3>1, <3>2 DEF TurnedAway, Took, Ended
    <3>4. ~closed' /\ rx' = rx /\ (call'["up"].pc = "ret" => call'["up"].res = "nil")
      <4>1. CASE Entered("up")
            BY <2>2, <3>1, <4>1 DEF Entered
      <4>2. CASE Wrote("up")
        <5>1. ~closed'
              BY <2>2, <3>1, <4>2, Zenon DEF Wrote
        <5>2. rx' = rx /\ (call'["up"].pc = "ret" => call'["up"].res = "nil")
              BY <4>2 DEF Wrote
        <5> QED BY <5>1, <5>2
      <4> QED BY <3>3, <4>1, <4>2
    <3>5. StaysLive
          BY <1>d, <2>1, <2>3 DEF StaysLive, Live
    <3> QED BY <1>d, <2>1, <2>3, <3>4, <3>5 DEF Calm, EndsKept
  <2>4. CASE c = "down"
    <3>1. call["down"].op = "recv" /\ call["down"].pc # "write"
          BY <2>1, <2>2, <2>4 DEF CallOK, Role
    <3>2. Entered("down") \/ Took("down")
          BY <2>1, <2>2, <2>4, <3>1 DEF TurnedAway, Wrote, Broke, Ended, Calm
    <3>3. ~closed' /\ tx' = tx
          BY <2>2, <3>2 DEF Entered, Took
    <3>4. CASE Entered("down")
      <4>1. rx' = rx /\ call'["down"].pc = "read"
            BY <3>1, <3>4 DEF Entered
      <4>2. StaysLive
            BY <2>1, <4>1 DEF StaysLive, Live
      <4> QED BY <1>d, <2>1, <2>4, <3>3, <4>1, <4>2 DEF Calm
    <3>5. CASE Took("down")
      <4>1. /\ rx.q # <<>> /\ call["down"].pc = "read"
            /\ Head(rx.q).f.kind \in {"pkt", "close"}
            BY <3>5 DEF Took, ReadsFrames
      <4>2. call'["down"].pc = "ret" => /\ call'["down"].res = "nil" /\ Head(rx.q).i = Pieces
                                        /\ call'["down"].f = Head(rx.q).f
            BY <3>5, <4>1 DEF Took
      <4>3. StaysLive
            BY <2>1, <4>1, <4>2 DEF StaysLive, TakesClose, Live
      <4> QED BY <1>d, <2>1, <2>4, <3>3, <4>2, <4>3 DEF Calm, EndsKept
    <3> QED BY <3>2, <3>4, <3>5
  <2>5. CASE c = "watcher"
        BY <1>g, <2>1, <2>5 DEF Stages
  <2> QED BY <2>3, <2>4, <2>5
<1> QED BY <1>1, <1>2, <1>3, <1>4, <1>5, GoesCases

\* At the other end's steps it stays so too.
LEMMA CalmStill ==
    ASSUME Calm, UNCHANGED <<run, ctx, gErr, watcher, up, dev, closed, call>>, EndsKept
    PROVE  Calm'
BY DEF Calm, EndsKept

\* What pumpDown reads next in a session is a packet or a Close frame.
LEMMA NextKind ==
    ASSUME EndOK, call["down"].pc = "read", NEW t \in Nat, GotOK(t),
           NEW p \in StreamPieces, Adj(lastIn, p)
    PROVE  p.f.kind \in {"pkt", "close"}
<1>t. down.pc = "recv" /\ call["down"].n \in 0..Pieces /\ call["down"].n < Pieces
      BY DEF EndOK, EndTypes, T!TunTypes, CallsDo, Callers, T!CallRecords
<1>1. CASE call["down"].n > 0
  <2>1. lastIn = T!Piece(call["down"].f, call["down"].n)
        BY <1>1 DEF lastIn
  <2>2. lastIn.i < Pieces /\ lastIn.f = call["down"].f
        BY <1>t, <2>1 DEF T!Piece
  <2>3. p.f = call["down"].f
        BY <2>2 DEF Adj, T!Piece
  <2> QED BY <1>1, <2>3 DEF GotOK
<1>2. CASE ~(call["down"].n > 0)
  <2>1. lastIn = T!Piece(Pkt(dev.wrote), Pieces)
        BY <1>t, <1>2 DEF lastIn
  <2>2. ~(lastIn.i < Pieces)
        BY <2>1, PumpAssumption DEF T!Piece
  <2>3. p = T!Piece(Pkt(lastIn.f.id + 1), 1) \/ p = T!Piece(T!CloseFrame(TRUE), 1)
        BY <2>2 DEF Adj
  <2>4. p.f = Pkt(lastIn.f.id + 1) \/ p.f = T!CloseFrame(TRUE)
    <3>1. \A f : T!Piece(f, 1).f = f
          BY DEF T!Piece
    <3> QED BY <2>3, <3>1
  <2> QED BY <2>4, PktFacts
<1> QED BY <1>1, <1>2

\* The end of a Close frame is written with the closing of the tunnel,
LEMMA CloseWritten ==
    ASSUME EndOK, SentOK, NEW h, LastOut(h), h.f.kind = "close", h.i = Pieces PROVE closed
<1> SUFFICES ASSUME ~closed PROVE FALSE
    OBVIOUS
<1>1. \A f, i : T!Piece(f, i).f = f /\ T!Piece(f, i).i = i
      BY DEF T!Piece
<1>2. \A n : Pkt(n).kind # "close"
      BY PktFacts
<1>3. call["watcher"].pc = "write" => call["watcher"].n # Pieces
      BY PumpAssumption DEF SentOK, Callers, EndOK, EndTypes, T!TunTypes, T!CallRecords
<1>4. \/ \E n, i : h = T!Piece(Pkt(n), i)
      \/ call["watcher"].pc = "write" /\ h = T!Piece(T!CloseFrame(TRUE), call["watcher"].n)
      BY DEF LastOut
<1>5. ASSUME NEW n, NEW i, h = T!Piece(Pkt(n), i) PROVE FALSE
  <2>1. h.f = Pkt(n)
        BY <1>1, <1>5
  <2> QED BY <1>2, <2>1
<1>6. ASSUME call["watcher"].pc = "write", h = T!Piece(T!CloseFrame(TRUE), call["watcher"].n)
      PROVE  FALSE
  <2>1. h.i = call["watcher"].n
        BY <1>1, <1>6
  <2> QED BY <1>3, <1>6, <2>1
<1> QED BY <1>4, <1>5, <1>6

\* and a tunnel stays closed.
LEMMA ClosedStays == ASSUME EndOK, Goes, closed PROVE closed'
<1>1. CASE Local
      BY <1>1 DEF Local, tunVars, RunStart, RunWait, Cancel, KernelPacket, UpTop,
                  UpReadFails, DownStop, DownWrite, DownWritten, DownWriteFails
<1>2. CASE WatcherCloses \/ WatcherDone \/ UpReadIP \/ UpSent \/ DownRecv \/ DownRecvd
      BY <1>2, HandsFacts DEF Hands
<1>3. CASE \E c \in {"up", "down", "watcher"} : TunnelStep(c)
      BY <1>3, InCallFacts DEF Entered, TurnedAway, Wrote, Broke, Took, Ended
<1> QED BY <1>1, <1>2, <1>3, GoesCases

\* What an end has in flight is no more than it has sent.
LEMMA SentFacts ==
    ASSUME EndOK
    PROVE  /\ Taken \in Nat /\ Pieces \in Nat \ {0} /\ Taken * Pieces \in Nat
           /\ Owed \in 0..Pieces /\ Extra \in 0..Pieces /\ Len(tx.q) \in Nat
           /\ (Taken + 1) * Pieces = Taken * Pieces + Pieces
<1>1. /\ Taken \in Nat /\ Pieces \in Nat \ {0} /\ Len(tx.q) \in Nat
      /\ call["up"].n \in 0..Pieces /\ call["watcher"].n \in 0..Pieces
      BY EndFacts, PumpAssumption DEF EndOK, EndTypes, Callers, T!TunTypes, T!CallRecords
<1>2. Taken * Pieces \in Nat /\ (Taken + 1) * Pieces = Taken * Pieces + Pieces
      BY <1>1
<1>3. Owed \in 0..Pieces /\ Extra \in 0..Pieces
      BY <1>1 DEF Owed, Extra
<1> QED BY <1>1, <1>2, <1>3

LEMMA SentStep == ASSUME EndOK, SentOK, Goes PROVE SentOK'
<1>d. /\ T!TunTypes /\ Pieces \in Nat \ {0} /\ tx.q \in Seq(StreamPieces)
      /\ "up" \in Callers /\ "down" \in Callers /\ "watcher" \in Callers
      /\ \A c \in Callers : call[c].n \in 0..Pieces
      BY EndFacts, PumpAssumption DEF EndOK, EndTypes, Callers, T!TunTypes, T!CallRecords
<1>1. CASE Local
  <2>1. UNCHANGED tunVars
        BY <1>1 DEF Local, RunStart, RunWait, Cancel, KernelPacket, UpTop, UpReadFails, DownStop,
                    DownWrite, DownWritten, DownWriteFails
  <2>2. Taken' = Taken
    <3>1. CASE KernelPacket("ip")
      <4>1. dev' = [dev EXCEPT !.q = Append(dev.q, Packet("ip", dev.arrived + 1)),
                               !.arrived = dev.arrived + 1]
            BY <3>1 DEF KernelPacket
      <4>2. dev.q \in Seq(Packets) /\ dev.arrived \in Nat /\ dev \in DevRecords
            BY PumpAssumption DEF EndOK, EndTypes, DevRecords
      <4>3. dev'.q = Append(dev.q, Packet("ip", dev.arrived + 1)) /\ dev'.arrived = dev.arrived + 1
            BY <4>1, <4>2 DEF DevRecords
      <4>4. Len(dev'.q) = Len(dev.q) + 1 /\ Len(dev.q) \in Nat
            BY <4>2, <4>3
      <4> QED BY <4>2, <4>3, <4>4 DEF Taken
    <3>2. CASE ~KernelPacket("ip")
      <4>1. dev'.arrived = dev.arrived /\ dev'.q = dev.q
            BY <1>1, <3>2 DEF Local, RunStart, RunWait, Cancel, UpTop, UpReadFails, DownStop,
                    DownWrite, DownWritten, DownWriteFails, EndOK, EndTypes, DevRecords
      <4> QED BY <4>1 DEF Taken
    <3> QED BY <3>1, <3>2
  <2> QED BY <2>1, <2>2 DEF SentOK, Owed, Extra, tunVars
<1>2. CASE WatcherCloses \/ WatcherDone \/ UpSent \/ DownRecv \/ DownRecvd
  <2>1. PICK c \in {"up", "down", "watcher"} :
             /\ Hands(c) /\ call[c].pc \in {"idle", "ret"} /\ call'[c].pc \in {"idle", "lock"}
             /\ c = "up" => call'[c].pc = "idle"
        BY <1>2, HandsFacts
  <2>2. Taken' = Taken
    <3>1. dev'.arrived = dev.arrived /\ dev'.q = dev.q
          BY <1>2 DEF WatcherCloses, WatcherDone, UpSent, DownRecv, DownRecvd, EndOK, EndTypes,
                      DevRecords
    <3> QED BY <3>1 DEF Taken
  <2>3. \A e \in Callers : e # c => call'[e] = call[e]
        BY <2>1 DEF Hands, Others
  <2>4. Owed' = Owed /\ Extra' = Extra
        BY <1>d, <2>1, <2>3 DEF Owed, Extra
  <2>5. UNCHANGED <<closed, tx>>
        BY <2>1 DEF Hands
  <2> QED BY <2>1, <2>2, <2>3, <2>4, <2>5 DEF SentOK
<1>3. CASE UpReadIP
  <2>1. /\ Hands("up") /\ call["up"].pc = "idle" /\ call'["up"].pc = "lock"
        /\ call'["up"].n = 0 /\ Taken' = Taken + 1
        BY <1>3, HandsFacts
  <2>2. \A e \in Callers : e # "up" => call'[e] = call[e]
        BY <2>1 DEF Hands, Others
  <2>3. Owed = 0 /\ Owed' = Pieces /\ Extra' = Extra
        BY <1>d, <2>1, <2>2 DEF Owed, Extra
  <2>4. UNCHANGED <<closed, tx>>
        BY <2>1 DEF Hands
  <2>5. ~closed => Len(tx.q) + Pieces <= (Taken + 1) * Pieces + Extra
        BY <2>3, SentFacts DEF SentOK
  <2> QED BY <2>1, <2>2, <2>3, <2>4, <2>5 DEF SentOK
<1>4. ASSUME NEW c \in {"up", "down", "watcher"}, TunnelStep(c) PROVE SentOK'
  <2>1. /\ UNCHANGED dev
        /\ \A e \in Callers : e # c => call'[e] = call[e]
        /\ call[c].pc # "idle" /\ call[c].op = Role[c]
        /\ Entered(c) \/ TurnedAway(c) \/ Wrote(c) \/ Broke(c) \/ Took(c) \/ Ended(c)
        BY <1>4, InCallFacts DEF pumpVars
  <2>2. Taken' = Taken /\ c \in Callers /\ CallOK(c)
        BY <1>d, <2>1 DEF Taken, EndOK, CallsDo
  <2>n. PICK n \in 0..Pieces : n = call[c].n
        BY <1>d, <2>2
  <2>3. CASE Entered(c)
    <3>1. /\ call[c].pc = "lock" /\ n = 0 /\ call'[c].n = 0 /\ UNCHANGED <<closed, tx>>
          /\ call'[c].pc \in {"read", "write"}
          /\ call'[c].pc = "read" <=> c = "down"
      <4>1. call[c].op = "recv" <=> c = "down"
            BY <2>1 DEF Role
      <4> QED BY <2>2, <2>3, <2>n, <4>1 DEF Entered, EndOK, CallsDo
    <3>2. Owed' = Owed /\ Extra' = Extra
      <4>1. CASE c = "up"
            BY <1>d, <2>1, <2>n, <3>1, <4>1 DEF Owed, Extra
      <4>2. CASE c = "watcher"
            BY <1>d, <2>1, <2>n, <3>1, <4>2 DEF Owed, Extra
      <4>3. CASE c = "down"
            BY <1>d, <2>1, <4>3 DEF Owed, Extra
      <4> QED BY <4>1, <4>2, <4>3
    <3> QED BY <1>d, <2>1, <2>2, <3>1, <3>2 DEF SentOK
  <2>4. CASE TurnedAway(c) \/ Broke(c)
    <3>1. closed' /\ call'[c].pc = "ret"
          BY <2>4 DEF TurnedAway, Broke
    <3> QED BY <2>1, <3>1 DEF SentOK
  <2>5. CASE Took(c) \/ Ended(c)
    <3>1. c = "down" /\ UNCHANGED <<closed, tx>> /\ call'[c].pc # "write"
      <4>1. call[c].pc = "read" /\ UNCHANGED <<closed, tx>> /\ call'[c].pc # "write"
            BY <2>5 DEF Took, Ended
      <4> QED BY <2>1, <2>2, <4>1 DEF CallOK, Role
    <3>2. Owed' = Owed /\ Extra' = Extra
          BY <1>d, <2>1, <3>1 DEF Owed, Extra
    <3> QED BY <2>1, <2>2, <3>1, <3>2 DEF SentOK
  <2>6. CASE Wrote(c)
    <3>1. /\ call[c].pc = "write" /\ n + 1 \in 1..Pieces
          /\ n + 1 < Pieces => call'[c].pc = "write" /\ call'[c].n = n + 1
          /\ n + 1 = Pieces => /\ call'[c].pc = "ret"
                               /\ call[c].op = "close" => closed' = TRUE
          BY <1>d, <2>2, <2>6, <2>n, WroteFacts DEF Wrote
    <3>2. Len(tx'.q) = Len(tx.q) + 1
          BY <1>d, <2>6 DEF Wrote
    <3>3. c # "down" /\ ~closed /\ (\A e \in Callers : e # c => call[e].pc # "write")
      <4>1. c # "down"
            BY <2>1, <2>2, <3>1 DEF CallOK, Role
      <4> QED BY <2>2, <3>1, <4>1 DEF EndOK, Locked, NoCaller, Callers
    <3>4. ~closed' => Len(tx'.q) + Owed' <= Taken * Pieces + Extra'
      <4>0. Len(tx.q) + Owed <= Taken * Pieces + Extra
            BY <3>3 DEF SentOK
      <4>1. CASE c = "up"
        <5>1. Extra' = Extra /\ Owed = Pieces - n
              BY <1>d, <2>1, <2>n, <3>1, <4>1 DEF Extra, Owed
        <5>2. Owed' = Pieces - (n + 1)
          <6>1. CASE n + 1 < Pieces
                BY <3>1, <4>1, <6>1 DEF Owed
          <6>2. CASE n + 1 = Pieces
                BY <1>d, <3>1, <4>1, <6>2 DEF Owed
          <6> QED BY <1>d, <3>1, <6>1, <6>2
        <5> QED BY <1>d, <3>2, <4>0, <5>1, <5>2, SentFacts
      <4>2. CASE c = "watcher"
        <5>1. Owed' = Owed /\ Extra = n
              BY <1>d, <2>1, <2>n, <3>1, <4>2 DEF Extra, Owed
        <5>2. CASE n + 1 < Pieces
          <6>1. Extra' = n + 1
                BY <3>1, <4>2, <5>2 DEF Extra
          <6>2. PICK k \in Nat, l \in Nat, o \in Nat :
                     k = Taken * Pieces /\ l = Len(tx.q) /\ o = Owed
                BY SentFacts
          <6>3. l + o <= k + n
                BY <4>0, <5>1, <6>2
          <6>4. (l + 1) + o <= k + (n + 1)
                BY <2>n, <1>d, <6>2, <6>3
          <6> QED BY <3>2, <5>1, <6>1, <6>2, <6>4
        <5>3. CASE n + 1 = Pieces
              BY <2>1, <3>1, <4>2, <5>3 DEF Role
        <5> QED BY <1>d, <3>1, <5>2, <5>3
      <4> QED BY <3>3, <4>1, <4>2
    <3>5. \A e \in Callers : call'[e].pc = "write" => call'[e].n < Pieces
      <4>1. call'[c].pc = "write" => call'[c].n < Pieces
            BY <1>d, <3>1
      <4> QED BY <2>1, <4>1 DEF SentOK
    <3> QED BY <2>2, <3>4, <3>5 DEF SentOK
  <2> QED BY <2>1, <2>3, <2>4, <2>5, <2>6
<1> QED BY <1>1, <1>2, <1>3, <1>4, GoesCases

LEMMA SentStill ==
    ASSUME EndOK, SentOK, UNCHANGED <<dev, closed, call>>,
           Len(tx'.q) \in Nat, Len(tx'.q) <= Len(tx.q)
    PROVE  SentOK'
<1>1. Owed' = Owed /\ Extra' = Extra /\ Taken' = Taken
      BY DEF Owed, Extra, Taken
<1>2. ~closed => Len(tx'.q) + Owed <= Taken * Pieces + Extra
      BY SentFacts DEF SentOK
<1> QED BY <1>1, <1>2 DEF SentOK

\* How an end starts.
LEMMA RestInit == ASSUME Init PROVE Stages /\ Calm /\ SentOK /\ dev.arrived = 0
<1>1. /\ dev.arrived = 0 /\ dev.q = <<>> /\ ~dev.closed /\ ~dev.failed
      /\ down.pc = "none" /\ run.pc = "start" /\ ~ctx /\ gErr = "nil" /\ watcher = "none"
      /\ up = "none" /\ ~closed /\ tx.q = <<>> /\ tx.end = "open" /\ rx.q = <<>>
      /\ rx.end = "open" /\ \A c \in Callers : call[c].pc = "idle" /\ call[c].n = 0
      BY DEF Init, T!TunInit, T!OpenStream, T!NoCall
<1>2. Stages
      BY <1>1 DEF Stages, Callers
<1>3. Calm
      BY <1>1 DEF Calm, Callers
<1>4. EndOK
      BY EndInit
<1>5. Owed = 0 /\ Extra = 0 /\ Len(tx.q) = 0
      BY <1>1 DEF Owed, Extra, Callers
<1>6. SentOK
      BY <1>1, <1>4, <1>5, SentFacts DEF SentOK
<1> QED BY <1>1, <1>2, <1>3, <1>6

\* mu is held by a writer.
LEMMA Holder ==
    ASSUME EndOK, mu # NoCaller PROVE mu \in {"up", "watcher"} /\ call[mu].pc = "write"
<1>1. mu \in Callers
      BY DEF EndOK, EndTypes, T!TunTypes
<1>2. call[mu].pc = "write"
      BY <1>1 DEF EndOK, Locked
<1>3. CallOK(mu) /\ call["owner"].pc = "idle"
      BY <1>1 DEF EndOK, CallsDo
<1> QED BY <1>1, <1>2, <1>3 DEF CallOK, Role, Callers

\* At rest mu is held by a writer that has no room,
LEMMA HeldRests ==
    ASSUME EndOK, Asleep, mu # NoCaller
    PROVE  /\ mu \in {"up", "watcher"} /\ call[mu].pc = "write"
           /\ tx.end = "open" /\ Len(tx.q) >= Window
<1>1. mu \in {"up", "watcher"} /\ call[mu].pc = "write"
      BY Holder
<1>2. T!Blocked(mu)
      BY <1>1 DEF Asleep
<1> QED BY <1>1, <1>2 DEF T!Blocked

\* or nobody waits for it.
LEMMA FreeRests ==
    ASSUME EndOK, Stages, Asleep, mu = NoCaller
    PROVE  /\ call["up"].pc = "idle" /\ call["watcher"].pc = "idle"
           /\ up \in {"none", "read", "done"} /\ watcher # "closing"
           /\ down.pc \in {"none", "recv", "done"}
           /\ down.pc = "recv" => /\ call["down"].pc = "read"
                                  /\ rx.q = <<>> /\ rx.end = "open"
<1>1. /\ \A c \in Callers : CallOK(c) /\ call[c].pc \in {"idle", "lock", "write", "read", "ret"}
      /\ \A c \in Callers : call[c].pc # "write"
      BY DEF EndOK, EndTypes, T!TunTypes, T!CallRecords, CallsDo, Locked, NoCaller, Callers
<1>2. ASSUME NEW c \in {"up", "down", "watcher"}
      PROVE  /\ call[c].pc \in {"idle", "read"}
             /\ call[c].pc = "read" => rx.q = <<>> /\ rx.end = "open"
             /\ c # "down" => call[c].pc = "idle"
  <2>1. T!Blocked(c) /\ c \in Callers
        BY DEF Asleep, Callers
  <2>2. call[c].pc \in {"idle", "read"} /\ (call[c].pc = "read" => rx.q = <<>> /\ rx.end = "open")
        BY <1>1, <2>1 DEF T!Blocked
  <2>3. c # "down" => call[c].pc # "read"
        BY <1>1, <2>1 DEF CallOK, Role
  <2> QED BY <2>2, <2>3
<1>3. call["down"].pc # "idle" <=> down.pc = "recv"
      BY DEF EndOK, CallsDo
<1>4. down.pc \in {"none", "recv", "done"}
      BY DEF Asleep, EndOK, EndTypes
<1> QED BY <1>2, <1>3, <1>4 DEF Stages, Asleep

\* Cancelled, it is shut down but for pumpDown's read,
LEMMA StoppedRests ==
    ASSUME EndOK, Stages, Asleep, mu = NoCaller, run.pc # "start", ctx
    PROVE  /\ watcher = "done" /\ closed
           /\ run.pc = "returned" \/ (down.pc = "recv" /\ call["down"].pc = "read")
<1>1. watcher = "done"
      BY FreeRests DEF Stages, Asleep, gDone
<1>2. dev.closed /\ closed
      BY <1>1 DEF Stages
<1>3. up = "done"
      BY <1>2, FreeRests DEF Stages, Asleep
<1>4. down.pc \in {"recv", "done"}
      BY FreeRests DEF Stages
<1> QED BY <1>1, <1>2, <1>3, <1>4, FreeRests DEF Stages, Asleep

\* not cancelled it has nothing to do.
LEMMA CalmRests ==
    ASSUME EndOK, Stages, Asleep, mu = NoCaller, run.pc # "start", Calm
    PROVE  /\ run.pc = "wait" /\ up = "read" /\ dev.q = <<>>
           /\ Live => rx.q = <<>> /\ call["down"].pc = "read" /\ down.pc = "recv"
<1>1. up = "read" /\ down.pc \in {"recv", "done"} /\ run.pc = "wait"
      BY FreeRests DEF Stages, Calm
<1> QED BY <1>1, FreeRests DEF Asleep, Live

\* What it wrote last and what the other end read last agree.
LEMMA LastOutRests ==
    ASSUME EndOK, Stages, Asleep, mu = NoCaller, NEW p, LastOut(p)
    PROVE  /\ ~closed /\ dev.q = <<>> => p = T!Piece(Pkt(dev.arrived), Pieces)
           /\ closed /\ tx.end = "open" => p = T!Piece(T!CloseFrame(TRUE), Pieces)
<1>1. call["up"].pc = "idle" /\ call["watcher"].pc = "idle"
      BY FreeRests
<1>2. dev.q = <<>> => Taken = dev.arrived
  <2>1. dev.arrived \in Nat /\ Len(<<>>) = 0
        BY PumpAssumption DEF EndOK, EndTypes, DevRecords
  <2> QED BY <2>1 DEF Taken
<1> QED BY <1>1, <1>2 DEF LastOut

LEMMA LastInRests ==
    ASSUME EndOK, call["down"].pc = "read", NEW p, p = lastIn
    PROVE  /\ \A m : p = T!Piece(Pkt(m), Pieces) => dev.wrote = m
           /\ p # T!Piece(T!CloseFrame(TRUE), Pieces)
<1>1. down.pc = "recv" /\ call["down"].n < Pieces /\ call["down"].n \in Nat
      BY DEF EndOK, EndTypes, T!TunTypes, T!CallRecords, CallsDo, Callers
<1>p. \A f, i : T!Piece(f, i).f = f /\ T!Piece(f, i).i = i
      BY DEF T!Piece
<1>2. CASE call["down"].n > 0
  <2>1. p.i = call["down"].n
        BY <1>2 DEF lastIn, T!Piece
  <2>2. p.i # Pieces
        BY <1>1, <2>1, PumpAssumption
  <2>3. ASSUME NEW g, p = T!Piece(g, Pieces) PROVE FALSE
    <3>1. p.i = T!Piece(g, Pieces).i
          BY <2>3
    <3> QED BY <1>p, <2>2, <3>1
  <2> QED BY <2>3
<1>3. CASE ~(call["down"].n > 0)
  <2>1. p = T!Piece(Pkt(dev.wrote), Pieces)
        BY <1>1, <1>3 DEF lastIn
  <2>2. p.f = Pkt(dev.wrote)
        BY <2>1 DEF T!Piece
  <2>3. ASSUME NEW m, p = T!Piece(Pkt(m), Pieces) PROVE dev.wrote = m
    <3>1. Pkt(m) = Pkt(dev.wrote)
          BY <2>2, <2>3 DEF T!Piece
    <3> QED BY <3>1, PktFacts
  <2>4. ASSUME p = T!Piece(T!CloseFrame(TRUE), Pieces) PROVE FALSE
    <3>1. T!CloseFrame(TRUE) = Pkt(dev.wrote)
          BY <1>p, <2>2, <2>4
    <3> QED BY <3>1, PktFacts
  <2> QED BY <2>3, <2>4
<1> QED BY <1>2, <1>3

\* A writer finds room if there is room for all that may be sent.
LEMMA RoomLeft ==
    ASSUME EndOK, SentOK, mu \in {"up", "watcher"}
    PROVE  /\ Len(tx.q) < (Taken + 1) * Pieces
           /\ mu = "up" => Len(tx.q) < Taken * Pieces
<1>1. /\ call[mu].pc = "write" /\ ~closed /\ call[mu].n < Pieces
      /\ call[mu].n \in 0..Pieces /\ (mu = "up" => call["watcher"].pc # "write")
      BY DEF EndOK, EndTypes, T!TunTypes, T!CallRecords, Locked, SentOK, NoCaller, Callers
<1>2. Len(tx.q) + Owed <= Taken * Pieces + Extra
      BY <1>1 DEF SentOK
<1>3. PICK k \in Nat, l \in Nat, o \in Nat, e \in Nat, m \in Nat :
          /\ k = Taken * Pieces /\ l = Len(tx.q) /\ o = Owed /\ e = Extra /\ m = Pieces
          /\ (Taken + 1) * Pieces = k + m /\ l + o <= k + e
  <2>1. /\ Taken * Pieces \in Nat /\ Len(tx.q) \in Nat /\ Owed \in Nat /\ Extra \in Nat
        /\ Pieces \in Nat /\ (Taken + 1) * Pieces = Taken * Pieces + Pieces
        BY SentFacts
  <2> QED BY <1>2, <2>1, Zenon
<1>4. CASE mu = "up"
  <2>1. e = 0
        BY <1>1, <1>3, <1>4 DEF Extra
  <2>2. o >= 1 /\ m >= 1
        BY <1>1, <1>3, <1>4, PumpAssumption DEF Owed
  <2>3. l < k /\ l < k + m
        BY <1>3, <2>1, <2>2
  <2> QED BY <1>3, <2>3
<1>5. CASE mu = "watcher"
  <2>1. e < m
        BY <1>1, <1>3, <1>5 DEF Extra
  <2>2. l < k + m
        BY <1>3, <2>1
  <2> QED BY <1>3, <1>5, <2>2
<1> QED BY <1>4, <1>5

\* A cancellation is for good.
LEMMA CtxStays == ASSUME Goes, ctx PROVE ctx'
BY DEF Goes, RunStart, RunWait, Cancel, Happens, KernelPacket, WatcherNext, UpNext, DownNext,
       WatcherCloses, WatcherDone, TunnelStep, pumpVars, UpTop, UpReadEmpty, UpReadIP,
       UpReadNotIP, UpReadFails, UpSent, DownStop, DownRecv, DownRecvd, DownWrite, DownWritten,
       DownWriteFails

\* Asleep, an end does nothing by itself.
LEMMA AsleepStays ==
    ASSUME EndOK, Stages, Asleep, run.pc # "start",
           RunWait \/ WatcherNext \/ UpNext \/ DownNext
    PROVE  FALSE
<1>1. /\ ~RunWait /\ ~WatcherCloses /\ ~UpTop /\ ~UpReadFails /\ ~UpReadIP /\ ~UpReadEmpty
      /\ ~UpReadNotIP /\ ~DownStop /\ ~DownRecv /\ ~DownWrite /\ ~DownWritten /\ ~DownWriteFails
      BY DEF Asleep, RunWait, WatcherCloses, UpTop, UpReadFails, UpReadIP, UpReadEmpty,
             UpReadNotIP, ReadPacket, DownStop, DownRecv, DownWrite, DownWritten, DownWriteFails
<1>2. \A c \in {"watcher", "up", "down"} : T!Blocked(c)
      BY DEF Asleep
<1>3. ~WatcherDone /\ ~UpSent /\ ~DownRecvd
      BY <1>2, HandsFacts DEF T!Blocked
<1>4. ASSUME NEW c \in {"watcher", "up", "down"}, TunnelStep(c) PROVE FALSE
  <2>1. T!TunStep(c) /\ T!Blocked(c) /\ ~(Len(tx.q) >= Window /\ Len(tx.q) < Window)
    <3>1. Len(tx.q) \in Nat /\ Window \in Nat
          BY EndFacts, PumpAssumption
    <3> QED BY <1>2, <1>4, <3>1 DEF TunnelStep
  <2> QED BY <2>1 DEF T!TunStep, T!Blocked, T!LockClosed, T!LockWriter, T!LockReader, T!WritePiece,
                      T!WriteLast, T!PutPiece, T!WriteFailed, T!ReadPiece, T!ReadEnd
<1> QED BY <1>1, <1>3, <1>4 DEF WatcherNext, UpNext, DownNext

\* With a writer that has no room and nobody reading, no call goes on, whatever the
\* goroutines outside their calls, the kernel and the operator do.
LEMMA JamStays ==
    ASSUME EndOK, Goes, mu # NoCaller, tx.end = "open", Len(tx.q) >= Window,
           call["down"].pc # "read"
    PROVE  UNCHANGED <<mu, tx, rx>> /\ call'["down"].pc # "read"
<1>1. CASE Local
      BY <1>1 DEF Local, tunVars, RunStart, RunWait, Cancel, KernelPacket, UpTop,
                  UpReadFails, DownStop, DownWrite, DownWritten, DownWriteFails
<1>2. CASE WatcherCloses \/ WatcherDone \/ UpReadIP \/ UpSent
  <2>1. "down" \in Callers \ {"watcher"} /\ "down" \in Callers \ {"up"}
        BY DEF Callers
  <2> QED BY <1>2, <2>1, HandsFacts DEF Hands, Others
<1>3. CASE DownRecv \/ DownRecvd
      BY <1>3, HandsFacts DEF Hands
<1>4. ASSUME NEW c \in {"up", "down", "watcher"}, TunnelStep(c) PROVE FALSE
  <2>1. T!TunStep(c) /\ ~(Len(tx.q) < Window)
    <3>1. Len(tx.q) \in Nat /\ Window \in Nat
          BY EndFacts, PumpAssumption
    <3> QED BY <1>4, <3>1 DEF TunnelStep
  <2>2. call[c].pc # "read"
    <3>1. c \in Callers /\ (call[c].pc = "read" => call[c].op = Role[c] /\ call[c].op = "recv")
          BY DEF EndOK, CallsDo, CallOK, Callers
    <3> QED BY <3>1 DEF Role
  <2>3. call[c].pc = "write" => ~T!Refused(c)
    <3>1. c \in Callers
          BY DEF Callers
    <3>2. call[c].pc = "write" => call[c].f.ok
          BY <3>1 DEF EndOK, CallsDo, CallOK
    <3> QED BY <3>2 DEF T!Refused
  <2>4. ~closed
        BY DEF EndOK, Locked
  <2> QED BY <2>1, <2>2, <2>3, <2>4
          DEF T!TunStep, T!LockClosed, T!LockWriter, T!LockReader, T!WritePiece, T!WriteLast,
              T!PutPiece, T!WriteFailed, T!ReadPiece, T!ReadEnd
<1> QED BY <1>1, <1>2, <1>3, <1>4, GoesCases

=============================================================================
