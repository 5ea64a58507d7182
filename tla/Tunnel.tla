------------------------------- MODULE Tunnel -------------------------------
(***************************************************************************)
(* One end of a transport.Tunnel: the wrapper of                           *)
(* internal/transport/grpc/wrapper.go around a byte stream, with the order *)
(* in which the codec writes and reads the pieces of a frame.              *)
(*                                                                         *)
(* A frame goes over the stream in Pieces writes (the tag, then its body). *)
(* SendFrame and Close write them under mu; RecvFrame only looks at closed *)
(* under mu and reads the stream without it.  A call is a record: op is    *)
(* what was called, pc where it is, f the frame, n the pieces written or   *)
(* read so far and res what it returns.                                    *)
(***************************************************************************)
EXTENDS Naturals, Sequences

CONSTANTS
    Callers,   \* the goroutines that call the tunnel
    NoCaller,  \* nobody holds mu
    Frames,    \* the frames callers may send, and the peer too
    Pieces,    \* stream writes that make up one frame
    Window,    \* pieces in flight before a write to the stream blocks
    MaxRx      \* bound: pieces in flight towards us when the peer is not modelled

ASSUME TunnelAssumption ==
    /\ NoCaller \notin Callers
    /\ \A f \in Frames : /\ DOMAIN f = {"kind", "ok", "id"}
                         /\ f.kind \in {"pkt", "ctl", "bad"}
                         /\ f.ok \in BOOLEAN
                         /\ f.id \in Nat
    /\ Pieces \in Nat /\ Pieces >= 1
    /\ Window \in Nat \ {0}
    /\ MaxRx \in Nat

VARIABLES
    mu,      \* holder of tunnel.mu
    closed,  \* tunnel.closed
    call,    \* call[c]: the call c is in
    tx,      \* outgoing half of the stream: pieces in flight, and its end
    rx       \* incoming half

tunVars == <<mu, closed, call, tx, rx>>

\* kind: what the frame is to its reader; ok: WriteFrame can encode it;
\* id: tells packets apart.
Frame(k, ok, id) == [kind |-> k, ok |-> ok, id |-> id]
CloseFrame(ok) == Frame("close", ok, 0)
NoFrame == Frame("none", TRUE, 0)

\* Piece i of frame f on the stream.
Piece(f, i) == [f |-> f, i |-> i]

NoCall == [op |-> "none", pc |-> "idle", f |-> NoFrame, n |-> 0, res |-> "nil"]
OpenStream == [q |-> <<>>, end |-> "open"]

TunInit == /\ mu = NoCaller
           /\ closed = FALSE
           /\ call = [c \in Callers |-> NoCall]
           /\ tx = OpenStream
           /\ rx = OpenStream

Invoke(c, op, f) ==
    /\ call[c].pc = "idle"
    /\ call' = [call EXCEPT ![c] = [NoCall EXCEPT !.op = op, !.pc = "lock", !.f = f]]
    /\ UNCHANGED <<mu, closed, tx, rx>>

SendFrame(c, f) == Invoke(c, "send", f)
RecvFrame(c) == Invoke(c, "recv", NoFrame)
Close(c, ok) == Invoke(c, "close", CloseFrame(ok))

\* c returns res.
Returning(c, res) ==
    [call EXCEPT ![c] = [NoCall EXCEPT !.op = call[c].op, !.pc = "ret", !.res = res]]

-----------------------------------------------------------------------------
(* Inside a call *)

\* mu.Lock, closed already set: unlock and return at once.
LockClosed(c) ==
    /\ call[c].pc = "lock"
    /\ mu = NoCaller
    /\ closed
    /\ call' = Returning(c, IF call[c].op = "close" THEN "nil" ELSE "ErrClosed")
    /\ UNCHANGED <<mu, closed, tx, rx>>

\* Mutant of LockWriter: writes without taking mu.
LockWriterUnlocked(c) ==
    /\ call[c].pc = "lock"
    /\ call[c].op \in {"send", "close"}
    /\ mu = NoCaller
    /\ ~closed
    /\ call' = [call EXCEPT ![c].pc = "write"]
    /\ UNCHANGED <<mu, closed, tx, rx>>

\* SendFrame and Close keep mu while they write.
LockWriter(c) ==
    /\ call[c].pc = "lock"
    /\ call[c].op \in {"send", "close"}
    /\ mu = NoCaller
    /\ ~closed
    /\ mu' = c
    /\ call' = [call EXCEPT ![c].pc = "write"]
    /\ UNCHANGED <<closed, tx, rx>>

\* Mutant of LockReader: mu is not let go before the read.
LockReaderNoUnlock(c) ==
    /\ call[c].pc = "lock"
    /\ call[c].op = "recv"
    /\ mu = NoCaller
    /\ ~closed
    /\ mu' = c
    /\ call' = [call EXCEPT ![c].pc = "read"]
    /\ UNCHANGED <<closed, tx, rx>>

\* RecvFrame lets mu go before it reads.
LockReader(c) ==
    /\ call[c].pc = "lock"
    /\ call[c].op = "recv"
    /\ mu = NoCaller
    /\ ~closed
    /\ call' = [call EXCEPT ![c].pc = "read"]
    /\ UNCHANGED <<mu, closed, tx, rx>>

\* WriteFrame may refuse a frame here: a packet before its first byte, a control
\* record anywhere after its tag (a Session record half-way through its body).
Refused(c) == /\ ~call[c].f.ok
              /\ IF call[c].f.kind = "pkt" THEN call[c].n = 0
                 ELSE call[c].n > 0 \/ call[c].n + 1 = Pieces

\* WriteFrame has something more to write: of a frame it refuses, never the end.
More(c) == call[c].f.ok \/ (call[c].f.kind # "pkt" /\ call[c].n + 1 < Pieces)

\* The next piece goes out, room permitting.
PutPiece(c) ==
    /\ call[c].pc = "write"
    /\ More(c)
    /\ tx.end = "open"
    /\ Len(tx.q) < Window
    /\ tx' = [tx EXCEPT !.q = Append(@, Piece(call[c].f, call[c].n + 1))]

\* Mutant of WritePiece: goes on after the last piece.
WritePieceTooMany(c) ==
    /\ call[c].n < Pieces + 1
    /\ PutPiece(c)
    /\ call' = [call EXCEPT ![c].n = @ + 1]
    /\ UNCHANGED <<mu, closed, rx>>

WritePiece(c) ==
    /\ call[c].n + 1 < Pieces
    /\ PutPiece(c)
    /\ call' = [call EXCEPT ![c].n = @ + 1]
    /\ UNCHANGED <<mu, closed, rx>>

\* Mutant of WriteLast: Close forgets to mark the tunnel closed.
WriteLastStaysOpen(c) ==
    /\ call[c].n + 1 = Pieces
    /\ PutPiece(c)
    /\ mu' = NoCaller
    /\ call' = Returning(c, "nil")
    /\ UNCHANGED <<closed, rx>>

\* The last piece: WriteFrame returns nil, Close marks the tunnel closed.
WriteLast(c) ==
    /\ call[c].n + 1 = Pieces
    /\ PutPiece(c)
    /\ mu' = NoCaller
    /\ closed' = (closed \/ call[c].op = "close")
    /\ call' = Returning(c, "nil")
    /\ UNCHANGED rx

\* What a write to an ended stream returns: io.EOF after an orderly end.
WriteError == IF tx.end = "eof" THEN "EOF" ELSE "err"

\* Mutant of WriteFailed: a failed SendFrame leaves the tunnel open.
WriteFailedStaysOpen(c) ==
    /\ call[c].pc = "write"
    /\ tx.end # "open" \/ Refused(c)
    /\ mu' = NoCaller
    /\ call' = Returning(c, IF Refused(c) THEN "err" ELSE WriteError)
    /\ UNCHANGED <<closed, tx, rx>>

\* Any error of WriteFrame closes the tunnel, whatever part of the frame is out.
WriteFailed(c) ==
    /\ call[c].pc = "write"
    /\ tx.end # "open" \/ Refused(c)
    /\ mu' = NoCaller
    /\ closed' = TRUE
    /\ call' = Returning(c, IF Refused(c) THEN "err" ELSE WriteError)
    /\ UNCHANGED <<tx, rx>>

\* ReadFrame takes the next piece; the first one names the frame, and a frame
\* it cannot decode is an error there.
ReadPiece(c) ==
    /\ call[c].pc = "read"
    /\ rx.q # <<>>
    /\ LET p == Head(rx.q) IN
         call' = IF p.f.kind = "bad" THEN Returning(c, "err")
                 ELSE IF p.i = Pieces
                 THEN [Returning(c, "nil") EXCEPT ![c].f = p.f]
                 ELSE [call EXCEPT ![c].n = p.i, ![c].f = p.f]
    /\ rx' = [rx EXCEPT !.q = Tail(@)]
    /\ UNCHANGED <<mu, closed, tx>>

\* The stream ended: io.EOF between frames, another error inside one, except
\* that a Session record cut before an address is io.EOF too (module Codec).
ReadErrors(c) == CASE rx.end # "eof" -> {"err"}
                   [] rx.end = "eof" /\ call[c].n = 0 -> {"EOF"}
                   [] OTHER -> IF call[c].f.kind = "ctl" THEN {"err", "EOF"} ELSE {"err"}
ReadEnd(c) ==
    /\ call[c].pc = "read"
    /\ rx.q = <<>>
    /\ rx.end # "open"
    /\ \E res \in ReadErrors(c) : call' = Returning(c, res)
    /\ UNCHANGED <<mu, closed, tx, rx>>

\* The caller takes the result.
Return(c) ==
    /\ call[c].pc = "ret"
    /\ call' = [call EXCEPT ![c] = NoCall]
    /\ UNCHANGED <<mu, closed, tx, rx>>

\* The steps of the calls themselves, once invoked and until they return.
TunStep(c) == \/ LockClosed(c) \/ LockWriter(c) \/ LockReader(c)
              \/ WritePiece(c) \/ WriteLast(c) \/ WriteFailed(c)
              \/ ReadPiece(c) \/ ReadEnd(c)

\* The call c is in, if any, cannot go on: somebody else has mu, there is no room
\* to write, or nothing to read.
Blocked(c) == /\ call[c].pc # "ret"
              /\ call[c].pc = "lock" => mu # NoCaller
              /\ call[c].pc = "write" => /\ ~Refused(c)
                                         /\ tx.end = "open" /\ Len(tx.q) >= Window
              /\ call[c].pc = "read" => rx.q = <<>> /\ rx.end = "open"

-----------------------------------------------------------------------------
(* The stream's other end and its owner *)

\* What the peer may send: what its own WriteFrame can encode, and frames that
\* ReadFrame cannot decode.
Inbound == {f \in Frames : f.ok} \cup {CloseFrame(TRUE)}

\* A frame arrives.
RxFrame(f) ==
    /\ rx.end = "open"
    /\ Len(rx.q) + Pieces <= MaxRx
    /\ rx' = [rx EXCEPT !.q = @ \o [i \in 1..Pieces |-> Piece(f, i)]]
    /\ UNCHANGED <<mu, closed, call, tx>>

\* The incoming half ends, in an orderly way or not, perhaps inside a frame.
RxEnds(e) ==
    /\ rx.end = "open"
    /\ rx' = [rx EXCEPT !.end = e]
    /\ UNCHANGED <<mu, closed, call, tx>>
RxTorn(f, e) ==
    /\ rx.end = "open"
    /\ Len(rx.q) < MaxRx
    /\ rx' = [q |-> Append(rx.q, Piece(f, 1)), end |-> e]
    /\ UNCHANGED <<mu, closed, call, tx>>

\* The outgoing half ends: writes fail from now on.
TxEnds(e) ==
    /\ tx.end = "open"
    /\ tx' = [tx EXCEPT !.end = e]
    /\ UNCHANGED <<mu, closed, call, rx>>

Stream == \/ \E f \in Inbound : RxFrame(f)
          \/ \E e \in {"eof", "err"} :
                RxEnds(e) \/ TxEnds(e) \/ \E f \in Inbound : RxTorn(f, e)

-----------------------------------------------------------------------------
(* The tunnel alone, its callers doing whatever they like *)

\* One reader at a time, as the contract asks; writers are not so restricted.
Calls(c) == \/ (\A d \in Callers : call[d].op # "recv") /\ RecvFrame(c)
            \/ \E ok \in BOOLEAN : Close(c, ok)
            \/ \E f \in Frames : f.kind # "bad" /\ SendFrame(c, f)

TunNext == Stream \/ \E c \in Callers : Calls(c) \/ TunStep(c) \/ Return(c)

TunSpec == TunInit /\ [][TunNext]_tunVars

AllFrames == Frames \cup {CloseFrame(TRUE), CloseFrame(FALSE), NoFrame}
CallRecords == [op : {"none", "send", "recv", "close"},
                pc : {"idle", "lock", "write", "read", "ret"},
                f : AllFrames, n : 0..Pieces, res : {"nil", "ErrClosed", "EOF", "err"}]
StreamHalf == [q : Seq([f : AllFrames, i : 1..Pieces]), end : {"open", "eof", "err"}]

\* Type correctness of the tunnel's state and of the calls in progress.
TunTypes ==
    /\ mu \in Callers \cup {NoCaller}
    /\ closed \in BOOLEAN
    /\ call \in [Callers -> CallRecords]
    /\ tx \in StreamHalf
    /\ rx \in StreamHalf

\* What follows piece p on a well-formed stream: the frame's next piece, or
\* the first piece of another frame unless p ends a Close frame.
MayFollow(p, r) == IF p.i < Pieces THEN r = Piece(p.f, p.i + 1)
                   ELSE r.i = 1 /\ p.f.kind # "close"

\* However SendFrame and Close calls interleave and fail, what is on the stream
\* is a sequence of whole frames, at most the last of them cut short, and
\* nothing after a Close frame (wrapper.go: mu held over WriteFrame, closed
\* set on every error).  Nothing takes pieces off tx in this module.
WireWellFormed ==
    \A k \in 1..Len(tx.q) : IF k = 1 THEN tx.q[1].i = 1
                            ELSE MayFollow(tx.q[k - 1], tx.q[k])

\* A frame is cut short only while a call is still writing it, or for good.
TornOnlyWhenClosed ==
    tx.q # <<>> /\ tx.q[Len(tx.q)].i < Pieces => closed \/ mu # NoCaller

\* Once closed the tunnel stays closed and writes nothing more: "the stream is
\* unusable after this returns" (contract/transport/transport.go:28-30).
ClosedForGood == [][closed => closed' /\ tx'.q = tx.q]_tunVars

=============================================================================
