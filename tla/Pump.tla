-------------------------------- MODULE Pump --------------------------------
(***************************************************************************)
(* One call of Pump.Run (internal/tunnel/session/pump_linux.go) on one TUN *)
(* device and one tunnel: the goroutine in Run, the watcher, pumpUp and    *)
(* pumpDown, the errgroup that joins them, and the device of               *)
(* internal/tunnel/tun/tun_linux.go.  The tunnel is module Tunnel.  The    *)
(* buffers are module BufferPool's subject and do not appear here.         *)
(***************************************************************************)
EXTENDS Naturals, Sequences, FiniteSets

CONSTANTS
    Pieces, Window, MaxRx,   \* see Tunnel
    CloseError,   \* what a Read or Write inside the device returns at Close:
                  \* "ErrClosed" as the contract has it, "osErrClosed" for os.File
    MaxEvents,    \* bound: cancellations, closes, failures and the like
    MaxDev        \* bound: IP packets the kernel queues on the device

Callers == {"up", "down", "watcher", "owner"}
NoCaller == "nobody"

VARIABLES
    run,     \* Run: [pc, res]
    ctx,     \* the caller's context is cancelled
    gErr,    \* errgroup: the first non-nil error, or "nil"
    watcher, \* pc of the watcher goroutine
    up,      \* pc of pumpUp
    down,    \* pumpDown: [pc, id], id being the number of the packet to write
    dev,     \* the device: [closed, failed, q, arrived, wrote], where arrived
             \* numbers the IP packets and wrote is the number last written
    seen,    \* history: what has happened to the session from outside
    mu, closed, call, tx, rx

pumpVars == <<run, ctx, gErr, watcher, up, down, dev, seen>>
tunVars == <<mu, closed, call, tx, rx>>
vars == <<pumpVars, tunVars>>

Kinds == {"ip", "notip", "empty"}
Packet(k, id) == [kind |-> k, id |-> id]

\* The frames of the model: a packet of each number, a keep-alive, garbage.
Frames == {[kind |-> "pkt", ok |-> TRUE, id |-> n] : n \in 1..MaxDev}
            \cup {[kind |-> k, ok |-> TRUE, id |-> 0] : k \in {"ctl", "bad"}}

T == INSTANCE Tunnel

ASSUME PumpAssumption ==
    /\ CloseError \in {"ErrClosed", "osErrClosed"}
    /\ MaxDev \in Nat
    /\ MaxEvents \in Nat
    /\ Pieces \in Nat \ {0} /\ Window \in Nat \ {0} /\ MaxRx \in Nat

Init == /\ run = [pc |-> "start", res |-> "nil"]
        /\ ctx = FALSE
        /\ gErr = "nil"
        /\ watcher = "none"
        /\ up = "none"
        /\ down = [pc |-> "none", id |-> 0]
        /\ dev = [closed |-> FALSE, failed |-> FALSE, q |-> <<>>, arrived |-> 0, wrote |-> 0]
        /\ seen = {}
        /\ T!TunInit

\* gCtx.Done(): the caller cancelled, a direction failed, or Wait returned.
gDone == ctx \/ gErr # "nil" \/ run.pc = "returned"

-----------------------------------------------------------------------------
(* Run *)

\* Run is handed no device (read_tun_failed) or no tunnel (send_frame_failed).
RunNil(e) == /\ run.pc = "start"
             /\ run' = [pc |-> "refused", res |-> e]
             /\ UNCHANGED <<ctx, gErr, watcher, up, down, dev, seen, tunVars>>

\* dev.MTU fails on a closed or failed device: Run returns without starting.
RunNoMTU == /\ run.pc = "start"
            /\ dev.closed \/ dev.failed
            /\ run' = [pc |-> "refused", res |-> "read_tun_failed"]
            /\ UNCHANGED <<ctx, gErr, watcher, up, down, dev, seen, tunVars>>

RunStart == /\ run.pc = "start"
            /\ ~dev.closed /\ ~dev.failed
            /\ run' = [run EXCEPT !.pc = "wait"]
            /\ watcher' = "wait"
            /\ up' = "top"
            /\ down' = [down EXCEPT !.pc = "top"]
            /\ UNCHANGED <<ctx, gErr, dev, seen, tunVars>>

\* Mutant of RunWait: returns as soon as one direction has.
RunWaitEither ==
    /\ run.pc = "wait"
    /\ up = "done" \/ down.pc = "done"
    /\ run' = [pc |-> "returned", res |-> gErr]
    /\ UNCHANGED <<ctx, gErr, watcher, up, down, dev, seen, tunVars>>

\* g.Wait: both directions have returned; it cancels gCtx and gives g.err.
RunWait == /\ run.pc = "wait"
           /\ up = "done" /\ down.pc = "done"
           /\ run' = [pc |-> "returned", res |-> gErr]
           /\ UNCHANGED <<ctx, gErr, watcher, up, down, dev, seen, tunVars>>

-----------------------------------------------------------------------------
(* The watcher *)

\* Mutants of WatcherCloses: it forgets the device or the tunnel, or waits for the
\* caller's context instead of the group's.
WatcherForgetsDev == /\ watcher = "wait"
                     /\ gDone
                     /\ T!Close("watcher", TRUE)
                     /\ watcher' = "closing"
                     /\ UNCHANGED <<run, ctx, gErr, up, down, dev, seen>>
WatcherForgetsTun == /\ watcher = "wait"
                     /\ gDone
                     /\ dev' = [dev EXCEPT !.closed = TRUE]
                     /\ watcher' = "done"
                     /\ UNCHANGED <<run, ctx, gErr, up, down, seen, tunVars>>
WatcherAwaitsCaller == /\ watcher = "wait"
                       /\ ctx
                       /\ dev' = [dev EXCEPT !.closed = TRUE]
                       /\ T!Close("watcher", TRUE)
                       /\ watcher' = "closing"
                       /\ UNCHANGED <<run, ctx, gErr, up, down, seen>>

\* gCtx is done: close the device, then call tun.Close.
WatcherCloses == /\ watcher = "wait"
                 /\ gDone
                 /\ dev' = [dev EXCEPT !.closed = TRUE]
                 /\ T!Close("watcher", TRUE)
                 /\ watcher' = "closing"
                 /\ UNCHANGED <<run, ctx, gErr, up, down, seen>>

WatcherDone == /\ watcher = "closing"
               /\ T!Return("watcher")
               /\ watcher' = "done"
               /\ UNCHANGED <<run, ctx, gErr, up, down, dev, seen>>

-----------------------------------------------------------------------------
(* errgroup *)

\* A direction returned e: errOnce keeps the first error, which cancels gCtx.
Failed(e) == gErr' = IF gErr = "nil" THEN e ELSE gErr

\* pumpUp returns e.
UpReturns(e) == up' = "done" /\ Failed(e)
DownReturns(e) == down' = [pc |-> "done", id |-> 0] /\ Failed(e)

-----------------------------------------------------------------------------
(* pumpUp *)

\* Top of the loop: ctx.Err, then dev.Read, which first looks at closed.
UpTop == /\ up = "top"
         /\ IF gDone \/ dev.closed
            THEN UpReturns("nil")
            ELSE up' = "read" /\ UNCHANGED gErr
         /\ UNCHANGED <<run, ctx, watcher, down, dev, seen, tunVars>>

\* Read hands out the next packet of the device.
ReadPacket(k) == /\ up = "read"
                 /\ ~dev.closed /\ ~dev.failed
                 /\ dev.q # <<>> /\ Head(dev.q).kind = k
                 /\ dev' = [dev EXCEPT !.q = Tail(@)]

\* An empty packet is skipped.
UpReadEmpty == /\ ReadPacket("empty")
               /\ up' = "top"
               /\ UNCHANGED <<run, ctx, gErr, watcher, down, seen, tunVars>>

\* Tag dispatch: an IP packet is sent.
UpReadIP == /\ ReadPacket("ip")
            /\ T!SendFrame("up", T!Frame("pkt", TRUE, Head(dev.q).id))
            /\ up' = "send"
            /\ UNCHANGED <<run, ctx, gErr, watcher, down, seen>>

\* The first byte names no IP version: fail closed.
UpReadNotIP == /\ ReadPacket("notip")
               /\ UpReturns("send_frame_failed")
               /\ UNCHANGED <<run, ctx, watcher, down, seen, tunVars>>

\* Mutant of UpReadFails: every error is taken for the device's being closed.
UpReadFailsQuietly ==
    /\ up = "read"
    /\ dev.closed \/ dev.failed
    /\ UpReturns("nil")
    /\ UNCHANGED <<run, ctx, watcher, down, dev, seen, tunVars>>

UpReadFails ==
    /\ up = "read"
    /\ dev.closed \/ dev.failed
    /\ UpReturns(IF dev.closed /\ CloseError = "ErrClosed" THEN "nil"
                 ELSE "read_tun_failed")
    /\ UNCHANGED <<run, ctx, watcher, down, dev, seen, tunVars>>

\* Mutant of UpSent: io.EOF is taken for a failure.
UpSentEOFFails ==
    /\ up = "send"
    /\ T!Return("up")
    /\ IF call["up"].res = "nil" THEN up' = "top" /\ UNCHANGED gErr
       ELSE UpReturns(IF call["up"].res = "ErrClosed" THEN "nil" ELSE "send_frame_failed")
    /\ UNCHANGED <<run, ctx, watcher, down, dev, seen>>

\* SendFrame returned.
UpSent == /\ up = "send"
          /\ T!Return("up")
          /\ IF call["up"].res = "nil" THEN up' = "top" /\ UNCHANGED gErr
             ELSE UpReturns(IF call["up"].res \in {"ErrClosed", "EOF"} THEN "nil"
                            ELSE "send_frame_failed")
          /\ UNCHANGED <<run, ctx, watcher, down, dev, seen>>

-----------------------------------------------------------------------------
(* pumpDown *)

DownStop == /\ down.pc = "top"
            /\ gDone
            /\ DownReturns("nil")
            /\ UNCHANGED <<run, ctx, watcher, up, dev, seen, tunVars>>

DownRecv == /\ down.pc = "top"
            /\ ~gDone
            /\ T!RecvFrame("down")
            /\ down' = [down EXCEPT !.pc = "recv"]
            /\ UNCHANGED <<run, ctx, gErr, watcher, up, dev, seen>>

\* Mutant of DownRecvd: every frame but Close is written to the device.
DownRecvdWritesAll ==
    /\ down.pc = "recv"
    /\ T!Return("down")
    /\ LET r == call["down"] IN
         CASE r.res \in {"EOF", "ErrClosed"} -> DownReturns("nil")
           [] r.res = "err" -> DownReturns("recv_frame_failed")
           [] r.res = "nil" /\ r.f.kind = "close" -> DownReturns("nil")
           [] OTHER -> down' = [pc |-> "write", id |-> r.f.id] /\ UNCHANGED gErr
    /\ UNCHANGED <<run, ctx, watcher, up, dev, seen>>

\* RecvFrame returned: a packet is written, a Close frame ends the loop, any
\* other control frame is skipped.
DownRecvd ==
    /\ down.pc = "recv"
    /\ T!Return("down")
    /\ LET r == call["down"] IN
         CASE r.res \in {"EOF", "ErrClosed"} -> DownReturns("nil")
           [] r.res = "err" -> DownReturns("recv_frame_failed")
           [] r.res = "nil" /\ r.f.kind = "close" -> DownReturns("nil")
           [] r.res = "nil" /\ r.f.kind = "pkt" ->
                down' = [pc |-> "write", id |-> r.f.id] /\ UNCHANGED gErr
           [] OTHER -> down' = [down EXCEPT !.pc = "top"] /\ UNCHANGED gErr
    /\ UNCHANGED <<run, ctx, watcher, up, dev, seen>>

\* dev.Write looks at closed first, then writes.
DownWrite == /\ down.pc = "write"
             /\ IF dev.closed THEN DownReturns("nil")
                ELSE down' = [down EXCEPT !.pc = "writing"] /\ UNCHANGED gErr
             /\ UNCHANGED <<run, ctx, watcher, up, dev, seen, tunVars>>

\* Mutant of DownWritten: the packet is written again.
DownWrittenAgain == /\ down.pc = "writing"
                    /\ ~dev.closed /\ ~dev.failed
                    /\ dev' = [dev EXCEPT !.wrote = down.id]
                    /\ down' = [down EXCEPT !.pc = "write"]
                    /\ UNCHANGED <<run, ctx, gErr, watcher, up, seen, tunVars>>

DownWritten == /\ down.pc = "writing"
               /\ ~dev.closed /\ ~dev.failed
               /\ dev' = [dev EXCEPT !.wrote = down.id]
               /\ down' = [pc |-> "top", id |-> 0]
               /\ UNCHANGED <<run, ctx, gErr, watcher, up, seen, tunVars>>

DownWriteFails ==
    /\ down.pc = "writing"
    /\ dev.closed \/ dev.failed
    /\ DownReturns(IF dev.closed /\ CloseError = "ErrClosed" THEN "nil"
                   ELSE "write_tun_failed")
    /\ UNCHANGED <<run, ctx, watcher, up, dev, seen, tunVars>>

-----------------------------------------------------------------------------
(* The device's kernel side and the owner of the session *)

\* Something happens to the session from outside, once, MaxEvents times in all.
Happens(e) == /\ e \notin seen
              /\ Cardinality(seen) < MaxEvents
              /\ seen' = seen \cup {e}

KernelPacket(k) ==
    /\ ~dev.closed
    /\ Len(dev.q) < MaxDev
    /\ k = "ip" => dev.arrived < MaxDev
    /\ LET n == IF k = "ip" THEN dev.arrived + 1 ELSE dev.arrived IN
         dev' = [dev EXCEPT !.q = Append(@, Packet(k, n)), !.arrived = n]
    /\ IF k = "notip" THEN Happens("notip") ELSE UNCHANGED seen
    /\ UNCHANGED <<run, ctx, gErr, watcher, up, down, tunVars>>

DeviceFails == /\ Happens("devFailed")
               /\ dev' = [dev EXCEPT !.failed = TRUE]
               /\ UNCHANGED <<run, ctx, gErr, watcher, up, down, tunVars>>

Cancel == /\ Happens("cancel")
          /\ ctx' = TRUE
          /\ UNCHANGED <<run, gErr, watcher, up, down, dev, tunVars>>

OwnerClosesDev == /\ Happens("devClosed")
                  /\ dev' = [dev EXCEPT !.closed = TRUE]
                  /\ UNCHANGED <<run, ctx, gErr, watcher, up, down, tunVars>>

OwnerClosesTun == /\ Happens("tunClosed")
                  /\ T!Close("owner", TRUE)
                  /\ UNCHANGED <<run, ctx, gErr, watcher, up, down, dev>>

OwnerClosed == /\ T!Return("owner")
               /\ UNCHANGED pumpVars

TunnelStep(c) == T!TunStep(c) /\ UNCHANGED pumpVars

\* What the goroutines of one Run do.
RunNext == \/ RunNoMTU \/ RunStart \/ RunWait
           \/ \E e \in {"read_tun_failed", "send_frame_failed"} : RunNil(e)
WatcherNext == WatcherCloses \/ WatcherDone \/ TunnelStep("watcher")
UpNext == \/ UpTop \/ UpReadEmpty \/ UpReadIP \/ UpReadNotIP \/ UpReadFails \/ UpSent
          \/ TunnelStep("up")
DownNext == \/ DownStop \/ DownRecv \/ DownRecvd \/ DownWrite \/ DownWritten
            \/ DownWriteFails \/ TunnelStep("down")
OwnerNext == OwnerClosesDev \/ OwnerClosesTun \/ OwnerClosed \/ TunnelStep("owner")
KernelNext == DeviceFails \/ \E k \in Kinds : KernelPacket(k)

\* No goroutine of the Run can go on by itself: it is done, blocked in a call, or
\* waiting for the device, for the two directions or for the group to end.
Asleep == /\ run.pc = "wait" => up # "done" \/ down.pc # "done"
          /\ watcher = "wait" => ~gDone
          /\ up # "top"
          /\ up = "read" => dev.q = <<>> /\ ~dev.closed /\ ~dev.failed
          /\ down.pc \notin {"top", "write", "writing"}
          /\ \A c \in {"watcher", "up", "down"} : T!Blocked(c)

-----------------------------------------------------------------------------
(* One Run against a peer of which only the stream is seen *)

\* The peer reads what we sent.
PeerReads == /\ tx.q # <<>>
             /\ tx' = [tx EXCEPT !.q = Tail(@)]
             /\ UNCHANGED <<pumpVars, mu, closed, call, rx>>

\* The peer may end the stream once our tunnel is closed and it has read all.
PeerHangsUp == /\ closed
               /\ tx.q = <<>> \/ tx.end # "open"
               /\ T!RxEnds("eof")
               /\ UNCHANGED pumpVars

\* It sends a frame, or the stream ends under it in one of several ways.
PeerNext ==
    /\ \/ \E f \in T!Inbound :
             T!RxFrame(f) /\ IF f.kind = "bad" THEN Happens("badFrame") ELSE UNCHANGED seen
       \/ T!RxEnds("eof") /\ Happens("rxEOF")
       \/ T!TxEnds("eof") /\ Happens("txEOF")
       \/ T!RxEnds("err") /\ Happens("rxErr")
       \/ T!TxEnds("err") /\ Happens("txErr")
       \/ \E f \in T!Inbound, e \in {"eof", "err"} : T!RxTorn(f, e) /\ Happens("rxTorn")
    /\ UNCHANGED <<run, ctx, gErr, watcher, up, down, dev>>

Next == \/ RunNext \/ WatcherNext \/ UpNext \/ DownNext \/ OwnerNext \/ KernelNext
        \/ PeerReads \/ PeerNext \/ PeerHangsUp \/ Cancel

\* Goroutines run, and sync.Mutex starves nobody.
Locks(c) == (T!LockClosed(c) \/ T!LockWriter(c) \/ T!LockReader(c)) /\ UNCHANGED pumpVars
GoFairness == /\ WF_vars(RunNext) /\ WF_vars(WatcherNext)
              /\ WF_vars(UpNext) /\ WF_vars(DownNext)
              /\ WF_vars(OwnerClosed \/ TunnelStep("owner"))
              /\ \A c \in Callers : SF_vars(Locks(c))

\* The peer keeps reading.  It need not hang up: this repository's own peer does
\* not when it gets our Close frame (module Session).
PeerFairness == WF_vars(PeerReads)

Spec == Init /\ [][Next]_vars /\ GoFairness /\ PeerFairness

-----------------------------------------------------------------------------
(* Properties *)

Faults == {"notip", "devFailed", "badFrame", "rxErr", "txErr", "rxTorn"}
Events == Faults \cup {"cancel", "devClosed", "tunClosed", "rxEOF", "txEOF"}
Reasons == {"nil", "read_tun_failed", "write_tun_failed", "send_frame_failed",
            "recv_frame_failed"}
Packets == [kind : Kinds, id : 0..MaxDev]

\* Type correctness of the session's own state and the tunnel's; pumpDown has
\* something to write exactly when it holds a packet, not a control frame.
TypeOK ==
    /\ run \in [pc : {"start", "refused", "wait", "returned"}, res : Reasons]
    /\ ctx \in BOOLEAN
    /\ seen \subseteq Events
    /\ gErr \in Reasons
    /\ watcher \in {"none", "wait", "closing", "done"}
    /\ up \in {"none", "top", "read", "send", "done"}
    /\ down \in [pc : {"none", "top", "recv", "write", "writing", "done"}, id : 0..MaxDev]
    /\ dev \in [closed : BOOLEAN, failed : BOOLEAN, q : Seq(Packets),
                arrived : 0..MaxDev, wrote : 0..MaxDev]
    /\ down.pc \in {"write", "writing"} <=> down.id # 0
    /\ T!TunTypes

\* However a session ends, Run returns nil unless something really failed:
\* cancellation, a local close and an orderly end by the peer are graceful
\* (contract/session/Pump.go:52-57), also when they race with each other.
GracefulIsNil == run.pc = "returned" /\ seen \cap Faults = {} => run.res = "nil"

\* What may make a direction return each error.
Causes == [nil |-> {}, read_tun_failed |-> {"devFailed"}, write_tun_failed |-> {"devFailed"},
           send_frame_failed |-> {"notip", "txErr"},
           recv_frame_failed |-> {"badFrame", "rxErr", "rxTorn"}]

\* The error Run returns names a fault that happened to the session: neither the
\* teardown (a device or a tunnel closed under a blocked call) nor any graceful
\* end, alone or racing with another, is ever reported as a failure.
CauseNamed ==
    run.pc = "returned" /\ run.res # "nil" => Causes[run.res] \cap seen # {}

\* Run returns nil only if somebody ended the session in an orderly way: a fault
\* of either direction is not lost because the other one ends gracefully, before
\* it, after it, or through the teardown it caused (ADR 0005, shutdown symmetry).
NilMeansGraceful == run.pc = "returned" /\ run.res = "nil" => seen \ Faults # {}

\* After Run has returned no direction touches the device or the stream any
\* more; only the watcher's Close frame may still go out.
QuietAfterReturn ==
    [][run.pc = "returned" =>
          /\ dev'.wrote = dev.wrote
          /\ Len(tx'.q) > Len(tx.q) => tx'.q[Len(tx'.q)].f.kind = "close"]_vars

\* All but pumpDown is done, and pumpDown sits in a RecvFrame that nothing but the
\* peer can end: tun.Close sends a frame and leaves the stream open.
AwaitsPeer == /\ run.pc = "wait" /\ up = "done"
              /\ down.pc = "recv" /\ call["down"].pc = "read"
              /\ rx.q = <<>> /\ rx.end = "open"

\* After a cancellation Run returns, wherever the two directions are blocked, or
\* else waits for the peer alone; it returns if the stream has ended.  That it
\* returns whatever the peer does (Pump.go:66-67) is refuted in module Session.
\* Assumed: the peer reads what is sent to it.
CancelStops == /\ ctx /\ run.pc = "wait" ~> run.pc = "returned" \/ AwaitsPeer
               /\ ctx /\ run.pc = "wait" /\ rx.end # "open" ~> run.pc = "returned"

\* The failure of one direction ends the other one as well (pump_linux.go:165-173),
\* with the same exception and on the same assumption: a pumpDown blocked in
\* RecvFrame waits for the peer.
FailureStops == /\ gErr # "nil" ~> run.pc = "returned" \/ AwaitsPeer
                /\ gErr # "nil" /\ rx.end # "open" ~> run.pc = "returned"

\* The device and the tunnel of a finished session end up closed, if the peer reads.
TeardownCompletes == run.pc = "returned" ~> (watcher = "done" /\ dev.closed /\ closed)

\* The peer ends the stream in an orderly way and Run returns (Pump.go:69-70).
PeerEndStops == (run.pc = "wait" /\ rx.end = "eof") ~> run.pc = "returned"

=============================================================================
