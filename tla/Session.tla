------------------------------ MODULE Session ------------------------------
(***************************************************************************)
(* Both ends of a session: two Runs (module Pump), each with its device    *)
(* and its tunnel, over one full-duplex stream of bounded window.  What A  *)
(* writes on ab, B reads, and the other way round on ba.                   *)
(***************************************************************************)
EXTENDS Naturals, Sequences

CONSTANTS
    Pieces, Window, MaxDev, MaxEvents, CloseError,  \* see Pump
    Load      \* Load[e]: bound on the packets that arrive on the device of end e, "A" or "B"

VARIABLES
    ab, ba,   \* the two halves of the stream
    runA, ctxA, gErrA, watcherA, upA, downA, devA, seenA, muA, closedA, callA,
    runB, ctxB, gErrB, watcherB, upB, downB, devB, seenB, muB, closedB, callB,
    writes    \* history: writes[e] counts the writes on the device of end e

aVars == <<runA, ctxA, gErrA, watcherA, upA, downA, devA, seenA, muA, closedA, callA>>
bVars == <<runB, ctxB, gErrB, watcherB, upB, downB, devB, seenB, muB, closedB, callB>>
vars == <<ab, ba, aVars, bVars, writes>>

ASSUME SessionAssumption ==
    /\ CloseError \in {"ErrClosed", "osErrClosed"}
    /\ MaxDev \in Nat /\ MaxEvents \in Nat
    /\ Pieces \in Nat \ {0} /\ Window \in Nat \ {0}
    /\ Load \in [{"A", "B"} -> Nat]

MaxRx == Window
A == INSTANCE Pump WITH
        run <- runA, ctx <- ctxA, gErr <- gErrA, watcher <- watcherA, up <- upA,
        down <- downA, dev <- devA, seen <- seenA, mu <- muA, closed <- closedA,
        call <- callA, tx <- ab, rx <- ba
B == INSTANCE Pump WITH
        run <- runB, ctx <- ctxB, gErr <- gErrB, watcher <- watcherB, up <- upB,
        down <- downB, dev <- devB, seen <- seenB, mu <- muB, closed <- closedB,
        call <- callB, tx <- ba, rx <- ab

Init == A!Init /\ B!Init /\ writes = [e \in {"A", "B"} |-> 0]

\* Both Runs start (what precedes is the handshake's business).
Start == A!RunStart /\ B!RunStart

\* What the goroutines of an end do by themselves.
AGoes == (A!RunWait \/ A!WatcherNext \/ A!UpNext \/ A!DownNext) /\ UNCHANGED bVars
BGoes == (B!RunWait \/ B!WatcherNext \/ B!UpNext \/ B!DownNext) /\ UNCHANGED aVars

\* Packets arrive on the devices, and an operator cancels.
APacket == devA.arrived < Load["A"] /\ A!KernelPacket("ip") /\ UNCHANGED bVars
BPacket == devB.arrived < Load["B"] /\ B!KernelPacket("ip") /\ UNCHANGED aVars
ACancel == A!Cancel /\ UNCHANGED bVars
BCancel == B!Cancel /\ UNCHANGED aVars

\* The owner of the stream ends it once Run has returned and the watcher is done.
Over == \/ runA.pc = "returned" /\ watcherA = "done"
        \/ runB.pc = "returned" /\ watcherB = "done"
HangsUp == /\ Over
           /\ ab.end = "open"
           /\ ab' = [ab EXCEPT !.end = "eof"]
           /\ ba' = [ba EXCEPT !.end = "eof"]
           /\ UNCHANGED <<aVars, bVars>>

\* What happens to the two ends and the stream.
Step == Start \/ AGoes \/ BGoes \/ APacket \/ BPacket \/ ACancel \/ BCancel \/ HangsUp

\* Every write on a device is counted, whatever packet it is of.
Counted == writes' = [A |-> IF A!DownWritten THEN writes["A"] + 1 ELSE writes["A"],
                      B |-> IF B!DownWritten THEN writes["B"] + 1 ELSE writes["B"]]

Next == Step /\ Counted

Spec == Init /\ [][Next]_vars

-----------------------------------------------------------------------------
(* Properties *)

\* End to end, the n-th write on a device is of the n-th packet that arrived on
\* the other one: packets are delivered in order, none twice, none skipped and
\* none invented.  A packet carries its number; wrote is the number last written.
EndToEnd == /\ devB.wrote = writes["B"] /\ writes["B"] <= devA.arrived
            /\ devA.wrote = writes["A"] /\ writes["A"] <= devB.arrived

\* Nothing is left to do until a packet arrives or an operator cancels.  Every
\* step uses up a packet, a cancellation or a stage of a shutdown, so the session
\* always comes to such a state, and what is not done there is never done.
AtRest == /\ runA.pc # "start" /\ A!Asleep
          /\ runB.pc # "start" /\ B!Asleep
          /\ Over => ab.end # "open"

\* AtRest says what it is meant to: the session is at rest exactly when neither
\* Run, started or not, nor the owner of the stream has a step to take.
RestIsNoStep == AtRest <=> ~ENABLED (Start \/ AGoes \/ BGoes \/ HangsUp)

Undisturbed == ~ctxA /\ ~ctxB
CaughtUp == devB.wrote = devA.arrived /\ devA.wrote = devB.arrived
Stopped == runA.pc = "returned" /\ runB.pc = "returned"

\* A session that nobody shuts down comes to rest only when every packet has been
\* written on the far device: the stream is full-duplex (docs/decisions/0002,
\* line 23), no SendFrame keeps another end's RecvFrame from its lock for ever.
RestsCaughtUp == AtRest /\ Undisturbed => CaughtUp

\* Both ends have a writer that holds mu and waits for room.
Jammed == /\ muA # A!NoCaller /\ ab.end = "open" /\ Len(ab.q) >= Window
          /\ muB # B!NoCaller /\ ba.end = "open" /\ Len(ba.q) >= Window

\* One operator has cancelled; the other end's pumpDown is done, but its pumpUp sits
\* in dev.Read for want of packets, so that its Run neither returns nor cancels.
LoneCancel == \/ ctxA /\ ~ctxB /\ runB.pc = "wait" /\ downB.pc = "done" /\ upB = "read"
              \/ ctxB /\ ~ctxA /\ runA.pc = "wait" /\ downA.pc = "done" /\ upA = "read"

\* There are four ways to come to rest: two writers that wait for each other's
\* readers, an undisturbed session that has delivered every packet, one that has
\* stopped at both ends, and a cancellation at one end that leaves the other one
\* waiting for its device.  No other goroutine waits for mu, for room, for a Close
\* frame or for the group to end without anybody to wake it.
RestsFourWays == AtRest => Jammed \/ (Undisturbed /\ CaughtUp) \/ Stopped \/ LoneCancel

\* Run returns when its context is cancelled: it "blocks until one of: ctx is
\* cancelled (returns nil), ..." (contract/session/Pump.go:66-67), whatever the
\* other end is doing.
CancelReturns == AtRest => /\ ctxA => runA.pc = "returned"
                           /\ ctxB => runB.pc = "returned"

\* The window has room for all that has arrived at one end, and k frames more.
Room(k) == \/ (devA.arrived + k) * Pieces <= Window
           \/ (devB.arrived + k) * Pieces <= Window

\* As long as it has, RestsCaughtUp holds: an end that never waits for room keeps
\* reading, which frees the other, whatever that one has to send.
RoomyCatchesUp == Room(0) => RestsCaughtUp

\* With room for a Close frame besides, both Runs return when both operators have
\* cancelled, at whatever moments: the Close frame of each is what lets the other
\* end's pumpDown go.
RoomyStops == Room(1) /\ AtRest /\ ctxA /\ ctxB => Stopped

=============================================================================
