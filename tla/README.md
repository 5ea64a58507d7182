# TLA+ models of the *unverified* tunnel

The repository implements the data path of a VPN session on Linux: a TUN device,
a framed byte stream to the peer, and a pump that moves packets between the two;
beside it, a controller that sets the interface up. The handshake, the inner
encryption, routing and the kill switch exist as documents only.

Paths below are relative to `src/`; `pump_linux.go` is
`internal/tunnel/session/pump_linux.go`, `wrapper.go` is
`internal/transport/grpc/wrapper.go`, `codec.go` is
`internal/transport/grpc/tunnelpb/codec.go`, `link_linux.go` is
`internal/tunnel/route/link_linux.go`, `tun_linux.go` is
`internal/tunnel/tun/tun_linux.go`, `preflight_linux.go` lies beside it, and
`bpfcompile.go` and `capsprobe_linux.go` are in `internal/hostprobe`.

## Inventory

| Component | State it keeps | Operations | What is hard | What makes it correct |
|---|---|---|---|---|
| Session pump, `pump_linux.go` | an errgroup, a watcher, a `sync.Pool` per `Run` | `Run`, `pumpUp`, `pumpDown`, `getBuf`, `putBuf` | three goroutines and the caller; teardown only by closing what the others block in; buffers shared through a pool the collector empties | packets leave unchanged and in order; no buffer has two owners; `Run` returns, with the error that ended the session and with nil otherwise; nothing is done after it returned |
| Tunnel wrapper, `wrapper.go` | `mu`, `closed` | `SendFrame`, `RecvFrame`, `Close` | writers race; a write blocks under `mu` when the peer does not read; errors half-way through a frame | the stream carries whole frames, nothing after Close or after a failed write |
| Frame codec, `codec.go` | none | `WriteFrame`, `ReadFrame` for seven tags | lengths at the limit of their field; refusal after the tag is out; streams that end anywhere | what is read is what was written; a cut is not an orderly end |
| TUN device, `tun_linux.go` | `closed`, the file, the name cached at `Open`; a descriptor and an interface of the kernel's | `Open`, `Name`, `Read`, `Write`, `MTU`, `Close` | error paths of `Open`; `Close` from two goroutines and under a blocked `Read`; descriptor numbers are reused; the interface is renamed or resized by others | no descriptor is leaked or closed twice; whoever is blocked returns at `Close`; packets are not cut |
| Link controller, `link_linux.go` | `assigned`, the CIDR it remembers; the kernel's addresses | `New`, `Up`, `Down`, `AddAddress` | the cache outlives or precedes what the kernel has: restarts, `Down`, other programs | the cache is true; adding twice is a no-op; one address at a time |
| TUN preflight, `preflight_linux.go` | none | `Run`: the device probe, then the capability probe | the host may change between the probes and before `Open` | its verdict is `Open`'s fate on an unchanged host; its descriptor is closed |
| Host probes, `internal/hostprobe` | temporary files of `COReProbe`; none otherwise | `COReProbe`, `CapsEffective`, `UDPBufRmemMax` | concurrent probes in one directory, failures half-way; capabilities beyond bit 31 | no file is left behind or shared; the report is the effective set |
| Mocks, stubs for other platforms | - | - | - | - |

Interactions: the pump calls the device and the tunnel from two goroutines and
closes both from a third; the tunnel calls the codec under `mu` when it writes and
without it when it reads; two pumps meet through one full-duplex stream of bounded
window. A device is opened after the preflight and handed to the pump, which sizes
its buffers from the device's MTU. The link controller is used before and after a session and shares nothing
with it but the kernel's interface.

## Modules

| Module | Models | State and actions |
|---|---|---|
| `Relay` | the abstract specification of the data path: per direction, packets leave in the order they came in, unchanged, one in flight at a time | `Accept`, `Emit`, `Stop` |
| `BufferPool` | `getBuf`, `putBuf`, the pool, and both loops as far as they hold a buffer | `pooled[b]` counts references to backing array `b` in the pool; a buffer's content is a packet and a length. One action per call in the loop bodies; the collector is an action |
| `Tunnel` | `wrapper.go`, and the order of the codec's writes | a call is a record with a program counter; a frame is `Pieces` writes; the two halves of the stream are sequences of pieces with an end |
| `Pump` | one `Run`: watcher, `pumpUp`, `pumpDown`, errgroup, device | instantiates `Tunnel` for the calls on `tun`; one action per step between two points where another goroutine may run |
| `Session` | two `Pump`s over one stream | instantiates `Pump` twice with the halves of the stream swapped; `writes` counts the writes on each device |
| `Codec` | `codec.go` byte by byte, field widths as parameters | `Encode` and `Decode` mirror `WriteFrame` and `ReadFrame`; a writer, a stream that may be cut anywhere, a reader |
| `Link` | `link_linux.go` and the interface's addresses | one action per `ip` command, so a restart or another program's change may fall between the add and the probe of one `AddAddress` |
| `Preflight` | `preflight_linux.go`, `CapsEffective` | one action per system call; the descriptor table, the node `/dev/net/tun` and the effective set are state, and others may change the last two |
| `Device` | `tun_linux.go`, extends `Preflight` | `dev[d]` is a call of `Open` and the device it returns, `job[t]` the method a goroutine is in, `ifs` the kernel's interfaces; one action per system call and per atomic access to `closed`; `os.File` and other programs' `ip link` commands are external actions |
| `COReProbe` | the files of `COReProbe` and `writeTempFile` | `files`, and per probe a program counter with the paths in its variables; one action per outcome of each step |
| `BufferPoolProofs`, `TunnelProofs`, `PumpProofs`, `SessionProofs`, `LinkProofs`, `DeviceProofs`, `COReProbeProofs`, `CodecProofs` | theorems about the module of that name, `DeviceProofs` about `Preflight` too | `PumpProofs` instantiates `TunnelProofs` for what the tunnel keeps, `SessionProofs` instantiates `PumpProofs` for either end |
| `MC*` | instances for TLC; `MCTransport` has the parts a session is made of and `MCHost` those of the host side, of which each behaviour exercises one | |

Operators whose comment says "Mutant of" are plausible mistakes in the definition
that follows them. No specification uses them: substituting one for its original
must make TLC report the property it is paired with in `PROJECT.json`, which shows
that the property depends on that piece of code.

Abstractions. Packets are numbers; in `Pump` and `Session` a frame is its kind and
the packet's number. `bufferOverhead` and the MTU appear as `SliceSize` in
`BufferPool` and as `Overhead` and `mtu` in `Device`, where an MTU query stands for a
`Run` that sizes its buffers from the answer. A capability is its number, so word and
bit are computed as in the code; that the kernel keeps capabilities per thread is left
out. An interface deleted by others under an open device is left out too. A link has a
name: that `New` refuses an empty one (`link_linux.go:106-111`) is not modelled. `Pump`'s
device and `Device` differ in what they look at: the former has the packets and the
results a session sees, the latter what happens below. Metrics,
logging and error texts are left out, except for the text `AddAddress` searches.
`RecvFrame` never returns a nil frame without an error and ignores its context, so
those branches of `pumpDown` are not in `Pump`. External parts, modelled from how
the code uses them: `errgroup`, `sync.Pool`, `io.ReadFull`, `net.IP`, the kernel's
address list, the stream.

## Runs

| Run | Result | What it asks |
|---|---|---|
| `transport` | pass | buffers, with packets that fit the pool's: one owner per buffer, every return path puts its buffer back, and the loops implement `Relay`. Tunnel, with two callers that send, receive and close in any order, refusals, streams that end: whole frames, torn only for good, closed for good. Codec, 25 frames at and beyond every limit, two in a row, the stream cut at every byte: round trip, completeness, and a cut taken for an end at an address of a Session record only |
| `buffer_pool_oversized` | violation of `Faithful` | one packet longer than the pool's buffers, traffic both ways |
| `codec_session_eof` | violation of `EOFOnlyBetweenFrames` | a Session record cut where an address begins |
| `pump` | pass | any two of eleven outside events, at any moments: the returned error names a fault that happened, nil is returned only after an orderly end by somebody, quiet after return |
| `pump_live` | pass | one event, a peer that reads and need not do more: after a cancellation or a failure `Run` returns or waits in `RecvFrame` for the peer alone, and returns if the stream has ended; the device and the tunnel of a finished `Run` end up closed |
| `pump_peer_end` | violation of `PeerEndStops` | the peer ends the stream, the device is idle |
| `pump_linux_device` | violation of `GracefulIsNil` | the device returns `os.ErrClosed` to a `Read` that `Close` interrupts |
| `session` | pass | two packets one way, one the other, a window of one frame, each operator may cancel: the n-th write is of the n-th packet, end to end; a session comes to rest in four ways only (jammed, caught up, stopped, or cancelled at one end while the other waits for its device); while the window has room for what one end has to send, no standstill with a packet undelivered, and both cancelled means both returned; `AtRest` is where no step is enabled |
| `session_lone_cancel` | violation of `CancelReturns` | one operator cancels, the other end's device is idle |
| `session_window` | violation of `RestsCaughtUp` | two packets each way, a window of one frame |
| `host` | pass | link controller, with restarts, refused commands, clashes and other programs: the cache is true, adding again is a no-op. Devices and preflight, with a failure of every system call and a changing host: descriptors are owned, `Close` is idempotent and frees the blocked, packets are cut only after others' changes, the preflight's verdict and `CapsEffective` hold. Compile probes: files are neither left behind nor shared |
| `link_production` | violation of `Idempotent` | the error text of the production executor |

### Bounds

* `transport`, buffers: three suffice for two holders and one in the pool; two
  packets per direction let a buffer be reused by the other direction while the
  first is sent. The oversized run has a fourth, because a resize needs a free one.
  Tunnel: two callers, three pieces per frame, so that a control record is refused
  right after its tag or half-way through its body, and a window of five pieces so that
  one frame and most of a second are out together. Codec: bytes below 32, so a string's length
  limit is 31 and a packet's 1023; limits are where they are in the code relative to the
  fields' widths. Two frames show whether one leaves bytes to the next. The three share no
  state here, so their state spaces add up.
* `pump`: two pieces, a window of one piece, so that every write can block; one
  packet on the device, two pieces towards us. Two events cover every pair of
  causes; `pump_live` has one because liveness multiplies the cost.
* `session`: one piece per frame, a window of one frame. A sends two packets and its
  Close frame, so it waits for room again and again; B sends one and its Close frame, so
  it waits only in a shutdown, and the jams of a shutdown happen. With two packets each
  way an undisturbed session jams too: `session_window`. One cancellation and no packet is
  all `session_lone_cancel` needs.
* `host`, link controller: four addresses of which two clash, a second spelling, and a
  text that does not parse. Devices: one device, two goroutines and two changes by
  others (a name taken and its MTU lowered, a rename and a new interface under the old
  name, a capability lost between preflight and `Open`); or two devices, two goroutines
  and nobody else. Three descriptor numbers make the table run full and every number be
  reused. MTUs are 1 and 2, the least that can differ. `Overhead` is 0, the
  least that leaves no slack. The effective sets are the required one and one that has
  the required bits in the wrong words. Probes: two, with five paths, so that names are
  reused while one lost file (`MaxStrays`) lies there.

### Fairness and standing still

`Pump` assumes weak fairness of each goroutine, strong fairness of taking `mu`
(`sync.Mutex` hands the lock over after a millisecond of starvation), and of the
peer that it reads what is sent (`PeerFairness`): the watcher's Close frame needs room.
That the peer answers or hangs up is not assumed, for the repository's own `Run` at
the other end does neither on a Close frame: its `pumpDown` returns nil and cancels
nothing (`pump_linux.go:395-403`). So `CancelStops` and `FailureStops` end in `Run`'s
return or in `AwaitsPeer`, where all is done but a `pumpDown` blocked in `RecvFrame`;
`tunnel.Close` sends a frame and does not end the stream. No fairness is assumed of packets,
cancellations or failures. `PeerEndStops` is refuted under the same fairness.

`Device` assumes weak fairness of each goroutine inside a method (`ThreadGoes`); a
packet (`FileIO`) need never come, nor need a call be made. `CloseFrees` rests on no
more than that.

`Session` needs none. Each of its steps uses up a packet, a cancellation or a stage
of a shutdown, so every behaviour ends. `AtRest` says where, in terms of program
counters and of the stream: each goroutine is done, or asleep in a call that only a
packet, a byte or an operator ends, or waits for one that is. `RestIsNoStep` says that
this is where no step of any goroutine is enabled; `RestsFourWays`, `RoomyCatchesUp` and
`RoomyStops` say what must be done by then, and `CancelReturns`, refuted, what the
contract says of it. `CHECK_DEADLOCK FALSE` stands in the configurations in which a finished
session, a closed tunnel or an ended stream has no further step; `host` is checked for
deadlock, and its `Finished` says where a part may stop: every `Open` failed, or both
probes of the preflight have answered.

## Proofs

Checked by TLAPS for every value of the constants.

* `BufferPoolProofs`. Assuming `PacketsFit` (no payload is longer than `SliceSize`):
  `Ownership`, `Refinement` and, through it, `Faithfulness`. The inductive invariant
  `Inv` adds to `PoolTypes` and `ExclusiveOwner` that every buffer has the nominal
  capacity, that from the read (or copy) to the send (or write) the held buffer has the whole
  packet in flight, and that the histories are caught up or one behind. Ownership is
  what keeps the content in place while the other direction moves; the content is
  what makes `UpSend` and `DownWrite` a `Relay!Emit`. The assumption is needed:
  `buffer_pool_oversized`. Without it: `TypeCorrect`, and `SharingNeedsResize`, which
  confines the fault that run shows: whatever the sizes, an array of nominal capacity has
  one owner. `PoolInv` has that no array is ever smaller, so that what `getBuf` makes
  because the one it got is too small is larger than nominal.
* `TunnelProofs`: `TunnelTypeCorrect`, `StreamWellFormed`, `TornMeansClosed`,
  `StaysClosed`. The invariant says that a caller is writing exactly if it holds
  `mu` (`Held`), that the tunnel is open while somebody writes (`OpenWhileHeld`), and
  that the last piece on the stream is the one the writer wrote last, or ends a
  frame, or the tunnel is closed (`TxTail`); without the last, nothing says that the
  next piece continues the frame.
* `PumpProofs`, for any number of pieces, packets and outside events: `PumpTypeCorrect`,
  `NilIsGraceful` and `QuietOnceReturned` unconditionally; `ErrorsHaveCauses` and
  `GracefulEndsAreNil` assuming `CloseError = "ErrClosed"`, the device of the contract.
  `pump_linux_device` refutes `GracefulIsNil` for the device of the code, so the
  assumption is needed and nothing else is. The invariant `PumpInv` follows an error
  from where it arises to where `Run` returns it: what is wrong with device and stream is
  in `seen` (`FaultsSeen`), so is what the tunnel is about to return (`ErrorsSeen`), so
  is the cause of the group's error (`GroupCause`). In the other direction nothing is
  torn down but at the end of a session (`OverOK`), which has one exception: a
  `SendFrame` that failed has closed the tunnel before `pumpUp` knows. `CallsOK` ties
  program counters to calls; `WholeFrames` is needed because a stream that ends inside a
  frame is an error and only `rxTorn` may end it there. The eight steps of a call are
  reduced once (`CallStep`) to six normal forms.
* `SessionProofs`: `DeliveredInOrder`, that two Runs over one stream satisfy `EndToEnd`,
  for any number of pieces, any window, any packets and any cancellations. Each end is
  described by what it does to the stream ("One end of a session" in `PumpProofs`): whatever step
  it takes, it writes nothing or the piece that follows the one it wrote last (`Sends`),
  and reads nothing or the next piece, of which it writes the packet on the device
  (`Receives`). `EndOK` says why: packets are numbered in order on the device and
  `SendFrame` has the last one taken (`InOrder`), and the writer holds `mu` of an open
  tunnel (`Locked`), so the watcher's Close frame does not come between. `SessionInv`
  joins the ends: the stream carries on where the reader is and the writer carries on
  from the stream's last piece (`FlowAB`, `FlowBA`), until the reader is about to stop.
  A step writes one packet more on a device exactly if `writes` counts it (`WritesOne`).
* `SessionProofs`, where a session comes to rest, for any window and traffic:
  `FourWaysToRest` (`RestsFourWays`); `CatchesUp` (`RoomyCatchesUp`), that a jam needs
  both ends to have more to send than the window holds, and `StopsTogether`
  (`RoomyStops`), the same with the Close frame. The room is needed, as `session_window`
  shows, and one end's is enough: the end that never waits for room keeps reading, and so
  frees the other. `RestInv` adds to `SessionInv`, per end, how far its goroutines
  can be at each stage of its life (`Stages`), that an end whose operator has not
  cancelled is still running while the stream is open (`Calm`) and that its `pumpDown` has
  returned only for the other end's Close frame, and that what it has sent is what it took off its device
  (`SentOK`). The argument then walks the pieces: at rest either a writer waits for room
  or the stream is empty (`AtoB`, `BtoA`), and an empty stream whose writer has sent
  everything has a reader that has written everything. `RestIsStill` is the half of
  `RestIsNoStep` that needs no `ENABLED`: a step of either `Run`, or of the stream's
  owner, never starts in a state of rest. `JamsAreForGood`: a session that rests in a jam
  stays in it whatever arrives and whoever cancels; both writers keep `mu`, and the
  watcher's `Close` waits for it.
* `LinkProofs`: `LinkTypeCorrect`, `RemembersTruly`, `CacheIsTrue`
  unconditionally, with other programs changing the interface at any moment;
  `AddIsIdempotent` assuming `Stderr`, that the executor's error carries what `ip`
  printed. It needs `ProbePending`: between the add and the probe the address stays
  unless others take it.
* `DeviceProofs`, on the preflight alone: `ProbesAgree`, for any effective set. That the
  word and the bit the code computes are the capability's own is arithmetic
  (`WordAndBit`); the invariant is what either probe has found so far on a calm host.
* `DeviceProofs`: `DeviceTypeCorrect`, `NoDescriptorLeaks`, `ConcurrentCloses`,
  `BuffersFit` and `OpenAsForetold`, for any number of devices, goroutines, descriptors and names, with the
  preflight before them and others changing host and interfaces at any moment. The
  invariant `DeviceInv` is a conjunction of groups, one for each set of variables it
  speaks of, so that a step has only its own groups to prove. Ownership
  (`DescriptorsOwned`, split by the sort of holder) is inductive once the stage of
  `Open` decides what the device's record holds (`DevShape`). `CloseIsIdempotent` needs
  that one goroutine at most is past the swap and finds the file as the swap left it
  (`JobsOK`, `CallOK`); `CutOnlyIfMoved` needs `Untouched`: an interface nobody touched
  has the remembered name and the MTU it was made with, and the buffers of an open
  device fit it. That the kernel's choice among a template's candidates is a free name
  (`ResolvedFree`) rests on the well-foundedness of the naturals. `OpenAsForetold` is
  about an order of events: it needs what the preflight has found and how far each
  `Open` has come (`Opened`) of the same unchanged host.
* `COReProbeProofs`: `NoLeftovers` and `NoRace`, for any number of probes. The
  invariant adds to the two properties which paths a probe holds at each program
  counter, two different ones from the object's creation on (`Shapes`), and that lost
  files are still there: removing a source must not remove an object, and
  `os.CreateTemp` must not come up with the name of a lost file.
* `CodecProofs`: `EOFMeansEnd`, about `Decode` of any bytes, for any widths and limits: it
  says io.EOF on no bytes, or on a Session record cut at one of its addresses (`CutAtAddress`,
  what `EOFOnlyAtAddress` says of the run's streams). `ReadShort` turns every missing byte
  into `ErrShortRead` (`ShortErrors`), and a record's reader returns the error of one of its
  fields' readers, so only the tag and the two addresses can end in `io.EOF`; `FullReads`,
  `ShortReads` and `AddressReads` say how many bytes were there when they do
  (`SessionErrors`).

TLC has checked the inductive invariants before they were proved: those of the pump
under the bounds of `pump`; `SessionInv` with two pieces, a window of two, two packets
and a cancellation at either end; what `RestInv` adds with one piece and a window of one,
and with two pieces and a window of three; `NominalOwned` under the bounds of
`buffer_pool_oversized`; that a jam stays with two packets each way, a window of one
frame and cancellations.

Only model-checked:

* liveness (`CancelStops`, `FailureStops`, `TeardownCompletes`, `CloseFrees`): fairness
  is out of the prover's reach;
* `RestIsNoStep`, which speaks of `ENABLED`; the theorems about rest therefore name
  states, `RestIsStill` says that nobody moves in them, and only TLC says that somebody
  moves everywhere else;
* `RoundTrip` and `Complete` of `Codec`: what its folds compute over the bytes of a number
  and over a list of names is proved by induction over data only.

## What the runs found

* `getBuf` puts the buffer it makes for an oversized packet into the pool and also
  returns it (`pump_linux.go:221-231`); two directions then share it, and a packet
  leaves with another's bytes.
* `SendFrame` waits for the stream's window under `mu`, which `RecvFrame` needs
  first (`wrapper.go:45`, `:58`): with both windows full, both ends stop for good.
  Without a cancellation packets stay undelivered in no other way (`FourWaysToRest`), and
  a cancellation does not undo the jam (`JamsAreForGood`).
* A cancelled `Run` need not return: `tun.Close` sends a Close frame and leaves the stream
  open, so `pumpDown` waits in `RecvFrame` for the peer; the peer's `pumpDown` ends on
  the frame without cancelling anything, and its `pumpUp` waits for its device. It is the
  only way besides a jam in which a cancelled session rests unstopped (`FourWaysToRest`);
  "ctx is cancelled (returns nil)", `internal/contract/session/Pump.go:66-67`, has no such
  exception.
* `readIP` and `readIP16` wrap the `io.EOF` of `io.ReadFull` (`codec.go:478`, `:489`): a
  Session record cut at an address looks like the orderly end, against `codec.go:166-167`.
  It happens there alone (`EOFOnlyAtAddress`, `EOFMeansEnd`); `Tunnel!ReadErrors` has it too.
* `Run` does not return when the peer ends the stream while the device is idle:
  `pumpDown`'s nil return cancels nothing.
* A `Read` blocked in the TUN file when `Close` runs returns `os.ErrClosed`, not
  `contracttun.ErrClosed`, and a cancellation is reported as `read_tun_failed`.
* `AddAddress` looks for "File exists" in an error text that does not contain what
  `ip` printed, so its probe is never reached in production.

Met while modelling, in the models but without a run of their own:

* After `Down` or a restart `AddAddress` puts a second address beside the first,
  which `internal/contract/route/link.go:55-61` means to prevent, and by the way it tells
  the operator to take.
* `assigned` is not reset when the link is made anew by others, as the comment at
  `link_linux.go:135-138` has it: `CacheTrue` holds until then only.
* An `AssignedIPv4` that is no IPv4 address is written as absent: `To4` comes before
  the length check. A packet of no bytes is written but cannot be read.
* `CutOnlyIfMoved` excepts what others do: an MTU raised during a session cuts longer
  packets to the buffer's size without an error, and after a rename `MTU` answers for
  whichever interface has the old name, against "reads the device's current MTU"
  (`tun_linux.go:117-118`).
* "Close does not block" (`tun_linux.go:166-167`), yet it waits for a `Read` or `Write` in
  the file to leave (`FileClosed`); `CloseFrees` shows that it is not for ever.
* A second `Close` of a device returns nil while the first still waits for a `Read` to
  leave: the interface may exist for a moment longer (`FileClosed`).
* `writeTempFile` loses the file when `WriteString` fails (`bpfcompile.go:212-214`):
  `NothingLeftBehind` excepts those (`strays`). The comment on `ObjectPath` refers to a
  `Cleanup()` that does not exist; `CallerRemoves` is what the tests do.
* Not modelled: the count `dev.Write` returns is dropped (`pump_linux.go:416`; a TUN
  write takes a whole packet or fails); a second `Run` on one pump is not refused; a
  non-canonical IPv6 spelling is not recognised by the probe (it is a text of `host`,
  whose `Idempotent` speaks of the kernel's spelling); a name longer than 15 bytes is cut
  silently by `Open`; `Missing` sorts by name, not "by the canonical CapsRequired
  ordering" (`capsprobe_linux.go:109-110`).

## Not modelled

`UDPBufRmemMax` (one number read and compared), the name lists of `CapsReport` and the
texts `COReProbe` returns (formatting), the mocks (generated), stubs that return an
unsupported-platform error, and everything that exists in documents only.

## Plan

Done: the data path (`Relay`, `BufferPool`, `Tunnel`, `Pump`, `Session`), the codec,
the link controller, the devices with the preflight, the compile probe, and the
theorems above. Left:

1. Of `Codec`, the lemmas that need no induction: the fields' widths and limits, and
   what `Encode` refuses.
2. A second `Run` on one pump, which nothing refuses: `Pump` models the first only.
