------------------------------- MODULE Device -------------------------------
(***************************************************************************)
(* The TUN devices of one process (internal/tunnel/tun/tun_linux.go):      *)
(* Open, Name, MTU, Read, Write and Close, with the descriptors they use   *)
(* and the kernel's interfaces.  Open runs after Preflight.Run; a thread   *)
(* is a goroutine that calls methods of a device, one at a time.  How long *)
(* a session's buffers are is decided from MTU (pump_linux.go:156, :184).  *)
(*                                                                         *)
(* os.File is external: Close makes Reads and Writes in progress return,   *)
(* if the descriptor is non-blocking, and closes the descriptor when the   *)
(* last one has left.                                                      *)
(***************************************************************************)
EXTENDS Preflight, Sequences

CONSTANTS
    Devs,        \* calls of Open, and the devices they return
    Threads,     \* goroutines that use the devices
    Names,       \* interface names
    Requests,    \* what callers pass to Open
    Candidates,  \* Candidates[r]: the names the kernel tries for r in turn: one
                 \* for a plain name (its first 15 bytes), several for a template
    MTUs, DefaultMTU, Overhead  \* MTUs an interface may have, BufferOverhead

ASSUME DeviceAssumption ==
    /\ Candidates \in [Requests -> Seq(Names) \ {<<>>}]
    /\ MTUs \subseteq Nat \ {0}
    /\ DefaultMTU \in MTUs
    /\ Overhead \in Nat
    /\ {"preflight", "other", NoHolder} \cap (Devs \cup Threads) = {}
    /\ NoHolder \notin {"preflight", "other"}
    /\ Devs \cap Threads = {}

VARIABLES
    dev,    \* dev[d]: Open's progress and result, and the linuxDevice
    job,    \* job[t]: the method t is in
    ifs     \* ifs[n]: the interface called n: [own, mtu]

deviceVars == <<preflightVars, dev, job, ifs>>

NoIf == [own |-> NoHolder, mtu |-> 0]
\* stage: how far Open is; name: cachedName; file: the os.File; buf: the pool's
\* slice size, 0 before MTU has answered.  History: out is what Open returned,
\* moved whether others have changed the interface's MTU or name, cut whether a
\* Read has cut a packet.
NoDev == [stage |-> "none", req |-> "none", fd |-> 0, name |-> "none", nonblock |-> FALSE,
          closed |-> FALSE, file |-> "none", buf |-> 0,
          out |-> "pending", moved |-> FALSE, cut |-> FALSE]
\* res: what the last Close returned.
NoJob == [op |-> "none", pc |-> "idle", d |-> "none", fd |-> 0, res |-> "nil"]

DeviceInit == /\ PreflightInit
              /\ dev = [d \in Devs |-> NoDev]
              /\ job = [t \in Threads |-> NoJob]
              /\ ifs = [n \in Names |-> NoIf]

\* What the steps on devices leave alone.
rest == <<pre, report, hostVars, changes>>

-----------------------------------------------------------------------------
(* Open *)

\* Open returns the error e, its descriptor closed.
Fails(d, e) == dev' = [dev EXCEPT ![d].stage = "failed", ![d].req = "none", ![d].fd = 0,
                                  ![d].out = e]

OpenNode(d, r) ==
    /\ pre.pc = "done"
    /\ dev[d].stage = "none"
    /\ node = "ok"
    /\ \E n \in Fds : /\ Opens(n, d)
                      /\ dev' = [dev EXCEPT ![d].stage = "setiff", ![d].fd = n, ![d].req = r]
    /\ UNCHANGED <<rest, job, ifs>>

OpenNodeFails(d) ==
    /\ pre.pc = "done"
    /\ dev[d].stage = "none"
    /\ \E e \in {"no_device", "other"} : (e = "no_device" => node # "ok") /\ Fails(d, e)
    /\ UNCHANGED <<fds, rest, job, ifs>>

\* The first name the kernel can give for r.
FreeNames(r) == {i \in 1..Len(Candidates[r]) : ifs[Candidates[r][i]] = NoIf}
Resolved(r) == Candidates[r][CHOOSE i \in FreeNames(r) : \A k \in FreeNames(r) : i <= k]

\* Mutant of SetIff: the device remembers the name asked for.
SetIffKeepsRequest(d) ==
    /\ dev[d].stage = "setiff"
    /\ NetAdmin \in effective
    /\ FreeNames(dev[d].req) # {}
    /\ ifs' = [ifs EXCEPT ![Resolved(dev[d].req)] = [own |-> d, mtu |-> DefaultMTU]]
    /\ dev' = [dev EXCEPT ![d].stage = "nonblock", ![d].req = "none",
                          ![d].name = Candidates[dev[d].req][1]]
    /\ UNCHANGED <<fds, rest, job>>

\* TUNSETIFF creates the interface; its name is read back.
SetIff(d) ==
    /\ dev[d].stage = "setiff"
    /\ NetAdmin \in effective
    /\ FreeNames(dev[d].req) # {}
    /\ LET n == Resolved(dev[d].req) IN
         /\ ifs' = [ifs EXCEPT ![n] = [own |-> d, mtu |-> DefaultMTU]]
         /\ dev' = [dev EXCEPT ![d].stage = "nonblock", ![d].req = "none",
                               ![d].name = n]
    /\ UNCHANGED <<fds, rest, job>>

\* Mutant of SetIffFails: returns without closing.
SetIffFailsLeaks(d) ==
    /\ dev[d].stage = "setiff"
    /\ \/ NetAdmin \notin effective /\ Fails(d, "EPERM")
       \/ NetAdmin \in effective /\ FreeNames(dev[d].req) = {} /\ Fails(d, "EBUSY")
       \/ Fails(d, "other")
    /\ UNCHANGED <<fds, rest, job, ifs>>

SetIffFails(d) ==
    /\ dev[d].stage = "setiff"
    /\ \/ NetAdmin \notin effective /\ Fails(d, "EPERM")
       \/ NetAdmin \in effective /\ FreeNames(dev[d].req) = {} /\ Fails(d, "EBUSY")
       \/ Fails(d, "other")
    /\ Closes(dev[d].fd)
    /\ UNCHANGED <<rest, job, ifs>>

\* Mutant of SetNonblock: the descriptor is left blocking.
SetNonblockSkipped(d) ==
    /\ dev[d].stage = "nonblock"
    /\ dev' = [dev EXCEPT ![d].stage = "open", ![d].file = "open", ![d].out = "nil"]
    /\ UNCHANGED <<fds, rest, job, ifs>>

\* SetNonblock and NewFile: Open returns the device.
SetNonblock(d) ==
    /\ dev[d].stage = "nonblock"
    /\ dev' = [dev EXCEPT ![d].stage = "open", ![d].file = "open", ![d].nonblock = TRUE,
                          ![d].out = "nil"]
    /\ UNCHANGED <<fds, rest, job, ifs>>

\* The kernel removes an interface with the last descriptor of it.
Removes(d) == ifs' = [n \in Names |-> IF ifs[n].own = d THEN NoIf ELSE ifs[n]]

\* Mutant of SetNonblockFails: returns without closing.
SetNonblockFailsLeaks(d) ==
    /\ dev[d].stage = "nonblock"
    /\ Fails(d, "nonblock")
    /\ UNCHANGED <<fds, rest, job, ifs>>

SetNonblockFails(d) ==
    /\ dev[d].stage = "nonblock"
    /\ Fails(d, "nonblock")
    /\ Closes(dev[d].fd)
    /\ Removes(d)
    /\ UNCHANGED <<rest, job>>

Open(d) == \/ \E r \in Requests : OpenNode(d, r)
           \/ OpenNodeFails(d) \/ SetIff(d) \/ SetIffFails(d)
           \/ SetNonblock(d) \/ SetNonblockFails(d)

-----------------------------------------------------------------------------
(* MTU, Read, Write and Close *)

\* t calls op of device d.
Calls(t, op, d) ==
    /\ job[t].pc = "idle"
    /\ dev[d].stage = "open"
    /\ op = "read" => dev[d].buf # 0
    /\ job' = [job EXCEPT ![t] = [NoJob EXCEPT !.op = op, !.pc = "start", !.d = d]]
    /\ UNCHANGED <<preflightVars, dev, ifs>>

Goes(t, pc) == job' = [job EXCEPT ![t].pc = pc]
Ends(t) == job' = [job EXCEPT ![t] = NoJob]
Refused(t) == job' = [job EXCEPT ![t] = [NoJob EXCEPT !.res = "ErrClosed"]]
Of(t) == dev[job[t].d]

\* The methods but Close look at closed first, and return ErrClosed.
Checks(t) ==
    /\ job[t].pc = "start"
    /\ job[t].op # "close"
    /\ IF Of(t).closed THEN Ends(t) ELSE Goes(t, "go")
    /\ UNCHANGED <<preflightVars, dev, ifs>>

\* MTU's control socket.
MTUSocket(t) ==
    /\ job[t].op = "mtu" /\ job[t].pc = "go"
    /\ \/ \E n \in Fds : Opens(n, t) /\ job' = [job EXCEPT ![t].pc = "ioctl", ![t].fd = n]
       \/ FreeFds = {} /\ Ends(t) /\ UNCHANGED fds
    /\ UNCHANGED <<rest, dev, ifs>>

\* SIOCGIFMTU by the cached name, and the deferred close.  Run sizes the
\* buffers from the answer.
MTUQuery(t) ==
    /\ job[t].op = "mtu" /\ job[t].pc = "ioctl"
    /\ Closes(job[t].fd)
    /\ LET i == ifs[Of(t).name] d == job[t].d IN
         IF i = NoIf THEN Ends(t) /\ UNCHANGED dev
         ELSE Ends(t) /\ dev' = [dev EXCEPT ![d].buf = i.mtu + Overhead]
    /\ UNCHANGED <<rest, ifs>>

\* File.Read or File.Write begins, if the file is not closed by now.
FileEnter(t) ==
    /\ job[t].op \in {"read", "write"} /\ job[t].pc = "go"
    /\ IF Of(t).file = "open" THEN Goes(t, "inside") ELSE Ends(t)
    /\ UNCHANGED <<preflightVars, dev, ifs>>

\* A packet is read, cut to the buffer, or written.
FileIO(t) ==
    /\ job[t].pc = "inside"
    /\ Of(t).nonblock => Of(t).file = "open"
    /\ Ends(t)
    /\ \E n \in Names : \E size \in 1..ifs[n].mtu :
         /\ ifs[n].own = job[t].d
         /\ dev' = [dev EXCEPT ![job[t].d].cut =
                       @ \/ (job[t].op = "read" /\ size > Of(t).buf)]
    /\ UNCHANGED <<preflightVars, ifs>>

\* Close makes it return.
FileInterrupted(t) ==
    /\ job[t].pc = "inside"
    /\ Of(t).file # "open" /\ Of(t).nonblock
    /\ Ends(t)
    /\ UNCHANGED <<preflightVars, dev, ifs>>

\* Mutant of CloseSwaps: the flag is only loaded, to be stored once the file is closed.
CloseLoads(t) ==
    /\ job[t].op = "close" /\ job[t].pc = "start"
    /\ IF Of(t).closed THEN Ends(t) ELSE Goes(t, "file")
    /\ UNCHANGED <<preflightVars, dev, ifs>>

CloseSwaps(t) ==
    /\ job[t].op = "close" /\ job[t].pc = "start"
    /\ IF Of(t).closed THEN Ends(t) /\ UNCHANGED dev
       ELSE Goes(t, "file") /\ dev' = [dev EXCEPT ![job[t].d].closed = TRUE]
    /\ UNCHANGED <<preflightVars, ifs>>

\* File.Close: no new Read or Write; a second one is refused.
FileCloses(t) ==
    /\ job[t].pc = "file"
    /\ IF Of(t).file = "open"
       THEN Goes(t, "drain") /\ dev' = [dev EXCEPT ![job[t].d].file = "closing"]
       ELSE Refused(t) /\ UNCHANGED dev
    /\ UNCHANGED <<preflightVars, ifs>>

\* The last user has left: the descriptor is closed.
FileClosed(t) ==
    /\ job[t].pc = "drain"
    /\ \A u \in Threads : ~(job[u].pc = "inside" /\ job[u].d = job[t].d)
    /\ Ends(t)
    /\ dev' = [dev EXCEPT ![job[t].d].file = "closed"]
    /\ Closes(Of(t).fd)
    /\ Removes(job[t].d)
    /\ UNCHANGED rest

-----------------------------------------------------------------------------
(* Others: `ip link` commands *)

OthersDo == changes < MaxChanges /\ changes' = changes + 1

\* They take a name, or delete an interface of their own.
OtherInterface(n) ==
    /\ OthersDo
    /\ \/ ifs[n] = NoIf /\ ifs' = [ifs EXCEPT ![n] = [own |-> "other", mtu |-> DefaultMTU]]
       \/ ifs[n].own = "other" /\ ifs' = [ifs EXCEPT ![n] = NoIf]
    /\ UNCHANGED <<fds, pre, report, hostVars, dev, job>>

\* The device whose interface is called n notices nothing.
Moves(n) == dev' = [d \in Devs |-> IF ifs[n].own = d THEN [dev[d] EXCEPT !.moved = TRUE]
                                   ELSE dev[d]]

\* `ip link set n mtu m`, `ip link set n name m`.
OtherMTU(n, m) ==
    /\ OthersDo
    /\ ifs[n] # NoIf /\ ifs[n].mtu # m
    /\ ifs' = [ifs EXCEPT ![n].mtu = m]
    /\ Moves(n)
    /\ UNCHANGED <<fds, pre, report, hostVars, job>>
OtherRenames(n, m) ==
    /\ OthersDo
    /\ ifs[n] # NoIf /\ ifs[m] = NoIf
    /\ ifs' = [ifs EXCEPT ![n] = NoIf, ![m] = ifs[n]]
    /\ Moves(n)
    /\ UNCHANGED <<fds, pre, report, hostVars, job>>

Ops == {"mtu", "read", "write", "close"}

ThreadGoes(t) == \/ Checks(t) \/ MTUSocket(t) \/ MTUQuery(t) \/ FileEnter(t)
                 \/ FileInterrupted(t) \/ CloseSwaps(t) \/ FileCloses(t) \/ FileClosed(t)

DeviceNext ==
    \/ (PreflightRun \/ HostChanges) /\ UNCHANGED <<dev, job, ifs>>
    \/ \E d \in Devs : Open(d)
    \/ \E t \in Threads, d \in Devs, op \in Ops : Calls(t, op, d)
    \/ \E t \in Threads : ThreadGoes(t) \/ FileIO(t)
    \/ \E n \in Names : OtherInterface(n)
    \/ \E n \in Names, m \in MTUs : OtherMTU(n, m)
    \/ \E n, m \in Names : OtherRenames(n, m)

\* Goroutines run; packets need not come.
DeviceFairness == \A t \in Threads : WF_deviceVars(ThreadGoes(t))

DeviceSpec == DeviceInit /\ [][DeviceNext]_deviceVars /\ DeviceFairness

-----------------------------------------------------------------------------
(* Properties *)

\* Who should hold descriptor n.
Holds(h, n) ==
    \/ h = "preflight" /\ pre.pc = "close" /\ pre.fd = n
    \/ h \in Devs /\ dev[h].fd = n /\ dev[h].stage \in {"setiff", "nonblock", "open"}
         /\ dev[h].file # "closed"
    \/ h \in Threads /\ job[h].pc = "ioctl" /\ job[h].fd = n

Holders == Devs \cup Threads \cup {"preflight"}
DevRecords == [stage : {"none", "setiff", "nonblock", "open", "failed"},
               req : Requests \cup {"none"}, fd : Fds \cup {0}, name : Names \cup {"none"},
               nonblock : BOOLEAN, closed : BOOLEAN,
               file : {"none", "open", "closing", "closed"}, buf : Nat,
               out : {"pending", "nil", "no_device", "other", "EPERM", "EBUSY", "nonblock"},
               moved : BOOLEAN, cut : BOOLEAN]
JobRecords == [op : Ops \cup {"none"},
               pc : {"idle", "start", "go", "ioctl", "inside", "file", "drain"},
               d : Devs \cup {"none"}, fd : Fds \cup {0}, res : {"nil", "ErrClosed"}]
Interfaces == [own : Devs \cup {"other", NoHolder}, mtu : MTUs \cup {0}]

\* Between TUNSETIFF and the close of its descriptor a device has an interface.
Attached(d) == dev[d].stage \in {"nonblock", "open"} /\ dev[d].file # "closed"

\* Type correctness of the devices and the preflight; a device has an interface
\* exactly from TUNSETIFF until its descriptor is closed, on every path of Open.
DeviceTypes ==
    /\ fds \in [Fds -> Holders \cup {NoHolder}]
    /\ pre \in [pc : {"stat", "open", "close", "capget", "done"}, fd : Fds \cup {0},
                res : Verdicts, cause : {"none", "host", "other"}]
    /\ effective \in EffectiveSets
    /\ dev \in [Devs -> DevRecords]
    /\ job \in [Threads -> JobRecords]
    /\ ifs \in [Names -> Interfaces]
    /\ \A d \in Devs : (\E n \in Names : ifs[n].own = d) <=> Attached(d)

\* An open descriptor is one that a probe, an Open in progress, a device not yet
\* closed or an MTU call holds, and each of these holds its own: no error path
\* leaks one, and none closes or uses a number that meanwhile is another's.
DescriptorsOwned ==
    \A n \in Fds, h \in Holders : fds[n] = h <=> Holds(h, n)

\* On a host nobody changes, Open does not fail for want of what the preflight
\* found there, and does fail where the preflight says that the host is to blame:
\* "Run performs every check the open path needs to succeed"
\* (contract/tun/preflight.go:117-121).
PreflightPredictsOpen ==
    \A d \in Devs : calm /\ dev[d].out # "pending" =>
        /\ pre.res = "nil" => dev[d].out \notin {"no_device", "EPERM"}
        /\ pre.res # "cap_net_admin_missing" /\ pre.cause = "host" =>
               dev[d].out \in {"no_device", "other"}
        /\ pre.res = "cap_net_admin_missing" => dev[d].out # "nil"

\* A session cuts a packet it reads only if others have changed the interface's
\* MTU or name: MTU's answer, by cached name, is about the device's own interface,
\* whatever name the kernel chose (tun_linux.go:77-80), and the buffers sized from
\* it (pump_linux.go:184) hold every packet of an interface left alone.
CutOnlyIfMoved == \A d \in Devs : dev[d].cut => dev[d].moved

\* Close returns nil, to the watcher and the owner who close concurrently too
\* (tun_linux.go:165-168).
CloseIsIdempotent == \A t \in Threads : job[t].res = "nil"

\* A Read or Write in progress when the device is closed returns, and so does
\* Close, without a packet having to come: shutting a session down rests on it.
CloseFrees ==
    \A t \in Threads : (job[t].pc # "idle" /\ Of(t).closed) ~> job[t].pc = "idle"

=============================================================================
