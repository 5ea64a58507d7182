---------------------------- MODULE DeviceProofs ----------------------------
(***************************************************************************)
(* DeviceTypes, DescriptorsOwned, CloseIsIdempotent, CutOnlyIfMoved and    *)
(* PreflightPredictsOpen, for any number of devices, goroutines,           *)
(* descriptors and names.  The inductive invariant is grouped by the       *)
(* variables its parts speak of, so that a step has only the groups of the *)
(* variables it changes to prove.                                          *)
(*                                                                         *)
(* First ReportsAgree of module Preflight: what Preflight.Run and          *)
(* CapsEffective say is true of a host that nobody changes, for any        *)
(* numbers of the capabilities and any effective set.  The theorem about   *)
(* Open rests on the same invariant.                                       *)
(***************************************************************************)
EXTENDS Device, WellFoundedInduction, TLAPS

-----------------------------------------------------------------------------
(* capget's words *)

\* A number below 2 * w is given by its word and its place in it.
LEMMA WordAndBit ==
    ASSUME NEW w \in Nat \ {0}, NEW c \in 0..(2 * w - 1)
    PROVE  /\ c < w => c \div w = 0 /\ c % w = c
           /\ c >= w => c \div w = 1 /\ c % w = c - w
OBVIOUS

\* A number in one of the two words is below 2 * w.
LEMMA WithinWords ==
    ASSUME NEW w \in Nat \ {0}, NEW c \in Nat, ~(c \div w > 1) PROVE c \in 0..(2 * w - 1)
OBVIOUS

\* Looking a capability up by word and bit is membership in the effective set.
LEMMA PresentMeansEffective ==
    ASSUME effective \in EffectiveSets, NEW c \in 0..(2 * WordBits - 1)
    PROVE  Present(c) <=> c \in effective
<1> USE PreflightAssumption
<1>1. effective \subseteq 0..(2 * WordBits - 1)
      OBVIOUS
<1>2. ASSUME NEW e \in effective,
             e \div WordBits = c \div WordBits, e % WordBits = c % WordBits
      PROVE  e = c
  <2>1. e \in 0..(2 * WordBits - 1)
        BY <1>1
  <2>2. /\ e < WordBits => e \div WordBits = 0 /\ e % WordBits = e
        /\ e >= WordBits => e \div WordBits = 1 /\ e % WordBits = e - WordBits
        BY <2>1, WordAndBit
  <2>3. /\ c < WordBits => c \div WordBits = 0 /\ c % WordBits = c
        /\ c >= WordBits => c \div WordBits = 1 /\ c % WordBits = c - WordBits
        BY WordAndBit
  <2>4. (e < WordBits \/ e >= WordBits) /\ (c < WordBits \/ c >= WordBits)
        BY <2>1
  <2> QED BY <1>2, <2>1, <2>2, <2>3, <2>4
<1>3. Present(c) <=> \E e \in effective : /\ e \div WordBits = c \div WordBits
                                          /\ e % WordBits = c % WordBits
      BY DEF Present, Word
<1> QED BY <1>2, <1>3

\* CAP_NET_ADMIN is in the low word, where PreCaps looks for it.
LEMMA NetAdminInLowWord ==
    ASSUME effective \in EffectiveSets
    PROVE  NetAdmin \in Word(0) <=> NetAdmin \in effective
<1>1. NetAdmin \in 0..(2 * WordBits - 1) /\ NetAdmin < WordBits
      BY PreflightAssumption
<1>2. NetAdmin \div WordBits = 0 /\ NetAdmin % WordBits = NetAdmin
      BY <1>1, WordAndBit, PreflightAssumption
<1>3. Present(NetAdmin) <=> NetAdmin \in Word(0)
      BY <1>2 DEF Present
<1> QED BY <1>1, <1>3, PresentMeansEffective

-----------------------------------------------------------------------------
(* What the preflight has found *)

\* How far Run is, and what it returned.
Answered == /\ effective \in EffectiveSets
            /\ pre.pc = "done" <=> pre.res # "pending"
            /\ pre.pc # "done" => pre.cause = "none"

\* On a host nobody has changed every check that Run has passed still holds, and
\* the one it failed on the host's account does not.
Found ==
    calm => /\ pre.pc = "open" => node # "absent"
            /\ pre.pc \in {"close", "capget"} => node = "ok"
            /\ pre.cause = "host" => node # "ok" \/ pre.res = "cap_net_admin_missing"
            /\ pre.res \in {"nil", "cap_net_admin_missing", "cap_probe_failed"} => node = "ok"
            /\ pre.res = "nil" => NetAdmin \in effective
            /\ pre.res = "cap_net_admin_missing" => NetAdmin \notin effective

\* What CapsEffective reported is true of such a host too.
Reported == /\ report # NoReport => pre.pc = "done"
            /\ report.res = "nil" /\ calm => report.present = CapsRequired \cap effective

PreflightInv == Answered /\ Found /\ Reported

LEMMA PreflightStart == PreflightInit => PreflightInv
BY DEF PreflightInit, PreflightInv, Answered, Found, Reported, Probing, NoReport, Reports

\* Each step of Run adds what it has found, and a change of the host ends the calm.
LEMMA FoundStep ==
    ASSUME Answered, Found, PreflightRun \/ HostChanges PROVE Answered' /\ Found'
<1> USE DEF Answered, Found, Probing, Verdict, hostVars
<1>1. CASE PreStat \/ PreStatFails
      BY <1>1 DEF PreStat, PreStatFails
<1>2. CASE PreOpen \/ PreOpenFails
      BY <1>2 DEF PreOpen, PreOpenFails
<1>3. CASE PreClose
      BY <1>3 DEF PreClose
<1>4. CASE PreCaps
      BY <1>4, NetAdminInLowWord DEF PreCaps
<1>5. CASE PreCapsFails
      BY <1>5 DEF PreCapsFails
<1>6. CASE HostChanges
      BY <1>6 DEF HostChanges
<1> QED BY <1>1, <1>2, <1>3, <1>4, <1>5, <1>6 DEF PreflightRun

LEMMA PreflightStep == PreflightInv /\ [PreflightNext]_preflightVars => PreflightInv'
<1> SUFFICES ASSUME PreflightInv, [PreflightNext]_preflightVars PROVE PreflightInv'
    OBVIOUS
<1>1. CASE PreflightRun
  <2>1. pre.pc # "done" /\ report' = report
        BY <1>1 DEF PreflightRun, PreStat, PreStatFails, PreOpen, PreOpenFails, PreClose,
                    PreCaps, PreCapsFails
  <2>2. report = NoReport /\ report.res # "nil"
        BY <2>1 DEF PreflightInv, Reported, NoReport, Reports
  <2>3. Reported'
        BY <2>1, <2>2 DEF Reported
  <2> QED BY <1>1, <2>3, FoundStep DEF PreflightInv
<1>2. CASE HostChanges
  <2>1. Reported'
        BY <1>2 DEF HostChanges, PreflightInv, Reported
  <2> QED BY <1>2, <2>1, FoundStep DEF PreflightInv
<1>3. CASE CapsEffective
  <2>1. \A c \in CapsRequired : c \in 0..(2 * WordBits - 1)
    <3> SUFFICES ASSUME NEW c \in CapsRequired PROVE c \in 0..(2 * WordBits - 1)
        OBVIOUS
    <3>1. c \in Nat /\ ~(c \div WordBits > 1)
          BY <1>3, PreflightAssumption DEF CapsEffective, Beyond
    <3> QED BY <3>1, WithinWords, PreflightAssumption
  <2>2. \A c \in CapsRequired : Present(c) <=> c \in effective
        BY <2>1, PresentMeansEffective DEF PreflightInv, Answered
  <2>3. report'.present = CapsRequired \cap effective /\ report' # NoReport
        BY <1>3, <2>2 DEF CapsEffective, Reports, NoReport
  <2> QED BY <1>3, <2>3 DEF CapsEffective, PreflightInv, Answered, Found, Reported, hostVars
<1>4. CASE CapsFails
      BY <1>4 DEF CapsFails, Reports, NoReport, PreflightInv, Answered, Found, Reported, hostVars
<1>5. CASE UNCHANGED preflightVars
      BY <1>5 DEF preflightVars, hostVars, PreflightInv, Answered, Found, Reported
<1> QED BY <1>1, <1>2, <1>3, <1>4, <1>5 DEF PreflightNext

-----------------------------------------------------------------------------
(* The theorem about the preflight *)

\* The two probes of one process agree about every capability, and with the
\* effective set, wherever in capget's words it is (capsprobe_linux.go:57-60,
\* preflight_linux.go), as long as nobody changes the host.
THEOREM ProbesAgree == PreflightSpec => []ReportsAgree
<1>1. PreflightInv => ReportsAgree
  <2> SUFFICES ASSUME PreflightInv, report.res = "nil", calm
               PROVE  /\ report.present = CapsRequired \cap effective
                      /\ pre.res = "nil" => NetAdmin \in report.present
                      /\ pre.res = "cap_net_admin_missing" => NetAdmin \notin report.present
      BY DEF ReportsAgree
  <2> QED BY PreflightAssumption DEF PreflightInv, Found, Reported
<1> QED BY <1>1, PreflightStart, PreflightStep, PTL DEF PreflightSpec

-----------------------------------------------------------------------------
(* The inductive invariant of the devices *)

\* How far Open is decides what the device's record holds; closed is set before
\* the file is closed.
DevShape(d) ==
    /\ dev[d].stage \in {"setiff", "nonblock", "open"} => dev[d].fd \in Fds
    /\ dev[d].stage = "setiff" => dev[d].req \in Requests
    /\ dev[d].stage \in {"nonblock", "open"} => dev[d].name \in Names
    /\ dev[d].stage = "open" <=> dev[d].file # "none"
    /\ dev[d].file \in {"closing", "closed"} => dev[d].closed
    /\ dev[d].closed => dev[d].stage = "open"
    /\ dev[d].stage = "open" => dev[d].nonblock
    /\ dev[d].stage # "open" => dev[d].buf = 0

DevsOK == dev \in [Devs -> DevRecords] /\ (\A d \in Devs : DevShape(d)) /\ CutOnlyIfMoved

Closing(t) == job[t].pc \in {"file", "drain"}

\* No Close has been refused, and one goroutine at most is past the swap of a
\* device's Close.
JobsOK == /\ job \in [Threads -> JobRecords]
          /\ \A t \in Threads : job[t].pc = "ioctl" => job[t].fd \in Fds
          /\ CloseIsIdempotent
          /\ \A t, u \in Threads : t # u /\ Closing(t) /\ Closing(u) => job[t].d # job[u].d

\* A method runs on an open device; whoever is past the swap in Close finds the
\* file as the swap left it; who reads has a buffer.
CallOK(t) ==
    job[t].pc # "idle" =>
        /\ job[t].d \in Devs
        /\ Of(t).stage = "open"
        /\ job[t].pc = "file" => Of(t).closed /\ Of(t).file = "open"
        /\ job[t].pc = "drain" => Of(t).closed /\ Of(t).file = "closing"
        /\ job[t].op = "read" => Of(t).buf # 0

CallsOK == \A t \in Threads : CallOK(t)

IfsOK == /\ ifs \in [Names -> Interfaces]
         /\ \A n \in Names : ifs[n].own # NoHolder <=> ifs[n].mtu # 0

\* An interface nobody else has touched has the name its device remembers and
\* the MTU it was created with; the buffers of a device still open fit it.
Untouched(d) ==
    ~dev[d].moved =>
        /\ \A n \in Names : ifs[n].own = d => n = dev[d].name /\ ifs[n].mtu = DefaultMTU
        /\ dev[d].file = "open" => dev[d].buf \in {0, DefaultMTU + Overhead}

AttachedOK == \A d \in Devs : /\ (\E n \in Names : ifs[n].own = d) <=> Attached(d)
                              /\ Untouched(d)

PreOK == /\ pre \in [pc : {"stat", "open", "close", "capget", "done"}, fd : Fds \cup {0},
                     res : Verdicts, cause : {"none", "host", "other"}]
         /\ pre.pc = "close" => pre.fd \in Fds
         /\ effective \in EffectiveSets

\* DescriptorsOwned, by the sort of holder.
DevHolds(d, n) == dev[d].fd = n /\ dev[d].stage \in {"setiff", "nonblock", "open"}
                    /\ dev[d].file # "closed"
DevFds == \A n \in Fds, d \in Devs : fds[n] = d <=> DevHolds(d, n)
JobFds == \A n \in Fds, t \in Threads : fds[n] = t <=> job[t].pc = "ioctl" /\ job[t].fd = n
PreFds == \A n \in Fds : fds[n] = "preflight" <=> pre.pc = "close" /\ pre.fd = n
FdTypes == fds \in [Fds -> Holders \cup {NoHolder}]

DeviceInv == /\ DevsOK /\ JobsOK /\ CallsOK /\ IfsOK /\ AttachedOK /\ PreOK
             /\ FdTypes /\ DevFds /\ JobFds /\ PreFds

\* The invariant implies the properties.
LEMMA InvImplies ==
    DeviceInv => DeviceTypes /\ DescriptorsOwned /\ CloseIsIdempotent /\ CutOnlyIfMoved
  <1> SUFFICES ASSUME DeviceInv
               PROVE  DeviceTypes /\ DescriptorsOwned /\ CloseIsIdempotent /\ CutOnlyIfMoved
    OBVIOUS
  <1>1. DeviceTypes
    BY DEF DeviceInv, DeviceTypes, DevsOK, JobsOK, IfsOK, AttachedOK, PreOK, FdTypes
  <1>2. DescriptorsOwned
    <2> SUFFICES ASSUME NEW n \in Fds, NEW h \in Holders
                 PROVE  fds[n] = h <=> Holds(h, n)
      BY DEF DescriptorsOwned
    <2> USE DeviceAssumption DEF Holds
    <2>1. CASE h \in Devs
      BY <2>1 DEF DeviceInv, DevFds, DevHolds
    <2>2. CASE h \in Threads
      BY <2>2 DEF DeviceInv, JobFds
    <2>3. CASE h = "preflight"
      BY <2>3 DEF DeviceInv, PreFds
    <2> QED
      BY <2>1, <2>2, <2>3 DEF Holders
  <1> QED
    BY <1>1, <1>2 DEF DeviceInv, DevsOK, JobsOK

LEMMA Initially == DeviceInit => DeviceInv
  <1> USE DeviceAssumption, PreflightAssumption
          DEF DeviceInit, PreflightInit, NoDev, NoJob, NoIf, Probing
  <1>1. DeviceInit => DevsOK
    BY DEF DevsOK, DevRecords, DevShape, CutOnlyIfMoved
  <1>2. DeviceInit => JobsOK /\ CallsOK
    BY DEF JobsOK, JobRecords, CloseIsIdempotent, Closing, CallsOK, CallOK
  <1>3. DeviceInit => IfsOK /\ AttachedOK
    BY DEF IfsOK, Interfaces, AttachedOK, Attached, Untouched
  <1>4. DeviceInit => PreOK /\ FdTypes /\ DevFds /\ JobFds /\ PreFds
    BY DEF PreOK, Verdicts, FdTypes, DevFds, DevHolds, JobFds, PreFds, Holders
  <1> QED
    BY <1>1, <1>2, <1>3, <1>4 DEF DeviceInv

\* The holders of descriptors and the owners of interfaces are told apart.
LEMMA Distinct ==
    /\ \A d \in Devs : d \notin Threads /\ d # "preflight" /\ d # "other" /\ d # NoHolder
    /\ \A t \in Threads : t # "preflight" /\ t # NoHolder
    /\ NoHolder # "preflight" /\ NoHolder # "other"
  BY DeviceAssumption

-----------------------------------------------------------------------------
(* A descriptor more or less *)

\* Opening a free number for h, which held none, and closing h's: what other
\* holders have does not change.
LEMMA OpensFd ==
    ASSUME FdTypes, NEW n \in Fds, NEW h \in Holders, Opens(n, h)
    PROVE  FdTypes' /\ fds[n] = NoHolder
           /\ \A k \in Fds, g \in Holders : fds'[k] = g <=> (IF k = n THEN g = h ELSE fds[k] = g)
  BY DeviceAssumption DEF FdTypes, Opens, Lowest, FreeFds, Holders

LEMMA ClosesFd ==
    ASSUME FdTypes, NEW n \in Fds, Closes(n)
    PROVE  FdTypes' /\ \A k \in Fds, g \in Holders : fds'[k] = g <=> k # n /\ fds[k] = g
  BY DeviceAssumption DEF FdTypes, Closes, Holders

-----------------------------------------------------------------------------
(* A goroutine goes on *)

\* job[t] becomes j.
LEMMA JobSet ==
    ASSUME JobsOK, NEW t \in Threads, NEW j \in JobRecords, job' = [job EXCEPT ![t] = j],
           j.pc = "ioctl" => j.fd \in Fds, j.res = "nil",
           j.pc \in {"file", "drain"} =>
               \A u \in Threads : u # t /\ Closing(u) => job[u].d # j.d
    PROVE  JobsOK' /\ job'[t] = j /\ \A u \in Threads \ {t} : job'[u] = job[u]
  <1>1. job'[t] = j /\ \A u \in Threads \ {t} : job'[u] = job[u]
    BY DEF JobsOK
  <1>2. job' \in [Threads -> JobRecords]
    BY DEF JobsOK
  <1> QED
    BY <1>1, <1>2 DEF JobsOK, CloseIsIdempotent, Closing

\* Nothing but job[t] changes, t holds no descriptor before or after, and has
\* not got past the swap of a Close.
LEMMA OnlyJob ==
    ASSUME DeviceInv, NEW t \in Threads, NEW j \in JobRecords, job' = [job EXCEPT ![t] = j],
           UNCHANGED <<fds, pre, effective, dev, ifs>>,
           job[t].pc # "ioctl", j.pc \notin {"ioctl", "file", "drain"}, j.res = "nil",
           j.pc # "idle" => /\ j.d \in Devs
                            /\ dev[j.d].stage = "open"
                            /\ j.op = "read" => dev[j.d].buf # 0
    PROVE  DeviceInv'
  <1>1. JobsOK' /\ job'[t] = j /\ \A u \in Threads \ {t} : job'[u] = job[u]
    BY JobSet DEF DeviceInv
  <1>2. CallsOK'
    BY <1>1 DEF DeviceInv, CallsOK, CallOK, Of
  <1>3. JobFds'
    BY <1>1 DEF DeviceInv, JobFds
  <1>4. DevsOK' /\ IfsOK' /\ AttachedOK'
    BY DEF DeviceInv, DevsOK, DevShape, CutOnlyIfMoved, IfsOK, AttachedOK, Attached, Untouched
  <1>5. PreOK' /\ FdTypes' /\ DevFds' /\ PreFds'
    BY DEF DeviceInv, PreOK, FdTypes, DevFds, DevHolds, PreFds
  <1> QED
    BY <1>1, <1>2, <1>3, <1>4, <1>5 DEF DeviceInv

\* What Goes and Ends make of job[t].
LEMMA JobGoes ==
    ASSUME DeviceInv, NEW t \in Threads,
           NEW pc \in {"idle", "start", "go", "ioctl", "inside", "file", "drain"}, Goes(t, pc)
    PROVE  \E j \in JobRecords :
             /\ job' = [job EXCEPT ![t] = j]
             /\ j.pc = pc /\ j.op = job[t].op /\ j.d = job[t].d /\ j.res = "nil"
  <1> DEFINE j == [job[t] EXCEPT !.pc = pc]
  <1>1. job[t] \in JobRecords /\ job[t].res = "nil"
    BY DEF DeviceInv, JobsOK, CloseIsIdempotent
  <1>2. j \in JobRecords /\ j.pc = pc /\ j.op = job[t].op /\ j.d = job[t].d /\ j.res = "nil"
    BY <1>1 DEF JobRecords
  <1>3. job' = [job EXCEPT ![t] = j]
    BY DEF Goes
  <1> QED
    BY <1>2, <1>3

\* What the invariant says of a call in progress.
LEMMA InCall ==
    ASSUME DeviceInv, NEW t \in Threads, job[t].pc # "idle"
    PROVE  /\ job[t].d \in Devs
           /\ dev[job[t].d].stage = "open"
           /\ job[t].op = "read" => dev[job[t].d].buf # 0
  BY DEF DeviceInv, CallsOK, CallOK, Of

LEMMA JobIdle == NoJob \in JobRecords /\ NoJob.pc = "idle" /\ NoJob.res = "nil"
  BY DEF NoJob, JobRecords

LEMMA CallsKeeps ==
    ASSUME DeviceInv, NEW t \in Threads, NEW op \in Ops, NEW d \in Devs, Calls(t, op, d)
    PROVE  DeviceInv'
  <1> DEFINE j == [NoJob EXCEPT !.op = op, !.pc = "start", !.d = d]
  <1>1. /\ j \in JobRecords
        /\ j.pc = "start" /\ j.op = op /\ j.d = d /\ j.res = "nil"
    BY DEF NoJob, JobRecords
  <1>2. /\ job' = [job EXCEPT ![t] = j]
        /\ UNCHANGED <<fds, pre, effective, dev, ifs>>
        /\ job[t].pc # "ioctl"
        /\ dev[d].stage = "open" /\ (op = "read" => dev[d].buf # 0)
    BY DEF Calls, preflightVars, hostVars
  <1> HIDE DEF j
  <1> QED
    BY <1>1, <1>2, OnlyJob

LEMMA ChecksKeeps == ASSUME DeviceInv, NEW t \in Threads, Checks(t) PROVE DeviceInv'
  <1>1. UNCHANGED <<fds, pre, effective, dev, ifs>> /\ job[t].pc = "start"
    BY DEF Checks, preflightVars, hostVars
  <1>2. CASE Of(t).closed
    BY <1>1, <1>2, JobIdle, OnlyJob DEF Checks, Ends
  <1>3. CASE ~Of(t).closed
    <2>1. PICK j \in JobRecords :
             /\ job' = [job EXCEPT ![t] = j]
             /\ j.pc = "go" /\ j.op = job[t].op /\ j.d = job[t].d /\ j.res = "nil"
      BY <1>3, JobGoes DEF Checks
    <2> QED
      BY <1>1, <2>1, InCall, OnlyJob
  <1> QED
    BY <1>2, <1>3

LEMMA FileEnterKeeps == ASSUME DeviceInv, NEW t \in Threads, FileEnter(t) PROVE DeviceInv'
  <1>1. UNCHANGED <<fds, pre, effective, dev, ifs>> /\ job[t].pc = "go"
    BY DEF FileEnter, preflightVars, hostVars
  <1>2. CASE Of(t).file # "open"
    BY <1>1, <1>2, JobIdle, OnlyJob DEF FileEnter, Ends
  <1>3. CASE Of(t).file = "open"
    <2>1. PICK j \in JobRecords :
             /\ job' = [job EXCEPT ![t] = j]
             /\ j.pc = "inside" /\ j.op = job[t].op /\ j.d = job[t].d /\ j.res = "nil"
      BY <1>3, JobGoes DEF FileEnter
    <2> QED
      BY <1>1, <2>1, InCall, OnlyJob
  <1> QED
    BY <1>2, <1>3

LEMMA FileInterruptedKeeps ==
    ASSUME DeviceInv, NEW t \in Threads, FileInterrupted(t) PROVE DeviceInv'
  BY JobIdle, OnlyJob DEF FileInterrupted, Ends, preflightVars, hostVars

-----------------------------------------------------------------------------
(* What a step leaves alone *)

LEMMA SameDevs ==
    ASSUME DeviceInv, dev' = dev, ifs' = ifs
    PROVE  DevsOK' /\ IfsOK' /\ AttachedOK'
  BY DEF DeviceInv, DevsOK, DevShape, CutOnlyIfMoved, IfsOK, AttachedOK, Attached, Untouched

LEMMA SamePre == ASSUME DeviceInv, UNCHANGED <<pre, effective>> PROVE PreOK'
  BY DEF DeviceInv, PreOK

\* No descriptor is opened or closed, and the holders are the same.
LEMMA SameFds ==
    ASSUME DeviceInv, fds' = fds, pre' = pre,
           \A n \in Fds, d \in Devs : DevHolds(d, n)' <=> DevHolds(d, n),
           \A t \in Threads : "ioctl" \in {job[t].pc, job'[t].pc} => job'[t] = job[t]
    PROVE  FdTypes' /\ DevFds' /\ JobFds' /\ PreFds'
  BY DEF DeviceInv, FdTypes, DevFds, JobFds, PreFds

\* dev[d] becomes r.
LEMMA DevSet ==
    ASSUME DeviceInv, NEW d \in Devs, NEW r \in DevRecords, dev' = [dev EXCEPT ![d] = r]
    PROVE  /\ dev' \in [Devs -> DevRecords]
           /\ dev'[d] = r
           /\ \A e \in Devs \ {d} : dev'[e] = dev[e]
  BY DEF DeviceInv, DevsOK

LEMMA DevsKept ==
    ASSUME DeviceInv, NEW d \in Devs, dev' \in [Devs -> DevRecords],
           \A e \in Devs \ {d} : dev'[e] = dev[e],
           DevShape(d)', dev'[d].cut => dev'[d].moved
    PROVE  DevsOK'
  BY DEF DeviceInv, DevsOK, DevShape, CutOnlyIfMoved

-----------------------------------------------------------------------------
(* MTU *)

LEMMA MTUSocketKeeps == ASSUME DeviceInv, NEW t \in Threads, MTUSocket(t) PROVE DeviceInv'
  <1>1. UNCHANGED <<pre, effective, dev, ifs>> /\ job[t].pc = "go"
    BY DEF MTUSocket, rest, hostVars
  <1>2. CASE FreeFds = {} /\ Ends(t) /\ UNCHANGED fds
    BY <1>1, <1>2, JobIdle, OnlyJob DEF Ends
  <1>3. ASSUME NEW n \in Fds, Opens(n, t), job' = [job EXCEPT ![t].pc = "ioctl", ![t].fd = n]
        PROVE  DeviceInv'
    <2> DEFINE j == [job[t] EXCEPT !.pc = "ioctl", !.fd = n]
    <2>1. job[t] \in JobRecords /\ job[t].res = "nil"
      BY DEF DeviceInv, JobsOK, CloseIsIdempotent
    <2>2. /\ j \in JobRecords /\ j.pc = "ioctl" /\ j.fd = n /\ j.d = job[t].d
          /\ j.op = job[t].op /\ j.res = "nil"
      BY <2>1 DEF JobRecords
    <2>3. job' = [job EXCEPT ![t] = j]
      BY <1>3
    <2> HIDE DEF j
    <2>4. JobsOK' /\ job'[t] = j /\ \A u \in Threads \ {t} : job'[u] = job[u]
      BY <2>2, <2>3, JobSet DEF DeviceInv
    <2>5. CallsOK'
      BY <1>1, <2>2, <2>4 DEF DeviceInv, CallsOK, CallOK, Of
    <2>6. /\ FdTypes' /\ fds[n] = NoHolder
          /\ \A k \in Fds, g \in Holders :
                fds'[k] = g <=> (IF k = n THEN g = t ELSE fds[k] = g)
      BY <1>3, OpensFd DEF DeviceInv, Holders
    <2>7. DevFds'
      BY <1>1, <2>6, Distinct DEF DeviceInv, DevFds, DevHolds, Holders
    <2>8. JobFds'
      BY <1>1, <2>2, <2>4, <2>6, Distinct DEF DeviceInv, JobFds, Holders
    <2>9. PreFds'
      BY <1>1, <2>6, Distinct DEF DeviceInv, PreFds, Holders
    <2> QED
      BY <1>1, <2>4, <2>5, <2>6, <2>7, <2>8, <2>9, SameDevs, SamePre DEF DeviceInv
  <1> QED
    BY <1>2, <1>3 DEF MTUSocket

\* t's socket is closed, and t is done.
LEMMA SocketCloses ==
    ASSUME DeviceInv, NEW t \in Threads, job[t].pc = "ioctl", Closes(job[t].fd), Ends(t),
           pre' = pre, \A n \in Fds, d \in Devs : DevHolds(d, n)' <=> DevHolds(d, n)
    PROVE  /\ JobsOK' /\ job'[t] = NoJob /\ (\A u \in Threads \ {t} : job'[u] = job[u])
           /\ FdTypes' /\ DevFds' /\ JobFds' /\ PreFds'
  <1>1. JobsOK' /\ job'[t] = NoJob /\ \A u \in Threads \ {t} : job'[u] = job[u]
    BY JobIdle, JobSet DEF DeviceInv, Ends
  <1>2. job[t].fd \in Fds /\ fds[job[t].fd] = t
    BY DEF DeviceInv, JobsOK, JobFds
  <1>3. FdTypes' /\ \A k \in Fds, g \in Holders : fds'[k] = g <=> k # job[t].fd /\ fds[k] = g
    BY <1>2, ClosesFd DEF DeviceInv
  <1>4. DevFds'
    BY <1>2, <1>3, Distinct DEF DeviceInv, DevFds, Holders
  <1>5. JobFds'
    BY <1>1, <1>2, <1>3, JobIdle, Distinct DEF DeviceInv, JobFds, Holders
  <1>6. PreFds'
    BY <1>2, <1>3, Distinct DEF DeviceInv, PreFds, Holders
  <1> QED
    BY <1>1, <1>3, <1>4, <1>5, <1>6

LEMMA MTUQueryKeeps == ASSUME DeviceInv, NEW t \in Threads, MTUQuery(t) PROVE DeviceInv'
  <1> DEFINE d == job[t].d
             i == ifs[dev[d].name]
  <1>1. /\ UNCHANGED <<pre, effective, ifs>>
        /\ job[t].op = "mtu" /\ job[t].pc = "ioctl"
        /\ Closes(job[t].fd)
        /\ Ends(t)
    BY DEF MTUQuery, rest, hostVars, Of
  <1>2. CASE i = NoIf
    <2>1. dev' = dev
      BY <1>2 DEF MTUQuery, Of
    <2>2. /\ JobsOK' /\ job'[t] = NoJob /\ (\A u \in Threads \ {t} : job'[u] = job[u])
          /\ FdTypes' /\ DevFds' /\ JobFds' /\ PreFds'
      BY <1>1, <2>1, SocketCloses DEF DevHolds
    <2>3. CallsOK'
      BY <2>1, <2>2, JobIdle DEF DeviceInv, CallsOK, CallOK, Of
    <2> QED
      BY <1>1, <2>1, <2>2, <2>3, SameDevs, SamePre DEF DeviceInv
  <1>3. CASE i # NoIf
    <2> DEFINE r == [dev[d] EXCEPT !.buf = i.mtu + Overhead]
    <2>1. d \in Devs /\ dev[d].stage = "open" /\ dev[d] \in DevRecords /\ dev[d].name \in Names
      BY <1>1, InCall DEF DeviceInv, DevsOK, DevShape
    <2>2. i.mtu \in MTUs
      BY <1>3, <2>1, DeviceAssumption DEF DeviceInv, IfsOK, Interfaces, NoIf
    <2>3. /\ r \in DevRecords
          /\ r.buf = i.mtu + Overhead /\ r.buf # 0
          /\ r.stage = dev[d].stage /\ r.req = dev[d].req /\ r.fd = dev[d].fd
          /\ r.name = dev[d].name /\ r.nonblock = dev[d].nonblock
          /\ r.closed = dev[d].closed /\ r.file = dev[d].file
          /\ r.moved = dev[d].moved /\ r.cut = dev[d].cut
      BY <2>1, <2>2, DeviceAssumption DEF DevRecords
    <2>4. dev' = [dev EXCEPT ![d] = r]
      BY <1>3 DEF MTUQuery, Of
    <2>5. ~dev[d].moved /\ dev[d].file = "open" => i.mtu = DefaultMTU
      <3> SUFFICES ASSUME ~dev[d].moved, dev[d].file = "open" PROVE i.mtu = DefaultMTU
        OBVIOUS
      <3>1. PICK n \in Names : ifs[n].own = d
        BY <2>1 DEF DeviceInv, AttachedOK, Attached
      <3> QED
        BY <2>1, <3>1 DEF DeviceInv, AttachedOK, Untouched
    <2> HIDE DEF r
    <2>6. /\ dev' \in [Devs -> DevRecords]
          /\ dev'[d] = r
          /\ \A e \in Devs \ {d} : dev'[e] = dev[e]
      BY <2>1, <2>3, <2>4, DevSet
    <2>7. DevsOK'
      BY <2>1, <2>3, <2>6 DEF DeviceInv, DevsOK, DevShape, CutOnlyIfMoved
    <2>8. /\ JobsOK' /\ job'[t] = NoJob /\ (\A u \in Threads \ {t} : job'[u] = job[u])
          /\ FdTypes' /\ DevFds' /\ JobFds' /\ PreFds'
      BY <1>1, <2>1, <2>3, <2>6, SocketCloses DEF DevHolds
    <2>9. CallsOK'
      BY <2>1, <2>3, <2>6, <2>8, JobIdle DEF DeviceInv, CallsOK, CallOK, Of
    <2>10. IfsOK' /\ AttachedOK'
      BY <1>1, <2>1, <2>3, <2>5, <2>6 DEF DeviceInv, IfsOK, AttachedOK, Attached, Untouched
    <2> QED
      BY <1>1, <2>7, <2>8, <2>9, <2>10, SamePre DEF DeviceInv
  <1> QED
    BY <1>2, <1>3

-----------------------------------------------------------------------------
(* Read, Write and Close *)

\* A packet read is cut only if the interface was touched.
LEMMA FileIOKeeps == ASSUME DeviceInv, NEW t \in Threads, FileIO(t) PROVE DeviceInv'
  <1> DEFINE d == job[t].d
  <1>1. /\ UNCHANGED <<fds, pre, effective, ifs>>
        /\ job[t].pc = "inside"
        /\ job' = [job EXCEPT ![t] = NoJob]
    BY DEF FileIO, Ends, preflightVars, hostVars
  <1>2. /\ d \in Devs /\ dev[d] \in DevRecords /\ DevShape(d) /\ dev[d].stage = "open"
        /\ job[t].op = "read" => dev[d].buf # 0
    BY <1>1, InCall DEF DeviceInv, DevsOK
  <1>3. dev[d].file = "open"
    <2>1. dev[d].nonblock
      BY <1>2 DEF DevShape
    <2>2. dev[d].nonblock => dev[d].file = "open"
      BY DEF FileIO, Of
    <2> QED
      BY <2>1, <2>2
  <1>packet. PICK n \in Names : \E size \in 1..ifs[n].mtu :
          /\ ifs[n].own = d
          /\ dev' = [dev EXCEPT ![d].cut =
                       @ \/ (job[t].op = "read" /\ size > dev[d].buf)]
    BY DEF FileIO, Of
  <1>4. PICK size \in 1..ifs[n].mtu :
          /\ ifs[n].own = d
          /\ dev' = [dev EXCEPT ![d].cut =
                       @ \/ (job[t].op = "read" /\ size > dev[d].buf)]
    BY <1>packet
  <1> DEFINE r == [dev[d] EXCEPT !.cut = @ \/ (job[t].op = "read" /\ size > dev[d].buf)]
  <1>5. /\ r \in DevRecords
        /\ r.cut = (dev[d].cut \/ (job[t].op = "read" /\ size > dev[d].buf))
        /\ r.stage = dev[d].stage /\ r.req = dev[d].req /\ r.fd = dev[d].fd
        /\ r.name = dev[d].name /\ r.nonblock = dev[d].nonblock
        /\ r.closed = dev[d].closed /\ r.file = dev[d].file
        /\ r.moved = dev[d].moved /\ r.buf = dev[d].buf
    BY <1>2 DEF DevRecords
  <1>6. dev' = [dev EXCEPT ![d] = r]
    BY <1>4
  <1>7. r.cut => r.moved
    <2> SUFFICES ASSUME ~dev[d].moved, job[t].op = "read", size > dev[d].buf PROVE FALSE
      BY <1>2, <1>5 DEF DeviceInv, DevsOK, CutOnlyIfMoved
    <2>1. ifs[n].mtu = DefaultMTU /\ dev[d].buf = DefaultMTU + Overhead
      BY <1>2, <1>3, <1>4 DEF DeviceInv, AttachedOK, Untouched
    <2> QED
      BY <1>4, <2>1, DeviceAssumption
  <1> HIDE DEF r
  <1>8. /\ dev' \in [Devs -> DevRecords]
        /\ dev'[d] = r
        /\ \A e \in Devs \ {d} : dev'[e] = dev[e]
    BY <1>2, <1>5, <1>6, DevSet
  <1>9. DevsOK'
    BY <1>2, <1>5, <1>7, <1>8 DEF DeviceInv, DevsOK, DevShape, CutOnlyIfMoved
  <1>10. JobsOK' /\ job'[t] = NoJob /\ \A u \in Threads \ {t} : job'[u] = job[u]
    BY <1>1, JobIdle, JobSet DEF DeviceInv
  <1>11. CallsOK'
    BY <1>2, <1>5, <1>8, <1>10, JobIdle DEF DeviceInv, CallsOK, CallOK, Of
  <1>12. IfsOK' /\ AttachedOK'
    BY <1>1, <1>2, <1>5, <1>8 DEF DeviceInv, IfsOK, AttachedOK, Attached, Untouched
  <1>13. FdTypes' /\ DevFds' /\ JobFds' /\ PreFds'
    BY <1>1, <1>2, <1>5, <1>8, <1>10, JobIdle, SameFds DEF DevHolds
  <1> QED
    BY <1>1, <1>9, <1>10, <1>11, <1>12, <1>13, SamePre DEF DeviceInv

\* The swap: who wins it is the only one past it.
LEMMA CloseSwapsKeeps == ASSUME DeviceInv, NEW t \in Threads, CloseSwaps(t) PROVE DeviceInv'
  <1> DEFINE d == job[t].d
  <1>1. UNCHANGED <<fds, pre, effective, ifs>> /\ job[t].pc = "start"
    BY DEF CloseSwaps, preflightVars, hostVars
  <1>2. d \in Devs /\ dev[d] \in DevRecords /\ DevShape(d) /\ dev[d].stage = "open"
    BY <1>1, InCall DEF DeviceInv, DevsOK
  <1>3. CASE dev[d].closed
    BY <1>1, <1>3, JobIdle, OnlyJob DEF CloseSwaps, Ends, Of
  <1>4. CASE ~dev[d].closed
    <2> DEFINE r == [dev[d] EXCEPT !.closed = TRUE]
    <2>1. /\ r \in DevRecords
          /\ r.closed = TRUE
          /\ r.stage = dev[d].stage /\ r.req = dev[d].req /\ r.fd = dev[d].fd
          /\ r.name = dev[d].name /\ r.nonblock = dev[d].nonblock /\ r.buf = dev[d].buf
          /\ r.file = dev[d].file /\ r.moved = dev[d].moved /\ r.cut = dev[d].cut
      BY <1>2 DEF DevRecords
    <2>2. dev' = [dev EXCEPT ![d] = r]
      BY <1>4 DEF CloseSwaps, Of
    <2> HIDE DEF r
    <2>3. /\ dev' \in [Devs -> DevRecords]
          /\ dev'[d] = r
          /\ \A e \in Devs \ {d} : dev'[e] = dev[e]
      BY <1>2, <2>1, <2>2, DevSet
    <2>4. PICK j \in JobRecords :
             /\ job' = [job EXCEPT ![t] = j]
             /\ j.pc = "file" /\ j.op = job[t].op /\ j.d = job[t].d /\ j.res = "nil"
      BY <1>4, JobGoes DEF CloseSwaps, Of
    <2>5. \A u \in Threads : u # t /\ Closing(u) => job[u].d # d
      BY <1>2, <1>4 DEF DeviceInv, CallsOK, CallOK, Of, Closing
    <2>6. JobsOK' /\ job'[t] = j /\ \A u \in Threads \ {t} : job'[u] = job[u]
      <3>1. j.pc # "ioctl" /\ \A u \in Threads : u # t /\ Closing(u) => job[u].d # j.d
        BY <2>4, <2>5
      <3>2. JobsOK
        BY DEF DeviceInv
      <3> QED
        BY <2>4, <3>1, <3>2, JobSet
    <2>7. DevsOK'
      BY <1>2, <2>1, <2>3 DEF DeviceInv, DevsOK, DevShape, CutOnlyIfMoved
    <2>8. dev[d].file = "open"
      BY <1>2, <1>4 DEF DevShape, DevRecords
    <2>9. CallsOK'
      BY <1>1, <1>2, <2>1, <2>3, <2>4, <2>6, <2>8 DEF DeviceInv, CallsOK, CallOK, Of
    <2>10. IfsOK' /\ AttachedOK'
      BY <1>1, <1>2, <2>1, <2>3 DEF DeviceInv, IfsOK, AttachedOK, Attached, Untouched
    <2>11. FdTypes' /\ DevFds' /\ JobFds' /\ PreFds'
      BY <1>1, <1>2, <2>1, <2>3, <2>4, <2>6, SameFds DEF DevHolds
    <2> QED
      BY <1>1, <2>6, <2>7, <2>9, <2>10, <2>11, SamePre DEF DeviceInv
  <1> QED
    BY <1>3, <1>4 DEF DevRecords

\* The file is open when the winner of the swap gets there.
LEMMA FileClosesKeeps == ASSUME DeviceInv, NEW t \in Threads, FileCloses(t) PROVE DeviceInv'
  <1> PICK d \in Devs : d = job[t].d
    BY InCall DEF FileCloses
  <1> DEFINE r == [dev[d] EXCEPT !.file = "closing"]
  <1>1. UNCHANGED <<fds, pre, effective, ifs>> /\ job[t].pc = "file"
    BY DEF FileCloses, preflightVars, hostVars
  <1>2. /\ d \in Devs /\ dev[d] \in DevRecords /\ DevShape(d)
        /\ dev[d].stage = "open" /\ dev[d].closed /\ dev[d].file = "open"
    BY <1>1, InCall DEF DeviceInv, DevsOK, CallsOK, CallOK, Of
  <1>3. /\ r \in DevRecords
        /\ r.file = "closing"
        /\ r.stage = dev[d].stage /\ r.req = dev[d].req /\ r.fd = dev[d].fd
        /\ r.name = dev[d].name /\ r.nonblock = dev[d].nonblock /\ r.buf = dev[d].buf
        /\ r.closed = dev[d].closed /\ r.moved = dev[d].moved /\ r.cut = dev[d].cut
    BY <1>2 DEF DevRecords
  <1>4. dev' = [dev EXCEPT ![d] = r]
    BY <1>2 DEF FileCloses, Of
  <1> HIDE DEF r
  <1>5. /\ dev' \in [Devs -> DevRecords]
        /\ dev'[d] = r
        /\ \A e \in Devs \ {d} : dev'[e] = dev[e]
    BY <1>2, <1>3, <1>4, DevSet
  <1>6. PICK j \in JobRecords :
           /\ job' = [job EXCEPT ![t] = j]
           /\ j.pc = "drain" /\ j.op = job[t].op /\ j.d = job[t].d /\ j.res = "nil"
    BY <1>2, JobGoes DEF FileCloses, Of
  <1>7. \A u \in Threads : u # t /\ Closing(u) => job[u].d # d
    BY <1>1 DEF DeviceInv, JobsOK, Closing
  <1>8. JobsOK' /\ job'[t] = j /\ \A u \in Threads \ {t} : job'[u] = job[u]
    <2>1. j.pc # "ioctl" /\ \A u \in Threads : u # t /\ Closing(u) => job[u].d # j.d
      BY <1>6, <1>7
    <2>2. JobsOK
      BY DEF DeviceInv
    <2> QED
      BY <1>6, <2>1, <2>2, JobSet
  <1>9. DevsOK'
    <2>1. dev'[d].cut => dev'[d].moved
      BY <1>3, <1>5 DEF DeviceInv, DevsOK, CutOnlyIfMoved
    <2>2. DevShape(d)'
      BY <1>2, <1>3, <1>5 DEF DevShape
    <2> QED
      BY <1>5, <2>1, <2>2, DevsKept
  <1>10. CallsOK'
    <2> SUFFICES ASSUME NEW u \in Threads PROVE CallOK(u)'
      BY DEF CallsOK
    <2>1. CASE u = t
      <3>1. /\ job'[u].d = d /\ job'[u].pc = "drain" /\ job'[u].op = job[t].op
            /\ dev'[d] = r
        BY <1>5, <1>6, <1>8, <2>1
      <3>2. /\ r.stage = "open" /\ r.closed /\ r.file = "closing"
            /\ job[t].op = "read" => r.buf # 0
        BY <1>1, <1>2, <1>3, InCall
      <3> QED
        BY <3>1, <3>2 DEF CallOK, Of
    <2>2. CASE u # t /\ job[u].d = d
      BY <1>3, <1>5, <1>7, <1>8, <2>2 DEF DeviceInv, CallsOK, CallOK, Of, Closing
    <2>3. CASE u # t /\ job[u].d # d
      BY <1>5, <1>8, <2>3 DEF DeviceInv, CallsOK, CallOK, Of
    <2> QED
      BY <2>1, <2>2, <2>3
  <1>11. IfsOK' /\ AttachedOK'
    BY <1>1, <1>2, <1>3, <1>5 DEF DeviceInv, IfsOK, AttachedOK, Attached, Untouched
  <1>12. FdTypes' /\ DevFds' /\ JobFds' /\ PreFds'
    BY <1>1, <1>2, <1>3, <1>5, <1>6, <1>8, SameFds DEF DevHolds
  <1> QED
    BY <1>1, <1>8, <1>9, <1>10, <1>11, <1>12, SamePre DEF DeviceInv

\* The interface of d goes with its last descriptor.
LEMMA RemovesIf ==
    ASSUME DeviceInv, NEW d \in Devs, Removes(d)
    PROVE  /\ IfsOK'
           /\ \A n \in Names : /\ ifs[n].own = d => ifs'[n] = NoIf
                               /\ ifs[n].own # d => ifs'[n] = ifs[n]
  <1>1. \A n \in Names : /\ ifs[n].own = d => ifs'[n] = NoIf
                         /\ ifs[n].own # d => ifs'[n] = ifs[n]
    BY DEF Removes
  <1>2. NoIf \in Interfaces /\ NoIf.own = NoHolder /\ NoIf.mtu = 0
    BY DEF NoIf, Interfaces
  <1>3. ifs' \in [Names -> Interfaces]
    BY <1>2 DEF Removes, DeviceInv, IfsOK
  <1> QED
    BY <1>1, <1>2, <1>3 DEF DeviceInv, IfsOK

\* d's descriptor is closed, and d holds none.
LEMMA DeviceCloses ==
    ASSUME DeviceInv, NEW d \in Devs, DevHolds(d, dev[d].fd), Closes(dev[d].fd), pre' = pre,
           \A n \in Fds : ~DevHolds(d, n)', \A e \in Devs \ {d} : dev'[e] = dev[e],
           \A t \in Threads : "ioctl" \in {job[t].pc, job'[t].pc} => job'[t] = job[t]
    PROVE  FdTypes' /\ DevFds' /\ JobFds' /\ PreFds'
  <1>1. dev[d].fd \in Fds /\ fds[dev[d].fd] = d
    BY DEF DeviceInv, DevsOK, DevShape, DevFds, DevHolds
  <1>2. FdTypes' /\ \A k \in Fds, g \in Holders : fds'[k] = g <=> k # dev[d].fd /\ fds[k] = g
    BY <1>1, ClosesFd DEF DeviceInv
  <1>3. DevFds'
    <2> SUFFICES ASSUME NEW n \in Fds, NEW e \in Devs PROVE (fds[n] = e <=> DevHolds(e, n))'
      BY DEF DevFds
    <2>1. CASE e = d
      BY <1>1, <1>2, <2>1 DEF DeviceInv, DevFds, DevHolds, Holders
    <2>2. CASE e # d
      BY <1>1, <1>2, <2>2 DEF DeviceInv, DevFds, DevHolds, Holders
    <2> QED
      BY <2>1, <2>2
  <1>4. JobFds'
    BY <1>1, <1>2, Distinct DEF DeviceInv, JobFds, Holders
  <1>5. PreFds'
    BY <1>1, <1>2, Distinct DEF DeviceInv, PreFds, Holders
  <1> QED
    BY <1>2, <1>3, <1>4, <1>5

LEMMA FileClosedKeeps == ASSUME DeviceInv, NEW t \in Threads, FileClosed(t) PROVE DeviceInv'
  <1> PICK d \in Devs : d = job[t].d
    BY InCall DEF FileClosed
  <1> DEFINE r == [dev[d] EXCEPT !.file = "closed"]
  <1>1. /\ UNCHANGED <<pre, effective>> /\ job[t].pc = "drain"
        /\ job' = [job EXCEPT ![t] = NoJob]
        /\ Closes(dev[d].fd) /\ Removes(d)
        /\ dev' = [dev EXCEPT ![d] = r]
    BY DEF FileClosed, Ends, Of, rest, hostVars
  <1>2. /\ d \in Devs /\ dev[d] \in DevRecords /\ DevShape(d)
        /\ dev[d].stage = "open" /\ dev[d].closed /\ dev[d].file = "closing"
    BY <1>1, InCall DEF DeviceInv, DevsOK, CallsOK, CallOK, Of
  <1>3. /\ r \in DevRecords
        /\ r.file = "closed"
        /\ r.stage = dev[d].stage /\ r.req = dev[d].req /\ r.fd = dev[d].fd
        /\ r.name = dev[d].name /\ r.nonblock = dev[d].nonblock /\ r.buf = dev[d].buf
        /\ r.closed = dev[d].closed /\ r.moved = dev[d].moved /\ r.cut = dev[d].cut
    BY <1>2 DEF DevRecords
  <1> HIDE DEF r
  <1>4. /\ dev' \in [Devs -> DevRecords]
        /\ dev'[d] = r
        /\ \A e \in Devs \ {d} : dev'[e] = dev[e]
    BY <1>1, <1>2, <1>3, DevSet
  <1>5. JobsOK' /\ job'[t] = NoJob /\ \A u \in Threads \ {t} : job'[u] = job[u]
    BY <1>1, JobIdle, JobSet DEF DeviceInv
  <1>6. DevsOK'
    <2>1. dev'[d].cut => dev'[d].moved
      BY <1>3, <1>4 DEF DeviceInv, DevsOK, CutOnlyIfMoved
    <2>2. DevShape(d)'
      BY <1>2, <1>3, <1>4 DEF DevShape
    <2> QED
      BY <1>4, <2>1, <2>2, DevsKept
  <1>7. \A u \in Threads : u # t /\ Closing(u) => job[u].d # d
    BY <1>1 DEF DeviceInv, JobsOK, Closing
  <1>8. CallsOK'
    BY <1>2, <1>3, <1>4, <1>5, <1>7, JobIdle DEF DeviceInv, CallsOK, CallOK, Of, Closing
  <1>9. IfsOK' /\ \A n \in Names : /\ ifs[n].own = d => ifs'[n] = NoIf
                                   /\ ifs[n].own # d => ifs'[n] = ifs[n]
    BY <1>1, <1>2, RemovesIf
  <1>10. AttachedOK'
    BY <1>2, <1>3, <1>4, <1>9, Distinct
       DEF DeviceInv, AttachedOK, Attached, Untouched, NoIf
  <1>11. FdTypes' /\ DevFds' /\ JobFds' /\ PreFds'
    BY <1>1, <1>2, <1>3, <1>4, <1>5, JobIdle, DeviceCloses DEF DevHolds
  <1> QED
    BY <1>1, <1>5, <1>6, <1>8, <1>9, <1>10, <1>11, SamePre DEF DeviceInv

-----------------------------------------------------------------------------
(* Open *)

\* Nobody uses a device whose Open has not returned.
LEMMA OpenCalls ==
    ASSUME DeviceInv, job' = job, NEW d \in Devs, dev[d].stage # "open",
           \A e \in Devs \ {d} : dev'[e] = dev[e]
    PROVE  JobsOK' /\ CallsOK'
  <1>1. JobsOK'
    BY DEF DeviceInv, JobsOK, CloseIsIdempotent, Closing
  <1>2. CallsOK'
    <2> SUFFICES ASSUME NEW t \in Threads PROVE CallOK(t)'
      BY DEF CallsOK
    <2>1. job[t].pc # "idle" => job[t].d \in Devs \ {d}
      BY InCall
    <2> QED
      BY <2>1 DEF DeviceInv, CallsOK, CallOK, Of
  <1> QED
    BY <1>1, <1>2

LEMMA OpenNodeKeeps ==
    ASSUME DeviceInv, NEW d \in Devs, NEW q \in Requests, OpenNode(d, q) PROVE DeviceInv'
  <1>1. UNCHANGED <<pre, effective, job, ifs>> /\ dev[d].stage = "none"
    BY DEF OpenNode, rest, hostVars
  <1>2. PICK n \in Fds :
          /\ Opens(n, d)
          /\ dev' = [dev EXCEPT ![d].stage = "setiff", ![d].fd = n, ![d].req = q]
    BY DEF OpenNode
  <1> DEFINE r == [dev[d] EXCEPT !.stage = "setiff", !.fd = n, !.req = q]
  <1>3. dev[d] \in DevRecords /\ DevShape(d)
    BY DEF DeviceInv, DevsOK
  <1>4. /\ r \in DevRecords
        /\ r.stage = "setiff" /\ r.fd = n /\ r.req = q
        /\ r.name = dev[d].name /\ r.nonblock = dev[d].nonblock /\ r.buf = dev[d].buf
        /\ r.closed = dev[d].closed /\ r.file = dev[d].file
        /\ r.moved = dev[d].moved /\ r.cut = dev[d].cut
    BY <1>3 DEF DevRecords
  <1>5. dev' = [dev EXCEPT ![d] = r]
    BY <1>2
  <1> HIDE DEF r
  <1>6. /\ dev' \in [Devs -> DevRecords]
        /\ dev'[d] = r
        /\ \A e \in Devs \ {d} : dev'[e] = dev[e]
    BY <1>4, <1>5, DevSet
  <1>7. DevsOK'
    <2>1. dev'[d].cut => dev'[d].moved
      BY <1>4, <1>6 DEF DeviceInv, DevsOK, CutOnlyIfMoved
    <2>2. DevShape(d)'
      BY <1>1, <1>3, <1>4, <1>6 DEF DevShape
    <2> QED
      BY <1>6, <2>1, <2>2, DevsKept
  <1>8. IfsOK' /\ AttachedOK'
    BY <1>1, <1>3, <1>4, <1>6 DEF DeviceInv, IfsOK, AttachedOK, Attached, Untouched, DevShape
  <1>9. JobsOK' /\ CallsOK'
    BY <1>1, <1>6, OpenCalls
  <1>10. /\ FdTypes' /\ fds[n] = NoHolder
         /\ \A k \in Fds, g \in Holders :
               fds'[k] = g <=> (IF k = n THEN g = d ELSE fds[k] = g)
    BY <1>2, OpensFd DEF DeviceInv, Holders
  <1>11. DevFds'
    <2> SUFFICES ASSUME NEW k \in Fds, NEW e \in Devs PROVE (fds[k] = e <=> DevHolds(e, k))'
      BY DEF DevFds
    <2>1. CASE e = d
      BY <1>1, <1>3, <1>4, <1>6, <1>10, <2>1
         DEF DeviceInv, DevFds, DevHolds, Holders, DevShape
    <2>2. CASE e # d
      BY <1>6, <1>10, <2>2, Distinct DEF DeviceInv, DevFds, DevHolds, Holders
    <2> QED
      BY <2>1, <2>2
  <1>12. JobFds'
    BY <1>1, <1>10, Distinct DEF DeviceInv, JobFds, Holders
  <1>13. PreFds'
    BY <1>1, <1>10, Distinct DEF DeviceInv, PreFds, Holders
  <1> QED
    BY <1>1, <1>7, <1>8, <1>9, <1>10, <1>11, <1>12, <1>13, SamePre DEF DeviceInv

\* Open fails: the record, whatever becomes of descriptor and interface.
LEMMA FailsDev ==
    ASSUME DeviceInv, NEW d \in Devs, dev[d].stage \in {"none", "setiff", "nonblock"},
           NEW e \in {"no_device", "other", "EPERM", "EBUSY", "nonblock"}, Fails(d, e)
    PROVE  /\ DevsOK'
           /\ dev'[d].stage = "failed" /\ dev'[d].moved = dev[d].moved
           /\ dev'[d].file = "none"
           /\ \A f \in Devs \ {d} : dev'[f] = dev[f]
  <1> DEFINE r == [dev[d] EXCEPT !.stage = "failed", !.req = "none", !.fd = 0, !.out = e]
  <1>1. dev[d] \in DevRecords /\ DevShape(d)
    BY DEF DeviceInv, DevsOK
  <1>2. /\ r \in DevRecords
        /\ r.stage = "failed"
        /\ r.name = dev[d].name /\ r.nonblock = dev[d].nonblock /\ r.buf = dev[d].buf
        /\ r.closed = dev[d].closed /\ r.file = dev[d].file
        /\ r.moved = dev[d].moved /\ r.cut = dev[d].cut
    BY <1>1 DEF DevRecords
  <1>3. dev' = [dev EXCEPT ![d] = r]
    BY DEF Fails
  <1> HIDE DEF r
  <1>4. /\ dev' \in [Devs -> DevRecords]
        /\ dev'[d] = r
        /\ \A f \in Devs \ {d} : dev'[f] = dev[f]
    BY <1>2, <1>3, DevSet
  <1>5. dev'[d].cut => dev'[d].moved
    BY <1>2, <1>4 DEF DeviceInv, DevsOK, CutOnlyIfMoved
  <1>6. dev[d].file = "none"
    BY <1>1 DEF DevShape
  <1>7. DevShape(d)'
    BY <1>1, <1>2, <1>4, <1>6 DEF DevShape
  <1>8. DevsOK'
    BY <1>4, <1>5, <1>7, DevsKept
  <1> QED
    BY <1>2, <1>4, <1>6, <1>8

LEMMA OpenNodeFailsKeeps ==
    ASSUME DeviceInv, NEW d \in Devs, OpenNodeFails(d) PROVE DeviceInv'
  <1>1. UNCHANGED <<fds, pre, effective, job, ifs>> /\ dev[d].stage = "none"
    BY DEF OpenNodeFails, rest, hostVars
  <1>2. /\ DevsOK'
        /\ dev'[d].stage = "failed" /\ dev'[d].moved = dev[d].moved
        /\ dev'[d].file = "none"
        /\ \A f \in Devs \ {d} : dev'[f] = dev[f]
    BY <1>1, FailsDev DEF OpenNodeFails
  <1>3. JobsOK' /\ CallsOK'
    BY <1>1, <1>2, OpenCalls
  <1>4. IfsOK' /\ AttachedOK'
    BY <1>1, <1>2 DEF DeviceInv, IfsOK, AttachedOK, Attached, Untouched
  <1>5. FdTypes' /\ DevFds' /\ JobFds' /\ PreFds'
    BY <1>1, <1>2, SameFds DEF DevHolds
  <1> QED
    BY <1>1, <1>2, <1>3, <1>4, <1>5, SamePre DEF DeviceInv

LEMMA SetIffFailsKeeps ==
    ASSUME DeviceInv, NEW d \in Devs, SetIffFails(d) PROVE DeviceInv'
  <1>1. UNCHANGED <<pre, effective, job, ifs>> /\ dev[d].stage = "setiff" /\ Closes(dev[d].fd)
    BY DEF SetIffFails, rest, hostVars
  <1>2. /\ DevsOK'
        /\ dev'[d].stage = "failed" /\ dev'[d].moved = dev[d].moved
        /\ dev'[d].file = "none"
        /\ \A f \in Devs \ {d} : dev'[f] = dev[f]
    BY <1>1, FailsDev DEF SetIffFails
  <1>3. JobsOK' /\ CallsOK'
    BY <1>1, <1>2, OpenCalls
  <1>4. IfsOK' /\ AttachedOK'
    BY <1>1, <1>2 DEF DeviceInv, IfsOK, AttachedOK, Attached, Untouched
  <1>5. DevHolds(d, dev[d].fd)
    BY <1>1 DEF DeviceInv, DevsOK, DevShape, DevHolds
  <1>6. FdTypes' /\ DevFds' /\ JobFds' /\ PreFds'
    BY <1>1, <1>2, <1>5, DeviceCloses DEF DevHolds
  <1> QED
    BY <1>1, <1>2, <1>3, <1>4, <1>6, SamePre DEF DeviceInv

LEMMA SetNonblockFailsKeeps ==
    ASSUME DeviceInv, NEW d \in Devs, SetNonblockFails(d) PROVE DeviceInv'
  <1>1. /\ UNCHANGED <<pre, effective, job>> /\ dev[d].stage = "nonblock"
        /\ Closes(dev[d].fd) /\ Removes(d)
    BY DEF SetNonblockFails, rest, hostVars
  <1>2. /\ DevsOK'
        /\ dev'[d].stage = "failed" /\ dev'[d].moved = dev[d].moved
        /\ dev'[d].file = "none"
        /\ \A f \in Devs \ {d} : dev'[f] = dev[f]
    BY <1>1, FailsDev DEF SetNonblockFails
  <1>3. JobsOK' /\ CallsOK'
    BY <1>1, <1>2, OpenCalls
  <1>4. IfsOK' /\ \A n \in Names : /\ ifs[n].own = d => ifs'[n] = NoIf
                                   /\ ifs[n].own # d => ifs'[n] = ifs[n]
    BY <1>1, RemovesIf
  <1>5. AttachedOK'
    BY <1>2, <1>4, Distinct DEF DeviceInv, AttachedOK, Attached, Untouched, NoIf
  <1>6. DevHolds(d, dev[d].fd)
    BY <1>1 DEF DeviceInv, DevsOK, DevShape, DevHolds
  <1>7. FdTypes' /\ DevFds' /\ JobFds' /\ PreFds'
    BY <1>1, <1>2, <1>6, DeviceCloses DEF DevHolds
  <1> QED
    BY <1>1, <1>2, <1>3, <1>4, <1>5, <1>7, SamePre DEF DeviceInv

\* A request has a least free candidate, and it is a name no interface has.
LEMMA ResolvedFree ==
    ASSUME DeviceInv, NEW q \in Requests, FreeNames(q) # {}
    PROVE  Resolved(q) \in Names /\ ifs[Resolved(q)] = NoIf
  <1> DEFINE Less == OpToRel(<, Nat)
  <1>1. FreeNames(q) \subseteq Nat
    BY DEF FreeNames
  <1>2. \A x, y \in Nat : x < y => <<x, y>> \in Less
    BY DEF OpToRel
  <1>3. IsWellFoundedOn(Less, Nat)
    BY NatLessThanWellFounded
  <1> HIDE DEF Less
  <1>4. PICK i \in FreeNames(q) : \A k \in FreeNames(q) : ~(<<k, i>> \in Less)
    BY <1>1, <1>3, WFMin
  <1>5. i \in FreeNames(q) /\ \A k \in FreeNames(q) : i <= k
    <2> SUFFICES ASSUME NEW k \in FreeNames(q) PROVE i <= k
      OBVIOUS
    <2>1. i \in Nat /\ k \in Nat
      BY <1>1
    <2>2. ~(k < i)
      BY <1>2, <1>4, <2>1, Zenon
    <2> QED
      BY <2>1, <2>2
  <1>6. (CHOOSE x \in FreeNames(q) : \A k \in FreeNames(q) : x <= k) \in FreeNames(q)
    BY <1>5
  <1>7. Candidates[q] \in Seq(Names)
    BY DeviceAssumption
  <1>8. \A x \in FreeNames(q) : Candidates[q][x] \in Names /\ ifs[Candidates[q][x]] = NoIf
    BY <1>7 DEF FreeNames
  <1> QED
    BY <1>6, <1>8 DEF Resolved

\* The interface created is the device's only one, under the name it remembers.
LEMMA SetIffKeeps == ASSUME DeviceInv, NEW d \in Devs, SetIff(d) PROVE DeviceInv'
  <1> DEFINE m == Resolved(dev[d].req)
             r == [dev[d] EXCEPT !.stage = "nonblock", !.req = "none", !.name = m]
             i == [own |-> d, mtu |-> DefaultMTU]
  <1>1. /\ UNCHANGED <<fds, pre, effective, job>> /\ dev[d].stage = "setiff"
        /\ FreeNames(dev[d].req) # {}
        /\ ifs' = [ifs EXCEPT ![m] = i]
        /\ dev' = [dev EXCEPT ![d] = r]
    BY DEF SetIff, rest, hostVars
  <1>2. dev[d] \in DevRecords /\ DevShape(d)
    BY DEF DeviceInv, DevsOK
  <1>3. m \in Names /\ ifs[m] = NoIf
    BY <1>1, <1>2, ResolvedFree DEF DevShape
  <1>4. /\ r \in DevRecords
        /\ r.stage = "nonblock" /\ r.name = m /\ r.fd = dev[d].fd
        /\ r.nonblock = dev[d].nonblock /\ r.buf = dev[d].buf
        /\ r.closed = dev[d].closed /\ r.file = dev[d].file
        /\ r.moved = dev[d].moved /\ r.cut = dev[d].cut
    BY <1>2, <1>3 DEF DevRecords
  <1>5. i \in Interfaces /\ i.own = d /\ i.mtu = DefaultMTU /\ i.mtu # 0
    BY DeviceAssumption DEF Interfaces
  <1> HIDE DEF m, r, i
  <1>6. /\ ifs' \in [Names -> Interfaces]
        /\ ifs'[m] = i
        /\ \A n \in Names \ {m} : ifs'[n] = ifs[n]
    BY <1>1, <1>3, <1>5 DEF DeviceInv, IfsOK
  <1>7. IfsOK'
    BY <1>5, <1>6, Distinct DEF DeviceInv, IfsOK
  <1>8. /\ dev' \in [Devs -> DevRecords]
        /\ dev'[d] = r
        /\ \A e \in Devs \ {d} : dev'[e] = dev[e]
    BY <1>1, <1>4, DevSet
  <1>9. dev[d].file = "none"
    BY <1>1, <1>2 DEF DevShape
  <1>10. DevsOK'
    <2>1. dev'[d].cut => dev'[d].moved
      BY <1>4, <1>8 DEF DeviceInv, DevsOK, CutOnlyIfMoved
    <2>2. DevShape(d)'
      BY <1>1, <1>2, <1>3, <1>4, <1>8, <1>9 DEF DevShape
    <2> QED
      BY <1>8, <2>1, <2>2, DevsKept
  <1>11. JobsOK' /\ CallsOK'
    BY <1>1, <1>8, OpenCalls
  <1>12. AttachedOK'
    <2> SUFFICES ASSUME NEW e \in Devs
                 PROVE  ((\E n \in Names : ifs[n].own = e) <=> Attached(e))' /\ Untouched(e)'
      BY DEF AttachedOK
    <2>1. CASE e = d
      <3>1. \A n \in Names : ifs[n].own # d
        BY <1>1 DEF DeviceInv, AttachedOK, Attached
      <3>2. \A n \in Names : ifs'[n].own = d <=> n = m
        BY <1>3, <1>5, <1>6, <3>1
      <3>3. dev'[d].stage = "nonblock" /\ dev'[d].file = "none" /\ dev'[d].name = m
        BY <1>4, <1>8, <1>9
      <3> QED
        BY <1>3, <1>5, <1>6, <2>1, <3>2, <3>3 DEF Attached, Untouched
    <2>2. CASE e # d
      <3>1. \A n \in Names : ifs'[n].own = e <=> ifs[n].own = e
        BY <1>3, <1>5, <1>6, <2>2, Distinct DEF NoIf
      <3>2. \A n \in Names : ifs'[n].own = e => ifs'[n] = ifs[n]
        BY <1>5, <1>6, <2>2
      <3> QED
        BY <1>8, <2>2, <3>1, <3>2 DEF DeviceInv, AttachedOK, Attached, Untouched
    <2> QED
      BY <2>1, <2>2
  <1>13. FdTypes' /\ DevFds' /\ JobFds' /\ PreFds'
    BY <1>1, <1>4, <1>8, <1>9, SameFds DEF DevHolds
  <1> QED
    BY <1>1, <1>7, <1>10, <1>11, <1>12, <1>13, SamePre DEF DeviceInv

LEMMA SetNonblockKeeps == ASSUME DeviceInv, NEW d \in Devs, SetNonblock(d) PROVE DeviceInv'
  <1> DEFINE r == [dev[d] EXCEPT !.stage = "open", !.file = "open", !.nonblock = TRUE,
                                 !.out = "nil"]
  <1>1. /\ UNCHANGED <<fds, pre, effective, job, ifs>> /\ dev[d].stage = "nonblock"
        /\ dev' = [dev EXCEPT ![d] = r]
    BY DEF SetNonblock, rest, hostVars
  <1>2. dev[d] \in DevRecords /\ DevShape(d)
    BY DEF DeviceInv, DevsOK
  <1>3. /\ r \in DevRecords
        /\ r.stage = "open" /\ r.file = "open" /\ r.nonblock = TRUE
        /\ r.name = dev[d].name /\ r.fd = dev[d].fd /\ r.buf = dev[d].buf
        /\ r.closed = dev[d].closed /\ r.moved = dev[d].moved /\ r.cut = dev[d].cut
    BY <1>2 DEF DevRecords
  <1> HIDE DEF r
  <1>4. /\ dev' \in [Devs -> DevRecords]
        /\ dev'[d] = r
        /\ \A e \in Devs \ {d} : dev'[e] = dev[e]
    BY <1>1, <1>3, DevSet
  <1>5. dev[d].file = "none" /\ dev[d].buf = 0
    BY <1>1, <1>2 DEF DevShape
  <1>6. DevsOK'
    <2>1. dev'[d].cut => dev'[d].moved
      BY <1>3, <1>4 DEF DeviceInv, DevsOK, CutOnlyIfMoved
    <2>2. DevShape(d)'
      BY <1>1, <1>2, <1>3, <1>4 DEF DevShape
    <2> QED
      BY <1>4, <2>1, <2>2, DevsKept
  <1>7. JobsOK' /\ CallsOK'
    BY <1>1, <1>4, OpenCalls
  <1>8. IfsOK' /\ AttachedOK'
    BY <1>1, <1>3, <1>4, <1>5 DEF DeviceInv, IfsOK, AttachedOK, Attached, Untouched
  <1>9. FdTypes' /\ DevFds' /\ JobFds' /\ PreFds'
    BY <1>1, <1>3, <1>4, <1>5, SameFds DEF DevHolds
  <1> QED
    BY <1>1, <1>6, <1>7, <1>8, <1>9, SamePre DEF DeviceInv

-----------------------------------------------------------------------------
(* Others *)

\* The devices notice nothing but that their interface was touched.
LEMMA MovesDevs ==
    ASSUME DeviceInv, NEW n \in Names, Moves(n), job' = job
    PROVE  /\ DevsOK' /\ CallsOK'
           /\ \A d \in Devs :
                /\ dev'[d].stage = dev[d].stage /\ dev'[d].file = dev[d].file
                /\ dev'[d].fd = dev[d].fd /\ dev'[d].name = dev[d].name
                /\ dev'[d].buf = dev[d].buf
                /\ ifs[n].own = d => dev'[d].moved
                /\ ifs[n].own # d => dev'[d] = dev[d]
  <1>1. \A d \in Devs :
          /\ dev'[d] \in DevRecords
          /\ dev'[d].stage = dev[d].stage /\ dev'[d].file = dev[d].file
          /\ dev'[d].fd = dev[d].fd /\ dev'[d].name = dev[d].name
          /\ dev'[d].req = dev[d].req /\ dev'[d].nonblock = dev[d].nonblock
          /\ dev'[d].closed = dev[d].closed /\ dev'[d].buf = dev[d].buf
          /\ ifs[n].own = d => dev'[d].moved = TRUE
          /\ ifs[n].own # d => dev'[d] = dev[d]
    <2> SUFFICES ASSUME NEW d \in Devs
                 PROVE  /\ dev'[d] \in DevRecords
                        /\ dev'[d].stage = dev[d].stage /\ dev'[d].file = dev[d].file
                        /\ dev'[d].fd = dev[d].fd /\ dev'[d].name = dev[d].name
                        /\ dev'[d].req = dev[d].req /\ dev'[d].nonblock = dev[d].nonblock
                        /\ dev'[d].closed = dev[d].closed /\ dev'[d].buf = dev[d].buf
                        /\ ifs[n].own = d => dev'[d].moved = TRUE
                        /\ ifs[n].own # d => dev'[d] = dev[d]
      OBVIOUS
    <2>1. dev[d] \in DevRecords
      BY DEF DeviceInv, DevsOK
    <2>2. dev'[d] = IF ifs[n].own = d THEN [dev[d] EXCEPT !.moved = TRUE] ELSE dev[d]
      BY DEF Moves
    <2> QED
      BY <2>1, <2>2 DEF DevRecords
  <1>2. dev' \in [Devs -> DevRecords]
    BY <1>1 DEF Moves
  <1>3. \A d \in Devs : DevShape(d)'
    BY <1>1 DEF DeviceInv, DevsOK, DevShape
  <1>4. CutOnlyIfMoved'
    BY <1>1 DEF DeviceInv, DevsOK, CutOnlyIfMoved
  <1>5. CallsOK'
    BY <1>1 DEF DeviceInv, CallsOK, CallOK, Of
  <1> QED
    BY <1>1, <1>2, <1>3, <1>4, <1>5 DEF DevsOK

LEMMA OtherInterfaceKeeps ==
    ASSUME DeviceInv, NEW n \in Names, OtherInterface(n) PROVE DeviceInv'
  <1>1. UNCHANGED <<fds, pre, effective, dev, job>>
    BY DEF OtherInterface, hostVars
  <1>2. PICK i \in Interfaces :
          /\ ifs' = [ifs EXCEPT ![n] = i]
          /\ i.own \notin Devs /\ (i.own # NoHolder <=> i.mtu # 0)
    <2>1. NoIf \in Interfaces /\ NoIf.own = NoHolder /\ NoIf.mtu = 0
      BY DEF NoIf, Interfaces
    <2>2. /\ [own |-> "other", mtu |-> DefaultMTU] \in Interfaces
          /\ DefaultMTU # 0
      BY DeviceAssumption DEF Interfaces
    <2> QED
      BY <2>1, <2>2, Distinct DEF OtherInterface
  <1>3. ifs[n].own \notin Devs
    BY Distinct DEF OtherInterface, NoIf
  <1>4. /\ ifs' \in [Names -> Interfaces]
        /\ ifs'[n] = i
        /\ \A m \in Names \ {n} : ifs'[m] = ifs[m]
    BY <1>2 DEF DeviceInv, IfsOK
  <1>5. IfsOK'
    BY <1>2, <1>4 DEF DeviceInv, IfsOK
  <1>6. \A m \in Names, d \in Devs : /\ ifs'[m].own = d <=> ifs[m].own = d
                                     /\ ifs'[m].own = d => ifs'[m] = ifs[m]
    BY <1>2, <1>3, <1>4
  <1>7. AttachedOK'
    BY <1>1, <1>6 DEF DeviceInv, AttachedOK, Attached, Untouched
  <1>8. DevsOK' /\ JobsOK' /\ CallsOK'
    BY <1>1 DEF DeviceInv, DevsOK, DevShape, CutOnlyIfMoved, JobsOK, CloseIsIdempotent,
                Closing, CallsOK, CallOK, Of
  <1>9. FdTypes' /\ DevFds' /\ JobFds' /\ PreFds'
    BY <1>1, SameFds DEF DevHolds
  <1> QED
    BY <1>1, <1>5, <1>7, <1>8, <1>9, SamePre DEF DeviceInv

LEMMA OtherMTUKeeps ==
    ASSUME DeviceInv, NEW n \in Names, NEW m \in MTUs, OtherMTU(n, m) PROVE DeviceInv'
  <1> DEFINE i == [ifs[n] EXCEPT !.mtu = m]
  <1>1. /\ UNCHANGED <<fds, pre, effective, job>> /\ Moves(n) /\ ifs[n] # NoIf
        /\ ifs' = [ifs EXCEPT ![n] = i]
    BY DEF OtherMTU, hostVars
  <1>2. ifs[n] \in Interfaces /\ ifs[n].own # NoHolder
    BY <1>1 DEF DeviceInv, IfsOK, Interfaces, NoIf
  <1>3. i \in Interfaces /\ i.own = ifs[n].own /\ i.mtu = m /\ m # 0
    BY <1>2, DeviceAssumption DEF Interfaces
  <1> HIDE DEF i
  <1>4. /\ ifs' \in [Names -> Interfaces]
        /\ ifs'[n] = i
        /\ \A k \in Names \ {n} : ifs'[k] = ifs[k]
    BY <1>1, <1>3 DEF DeviceInv, IfsOK
  <1>5. IfsOK'
    BY <1>2, <1>3, <1>4 DEF DeviceInv, IfsOK
  <1>6. /\ DevsOK' /\ CallsOK'
        /\ \A d \in Devs :
             /\ dev'[d].stage = dev[d].stage /\ dev'[d].file = dev[d].file
             /\ dev'[d].fd = dev[d].fd /\ dev'[d].name = dev[d].name
             /\ dev'[d].buf = dev[d].buf
             /\ ifs[n].own = d => dev'[d].moved
             /\ ifs[n].own # d => dev'[d] = dev[d]
    BY <1>1, MovesDevs
  <1>7. \A k \in Names, d \in Devs : /\ ifs'[k].own = d <=> ifs[k].own = d
                                     /\ ifs[n].own # d /\ ifs'[k].own = d => ifs'[k] = ifs[k]
    BY <1>3, <1>4
  <1>8. AttachedOK'
    BY <1>6, <1>7 DEF DeviceInv, AttachedOK, Attached, Untouched
  <1>9. JobsOK'
    BY <1>1 DEF DeviceInv, JobsOK, CloseIsIdempotent, Closing
  <1>10. FdTypes' /\ DevFds' /\ JobFds' /\ PreFds'
    BY <1>1, <1>6, SameFds DEF DevHolds
  <1> QED
    BY <1>1, <1>5, <1>6, <1>8, <1>9, <1>10, SamePre DEF DeviceInv

LEMMA OtherRenamesKeeps ==
    ASSUME DeviceInv, NEW n \in Names, NEW m \in Names, OtherRenames(n, m) PROVE DeviceInv'
  <1>1. /\ UNCHANGED <<fds, pre, effective, job>> /\ Moves(n) /\ ifs[n] # NoIf /\ ifs[m] = NoIf
        /\ ifs' = [ifs EXCEPT ![n] = NoIf, ![m] = ifs[n]]
    BY DEF OtherRenames, hostVars
  <1>2. NoIf \in Interfaces /\ NoIf.own = NoHolder /\ NoIf.mtu = 0
    BY DEF NoIf, Interfaces
  <1>3. /\ ifs' \in [Names -> Interfaces]
        /\ n # m /\ ifs'[n] = NoIf /\ ifs'[m] = ifs[n]
        /\ \A k \in Names \ {n, m} : ifs'[k] = ifs[k]
    BY <1>1, <1>2 DEF DeviceInv, IfsOK
  <1>4. IfsOK'
    BY <1>2, <1>3 DEF DeviceInv, IfsOK
  <1>5. /\ DevsOK' /\ CallsOK'
        /\ \A d \in Devs :
             /\ dev'[d].stage = dev[d].stage /\ dev'[d].file = dev[d].file
             /\ dev'[d].fd = dev[d].fd /\ dev'[d].name = dev[d].name
             /\ dev'[d].buf = dev[d].buf
             /\ ifs[n].own = d => dev'[d].moved
             /\ ifs[n].own # d => dev'[d] = dev[d]
    BY <1>1, MovesDevs
  <1>6. AttachedOK'
    <2> SUFFICES ASSUME NEW d \in Devs
                 PROVE  ((\E k \in Names : ifs[k].own = d) <=> Attached(d))' /\ Untouched(d)'
      BY DEF AttachedOK
    <2>1. (\E k \in Names : ifs'[k].own = d) <=> (\E k \in Names : ifs[k].own = d)
      BY <1>1, <1>2, <1>3, Distinct
    <2>2. Attached(d)' <=> Attached(d)
      BY <1>5 DEF Attached
    <2>3. Untouched(d)'
      <3>1. CASE ifs[n].own = d
        BY <1>5, <3>1 DEF Untouched
      <3>2. CASE ifs[n].own # d
        BY <1>2, <1>3, <1>5, <3>2, Distinct DEF DeviceInv, AttachedOK, Untouched
      <3> QED
        BY <3>1, <3>2
    <2> QED
      BY <2>1, <2>2, <2>3 DEF DeviceInv, AttachedOK
  <1>7. JobsOK'
    BY <1>1 DEF DeviceInv, JobsOK, CloseIsIdempotent, Closing
  <1>8. FdTypes' /\ DevFds' /\ JobFds' /\ PreFds'
    BY <1>1, <1>5, SameFds DEF DevHolds
  <1> QED
    BY <1>1, <1>4, <1>5, <1>6, <1>7, <1>8, SamePre DEF DeviceInv

-----------------------------------------------------------------------------
(* The preflight, and the host's changes *)

LEMMA SameJobs ==
    ASSUME DeviceInv, job' = job, dev' = dev, ifs' = ifs
    PROVE  DevsOK' /\ JobsOK' /\ CallsOK' /\ IfsOK' /\ AttachedOK'
  <1>1. JobsOK' /\ CallsOK'
    BY DEF DeviceInv, JobsOK, CloseIsIdempotent, Closing, CallsOK, CallOK, Of
  <1> QED
    BY <1>1, SameDevs

\* The steps that open or close nothing.
LEMMA ProbeQuiet ==
    ASSUME DeviceInv, UNCHANGED <<fds, dev, job, ifs>>, PreOK',
           pre.pc = "close" \/ pre'.pc = "close" => pre' = pre
    PROVE  DeviceInv'
  <1>1. FdTypes' /\ DevFds' /\ JobFds'
    BY DEF DeviceInv, FdTypes, DevFds, DevHolds, JobFds
  <1>2. PreFds'
    BY DEF DeviceInv, PreFds
  <1> QED
    BY <1>1, <1>2, SameJobs DEF DeviceInv

LEMMA PreOpenKeeps ==
    ASSUME DeviceInv, PreOpen, UNCHANGED <<dev, job, ifs>> PROVE DeviceInv'
  <1>1. PICK n \in Fds : Opens(n, "preflight") /\ pre' = Probing("close", n)
    BY DEF PreOpen
  <1>2. /\ FdTypes' /\ fds[n] = NoHolder
        /\ \A k \in Fds, g \in Holders :
              fds'[k] = g <=> (IF k = n THEN g = "preflight" ELSE fds[k] = g)
    BY <1>1, OpensFd DEF DeviceInv, Holders
  <1>3. PreOK' /\ pre'.pc = "close" /\ pre'.fd = n
    BY <1>1 DEF DeviceInv, PreOK, PreOpen, Probing, Verdicts, hostVars
  <1>4. DevFds'
    BY <1>2, Distinct DEF DeviceInv, DevFds, DevHolds, Holders
  <1>5. JobFds'
    BY <1>2, Distinct DEF DeviceInv, JobFds, Holders
  <1>6. PreFds'
    BY <1>2, <1>3 DEF DeviceInv, PreFds, PreOpen, Holders
  <1> QED
    BY <1>2, <1>3, <1>4, <1>5, <1>6, SameJobs DEF DeviceInv

LEMMA PreCloseKeeps ==
    ASSUME DeviceInv, PreClose, UNCHANGED <<dev, job, ifs>> PROVE DeviceInv'
  <1>1. pre.fd \in Fds /\ fds[pre.fd] = "preflight" /\ Closes(pre.fd)
    BY DEF PreClose, DeviceInv, PreOK, PreFds
  <1>2. FdTypes' /\ \A k \in Fds, g \in Holders : fds'[k] = g <=> k # pre.fd /\ fds[k] = g
    BY <1>1, ClosesFd DEF DeviceInv
  <1>3. PreOK' /\ pre'.pc = "capget"
    BY DEF DeviceInv, PreOK, PreClose, Probing, Verdicts, hostVars
  <1>4. DevFds'
    BY <1>1, <1>2, Distinct DEF DeviceInv, DevFds, DevHolds, Holders
  <1>5. JobFds'
    BY <1>1, <1>2, Distinct DEF DeviceInv, JobFds, Holders
  <1>6. PreFds'
    BY <1>2, <1>3 DEF DeviceInv, PreFds, PreClose, Holders
  <1> QED
    BY <1>2, <1>3, <1>4, <1>5, <1>6, SameJobs DEF DeviceInv

LEMMA PreflightKeeps ==
    ASSUME DeviceInv, PreflightRun \/ HostChanges, UNCHANGED <<dev, job, ifs>>
    PROVE  DeviceInv'
  <1> USE DEF DeviceInv, PreOK, Verdicts, Probing, Verdict, hostVars
  <1>1. CASE PreStat \/ PreStatFails
    BY <1>1, ProbeQuiet DEF PreStat, PreStatFails
  <1>2. CASE PreOpenFails
    BY <1>2, ProbeQuiet DEF PreOpenFails
  <1>3. CASE PreCaps
    BY <1>3, ProbeQuiet DEF PreCaps
  <1>4. CASE PreCapsFails
    BY <1>4, ProbeQuiet DEF PreCapsFails
  <1>5. CASE HostChanges
    BY <1>5, ProbeQuiet DEF HostChanges
  <1> QED
    BY <1>1, <1>2, <1>3, <1>4, <1>5, PreOpenKeeps, PreCloseKeeps DEF PreflightRun

-----------------------------------------------------------------------------
(* The theorems *)

LEMMA DeviceStep == DeviceInv /\ [DeviceNext]_deviceVars => DeviceInv'
  <1> SUFFICES ASSUME DeviceInv, [DeviceNext]_deviceVars PROVE DeviceInv'
    OBVIOUS
  <1>1. CASE (PreflightRun \/ HostChanges) /\ UNCHANGED <<dev, job, ifs>>
    BY <1>1, PreflightKeeps
  <1>2. ASSUME NEW d \in Devs, Open(d) PROVE DeviceInv'
    BY <1>2, OpenNodeKeeps, OpenNodeFailsKeeps, SetIffKeeps, SetIffFailsKeeps,
       SetNonblockKeeps, SetNonblockFailsKeeps DEF Open
  <1>3. ASSUME NEW t \in Threads, ThreadGoes(t) \/ FileIO(t) PROVE DeviceInv'
    BY <1>3, ChecksKeeps, MTUSocketKeeps, MTUQueryKeeps, FileEnterKeeps, FileInterruptedKeeps,
       CloseSwapsKeeps, FileClosesKeeps, FileClosedKeeps, FileIOKeeps DEF ThreadGoes
  <1>4. CASE UNCHANGED deviceVars
    BY <1>4, ProbeQuiet DEF deviceVars, preflightVars, hostVars, DeviceInv, PreOK
  <1> QED
    BY <1>1, <1>2, <1>3, <1>4, CallsKeeps, OtherInterfaceKeeps, OtherMTUKeeps,
       OtherRenamesKeeps DEF DeviceNext

\* Every step of the devices keeps the inductive invariant.
THEOREM DeviceInvariant == DeviceSpec => []DeviceInv
  BY Initially, DeviceStep, PTL DEF DeviceSpec

\* The devices, the calls and the preflight are well typed, and a device has an
\* interface exactly from TUNSETIFF until the close of its descriptor, on every
\* path of Open and Close (tun_linux.go:59-92, :169-174).
THEOREM DeviceTypeCorrect == DeviceSpec => []DeviceTypes
  BY DeviceInvariant, InvImplies, PTL

\* No error path of Run, Open or MTU leaks a descriptor, and none closes or uses
\* a number that is another's, for any number of devices, goroutines and
\* descriptors (tun_linux.go:59-92, :121-141; preflight_linux.go).
THEOREM NoDescriptorLeaks == DeviceSpec => []DescriptorsOwned
  BY DeviceInvariant, InvImplies, PTL

\* However many goroutines close a device at once, each Close returns nil, for
\* the swap lets one of them reach the file (tun_linux.go:169-174).
THEOREM ConcurrentCloses == DeviceSpec => []CloseIsIdempotent
  BY DeviceInvariant, InvImplies, PTL

\* Whatever the name the kernel chose, a session cuts a packet only if others
\* have changed the interface (tun_linux.go:121-141, pump_linux.go:156, :184).
THEOREM BuffersFit == DeviceSpec => []CutOnlyIfMoved
  BY DeviceInvariant, InvImplies, PTL

-----------------------------------------------------------------------------
(* The preflight foretells what Open does *)

\* What came of an Open on a host nobody has changed: it has passed the checks
\* behind it, and failed for want of what is not there.
Opened(d) ==
    /\ dev[d].stage # "none" => pre.pc = "done"
    /\ dev[d].stage \in {"none", "setiff", "nonblock"} <=> dev[d].out = "pending"
    /\ dev[d].stage = "open" <=> dev[d].out = "nil"
    /\ calm => /\ dev[d].out = "no_device" => node # "ok"
               /\ dev[d].stage # "none" /\ dev[d].out \notin {"no_device", "other"} => node = "ok"
               /\ dev[d].out = "EPERM" => NetAdmin \notin effective
               /\ dev[d].stage \in {"nonblock", "open"} => NetAdmin \in effective

OpenInv == DeviceInv /\ Answered /\ Found /\ \A d \in Devs : Opened(d)

\* Neither the preflight nor the host has moved, nor has any Open.
LEMMA SameOpened ==
    ASSUME OpenInv, UNCHANGED <<pre, node, effective, calm>>,
           \A d \in Devs : dev'[d].stage = dev[d].stage /\ dev'[d].out = dev[d].out
    PROVE  Answered' /\ Found' /\ \A d \in Devs : Opened(d)'
BY DEF OpenInv, Answered, Found, Opened

\* A step of one Open.
LEMMA OpenStep ==
    ASSUME OpenInv, NEW d \in Devs, Open(d)
    PROVE  Answered' /\ Found' /\ \A e \in Devs : Opened(e)'
<1>0. UNCHANGED <<pre, node, effective, calm>>
      BY DEF Open, OpenNode, OpenNodeFails, SetIff, SetIffFails, SetNonblock,
             SetNonblockFails, rest, hostVars
<1>1. dev \in [Devs -> DevRecords] /\ dev[d] \in DevRecords
      BY DEF OpenInv, DeviceInv, DevsOK
<1>2. Answered' /\ Found'
      BY <1>0 DEF OpenInv, Answered, Found
<1>3. Opened(d)' /\ \A e \in Devs \ {d} : dev'[e] = dev[e]
  <2>1. CASE \E r \in Requests : OpenNode(d, r)
        BY <1>0, <1>1, <2>1 DEF OpenNode, OpenInv, Opened, DevRecords
  <2>2. CASE OpenNodeFails(d)
        BY <1>0, <1>1, <2>2 DEF OpenNodeFails, Fails, OpenInv, Opened, DevRecords
  <2>3. CASE SetIff(d)
        BY <1>0, <1>1, <2>3 DEF SetIff, OpenInv, Opened, DevRecords
  <2>4. CASE SetIffFails(d)
        BY <1>0, <1>1, <2>4 DEF SetIffFails, Fails, OpenInv, Opened, DevRecords
  <2>5. CASE SetNonblock(d)
        BY <1>0, <1>1, <2>5 DEF SetNonblock, OpenInv, Opened, DevRecords
  <2>6. CASE SetNonblockFails(d)
        BY <1>0, <1>1, <2>6 DEF SetNonblockFails, Fails, OpenInv, Opened, DevRecords
  <2> QED BY <2>1, <2>2, <2>3, <2>4, <2>5, <2>6 DEF Open
<1> QED BY <1>0, <1>2, <1>3 DEF OpenInv, Opened

\* The methods of a device and what others do to its interface leave it open.
LEMMA MethodStep ==
    ASSUME OpenInv,
           \/ \E t \in Threads, d \in Devs, op \in Ops : Calls(t, op, d)
           \/ \E t \in Threads : ThreadGoes(t) \/ FileIO(t)
           \/ \E n \in Names : OtherInterface(n)
           \/ \E n \in Names, m \in MTUs : OtherMTU(n, m)
           \/ \E n, m \in Names : OtherRenames(n, m)
    PROVE  /\ UNCHANGED <<pre, node, effective, calm>>
           /\ \A d \in Devs : dev'[d].stage = dev[d].stage /\ dev'[d].out = dev[d].out
<1>1. dev \in [Devs -> DevRecords]
      BY DEF OpenInv, DeviceInv, DevsOK
<1>2. CASE \E t \in Threads, d \in Devs, op \in Ops : Calls(t, op, d)
      BY <1>2 DEF Calls, preflightVars, hostVars
<1>3. ASSUME NEW t \in Threads, ThreadGoes(t) \/ FileIO(t)
      PROVE  /\ UNCHANGED <<pre, node, effective, calm>>
             /\ \A d \in Devs : dev'[d].stage = dev[d].stage /\ dev'[d].out = dev[d].out
  <2>1. CASE Checks(t) \/ MTUSocket(t) \/ FileEnter(t) \/ FileInterrupted(t)
        BY <2>1 DEF Checks, MTUSocket, FileEnter, FileInterrupted, rest, preflightVars,
                    hostVars
  <2>2. CASE MTUQuery(t)
        BY <1>1, <2>2 DEF MTUQuery, DevRecords, rest, hostVars
  <2>3. CASE CloseSwaps(t) \/ FileCloses(t)
        BY <1>1, <2>3 DEF CloseSwaps, FileCloses, DevRecords, preflightVars, hostVars
  <2>4. CASE FileClosed(t)
        BY <1>1, <2>4 DEF FileClosed, DevRecords, rest, hostVars
  <2>5. CASE FileIO(t)
        BY <1>1, <2>5 DEF FileIO, DevRecords, preflightVars, hostVars
  <2> QED BY <1>3, <2>1, <2>2, <2>3, <2>4, <2>5 DEF ThreadGoes
<1>4. CASE \E n \in Names : OtherInterface(n)
      BY <1>4 DEF OtherInterface, hostVars
<1>5. ASSUME NEW n \in Names, Moves(n)
      PROVE  \A d \in Devs : dev'[d].stage = dev[d].stage /\ dev'[d].out = dev[d].out
      BY <1>1, <1>5 DEF Moves, DevRecords
<1>6. CASE \E n \in Names, m \in MTUs : OtherMTU(n, m)
      BY <1>5, <1>6 DEF OtherMTU, hostVars
<1>7. CASE \E n, m \in Names : OtherRenames(n, m)
      BY <1>5, <1>7 DEF OtherRenames, hostVars
<1> QED BY <1>2, <1>3, <1>4, <1>6, <1>7

LEMMA OpenInvStep == OpenInv /\ [DeviceNext]_deviceVars => OpenInv'
<1> SUFFICES ASSUME OpenInv, [DeviceNext]_deviceVars PROVE OpenInv'
    OBVIOUS
<1>1. DeviceInv'
      BY DeviceStep DEF OpenInv
<1>2. CASE (PreflightRun \/ HostChanges) /\ UNCHANGED <<dev, job, ifs>>
  <2>1. Answered' /\ Found'
        BY <1>2, FoundStep DEF OpenInv
  <2>2. /\ pre.pc = "done" => pre'.pc = "done"
        /\ calm' => calm /\ UNCHANGED <<node, effective>>
        BY <1>2 DEF PreflightRun, PreStat, PreStatFails, PreOpen, PreOpenFails, PreClose,
                    PreCaps, PreCapsFails, HostChanges, hostVars
  <2> QED BY <1>1, <1>2, <2>1, <2>2 DEF OpenInv, Opened
<1>3. CASE \E d \in Devs : Open(d)
      BY <1>1, <1>3, OpenStep DEF OpenInv
<1>4. CASE UNCHANGED deviceVars
      BY <1>1, <1>4, SameOpened DEF OpenInv, deviceVars, preflightVars, hostVars
<1>5. CASE \/ \E t \in Threads, d \in Devs, op \in Ops : Calls(t, op, d)
           \/ \E t \in Threads : ThreadGoes(t) \/ FileIO(t)
           \/ \E n \in Names : OtherInterface(n)
           \/ \E n \in Names, m \in MTUs : OtherMTU(n, m)
           \/ \E n, m \in Names : OtherRenames(n, m)
      BY <1>1, <1>5, MethodStep, SameOpened DEF OpenInv
<1> QED BY <1>2, <1>3, <1>4, <1>5 DEF DeviceNext

\* On a host nobody changes Open does what the preflight foretells, however many
\* devices are opened: it never fails for a check the preflight passed, and does
\* fail where the preflight blames the host (contract/tun/preflight.go:117-121).
THEOREM OpenAsForetold == DeviceSpec => []PreflightPredictsOpen
<1>1. DeviceInit => OpenInv
  <2>1. DeviceInit => \A d \in Devs : Opened(d)
        BY DEF DeviceInit, NoDev, Opened
  <2> QED BY <2>1, Initially, PreflightStart DEF OpenInv, DeviceInit, PreflightInv
<1>2. OpenInv => PreflightPredictsOpen
      BY DEF OpenInv, Opened, Found, PreflightPredictsOpen
<1> QED BY <1>1, <1>2, OpenInvStep, PTL DEF DeviceSpec

=============================================================================
