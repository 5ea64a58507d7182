------------------------------ MODULE Preflight ------------------------------
(***************************************************************************)
(* What the program asks of the host before it opens a TUN device:         *)
(* Preflight.Run (internal/tunnel/tun/preflight_linux.go), and             *)
(* CapsEffective (internal/hostprobe/capsprobe_linux.go), which reads the  *)
(* same capabilities.  Every system call is one step; between two of them  *)
(* others may change the device node and the effective capabilities.       *)
(***************************************************************************)
EXTENDS Naturals

CONSTANTS
    Fds,            \* the descriptor numbers the process may have open
    NoHolder,       \* what a number that is not open refers to
    EffectiveSets,  \* the effective sets the process may have, of capability numbers
    WordBits,       \* bits per word of capget's data (32)
    NetAdmin,       \* the number of CAP_NET_ADMIN (12)
    CapsRequired,   \* the numbers of hostprobe.CapsRequired
    MaxChanges      \* bound: what others do to the host

ASSUME PreflightAssumption ==
    /\ Fds \subseteq Nat \ {0}
    /\ WordBits \in Nat \ {0}
    /\ \A s \in EffectiveSets : s \subseteq 0..(2 * WordBits - 1)
    /\ NetAdmin \in CapsRequired
    /\ CapsRequired \subseteq Nat
    /\ NetAdmin < WordBits
    /\ MaxChanges \in Nat

VARIABLES
    fds,        \* fds[n]: who holds descriptor n
    node,       \* /dev/net/tun: "absent", "denied" (there, not to be opened) or "ok"
    effective,  \* the process's effective set
    pre,        \* Preflight.Run: [pc, fd, res, cause]; cause: "host" when the error it
                \* wraps is about node or effective, "other" when the call failed anyhow
    report,     \* what CapsEffective returned: [res, present]
    changes,    \* what others have done to the host
    calm        \* history: nobody has changed node or effective

hostVars == <<node, effective, calm>>
preflightVars == <<fds, pre, report, hostVars, changes>>

Reports(res, present) == [res |-> res, present |-> present]
NoReport == Reports("pending", {})
Probing(pc, fd) == [pc |-> pc, fd |-> fd, res |-> "pending", cause |-> "none"]
Verdict(r, c) == [pc |-> "done", fd |-> 0, res |-> r, cause |-> c]

PreflightInit == /\ fds = [n \in Fds |-> NoHolder]
                 /\ node \in {"absent", "denied", "ok"}
                 /\ effective \in EffectiveSets
                 /\ pre = Probing("stat", 0)
                 /\ report = NoReport
                 /\ changes = 0
                 /\ calm = TRUE

-----------------------------------------------------------------------------
(* Descriptors: open and socket return the lowest free number *)

FreeFds == {n \in Fds : fds[n] = NoHolder}
Lowest(n) == n \in FreeFds /\ \A k \in FreeFds : n <= k
Opens(n, h) == Lowest(n) /\ fds' = [fds EXCEPT ![n] = h]
Closes(n) == fds' = [fds EXCEPT ![n] = NoHolder]

-----------------------------------------------------------------------------
(* Preflight.Run: the device, then the capability *)

\* os.Stat
PreStat == /\ pre.pc = "stat"
           /\ pre' = IF node = "absent" THEN Verdict("tun_device_missing", "host")
                     ELSE Probing("open", 0)
           /\ UNCHANGED <<fds, report, hostVars, changes>>

\* Any other error of it is reported as a missing device too.
PreStatFails == /\ pre.pc = "stat"
                /\ pre' = Verdict("tun_device_missing", "other")
                /\ UNCHANGED <<fds, report, hostVars, changes>>

PreOpen == /\ pre.pc = "open"
           /\ node = "ok"
           /\ \E n \in Fds : Opens(n, "preflight") /\ pre' = Probing("close", n)
           /\ UNCHANGED <<report, hostVars, changes>>

\* open fails on account of the node, or for want of a descriptor, of memory...
PreOpenFails == /\ pre.pc = "open"
                /\ \E c \in {"host", "other"} :
                      /\ c = "host" => node # "ok"
                      /\ pre' = Verdict("tun_device_not_read_write", c)
                /\ UNCHANGED <<fds, report, hostVars, changes>>

PreClose == /\ pre.pc = "close"
            /\ Closes(pre.fd)
            /\ pre' = Probing("capget", 0)
            /\ UNCHANGED <<report, hostVars, changes>>

\* capget's words, as sets of bits.
Word(w) == {c % WordBits : c \in {e \in effective : e \div WordBits = w}}

\* Mutant of PreCaps: the other word.
PreCapsHighWord ==
    /\ pre.pc = "capget"
    /\ pre' = IF NetAdmin \in Word(1) THEN Verdict("nil", "none")
              ELSE Verdict("cap_net_admin_missing", "host")
    /\ UNCHANGED <<fds, report, hostVars, changes>>

PreCaps == /\ pre.pc = "capget"
           /\ pre' = IF NetAdmin \in Word(0) THEN Verdict("nil", "none")
                     ELSE Verdict("cap_net_admin_missing", "host")
           /\ UNCHANGED <<fds, report, hostVars, changes>>

\* capget itself fails: fail closed.
PreCapsFails == /\ pre.pc = "capget"
                /\ pre' = Verdict("cap_probe_failed", "other")
                /\ UNCHANGED <<fds, report, hostVars, changes>>

PreflightRun == PreStat \/ PreStatFails \/ PreOpen \/ PreOpenFails \/ PreClose
                \/ PreCaps \/ PreCapsFails

-----------------------------------------------------------------------------
(* CapsEffective, once, and others *)

\* Mutant of Present: every capability is looked up in the low word.
PresentLowWord(c) == c % WordBits \in Word(0)

Present(c) == c % WordBits \in Word(c \div WordBits)

\* What capget's two words cannot tell.
Beyond == {c \in CapsRequired : c \div WordBits > 1}

CapsEffective == /\ report = NoReport
                 /\ pre.pc = "done"
                 /\ Beyond = {}
                 /\ report' = Reports("nil", {c \in CapsRequired : Present(c)})
                 /\ UNCHANGED <<fds, pre, hostVars, changes>>

\* capget fails, or CapsRequired has a bit beyond its words: no report.
CapsFails == /\ report = NoReport
             /\ pre.pc = "done"
             /\ report' = Reports("error", {})
             /\ UNCHANGED <<fds, pre, hostVars, changes>>

\* Others load the module, restrict the node, or change the capabilities.
HostChanges == /\ changes < MaxChanges
               /\ changes' = changes + 1
               /\ calm' = FALSE
               /\ \/ node' \in {"absent", "denied", "ok"} \ {node} /\ UNCHANGED effective
                  \/ effective' \in EffectiveSets \ {effective} /\ UNCHANGED node
               /\ UNCHANGED <<fds, pre, report>>

PreflightNext == PreflightRun \/ CapsEffective \/ CapsFails \/ HostChanges

\* The two probes alone.
PreflightSpec == PreflightInit /\ [][PreflightNext]_preflightVars

Verdicts == {"pending", "nil", "tun_device_missing", "tun_device_not_read_write",
             "cap_net_admin_missing", "cap_probe_failed"}

\* The two probes of one process agree about its capabilities, and about each
\* required one with the effective set, as long as nobody changes it: the
\* report exists to be compared with the preflight (capsprobe_linux.go:57-60),
\* and CAP_BPF and CAP_PERFMON are in the other word than CAP_NET_ADMIN.
ReportsAgree ==
    report.res = "nil" /\ calm =>
        /\ report.present = CapsRequired \cap effective
        /\ pre.res = "nil" => NetAdmin \in report.present
        /\ pre.res = "cap_net_admin_missing" => NetAdmin \notin report.present

=============================================================================
