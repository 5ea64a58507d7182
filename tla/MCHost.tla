------------------------------- MODULE MCHost -------------------------------
(* The parts on the host's side of a session: the link controller, the      *)
(* devices with the preflight, the compile probe.  They share no state, so a *)
(* behaviour exercises one of them: "device" is one device on a host that    *)
(* others change, "devices" two of them on a host left alone.                *)
EXTENDS MCLink, Device, COReProbe

VARIABLE part

hostSide == <<vars, deviceVars, coreVars, part>>

HostInit == /\ Init /\ DeviceInit /\ CoreInit
            /\ part \in {"link", "preflight", "device", "devices", "probe"}
            /\ part \in {"link", "probe"} => node = "ok" /\ effective = CapsRequired

\* The probes have answered; every Open has failed, and there is no device to use.
Finished == /\ \/ part = "preflight" /\ report # NoReport
               \/ part = "device" /\ dev["d1"].stage = "failed"
               \/ part = "devices" /\ \A d \in Devs : dev[d].stage = "failed"
            /\ UNCHANGED hostSide

LinkPart == part = "link" /\ Next /\ UNCHANGED <<deviceVars, coreVars, part>>
PreflightPart == /\ part = "preflight" /\ PreflightNext
                 /\ UNCHANGED <<vars, dev, job, ifs, coreVars, part>>
DevicePart == /\ part = "device" /\ DeviceNext /\ dev'["d2"] = NoDev
              /\ UNCHANGED <<vars, coreVars, part>>
DevicesPart == /\ part = "devices" /\ DeviceNext /\ changes' = 0
               /\ UNCHANGED <<vars, coreVars, part>>
ProbePart == part = "probe" /\ CoreNext /\ UNCHANGED <<vars, deviceVars, part>>

HostNext == \/ LinkPart \/ PreflightPart \/ DevicePart \/ DevicesPart \/ ProbePart
            \/ Finished

HostSpec == HostInit /\ [][HostNext]_hostSide /\ DeviceFairness

\* CAP_NET_ADMIN is 12, CAP_PERFMON 38, CAP_BPF 39; 7 and 44 are in the other
\* word at the place of CAP_BPF and CAP_NET_ADMIN.
MCRequired == {12, 38, 39}
MCEffectiveSets == {{12, 38, 39}, {7, 44}}
MCCandidates == [r \in {"plain", "template"} |->
                    IF r = "plain" THEN <<"tun0">> ELSE <<"tun0", "tun1">>]

=============================================================================
