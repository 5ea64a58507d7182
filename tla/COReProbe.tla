----------------------------- MODULE COReProbe -----------------------------
(***************************************************************************)
(* COReProbe (internal/hostprobe/bpfcompile.go): concurrent probes, each   *)
(* with a source and an object file in one temporary directory, and the    *)
(* callers who get the object file of a probe that succeeds.               *)
(***************************************************************************)
EXTENDS Naturals, FiniteSets

CONSTANTS
    Probes,   \* the goroutines that call COReProbe
    Paths,    \* names os.CreateTemp may come up with
    NoPath,   \* the empty string
    MaxStrays \* bound: writes that fail

ASSUME COReAssumption == NoPath \notin Paths /\ MaxStrays \in Nat

VARIABLES
    files,    \* the temporary files there are
    probe,    \* probe[p]: [pc, src, obj], src and obj being paths
    strays    \* history: files whose write failed, the path being lost

coreVars == <<files, probe, strays>>

At(pc, src, obj) == [pc |-> pc, src |-> src, obj |-> obj]
Idle == At("idle", NoPath, NoPath)

CoreInit == /\ files = {}
            /\ probe = [p \in Probes |-> Idle]
            /\ strays = {}

Becomes(p, r) == probe' = [probe EXCEPT ![p] = r]

-----------------------------------------------------------------------------
(* writeTempFile *)

\* Mutant of CreateTemp: one fixed path for all.
CreateFixed(path) == path = (CHOOSE f \in Paths : TRUE) /\ files' = files \cup {path}

\* os.CreateTemp makes a file that was not there.
CreateTemp(path) == path \notin files /\ files' = files \cup {path}

\* Both tools are found and the source is written.
WriteSource(p) == /\ probe[p].pc = "idle"
                  /\ \E f \in Paths : CreateTemp(f) /\ Becomes(p, At("object", f, NoPath))
                  /\ UNCHANGED strays

\* WriteString fails: writeTempFile returns the error, and the file stays.
WriteSourceFails(p) == /\ probe[p].pc = "idle"
                       /\ Cardinality(strays) < MaxStrays
                       /\ \E f \in Paths : CreateTemp(f) /\ strays' = strays \cup {f}
                       /\ UNCHANGED probe

\* The object file is created empty: nothing is written that could fail.
WriteObject(p) ==
    /\ probe[p].pc = "object"
    /\ \E f \in Paths : CreateTemp(f) /\ Becomes(p, At("clang", probe[p].src, f))
    /\ UNCHANGED strays

\* os.CreateTemp fails: the deferred Remove takes the source away.
WriteObjectFails(p) == /\ probe[p].pc = "object"
                       /\ files' = files \ {probe[p].src}
                       /\ Becomes(p, Idle)
                       /\ UNCHANGED strays

-----------------------------------------------------------------------------
(* COReProbe after the files are there *)

Clang(p) == /\ probe[p].pc = "clang"
            /\ Becomes(p, [probe[p] EXCEPT !.pc = "objdump"])
            /\ UNCHANGED <<files, strays>>

\* Mutant of StepFails: only the deferred Remove.
StepFailsKeepsObject(p) ==
    /\ probe[p].pc \in {"clang", "objdump"}
    /\ files' = files \ {probe[p].src}
    /\ Becomes(p, Idle)
    /\ UNCHANGED strays

\* clang or llvm-objdump fails, or there is no .BTF section: both files go.
StepFails(p) == /\ probe[p].pc \in {"clang", "objdump"}
                /\ files' = files \ {probe[p].src, probe[p].obj}
                /\ Becomes(p, Idle)
                /\ UNCHANGED strays

\* The section is there, with or without a version of clang: the caller gets
\* the object file, the deferred Remove takes the source away.
Succeeds(p) == /\ probe[p].pc = "objdump"
               /\ files' = files \ {probe[p].src}
               /\ Becomes(p, At("given", NoPath, probe[p].obj))
               /\ UNCHANGED strays

\* The caller removes the object file.
CallerRemoves(p) == /\ probe[p].pc = "given"
                    /\ files' = files \ {probe[p].obj}
                    /\ Becomes(p, Idle)
                    /\ UNCHANGED strays

CoreNext == \E p \in Probes : \/ WriteSource(p) \/ WriteSourceFails(p)
                              \/ WriteObject(p) \/ WriteObjectFails(p)
                              \/ Clang(p) \/ StepFails(p) \/ Succeeds(p) \/ CallerRemoves(p)

CoreSpec == CoreInit /\ [][CoreNext]_coreVars

-----------------------------------------------------------------------------
(* Properties *)

Held(p) == {probe[p].src, probe[p].obj} \ {NoPath}

\* Whatever fails in whichever probe, the temporary files there are belong to a
\* probe in progress or to a caller, except those writeTempFile lost.
NothingLeftBehind == files \subseteq strays \cup UNION {Held(p) : p \in Probes}

\* A probe's source is there when clang runs, and its object until its caller
\* removes it, whatever other probes do and remove meanwhile: "so two probes do
\* not race on the same path" (bpfcompile.go:106-108).
ProbesDoNotRace ==
    \A p \in Probes : /\ Held(p) \subseteq files \ strays
                      /\ \A q \in Probes \ {p} : Held(p) \cap Held(q) = {}

=============================================================================
