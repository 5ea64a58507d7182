-------------------------- MODULE COReProbeProofs --------------------------
(***************************************************************************)
(* NothingLeftBehind and ProbesDoNotRace, for any number of probes and any *)
(* names os.CreateTemp may come up with.                                   *)
(***************************************************************************)
EXTENDS COReProbe, TLAPS

\* What a probe holds at each point of COReProbe.
Shape(r) ==
    \/ r = Idle
    \/ r.pc = "object" /\ r.src \in Paths /\ r.obj = NoPath
    \/ r.pc \in {"clang", "objdump"} /\ r.src \in Paths /\ r.obj \in Paths /\ r.src # r.obj
    \/ r.pc = "given" /\ r.src = NoPath /\ r.obj \in Paths

Records == [pc : {"idle", "object", "clang", "objdump", "given"},
            src : Paths \cup {NoPath}, obj : Paths \cup {NoPath}]

Shapes == probe \in [Probes -> Records] /\ \A p \in Probes : Shape(probe[p])

\* The inductive invariant: the shapes are what makes Remove of a source leave
\* the object alone, and Held what a probe may remove.
CoreInv == Shapes /\ strays \subseteq files /\ NothingLeftBehind /\ ProbesDoNotRace

\* What another probe holds does not change, and p holds what r says.
LEMMA HeldChanges ==
    ASSUME Shapes, NEW p \in Probes, NEW r \in Records, Becomes(p, r)
    PROVE  /\ probe' \in [Probes -> Records]
           /\ probe'[p] = r
           /\ Held(p)' = {r.src, r.obj} \ {NoPath}
           /\ \A q \in Probes \ {p} : probe'[q] = probe[q] /\ Held(q)' = Held(q)
  BY DEF Shapes, Becomes, Held

\* A probe that comes to hold new, of which it held or created every file, keeps
\* the invariant: what it gives up is removed, what it creates was not there.
LEMMA HoldsFresh ==
    ASSUME CoreInv, NEW p \in Probes, NEW r \in Records, Becomes(p, r), Shape(r),
           NEW new, new = {r.src, r.obj} \ {NoPath},
           strays' = strays,
           files' = (files \ Held(p)) \cup new,
           \A f \in new : f \in Held(p) \/ f \notin files
    PROVE  CoreInv'
  <1>1. Shapes
    BY DEF CoreInv
  <1>2. /\ probe' \in [Probes -> Records]
        /\ probe'[p] = r
        /\ Held(p)' = new
        /\ \A q \in Probes \ {p} : probe'[q] = probe[q] /\ Held(q)' = Held(q)
    BY <1>1, HeldChanges
  <1>3. Shapes'
    <2>1. \A q \in Probes : Shape(probe'[q])
      BY <1>1, <1>2 DEF Shapes
    <2> QED
      BY <1>2, <2>1 DEF Shapes, Shape, Idle, At
  <1>4. NothingLeftBehind'
    <2> SUFFICES ASSUME NEW f \in files', f \notin strays
                 PROVE  \E q \in Probes : f \in Held(q)'
      BY DEF NothingLeftBehind
    <2>1. CASE f \in new
      BY <1>2, <2>1
    <2>2. CASE f \notin new
      <3>1. f \in files /\ f \notin Held(p)
        BY <2>2
      <3>2. PICK q \in Probes : f \in Held(q)
        BY <3>1 DEF CoreInv, NothingLeftBehind
      <3> QED
        BY <1>2, <3>1, <3>2
    <2> QED
      BY <2>1, <2>2
  <1>5. ProbesDoNotRace'
    <2>1. /\ \A q \in Probes : Held(q) \subseteq files \ strays
          /\ \A q, s \in Probes : q # s => Held(q) \cap Held(s) = {}
      BY DEF CoreInv, ProbesDoNotRace
    <2>2. \A q \in Probes \ {p} : Held(q) \cap new = {} /\ Held(q) \subseteq files \ Held(p)
      BY <2>1
    <2>3. new \cap strays = {}
      BY <2>1 DEF CoreInv
    <2> QED
      BY <1>2, <2>1, <2>2, <2>3 DEF ProbesDoNotRace
  <1>6. strays' \subseteq files'
    BY DEF CoreInv, ProbesDoNotRace
  <1> QED
    BY <1>3, <1>4, <1>5, <1>6 DEF CoreInv

LEMMA CoreInitially == CoreInit => CoreInv
  BY COReAssumption DEF CoreInit, CoreInv, Shapes, Shape, Records, Idle, At,
     NothingLeftBehind, ProbesDoNotRace, Held

\* Every step of every probe, and of the caller, keeps the invariant.
LEMMA CoreStep == CoreInv /\ [CoreNext]_coreVars => CoreInv'
  <1> SUFFICES ASSUME CoreInv, [CoreNext]_coreVars PROVE CoreInv'
    OBVIOUS
  <1>1. ASSUME NEW p \in Probes, WriteSource(p) PROVE CoreInv'
    <2>1. PICK f \in Paths : CreateTemp(f) /\ Becomes(p, At("object", f, NoPath))
      BY <1>1 DEF WriteSource
    <2>2. probe[p] = Idle /\ Held(p) = {}
      BY <1>1 DEF WriteSource, CoreInv, Shapes, Shape, Idle, At, Held
    <2> DEFINE r == At("object", f, NoPath)
    <2>3. r \in Records /\ Shape(r) /\ {r.src, r.obj} \ {NoPath} = {f}
      BY COReAssumption DEF Records, Shape, At
    <2>4. f \notin files /\ strays' = strays /\ files' = (files \ Held(p)) \cup {f}
      BY <1>1, <2>1, <2>2 DEF WriteSource, CreateTemp
    <2>5. Becomes(p, r)
      BY <2>1
    <2>6. \A g \in {f} : g \in Held(p) \/ g \notin files
      BY <2>4
    <2> HIDE DEF r
    <2> QED
      BY <2>3, <2>4, <2>5, <2>6, HoldsFresh
  <1>2. ASSUME NEW p \in Probes, WriteSourceFails(p) PROVE CoreInv'
    <2>1. PICK f \in Paths : CreateTemp(f) /\ strays' = strays \cup {f}
      BY <1>2 DEF WriteSourceFails
    <2>2. \A q \in Probes : Held(q)' = Held(q)
      BY <1>2 DEF WriteSourceFails, Held
    <2> QED
      BY <1>2, <2>1, <2>2 DEF WriteSourceFails, CreateTemp, CoreInv, Shapes,
         NothingLeftBehind, ProbesDoNotRace
  <1>3. ASSUME NEW p \in Probes, WriteObject(p) PROVE CoreInv'
    <2> DEFINE src == probe[p].src
    <2>1. PICK f \in Paths : CreateTemp(f) /\ Becomes(p, At("clang", src, f))
      BY <1>3 DEF WriteObject
    <2>2. src \in Paths /\ Held(p) = {src} /\ src \in files
      BY <1>3, COReAssumption
         DEF WriteObject, CoreInv, Shapes, Shape, Idle, At, Held, ProbesDoNotRace
    <2> DEFINE r == At("clang", src, f)
    <2>3. r \in Records /\ Shape(r) /\ {r.src, r.obj} \ {NoPath} = {src, f}
      BY <2>1, <2>2, COReAssumption DEF Records, Shape, At, CreateTemp
    <2>4. f \notin files /\ strays' = strays /\ files' = (files \ Held(p)) \cup {src, f}
      BY <1>3, <2>1, <2>2 DEF WriteObject, CreateTemp
    <2>5. Becomes(p, r)
      BY <2>1
    <2>6. \A g \in {src, f} : g \in Held(p) \/ g \notin files
      BY <2>2, <2>4
    <2> HIDE DEF r
    <2> QED
      BY <2>3, <2>4, <2>5, <2>6, HoldsFresh
  <1>4. ASSUME NEW p \in Probes, WriteObjectFails(p) \/ StepFails(p) \/ CallerRemoves(p)
        PROVE  CoreInv'
    <2>1. files' = files \ Held(p)
      BY <1>4, COReAssumption DEF WriteObjectFails, StepFails, CallerRemoves,
         CoreInv, Shapes, Shape, Idle, At, Held, ProbesDoNotRace
    <2>2. Becomes(p, Idle) /\ strays' = strays
      BY <1>4 DEF WriteObjectFails, StepFails, CallerRemoves
    <2>3. Idle \in Records /\ Shape(Idle) /\ {Idle.src, Idle.obj} \ {NoPath} = {}
      BY DEF Records, Shape, Idle, At
    <2> QED
      BY <2>1, <2>2, <2>3, HoldsFresh
  <1>5. ASSUME NEW p \in Probes, Clang(p) PROVE CoreInv'
    <2> DEFINE r == [probe[p] EXCEPT !.pc = "objdump"]
    <2>1. r \in Records /\ Shape(r) /\ {r.src, r.obj} \ {NoPath} = Held(p)
      BY <1>5 DEF Clang, CoreInv, Shapes, Shape, Records, Idle, At, Held
    <2>2. Held(p) \subseteq files
      BY DEF CoreInv, ProbesDoNotRace
    <2> QED
      BY <1>5, <2>1, <2>2, HoldsFresh DEF Clang
  <1>6. ASSUME NEW p \in Probes, Succeeds(p) PROVE CoreInv'
    <2> DEFINE obj == probe[p].obj
               r == At("given", NoPath, obj)
    <2>1. /\ obj \in Paths
          /\ probe[p].src # obj
          /\ Held(p) = {probe[p].src, obj}
          /\ Held(p) \subseteq files
      BY <1>6, COReAssumption
         DEF Succeeds, CoreInv, Shapes, Shape, Idle, At, Held, ProbesDoNotRace
    <2>2. r \in Records /\ Shape(r) /\ {r.src, r.obj} \ {NoPath} = {obj}
      BY <2>1, COReAssumption DEF Records, Shape, At
    <2>3. files' = (files \ Held(p)) \cup {obj}
      BY <1>6, <2>1 DEF Succeeds
    <2> QED
      BY <1>6, <2>1, <2>2, <2>3, HoldsFresh DEF Succeeds
  <1>7. ASSUME UNCHANGED coreVars PROVE CoreInv'
    BY <1>7 DEF coreVars, CoreInv, Shapes, NothingLeftBehind, ProbesDoNotRace, Held
  <1> QED
    BY <1>1, <1>2, <1>3, <1>4, <1>5, <1>6, <1>7 DEF CoreNext

\* Whatever fails in whichever of any number of concurrent probes, no temporary
\* file of COReProbe stays behind except those writeTempFile loses.
THEOREM NoLeftovers == CoreSpec => []NothingLeftBehind
  <1>1. CoreSpec => []CoreInv
    BY CoreInitially, CoreStep, PTL DEF CoreSpec
  <1>2. CoreInv => NothingLeftBehind
    BY DEF CoreInv
  <1> QED
    BY <1>1, <1>2, PTL

\* No probe loses a file to another, and no two share one (bpfcompile.go:106-108).
THEOREM NoRace == CoreSpec => []ProbesDoNotRace
  <1>1. CoreSpec => []CoreInv
    BY CoreInitially, CoreStep, PTL DEF CoreSpec
  <1>2. CoreInv => ProbesDoNotRace
    BY DEF CoreInv
  <1> QED
    BY <1>1, <1>2, PTL

=============================================================================
