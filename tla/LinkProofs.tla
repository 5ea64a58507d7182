----------------------------- MODULE LinkProofs -----------------------------
(***************************************************************************)
(* Theorems about module Link, for every set of texts, every spelling, and *)
(* every clash and volatility of addresses.                                *)
(*                                                                         *)
(* CacheTrue needs TypeOK's last conjunct (nothing is remembered while a   *)
(* probe is due) and LinkAssumption (what `ip` prints is its own           *)
(* spelling).  Idempotent also needs to know that between add and probe    *)
(* the address the probe looks for stays: ProbePending.                    *)
(***************************************************************************)
EXTENDS Link, TLAPS

\* A result is pending exactly while a probe is due, and unless others took it
\* away the address the caller asked for again is still there then.
ProbePending ==
    /\ last.out = "pending" <=> pc = "probe"
    /\ pc = "probe" /\ last.had /\ ~touched => last.cidr \in addrs

\* What `ip addr show` prints is printed as itself, and parses.
LEMMA PrintedIsCanonical == \A a \in Addrs : a \in Parsable /\ Shown[a] = a
BY LinkAssumption DEF Addrs

-----------------------------------------------------------------------------
(* Type correctness, others' changes included *)

\* A finished or pending call is a record of its type.
LEMMA CallTyped ==
    ASSUME NEW op \in {"new", "up", "down", "add"}, NEW t \in Texts \cup {None},
           NEW o \in Outcomes, NEW d \in BOOLEAN
    PROVE  Call(op, t, o, d) \in CallRecords
<1>1. (op = "add" /\ t \in addrs /\ assigned \in {None, t}) \in BOOLEAN
      OBVIOUS
<1> QED BY <1>1 DEF Call, CallRecords

\* The initial state is well typed.
LEMMA InitType == Init => TypeOK
<1> SUFFICES ASSUME Init PROVE TypeOK
    OBVIOUS
<1>1. LinkTypes /\ ProbeDue
      BY DEF Init, LinkTypes, ProbeDue, Call
<1>2. Call("new", None, "nil", FALSE) \in CallRecords
      BY CallTyped DEF Outcomes
<1> QED BY <1>1, <1>2 DEF TypeOK, Init

\* Whatever ends or suspends a call leaves a call record.
LEMMA NextCalls == TypeOK /\ [Next]_vars => last' \in CallRecords
<1> SUFFICES ASSUME TypeOK, [Next]_vars PROVE last' \in CallRecords
    OBVIOUS
<1>0. /\ last \in CallRecords
      /\ None \in Texts \cup {None}
      /\ {"nil", "pending", "cidr_invalid", "link_up_failed", "link_down_failed",
          "address_already_assigned", "address_add_failed"} \subseteq Outcomes
      BY DEF TypeOK, Outcomes
<1>1. CASE Restart \/ LinkUp \/ LinkDown
      BY <1>0, <1>1, CallTyped DEF Restart, LinkUp, LinkDown
<1>2. CASE SetFails("up", "link_up_failed") \/ SetFails("down", "link_down_failed")
      BY <1>0, <1>2, CallTyped DEF SetFails
<1>3. ASSUME NEW t \in Texts, AddAddress(t) PROVE last' \in CallRecords
  <2>0. t \in Texts \cup {None}
        OBVIOUS
  <2>1. CASE AddInvalid(t)
        BY <1>0, <2>0, <2>1, CallTyped DEF AddInvalid
  <2>2. CASE AddRemembered(t)
        BY <1>0, <2>0, <2>2, CallTyped DEF AddRemembered
  <2>3. CASE AddConflict(t)
        BY <1>0, <2>0, <2>3, CallTyped DEF AddConflict
  <2>4. CASE AddDenied(t)
        BY <1>0, <2>0, <2>4, CallTyped DEF AddDenied
  <2>5. CASE AddDone(t)
        BY <1>0, <2>0, <2>5, CallTyped DEF AddDone
  <2>6. CASE AddExists(t)
    <3>1. (IF Stderr THEN "pending" ELSE "address_add_failed") \in Outcomes
          BY DEF Outcomes
    <3> QED BY <2>0, <2>6, <3>1, CallTyped DEF AddExists
  <2> QED BY <1>3, <2>1, <2>2, <2>3, <2>4, <2>5, <2>6 DEF AddAddress
<1>4. CASE ProbeFound \/ ProbeNotFound \/ ProbeDenied
      BY <1>0, <1>4 DEF ProbeFound, ProbeNotFound, ProbeDenied, Probe, CallRecords, Outcomes
<1>5. CASE Meddle \/ UNCHANGED vars
      BY <1>0, <1>5 DEF Meddle, vars
<1> QED BY <1>1, <1>2, <1>3, <1>4, <1>5 DEF Next

\* Every command of linuxLink, a restart and a change by others keep the types.
LEMMA NextType == TypeOK /\ [Next]_vars => TypeOK'
<1> SUFFICES ASSUME TypeOK, [Next]_vars PROVE LinkTypes' /\ ProbeDue'
    BY NextCalls DEF TypeOK
<1> USE LinkAssumption DEF TypeOK, LinkTypes, ProbeDue
<1>1. CASE Restart \/ LinkUp \/ LinkDown
      BY <1>1 DEF Restart, LinkUp, LinkDown, Call
<1>2. CASE SetFails("up", "link_up_failed") \/ SetFails("down", "link_down_failed")
      BY <1>2 DEF SetFails, Call
<1>3. ASSUME NEW t \in Texts, AddAddress(t) PROVE LinkTypes' /\ ProbeDue'
  <2>1. CASE AddInvalid(t) \/ AddRemembered(t) \/ AddConflict(t) \/ AddDenied(t)
        BY <2>1 DEF AddInvalid, AddRemembered, AddConflict, AddDenied, Adds, Call
  <2>2. CASE AddDone(t)
        BY <2>2 DEF AddDone, Adds, Addrs, Call
  <2>3. CASE AddExists(t)
        BY <2>3 DEF AddExists, Adds, Call
  <2> QED BY <1>3, <2>1, <2>2, <2>3 DEF AddAddress
<1>4. CASE ProbeFound \/ ProbeNotFound \/ ProbeDenied
      BY <1>4, PrintedIsCanonical DEF ProbeFound, ProbeNotFound, ProbeDenied, Probe
<1>5. CASE Meddle \/ UNCHANGED vars
      BY <1>5 DEF Meddle, vars
<1> QED BY <1>1, <1>2, <1>3, <1>4, <1>5 DEF Next

\* The state of linuxLink and of the interface keeps its types, and AddAddress
\* remembers nothing while its probe is due (link_linux.go:191-256).
THEOREM LinkTypeCorrect == Spec => []TypeOK
<1> QED BY InitType, NextType, PTL DEF Spec

-----------------------------------------------------------------------------
(* The remembered CIDR *)

\* Whoever else changes the interface, the CIDR AddAddress starts to remember is
\* on it at that moment (link_linux.go:216-218 and 247-250).
THEOREM RemembersTruly == Spec => RemembersWhatIsThere
<1>1. TypeOK /\ [Next]_vars =>
        [assigned' \notin {assigned, None} => Shown[assigned'] \in addrs']_vars
  <2> SUFFICES ASSUME TypeOK, Next, assigned' \notin {assigned, None}
               PROVE  Shown[assigned'] \in addrs'
      OBVIOUS
  <2>1. PICK t \in Texts : AddDone(t) \/ ProbeFound
        BY DEF Next, AddAddress, Restart, LinkUp, LinkDown, SetFails, AddInvalid,
               AddRemembered, AddConflict, AddDenied, AddExists, ProbeFound, ProbeNotFound,
               ProbeDenied, Meddle, TypeOK, LinkTypes, ProbeDue, CallRecords
  <2>2. CASE AddDone(t)
        BY <2>2 DEF AddDone
  <2>3. CASE ProbeFound
        BY <2>3, PrintedIsCanonical DEF ProbeFound, Probe, TypeOK, LinkTypes, ProbeDue, CallRecords
  <2> QED BY <2>1, <2>2, <2>3
<1> QED BY <1>1, LinkTypeCorrect, PTL DEF Spec, RemembersWhatIsThere

\* No step of linuxLink's own makes the cache stale.
LEMMA NextCache == TypeOK /\ CacheTrue /\ [Next]_vars => CacheTrue'
<1> SUFFICES ASSUME TypeOK, CacheTrue, [Next]_vars PROVE CacheTrue'
    OBVIOUS
<1> USE DEF CacheTrue, Call
<1>1. CASE Restart \/ LinkUp \/ LinkDown
      BY <1>1 DEF Restart, LinkUp, LinkDown
<1>2. CASE SetFails("up", "link_up_failed") \/ SetFails("down", "link_down_failed")
      BY <1>2 DEF SetFails
<1>3. ASSUME NEW t \in Texts, AddAddress(t) PROVE CacheTrue'
  <2>1. CASE AddInvalid(t) \/ AddRemembered(t) \/ AddConflict(t) \/ AddDenied(t)
        BY <2>1 DEF AddInvalid, AddRemembered, AddConflict, AddDenied
  <2>2. CASE AddDone(t)
        BY <2>2 DEF AddDone
  <2>3. CASE AddExists(t)
        BY <2>3 DEF AddExists, Adds
  <2> QED BY <1>3, <2>1, <2>2, <2>3 DEF AddAddress
<1>4. CASE ProbeFound
      BY <1>4, PrintedIsCanonical DEF ProbeFound, Probe, TypeOK, LinkTypes, ProbeDue, CallRecords
<1>5. CASE ProbeNotFound \/ ProbeDenied \/ UNCHANGED vars
      BY <1>5 DEF ProbeNotFound, ProbeDenied, Probe, vars
<1>6. CASE Meddle
      BY <1>6 DEF Meddle
<1> QED BY <1>1, <1>2, <1>3, <1>4, <1>5, <1>6 DEF Next

\* Until somebody else changes the interface, the CIDR linuxLink.assigned holds
\* is on it: the answers AddAddress gives without asking the kernel are right.
THEOREM CacheIsTrue == Spec => []CacheTrue
<1>1. Init => CacheTrue
      BY DEF Init, CacheTrue
<1> QED BY <1>1, NextCache, LinkTypeCorrect, PTL DEF Spec

-----------------------------------------------------------------------------
(* Idempotency *)

\* Between the add and the probe only others take the address away.
LEMMA NextPending == TypeOK /\ ProbePending /\ [Next]_vars => ProbePending'
<1> SUFFICES ASSUME TypeOK, ProbePending, [Next]_vars PROVE ProbePending'
    OBVIOUS
<1> USE DEF ProbePending, TypeOK, LinkTypes, CallRecords, Call
<1>1. CASE Restart \/ LinkUp \/ LinkDown
      BY <1>1 DEF Restart, LinkUp, LinkDown
<1>2. CASE SetFails("up", "link_up_failed") \/ SetFails("down", "link_down_failed")
      BY <1>2 DEF SetFails
<1>3. ASSUME NEW t \in Texts, AddAddress(t) PROVE ProbePending'
  <2>1. CASE AddExists(t)
        BY <2>1 DEF AddExists, Adds
  <2>2. CASE AddInvalid(t) \/ AddRemembered(t) \/ AddConflict(t) \/ AddDone(t) \/ AddDenied(t)
        BY <2>2 DEF AddInvalid, AddRemembered, AddConflict, AddDone, AddDenied, Adds
  <2> QED BY <1>3, <2>1, <2>2 DEF AddAddress
<1>4. CASE ProbeFound \/ ProbeNotFound \/ ProbeDenied
      BY <1>4 DEF ProbeFound, ProbeNotFound, ProbeDenied, Probe
<1>5. CASE UNCHANGED vars
      BY <1>5 DEF vars
<1>6. CASE Meddle
      BY <1>6 DEF Meddle
<1> QED BY <1>1, <1>2, <1>3, <1>4, <1>5, <1>6 DEF Next

\* With the error text at hand, every way out of AddAddress is idempotent.
LEMMA NextIdempotent ==
    Stderr /\ TypeOK /\ ProbePending /\ Idempotent /\ [Next]_vars => Idempotent'
<1> SUFFICES ASSUME Stderr, TypeOK, ProbePending, Idempotent, [Next]_vars PROVE Idempotent'
    OBVIOUS
<1> USE DEF Idempotent
<1>1. CASE Restart \/ LinkUp \/ LinkDown
      BY <1>1 DEF Restart, LinkUp, LinkDown, Call
<1>2. CASE SetFails("up", "link_up_failed") \/ SetFails("down", "link_down_failed")
      BY <1>2 DEF SetFails, Call
<1>3. ASSUME NEW t \in Texts, AddAddress(t) PROVE Idempotent'
  <2>1. CASE AddInvalid(t)
        BY <2>1, PrintedIsCanonical DEF AddInvalid, Call, TypeOK, LinkTypes, ProbeDue, CallRecords
  <2>2. CASE AddRemembered(t) \/ AddDone(t) \/ AddDenied(t)
        BY <2>2 DEF AddRemembered, AddDone, AddDenied, Call
  <2>3. CASE AddConflict(t)
    <3>1. last' = [op |-> "add", cidr |-> t, out |-> "address_already_assigned",
                   denied |-> FALSE, had |-> FALSE]
          BY <2>3, Zenon DEF AddConflict, Call
    <3> QED BY <3>1
  <2>4. CASE AddExists(t)
        BY <2>4 DEF AddExists, Call
  <2> QED BY <1>3, <2>1, <2>2, <2>3, <2>4 DEF AddAddress
<1>4. CASE ProbeFound \/ ProbeNotFound
      BY <1>4 DEF ProbeFound, ProbeNotFound, Probe, ProbePending, TypeOK, LinkTypes, ProbeDue, CallRecords
<1>5. CASE ProbeDenied
      BY <1>5 DEF ProbeDenied, TypeOK, LinkTypes, ProbeDue, CallRecords
<1>6. CASE Meddle \/ UNCHANGED vars
      BY <1>6 DEF Meddle, vars
<1> QED BY <1>1, <1>2, <1>3, <1>4, <1>5, <1>6 DEF Next

\* Adding again the CIDR that is configured ends with nil, also in a process
\* started afresh, if the executor's error text carries what `ip` printed
\* (contract/route/link.go:53-55; the production executor's does not).
THEOREM AddIsIdempotent == ASSUME Stderr PROVE Spec => []Idempotent
<1>1. Init => ProbePending /\ Idempotent
      BY DEF Init, ProbePending, Idempotent, Call
<1> QED BY Stderr, <1>1, NextPending, NextIdempotent, LinkTypeCorrect, PTL DEF Spec

=============================================================================
