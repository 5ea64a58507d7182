-------------------------------- MODULE Link --------------------------------
(***************************************************************************)
(* linuxLink (internal/tunnel/route/link_linux.go): one interface, the     *)
(* CIDR the process remembers for it, and the addresses the kernel has on  *)
(* it.  Every `ip` command is one step, so that others may change the      *)
(* interface between the add and the probe of one AddAddress, and the      *)
(* process may restart there.                                              *)
(***************************************************************************)
EXTENDS Naturals

CONSTANTS
    Texts,     \* what callers pass to AddAddress
    None,      \* no CIDR: the empty string
    Shown,     \* Shown[t]: how `ip addr show` prints t, for the t ParseCIDR takes
    Clash,     \* <<a, b>>: the kernel refuses b beside a with EEXIST
    Volatile,  \* addresses the kernel drops when the interface goes down (IPv6)
    Stderr     \* the executor's error text carries what `ip` printed

Parsable == DOMAIN Shown
Addrs == {Shown[t] : t \in Parsable}

ASSUME LinkAssumption ==
    /\ None \notin Texts
    /\ Parsable \subseteq Texts
    /\ Shown \in [Parsable -> Parsable]
    /\ \A t \in Parsable : Shown[Shown[t]] = Shown[t]
    /\ Clash \subseteq Addrs \X Addrs
    /\ \A a \in Addrs : <<a, a>> \in Clash
    /\ Volatile \subseteq Addrs
    /\ Stderr \in BOOLEAN

VARIABLES
    assigned,  \* linuxLink.assigned
    addrs,     \* the kernel: addresses on the interface
    up,        \* the kernel: the interface is up
    pc,        \* "idle", or "probe" between the two commands of AddAddress
    last,      \* the last call: [op, cidr, out], whether an `ip` command was
               \* refused on its own account, and whether the CIDR was there
    touched    \* history: others have changed the interface since assigned was
               \* set or, with nothing remembered, since AddAddress ran `ip`

vars == <<assigned, addrs, up, pc, last, touched>>

Call(op, t, out, denied) ==
    [op |-> op, cidr |-> t, out |-> out, denied |-> denied,
     had |-> op = "add" /\ t \in addrs /\ assigned \in {None, t}]

Init == /\ assigned = None
        /\ addrs = {}
        /\ up = FALSE
        /\ pc = "idle"
        /\ last = Call("new", None, "nil", FALSE)
        /\ touched = FALSE

\* New, in a process started afresh: the kernel keeps what it has.
Restart == /\ assigned' = None
           /\ pc' = "idle"
           /\ last' = Call("new", None, "nil", FALSE)
           /\ touched' = FALSE
           /\ UNCHANGED <<addrs, up>>

-----------------------------------------------------------------------------
(* Up and Down *)

LinkUp == /\ pc = "idle"
          /\ up' = TRUE
          /\ last' = Call("up", None, "nil", FALSE)
          /\ UNCHANGED <<assigned, addrs, pc, touched>>

\* Mutant of LinkDown: the remembered CIDR survives.
LinkDownRemembers ==
    /\ pc = "idle"
    /\ up' = FALSE
    /\ addrs' = IF up THEN addrs \ Volatile ELSE addrs
    /\ last' = Call("down", None, "nil", FALSE)
    /\ UNCHANGED <<assigned, pc, touched>>

LinkDown == /\ pc = "idle"
            /\ up' = FALSE
            /\ addrs' = IF up THEN addrs \ Volatile ELSE addrs
            /\ assigned' = None
            /\ touched' = FALSE
            /\ last' = Call("down", None, "nil", FALSE)
            /\ UNCHANGED pc

\* `ip link set` exits non-zero: nothing changes, assigned included.
SetFails(op, reason) ==
    /\ pc = "idle"
    /\ last' = Call(op, None, reason, TRUE)
    /\ UNCHANGED <<assigned, addrs, up, pc, touched>>

-----------------------------------------------------------------------------
(* AddAddress *)

\* AddAddress(t) ends with out, no command having been run.
AddInvalid(t) == /\ pc = "idle"
                 /\ t \notin Parsable
                 /\ last' = Call("add", t, "cidr_invalid", FALSE)
                 /\ UNCHANGED <<assigned, addrs, up, pc, touched>>

AddRemembered(t) == /\ pc = "idle"
                    /\ t \in Parsable
                    /\ assigned = t
                    /\ last' = Call("add", t, "nil", FALSE)
                    /\ UNCHANGED <<assigned, addrs, up, pc, touched>>

AddConflict(t) == /\ pc = "idle"
                  /\ t \in Parsable
                  /\ assigned \notin {None, t}
                  /\ last' = Call("add", t, "address_already_assigned", FALSE)
                  /\ UNCHANGED <<assigned, addrs, up, pc, touched>>

\* `ip addr add t` runs only when nothing is remembered.
Adds(t) == pc = "idle" /\ t \in Parsable /\ assigned = None
Exists(t) == \E a \in addrs : <<a, Shown[t]>> \in Clash

AddDone(t) == /\ Adds(t)
              /\ ~Exists(t)
              /\ addrs' = addrs \cup {Shown[t]}
              /\ assigned' = t
              /\ touched' = FALSE
              /\ last' = Call("add", t, "nil", FALSE)
              /\ UNCHANGED <<up, pc>>

\* The command is refused for a reason of its own.
AddDenied(t) == /\ Adds(t)
                /\ last' = Call("add", t, "address_add_failed", TRUE)
                /\ UNCHANGED <<assigned, addrs, up, pc, touched>>

\* Mutants of AddExists: remembers before it has probed; takes any refusal for
\* the CIDR being there.
AddExistsEarly(t) ==
    /\ Adds(t)
    /\ Exists(t)
    /\ pc' = "probe"
    /\ assigned' = t
    /\ touched' = FALSE
    /\ last' = Call("add", t, "pending", FALSE)
    /\ UNCHANGED <<addrs, up>>
AddExistsTrusted(t) ==
    /\ Adds(t)
    /\ Exists(t)
    /\ assigned' = t
    /\ touched' = FALSE
    /\ last' = Call("add", t, "nil", FALSE)
    /\ UNCHANGED <<addrs, up, pc>>

\* EEXIST.  The probe is reached only if "File exists" is in the error's text.
AddExists(t) == /\ Adds(t)
                /\ Exists(t)
                /\ pc' = IF Stderr THEN "probe" ELSE "idle"
                /\ last' = Call("add", t, IF Stderr THEN "pending" ELSE "address_add_failed",
                                FALSE)
                /\ touched' = FALSE
                /\ UNCHANGED <<assigned, addrs, up>>

\* `ip -o addr show` after EEXIST; it prints addresses its own way, and the
\* search is for the caller's text.
Probe(out) == /\ pc = "probe"
              /\ pc' = "idle"
              /\ last' = [last EXCEPT !.out = out]
              /\ UNCHANGED <<addrs, up>>

\* Mutant of ProbeFound: nothing is remembered and the error stays.
ProbeFoundFails == /\ last.cidr \in addrs
                   /\ Probe("address_already_assigned")
                   /\ UNCHANGED <<assigned, touched>>

ProbeFound == /\ last.cidr \in addrs
              /\ Probe("nil")
              /\ assigned' = last.cidr
              /\ touched' = FALSE

ProbeNotFound == /\ last.cidr \notin addrs
                 /\ Probe("address_already_assigned")
                 /\ UNCHANGED <<assigned, touched>>

ProbeDenied == /\ pc = "probe"
               /\ pc' = "idle"
               /\ last' = [last EXCEPT !.out = "address_add_failed", !.denied = TRUE]
               /\ UNCHANGED <<assigned, addrs, up, touched>>

-----------------------------------------------------------------------------
(* Others: an operator's `ip addr` commands, the interface made anew *)

Meddle == /\ \/ \E a \in addrs : addrs' = addrs \ {a} /\ UNCHANGED up
             \/ \E a \in Addrs : addrs' = addrs \cup {a} /\ UNCHANGED up
             \/ addrs' = {} /\ up' = FALSE
          /\ touched' = TRUE
          /\ UNCHANGED <<assigned, pc, last>>

AddAddress(t) == \/ AddInvalid(t) \/ AddRemembered(t) \/ AddConflict(t)
                 \/ AddDone(t) \/ AddDenied(t) \/ AddExists(t)

Next == \/ Restart \/ LinkUp \/ LinkDown
        \/ SetFails("up", "link_up_failed") \/ SetFails("down", "link_down_failed")
        \/ \E t \in Texts : AddAddress(t)
        \/ ProbeFound \/ ProbeNotFound \/ ProbeDenied
        \/ Meddle

Spec == Init /\ [][Next]_vars

-----------------------------------------------------------------------------
(* Properties *)

Outcomes == {"nil", "pending", "cidr_invalid", "link_up_failed", "link_down_failed",
             "address_already_assigned", "address_add_failed"}

CallRecords == [op : {"new", "up", "down", "add"}, cidr : Texts \cup {None}, out : Outcomes,
                denied : BOOLEAN, had : BOOLEAN]

LinkTypes == /\ assigned \in Parsable \cup {None}
             /\ addrs \subseteq Addrs
             /\ up \in BOOLEAN
             /\ touched \in BOOLEAN
             /\ pc \in {"idle", "probe"}
ProbeDue == pc = "probe" => assigned = None /\ last.op = "add" /\ last.cidr \in Parsable

\* Type correctness; while a probe is due nothing is remembered.
TypeOK == LinkTypes /\ last \in CallRecords /\ ProbeDue

\* The remembered CIDR is on the interface, through restarts, failed commands
\* and links going down, until others change the interface: AddAddress answers
\* from it without asking the kernel (link_linux.go:201-214).
CacheTrue == assigned # None /\ ~touched => Shown[assigned] \in addrs

\* Even beside others who change the interface between two of its commands,
\* AddAddress remembers a CIDR, and so answers nil, only at a moment it is there.
RemembersWhatIsThere ==
    [][assigned' \notin {assigned, None} => Shown[assigned'] \in addrs']_vars

\* Re-adding the CIDR that is configured, spelt as the kernel spells it, ends
\* with nil unless an `ip` command was refused on its own account or others
\* changed the interface meanwhile (contract/route/link.go:53-55).
Idempotent ==
    last.had /\ ~last.denied /\ last.out # "pending" /\ ~touched => last.out = "nil"

=============================================================================
