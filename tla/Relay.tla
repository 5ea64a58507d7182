------------------------------- MODULE Relay -------------------------------
(***************************************************************************)
(* What a session's data path promises, with neither buffers nor a pool:   *)
(* in each direction packets leave in the order they came in, unchanged,   *)
(* one in flight at a time, and when a direction stops at most the packet  *)
(* in flight is lost.  An item is what must leave for one packet taken in. *)
(***************************************************************************)
EXTENDS Naturals, Sequences

CONSTANTS Dirs,    \* the two directions of the session
          Items    \* what can leave it

VARIABLES inp,     \* inp[d]: what must leave for each packet taken in, in order
          out,     \* out[d]: what has left, in order
          live     \* live[d]: direction d has not returned

vars == <<inp, out, live>>

Init == /\ inp = [d \in Dirs |-> <<>>]
        /\ out = [d \in Dirs |-> <<>>]
        /\ live = [d \in Dirs |-> TRUE]

Accept(d, i) ==
    /\ live[d]
    /\ Len(inp[d]) = Len(out[d])
    /\ inp' = [inp EXCEPT ![d] = Append(@, i)]
    /\ UNCHANGED <<out, live>>

Emit(d) ==
    /\ live[d]
    /\ Len(inp[d]) = Len(out[d]) + 1
    /\ out' = [out EXCEPT ![d] = Append(@, inp[d][Len(inp[d])])]
    /\ UNCHANGED <<inp, live>>

Stop(d) ==
    /\ live[d]
    /\ live' = [live EXCEPT ![d] = FALSE]
    /\ UNCHANGED <<inp, out>>

Next == \E d \in Dirs : Emit(d) \/ Stop(d) \/ \E i \in Items : Accept(d, i)

Spec == Init /\ [][Next]_vars

=============================================================================
