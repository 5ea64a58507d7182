----------------------------- MODULE MCSession -----------------------------
(* Two ends of a session, one piece per frame.                              *)
EXTENDS Session

\* Two packets each way; two one way and one the other; none.
Heavy == [e \in {"A", "B"} |-> 2]
Uneven == [e \in {"A", "B"} |-> IF e = "A" THEN 2 ELSE 1]
NoLoad == [e \in {"A", "B"} |-> 0]
=============================================================================
