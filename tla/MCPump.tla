------------------------------- MODULE MCPump -------------------------------
(* One Run, its peer reduced to the stream it reads and writes.             *)
EXTENDS Pump
=============================================================================
