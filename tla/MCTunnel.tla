------------------------------ MODULE MCTunnel ------------------------------
(* The tunnel with two callers and one frame of each sort.          *)
EXTENDS Tunnel, TLC

MCFrames == {Frame("pkt", TRUE, 1), Frame("pkt", FALSE, 1), Frame("ctl", FALSE, 1),
             Frame("bad", TRUE, 1)}

CallerSymmetry == Permutations(Callers)

=============================================================================
