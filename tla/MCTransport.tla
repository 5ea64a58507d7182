---------------------------- MODULE MCTransport ----------------------------
(* The parts a session is made of: the buffers its two loops share, the     *)
(* tunnel, and the codec under it.  Session and Pump compose them; here each *)
(* is exercised on its own, by callers freer than the pump, so a behaviour   *)
(* exercises one of them.                                                    *)
EXTENDS MCBufferPool, MCTunnel, MCCodec

VARIABLE part

transportVars == <<poolVars, tunVars, codecVars, part>>

TransportInit == /\ PoolInit /\ TunInit /\ CodecInit
                 /\ part \in {"buffers", "tunnel", "codec"}

BuffersPart == part = "buffers" /\ PoolNext /\ UNCHANGED <<tunVars, codecVars, part>>
TunnelPart == part = "tunnel" /\ TunNext /\ UNCHANGED <<poolVars, codecVars, part>>
CodecPart == part = "codec" /\ CodecNext /\ UNCHANGED <<poolVars, tunVars, part>>

TransportNext == BuffersPart \/ TunnelPart \/ CodecPart

TransportSpec == TransportInit /\ [][TransportNext]_transportVars

\* The buffers are alike, and so are the callers.
TransportSymmetry == BufSymmetry \cup CallerSymmetry

=============================================================================
