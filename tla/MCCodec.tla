------------------------------ MODULE MCCodec ------------------------------
(* Bytes below 32; frames of every sort, at and beyond each limit.           *)
EXTENDS Codec

Filler(n) == [i \in 1..n |-> i % Base]
F(t, b) == [tag |-> t, body |-> b]

V4 == <<10, 7>>
V6 == <<1, 0, 0, 2, 3, 4>>
Ses(v4, v6, dns) == F(TagSession, [AssignedIPv4 |-> v4, AssignedIPv6 |-> v6,
                                   DNSServers |-> dns, MTU |-> Base + 5])
Hello(id) == F(TagHello, [ProtocolVersion |-> 1, ClientID |-> id, CipherSuite |-> Base + 1])
Rekey(x, m) == F(TagRekey, [X25519Public |-> x, MLKEMPublic |-> m,
                            ActivateAtSeq |-> Base * Base])
CloseOf(m) == F(TagClose, [Code |-> Base * Base - 1, Message |-> m])

MCSamples == <<
    F(TagIPv4, <<4>>), F(TagIPv6, Filler(3)), F(TagIPv4, <<>>),
    F(TagIPv4, Filler(MaxIPPacket)), F(TagIPv4, Filler(MaxIPPacket + 1)), F(5, <<1>>),
    Hello(<<>>), Hello(Filler(MaxStringLen)), Hello(Filler(MaxStringLen + 1)),
    F(TagKeepalive, [Nonce |-> Base^U64 - 1]), F(TagKeepalive, <<>>),
    Rekey(Filler(XLen), Filler(MLen)), Rekey(Filler(XLen - 1), Filler(MLen)),
    CloseOf(<<>>), CloseOf(<<4, 0, 1>>), CloseOf(Filler(MaxStringLen)),
    CloseOf(Filler(MaxStringLen + 1)),
    Ses(<<>>, <<>>, <<>>), Ses(V4, V6, <<>>), Ses(Mapped \o V4, <<>>, <<V4, V6>>),
    Ses(<<>>, V4, <<V6>>), Ses(V4, <<1, 2, 3>>, <<>>), Ses(V4, V6, <<<<1>>>>),
    Ses(V4, <<>>, <<V4, V6, V4>>), Ses(V6, V6, <<V6>>)>>

=============================================================================
