------------------------------- MODULE Codec -------------------------------
(***************************************************************************)
(* The wire format (internal/transport/grpc/tunnelpb/codec.go): what       *)
(* WriteFrame puts on the stream byte by byte, refusals included, and what *)
(* ReadFrame makes of a stream that may end anywhere.                      *)
(*                                                                         *)
(* A byte is a number below Base (256 in the code).  The widths of the     *)
(* fields are parameters, so that every boundary is within TLC's reach:    *)
(* MaxIPPacket is the largest two-byte number and MaxStringLen the largest *)
(* byte, as in the code.                                                   *)
(***************************************************************************)
EXTENDS Integers, Sequences, SequencesExt

CONSTANTS
    Base,           \* values of a byte
    U32, U64,       \* bytes in a uint32 and a uint64
    V4Len, V6Len,   \* bytes in an IPv4 and an IPv6 address
    XLen, MLen,     \* bytes in an X25519 and an ML-KEM-768 public key
    MaxDNSEntries,
    Samples,        \* a sequence of the frames that are sent
    MaxFrames       \* bound: frames written

TagIPv4 == 4
TagIPv6 == 6
TagHello == 16
TagSession == 17
TagKeepalive == 18
TagRekey == 19
TagClose == 20

ASSUME CodecAssumption ==
    /\ Base \in Nat /\ Base > TagClose
    /\ {U32, U64, V4Len, V6Len, XLen, MLen} \subseteq Nat \ {0}
    /\ V4Len < V6Len /\ V6Len < Base
    /\ MaxDNSEntries \in 1..(Base - 1)
    /\ MaxFrames \in Nat

MaxIPPacket == Base * Base - 1
MaxStringLen == Base - 1

VARIABLES
    wire,    \* bytes on the stream, not yet read
    sent,    \* frames WriteFrame accepted
    broken,  \* WriteFrame refused one: the wrapper writes nothing more
    ended,   \* the stream: "open", "eof", or "cut" short
    got,     \* frames ReadFrame returned
    err      \* what it returned last

codecVars == <<wire, sent, broken, ended, got, err>>

-----------------------------------------------------------------------------
(* Bytes and addresses *)

\* binary.BigEndian: n in w bytes, and back.
PutUint(n, w) == [i \in 1..w |-> (n \div Base^(w - i)) % Base]
Uint(s) == FoldLeft(LAMBDA n, b : n * Base + b, 0, s)
byte(n) == <<n % Base>>

Mapped == [i \in 1..(V6Len - V4Len) |-> IF i > V6Len - V4Len - 2 THEN Base - 1 ELSE 0]
To4(ip) == IF Len(ip) = V4Len THEN ip
           ELSE IF Len(ip) = V6Len /\ IsPrefix(Mapped, ip)
           THEN SubSeq(ip, V6Len - V4Len + 1, V6Len) ELSE <<>>
To16(ip) == IF Len(ip) = V4Len THEN Mapped \o ip
            ELSE IF Len(ip) = V6Len THEN ip ELSE <<>>

-----------------------------------------------------------------------------
(* Writing: the bytes that go out, and the error *)

Put(s) == [out |-> s, err |-> "nil"]
Fail(e) == [out |-> <<>>, err |-> e]
Then(a, b) == IF a.err = "nil" THEN [out |-> a.out \o b.out, err |-> b.err] ELSE a

\* Mutant of writeHello: the length check is gone.
writeHelloUnchecked(h) ==
    Put(PutUint(h.ProtocolVersion, U32) \o byte(Len(h.ClientID))
          \o PutUint(h.CipherSuite, U32) \o h.ClientID)

writeHello(h) ==
    IF Len(h.ClientID) > MaxStringLen THEN Fail("ErrFieldTooLong")
    ELSE Put(PutUint(h.ProtocolVersion, U32) \o byte(Len(h.ClientID))
               \o PutUint(h.CipherSuite, U32) \o h.ClientID)

writeIP(ip, want) ==
    IF ip = <<>> THEN Put(<<0>>)
    ELSE IF Len(ip) # want THEN Fail("ErrLengthInvalid")
    ELSE Put(byte(want) \o ip)

writeIP16(ip, want) ==
    IF ip = <<>> THEN Put(<<0>>)
    ELSE IF Len(To16(ip)) # want THEN Fail("ErrLengthInvalid")
    ELSE Put(byte(want) \o To16(ip))

writeDNS(ip) == IF To16(ip) = <<>> THEN Fail("invalid IP") ELSE Put(To16(ip))

writeSession(s) ==
    IF Len(s.DNSServers) > MaxDNSEntries THEN Fail("ErrFieldTooLong")
    ELSE FoldLeft(LAMBDA a, ip : Then(a, writeDNS(ip)),
                  Then(Put(byte(Len(s.DNSServers)) \o PutUint(s.MTU, U32)),
                       Then(writeIP(To4(s.AssignedIPv4), V4Len),
                            writeIP16(s.AssignedIPv6, V6Len))),
                  s.DNSServers)

writeKeepalive(k) == Put(PutUint(k.Nonce, U64))

writeRekey(k) ==
    IF Len(k.X25519Public) # XLen \/ Len(k.MLKEMPublic) # MLen THEN Fail("ErrLengthInvalid")
    ELSE Put(k.X25519Public \o k.MLKEMPublic \o PutUint(k.ActivateAtSeq, U64))

writeClose(c) ==
    IF Len(c.Message) > MaxStringLen THEN Fail("ErrFieldTooLong")
    ELSE Put(PutUint(c.Code, U32) \o byte(Len(c.Message)) \o c.Message)

\* A packet is refused before its tag, a control record after it; a frame with
\* no body for its tag is refused like a control record.
Encode(f) ==
    IF f.tag \in {TagIPv4, TagIPv6}
    THEN IF Len(f.body) > MaxIPPacket THEN Fail("ErrFieldTooLong")
         ELSE Put(<<f.tag>> \o PutUint(Len(f.body), 2) \o f.body)
    ELSE IF f.tag \notin TagHello..TagClose THEN Fail("ErrUnknownTag")
    ELSE Then(Put(<<f.tag>>),
              CASE f.body = <<>> -> Fail("nil record")
                [] f.tag = TagHello -> writeHello(f.body)
                [] f.tag = TagSession -> writeSession(f.body)
                [] f.tag = TagKeepalive -> writeKeepalive(f.body)
                [] f.tag = TagRekey -> writeRekey(f.body)
                [] f.tag = TagClose -> writeClose(f.body))

-----------------------------------------------------------------------------
(* Reading: what comes out, what is left, and the error *)

Got(val, rest) == [val |-> val, rest |-> rest, err |-> "nil"]
Bad(e) == [val |-> <<>>, rest |-> <<>>, err |-> e]

\* io.ReadFull on a stream that has ended: io.EOF when there is nothing at all.
ReadFull(s, n) == IF Len(s) >= n THEN Got(SubSeq(s, 1, n), SubSeq(s, n + 1, Len(s)))
                  ELSE Bad(IF s = <<>> THEN "EOF" ELSE "ErrUnexpectedEOF")

\* r, then F on what it read; an error of r is the result.
Bind(r, F(_)) == IF r.err = "nil" THEN F(r) ELSE r

\* ErrShortRead whatever io.ReadFull said (its error is printed, not wrapped).
ReadShort(s, n) == LET r == ReadFull(s, n) IN IF r.err = "nil" THEN r ELSE Bad("ErrShortRead")

readHello(s) ==
    Bind(ReadShort(s, 2 * U32 + 1), LAMBDA h :
    Bind(ReadShort(h.rest, h.val[U32 + 1]), LAMBDA id :
    Got([ProtocolVersion |-> Uint(SubSeq(h.val, 1, U32)), ClientID |-> id.val,
         CipherSuite |-> Uint(SubSeq(h.val, U32 + 2, 2 * U32 + 1))], id.rest)))

\* Both errors of io.ReadFull are wrapped here, io.EOF included.
readIP(s, want) ==
    Bind(ReadFull(s, 1), LAMBDA n :
    IF n.val[1] = 0 THEN Got(<<>>, n.rest)
    ELSE IF n.val[1] # want THEN Bad("ErrLengthInvalid")
    ELSE ReadFull(n.rest, want))

readDNS(s, count) ==
    Bind(ReadShort(s, count * V6Len), LAMBDA d :
    Got([i \in 1..count |-> SubSeq(d.val, (i - 1) * V6Len + 1, i * V6Len)], d.rest))

readSession(s) ==
    Bind(ReadShort(s, 1 + U32), LAMBDA h :
    IF h.val[1] > MaxDNSEntries THEN Bad("ErrFieldTooLong")
    ELSE Bind(readIP(h.rest, V4Len), LAMBDA v4 :
         Bind(readIP(v4.rest, V6Len), LAMBDA v6 :
         Bind(readDNS(v6.rest, h.val[1]), LAMBDA dns :
         Got([AssignedIPv4 |-> v4.val, AssignedIPv6 |-> v6.val, DNSServers |-> dns.val,
              MTU |-> Uint(Tail(h.val))], dns.rest)))))

\* Mutant of readKeepalive: the error of io.ReadFull is wrapped.
readKeepaliveWraps(s) ==
    Bind(ReadFull(s, U64), LAMBDA k : Got([Nonce |-> Uint(k.val)], k.rest))

readKeepalive(s) ==
    Bind(ReadShort(s, U64), LAMBDA k : Got([Nonce |-> Uint(k.val)], k.rest))

readRekey(s) ==
    Bind(ReadShort(s, XLen), LAMBDA x :
    Bind(ReadShort(x.rest, MLen), LAMBDA m :
    Bind(ReadShort(m.rest, U64), LAMBDA q :
    Got([X25519Public |-> x.val, MLKEMPublic |-> m.val, ActivateAtSeq |-> Uint(q.val)],
        q.rest))))

\* Mutant of readClose: the message is left on the stream.
readCloseLeavesMessage(s) ==
    Bind(ReadShort(s, U32 + 1), LAMBDA h :
    Got([Code |-> Uint(SubSeq(h.val, 1, U32)), Message |-> <<>>], h.rest))

readClose(s) ==
    Bind(ReadShort(s, U32 + 1), LAMBDA h :
    Bind(ReadShort(h.rest, h.val[U32 + 1]), LAMBDA m :
    Got([Code |-> Uint(SubSeq(h.val, 1, U32)), Message |-> m.val], m.rest)))

readPacket(s) ==
    Bind(ReadShort(s, 2), LAMBDA n :
    IF Uint(n.val) = 0 THEN Bad("ErrLengthInvalid") ELSE ReadShort(n.rest, Uint(n.val)))

readBody(tag, s) ==
    CASE tag \in {TagIPv4, TagIPv6} -> readPacket(s)
      [] tag = TagHello -> readHello(s)
      [] tag = TagSession -> readSession(s)
      [] tag = TagKeepalive -> readKeepalive(s)
      [] tag = TagRekey -> readRekey(s)
      [] tag = TagClose -> readClose(s)
      [] OTHER -> Bad("ErrUnknownTag")

Decode(s) ==
    Bind(ReadFull(s, 1), LAMBDA t :
    Bind(readBody(t.val[1], t.rest), LAMBDA b :
    Got([tag |-> t.val[1], body |-> b.val], b.rest)))

-----------------------------------------------------------------------------
(* A writer, a stream that may be cut anywhere, a reader *)

CodecInit == /\ wire = <<>>
             /\ sent = <<>>
             /\ broken = FALSE
             /\ ended = "open"
             /\ got = <<>>
             /\ err = "nil"

WriteFrame(f) ==
    LET e == Encode(f) IN
    /\ ended = "open" /\ ~broken
    /\ Len(sent) < MaxFrames
    /\ wire' = wire \o e.out
    /\ sent' = IF e.err = "nil" THEN Append(sent, f) ELSE sent
    /\ broken' = (e.err # "nil")
    /\ UNCHANGED <<ended, got, err>>

\* The stream ends, after what was written or before.
Ends == /\ ended = "open"
        /\ ended' = "eof"
        /\ UNCHANGED <<wire, sent, broken, got, err>>
Cut(n) == /\ ended = "open"
          /\ n < Len(wire)
          /\ ended' = "cut"
          /\ wire' = SubSeq(wire, 1, n)
          /\ UNCHANGED <<sent, broken, got, err>>

\* ReadFrame waits for bytes or the end, so it sees no less than all there is.
ReadFrame ==
    LET d == Decode(wire) IN
    /\ ended # "open"
    /\ err = "nil"
    /\ err' = d.err
    /\ IF d.err = "nil" THEN wire' = d.rest /\ got' = Append(got, d.val)
       ELSE UNCHANGED <<wire, got>>
    /\ UNCHANGED <<sent, broken, ended>>

CodecNext == \/ \E i \in 1..Len(Samples) : WriteFrame(Samples[i])
             \/ Ends
             \/ \E n \in 0..Len(wire) : Cut(n)
             \/ ReadFrame

CodecSpec == CodecInit /\ [][CodecNext]_codecVars

-----------------------------------------------------------------------------
(* Properties *)

\* The same address, whether it is held in four bytes or in sixteen.
SameIP(a, b) == To16(a) = To16(b)

SameFrame(a, b) ==
    /\ a.tag = b.tag
    /\ IF a.tag = TagSession
       THEN /\ To4(a.body.AssignedIPv4) = To4(b.body.AssignedIPv4)
            /\ SameIP(a.body.AssignedIPv6, b.body.AssignedIPv6)
            /\ Len(a.body.DNSServers) = Len(b.body.DNSServers)
            /\ \A i \in 1..Len(a.body.DNSServers) :
                  SameIP(a.body.DNSServers[i], b.body.DNSServers[i])
            /\ a.body.MTU = b.body.MTU
       ELSE a.body = b.body

\* Whatever is written, refused half-way or cut off, ReadFrame returns no frame
\* but those WriteFrame accepted, in order and with every field intact; only an
\* AssignedIPv4 that is no IPv4 address is silently taken for none.
RoundTrip == /\ Len(got) <= Len(sent)
             /\ \A i \in 1..Len(got) : SameFrame(got[i], sent[i])

EmptyPacket(f) == f.tag \in {TagIPv4, TagIPv6} /\ f.body = <<>>

\* On a stream that ends after a whole frame, ReadFrame returns all of them and
\* then io.EOF, unless one is a packet of no bytes, which WriteFrame lets
\* through and ReadFrame refuses (ErrLengthInvalid).
Complete == ended = "eof" /\ ~broken /\ err # "nil" =>
               \/ Len(got) = Len(sent) /\ err = "EOF"
               \/ /\ Len(got) < Len(sent)
                  /\ EmptyPacket(sent[Len(got) + 1]) /\ err = "ErrLengthInvalid"

\* A stream cut inside a frame is not taken for its orderly end: ReadFrame
\* "returns io.EOF only when no bytes have been read; a partial frame returns
\* ErrShortRead" (codec.go:166-167).  pumpDown takes io.EOF for a graceful end.
EOFOnlyBetweenFrames == err = "EOF" => wire = <<>>

\* s is a Session record that ends before one of its two addresses, or between the
\* length and the bytes of one.
CutAtAddress(s) ==
    LET v4 == U32 + 2               \* tag, number of DNS servers, MTU
        v6 == v4 + 1 + s[v4 + 1]    \* and the first address
    IN  /\ s[1] = TagSession
        /\ \/ Len(s) \in {v4, v4 + 1}
           \/ Len(s) > v4 /\ Len(s) \in {v6, v6 + 1}

\* Where that fails (readIP and readIP16 wrap the io.EOF of io.ReadFull), and only
\* there: no other cut, of no other record, is taken for the end of the session.
EOFOnlyAtAddress == err = "EOF" => wire = <<>> \/ CutAtAddress(wire)

=============================================================================
