----------------------------- MODULE CodecProofs -----------------------------
(***************************************************************************)
(* When ReadFrame says io.EOF, for any widths of the fields, any limits    *)
(* and any bytes: on a stream with nothing left on it, or in a Session     *)
(* record cut at one of its addresses.                                     *)
(***************************************************************************)
EXTENDS Codec, TLAPS

-----------------------------------------------------------------------------
(* What the readers may return *)

\* readShort never passes io.EOF on,
LEMMA ShortErrors == \A s, n : ReadShort(s, n).err \in {"nil", "ErrShortRead"}
BY DEF ReadShort, ReadFull, Got, Bad

\* so neither do the readers that use nothing else.
LEMMA HelloErrors == \A s : readHello(s).err # "EOF"
BY ShortErrors DEF readHello, Bind, Got

LEMMA KeepaliveErrors == \A s : readKeepalive(s).err # "EOF"
BY ShortErrors DEF readKeepalive, Bind, Got

LEMMA RekeyErrors == \A s : readRekey(s).err # "EOF"
BY ShortErrors DEF readRekey, Bind, Got

LEMMA CloseErrors == \A s : readClose(s).err # "EOF"
BY ShortErrors DEF readClose, Bind, Got

LEMMA PacketErrors == \A s : readPacket(s).err # "EOF"
BY ShortErrors DEF readPacket, Bind, Bad

\* q is what is left of s after n bytes.
After(s, n, q) == /\ q \in Seq(Nat) /\ n <= Len(s) /\ Len(q) = Len(s) - n
                  /\ \A i \in 1..Len(q) : q[i] = s[n + i]

\* io.ReadFull takes n bytes or fails, with io.EOF if there is none.
LEMMA FullReads ==
    ASSUME NEW s \in Seq(Nat), NEW n \in Nat, NEW r, r = ReadFull(s, n)
    PROVE  /\ r.err = "nil" => r.val = SubSeq(s, 1, n) /\ After(s, n, r.rest)
           /\ r.err = "EOF" => Len(s) = 0
<1>1. CASE Len(s) >= n
  <2>1. r.err = "nil" /\ r.val = SubSeq(s, 1, n) /\ r.rest = SubSeq(s, n + 1, Len(s))
        BY <1>1 DEF ReadFull, Got
  <2>2. /\ SubSeq(s, n + 1, Len(s)) \in Seq(Nat)
        /\ Len(SubSeq(s, n + 1, Len(s))) = Len(s) - n
        /\ \A i \in 1..(Len(s) - n) : SubSeq(s, n + 1, Len(s))[i] = s[n + i]
        BY <1>1
  <2> QED BY <1>1, <2>1, <2>2 DEF After
<1>2. CASE ~(Len(s) >= n)
  <2>1. r.err = (IF s = <<>> THEN "EOF" ELSE "ErrUnexpectedEOF")
        BY <1>2 DEF ReadFull, Bad
  <2> QED BY <2>1
<1> QED BY <1>1, <1>2

LEMMA ShortReads ==
    ASSUME NEW s \in Seq(Nat), NEW n \in Nat, NEW r, r = ReadShort(s, n), r.err = "nil"
    PROVE  r.val = SubSeq(s, 1, n) /\ After(s, n, r.rest)
<1>1. r = ReadFull(s, n)
      BY DEF ReadShort, Bad
<1> QED BY <1>1, FullReads

\* readIP takes a length and as many bytes, or says io.EOF before either.
LEMMA AddressReads ==
    ASSUME NEW s \in Seq(Nat), NEW want \in Nat \ {0}, NEW r, r = readIP(s, want)
    PROVE  /\ r.err = "nil" => /\ r.rest \in Seq(Nat) /\ Len(s) >= 1
                               /\ Len(r.rest) = Len(s) - 1 - s[1]
           /\ r.err = "EOF" => Len(s) \in {0, 1}
<1>1. PICK n : n = ReadFull(s, 1)
      OBVIOUS
<1>2. /\ n.err = "nil" => n.val = SubSeq(s, 1, 1) /\ After(s, 1, n.rest)
      /\ n.err = "EOF" => Len(s) = 0
      BY <1>1, FullReads
<1>3. r = IF n.err # "nil" THEN n
          ELSE IF n.val[1] = 0 THEN Got(<<>>, n.rest)
          ELSE IF n.val[1] # want THEN Bad("ErrLengthInvalid")
          ELSE ReadFull(n.rest, want)
      BY <1>1 DEF readIP, Bind
<1>4. CASE n.err # "nil"
      BY <1>2, <1>3, <1>4
<1>5. CASE n.err = "nil"
  <2>1. n.val[1] = s[1] /\ n.rest \in Seq(Nat) /\ 1 <= Len(s) /\ Len(n.rest) = Len(s) - 1
        BY <1>2, <1>5 DEF After
  <2>2. CASE s[1] = 0
    <3>1. r.err = "nil" /\ r.rest = n.rest
          BY <1>3, <1>5, <2>1, <2>2 DEF Got
    <3> QED BY <2>1, <2>2, <3>1
  <2>3. CASE s[1] # 0 /\ s[1] # want
        BY <1>3, <1>5, <2>1, <2>3 DEF Bad
  <2>4. CASE s[1] # 0 /\ s[1] = want
    <3>1. r = ReadFull(n.rest, want)
          BY <1>3, <1>5, <2>1, <2>4
    <3>2. /\ r.err = "nil" => After(n.rest, want, r.rest)
          /\ r.err = "EOF" => Len(n.rest) = 0
          BY <2>1, <3>1, FullReads
    <3> QED BY <2>1, <2>4, <3>2 DEF After
  <2> QED BY <2>2, <2>3, <2>4
<1> QED BY <1>4, <1>5

\* So a Session record ends in io.EOF at one of its two addresses.
LEMMA SessionErrors ==
    ASSUME NEW s \in Seq(Nat), readSession(s).err = "EOF"
    PROVE  \/ Len(s) \in {U32 + 1, U32 + 2}
           \/ /\ Len(s) > U32 + 1
              /\ Len(s) \in {U32 + 2 + s[U32 + 2], U32 + 3 + s[U32 + 2]}
<1>a. U32 \in Nat /\ V4Len \in Nat \ {0} /\ V6Len \in Nat \ {0} /\ 1 + U32 \in Nat
      BY CodecAssumption
<1>1. PICK h : h = ReadShort(s, 1 + U32)
      OBVIOUS
<1>2. PICK v4 : v4 = readIP(h.rest, V4Len)
      OBVIOUS
<1>3. PICK v6 : v6 = readIP(v4.rest, V6Len)
      OBVIOUS
<1>4. PICK dns : dns = readDNS(v6.rest, h.val[1])
      OBVIOUS
<1>5. dns.err # "EOF"
      BY <1>4, ShortErrors DEF readDNS, Bind, Got
<1>6. readSession(s).err = IF h.err # "nil" THEN h.err
                           ELSE IF h.val[1] > MaxDNSEntries THEN "ErrFieldTooLong"
                           ELSE IF v4.err # "nil" THEN v4.err
                           ELSE IF v6.err # "nil" THEN v6.err
                           ELSE IF dns.err # "nil" THEN dns.err ELSE "nil"
      BY <1>1, <1>2, <1>3, <1>4 DEF readSession, Bind, Got, Bad
<1>7. h.err = "nil" /\ (v4.err = "EOF" \/ (v4.err = "nil" /\ v6.err = "EOF"))
      BY <1>1, <1>5, <1>6, ShortErrors
<1>8. After(s, 1 + U32, h.rest)
      BY <1>a, <1>1, <1>7, ShortReads
<1>q. PICK q \in Seq(Nat) : q = h.rest
      BY <1>8 DEF After
<1>l. PICK l \in Nat : l = Len(s)
      OBVIOUS
<1>k. PICK k \in Nat : k = Len(q)
      BY <1>q
<1>u. PICK u \in Nat : u = U32
      BY <1>a
<1>e. l = k + 1 + u
  <2>1. 1 + u <= l /\ k = l - (1 + u)
        BY <1>8, <1>q, <1>l, <1>k, <1>u DEF After
  <2> QED BY <2>1
<1>9. CASE v4.err = "EOF"
  <2>1. k = 0 \/ k = 1
        BY <1>a, <1>2, <1>q, <1>k, <1>9, AddressReads
  <2>2. l = u + 1 \/ l = u + 2
        BY <1>e, <2>1
  <2> QED BY <1>l, <1>u, <2>2
<1>10. CASE v4.err = "nil" /\ v6.err = "EOF"
  <2>1. v4.rest \in Seq(Nat) /\ k >= 1 /\ Len(v4.rest) = k - 1 - q[1]
        BY <1>a, <1>2, <1>q, <1>k, <1>10, AddressReads
  <2>2. Len(v4.rest) = 0 \/ Len(v4.rest) = 1
        BY <1>a, <1>3, <1>10, <2>1, AddressReads
  <2>3. q[1] = s[U32 + 2] /\ q[1] \in Nat
    <3>1. 1 \in 1..Len(q) /\ (1 + U32) + 1 = U32 + 2
          BY <1>a, <1>k, <2>1
    <3> QED BY <1>8, <1>q, <3>1 DEF After
  <2>4. PICK m \in Nat : m = q[1]
        BY <2>3
  <2>5. k - 1 - m = 0 \/ k - 1 - m = 1
        BY <2>1, <2>2, <2>4
  <2>6. l > u + 1 /\ (l = u + 2 + m \/ l = u + 3 + m)
        BY <1>e, <2>1, <2>5
  <2> QED BY <1>l, <1>u, <2>3, <2>4, <2>6
<1> QED BY <1>7, <1>9, <1>10

\* No other record does.
LEMMA BodyErrors ==
    \A tag, s : readBody(tag, s).err = "EOF" => tag = TagSession /\ readSession(s).err = "EOF"
<1>1. ASSUME NEW tag, NEW s, tag # TagSession PROVE readBody(tag, s).err # "EOF"
  <2>1. Bad("ErrUnknownTag").err # "EOF"
        BY DEF Bad
  <2> QED BY <1>1, <2>1, HelloErrors, KeepaliveErrors, RekeyErrors, CloseErrors, PacketErrors
          DEF readBody
<1>2. ASSUME NEW s PROVE readBody(TagSession, s) = readSession(s)
  <2>1. /\ TagSession \notin {TagIPv4, TagIPv6} /\ TagSession # TagHello
        /\ TagSession # TagKeepalive /\ TagSession # TagRekey /\ TagSession # TagClose
        BY DEF TagIPv4, TagIPv6, TagHello, TagSession, TagKeepalive, TagRekey, TagClose
  <2> QED BY <2>1 DEF readBody
<1> QED BY <1>1, <1>2

-----------------------------------------------------------------------------
(* ReadFrame *)

\* Whatever bytes are on the stream when it ends, ReadFrame says io.EOF, which
\* pumpDown takes for a graceful end, on none at all (codec.go:166-167), or on a
\* Session record cut at one of its addresses, and on nothing else.
THEOREM EOFMeansEnd ==
    \A s \in Seq(Nat) : Decode(s).err = "EOF" => s = <<>> \/ CutAtAddress(s)
<1> SUFFICES ASSUME NEW s \in Seq(Nat), Decode(s).err = "EOF", s # <<>> PROVE CutAtAddress(s)
    OBVIOUS
<1>1. PICK t : t = ReadFull(s, 1)
      OBVIOUS
<1>2. /\ t.err = "nil" => t.val = SubSeq(s, 1, 1) /\ After(s, 1, t.rest)
      /\ t.err = "EOF" => Len(s) = 0
      BY <1>1, FullReads
<1>3. PICK b : b = readBody(t.val[1], t.rest)
      OBVIOUS
<1>4. Decode(s).err = IF t.err # "nil" THEN t.err ELSE IF b.err # "nil" THEN b.err ELSE "nil"
      BY <1>1, <1>3 DEF Decode, Bind, Got
<1>5. t.err = "nil" /\ b.err = "EOF"
      BY <1>2, <1>4
<1>6. t.val[1] = TagSession /\ readSession(t.rest).err = "EOF"
      BY <1>3, <1>5, BodyErrors
<1>7. s[1] = TagSession
      BY <1>2, <1>5, <1>6 DEF After
<1>8. PICK q \in Seq(Nat) : q = t.rest
      BY <1>2, <1>5 DEF After
<1>9. /\ Len(q) = Len(s) - 1 /\ Len(s) \in Nat /\ U32 \in Nat
      /\ \A i \in 1..Len(q) : q[i] = s[1 + i]
      BY <1>2, <1>5, <1>8, CodecAssumption DEF After
<1>10. \/ Len(q) \in {U32 + 1, U32 + 2}
       \/ /\ Len(q) > U32 + 1
          /\ Len(q) \in {U32 + 2 + q[U32 + 2], U32 + 3 + q[U32 + 2]}
      BY <1>6, <1>8, SessionErrors
<1>11. CASE Len(q) \in {U32 + 1, U32 + 2}
  <2>1. Len(s) \in {U32 + 2, U32 + 2 + 1}
        BY <1>9, <1>11
  <2> QED BY <1>7, <2>1 DEF CutAtAddress
<1>12. CASE /\ Len(q) > U32 + 1
            /\ Len(q) \in {U32 + 2 + q[U32 + 2], U32 + 3 + q[U32 + 2]}
  <2>1. U32 + 2 \in 1..Len(q) /\ 1 + (U32 + 2) = U32 + 2 + 1
        BY <1>9, <1>12
  <2>2. q[U32 + 2] = s[U32 + 2 + 1] /\ q[U32 + 2] \in Nat
        BY <1>9, <2>1
  <2>3. PICK m \in Nat : m = s[U32 + 2 + 1]
        BY <2>2
  <2>4. Len(s) > U32 + 2 /\ Len(s) \in {U32 + 2 + 1 + m, U32 + 2 + 1 + m + 1}
    <3>1. PICK l \in Nat, k \in Nat : l = Len(s) /\ k = Len(q) /\ k = l - 1
          BY <1>9
    <3>2. k > U32 + 1 /\ (k = U32 + 2 + m \/ k = U32 + 3 + m)
          BY <1>12, <2>2, <2>3, <3>1
    <3>3. l > U32 + 2 /\ (l = U32 + 2 + 1 + m \/ l = U32 + 2 + 1 + m + 1)
          BY <1>9, <3>1, <3>2
    <3> QED BY <3>1, <3>3
  <2> QED BY <1>7, <2>3, <2>4 DEF CutAtAddress
<1> QED BY <1>10, <1>11, <1>12

=============================================================================
