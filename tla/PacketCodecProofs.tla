-------------------------- MODULE PacketCodecProofs --------------------------
(***************************************************************************)
(* Packets of any length and number, cut anywhere: decode keeps its place  *)
(* in the stream (DecodeInStep) and the codec takes only steps that        *)
(* PacketStream allows (CodecIsStream).  The argument has three parts: the *)
(* variable byte integer that begins a packet is read as it was written,   *)
(* for every length and every cut; the bytes of a sequence of packets      *)
(* begin with those of the first, by induction over its length; and so     *)
(* decode, on a buffer that begins with a packet's bytes, waits for the    *)
(* rest, returns exactly that packet, or refuses a malformed one.           *)
(***************************************************************************)
EXTENDS PacketCodec, WirePrimitivesProofs

-----------------------------------------------------------------------------
(***************************************************************************)
(* Padded lengths.                                                          *)
(***************************************************************************)
\* The bytes of a padded length: one front byte more, and a zero.
LEMMA PaddedBytes ==
    ASSUME NEW u \in Sizes
    PROVE  LET p == PaddedLength(u)
               n == variable_u32_binary_size(u)
           IN  /\ p \in Seq(Byte) /\ Len(p) = n + 1
               /\ \A i \in 1 .. n : p[i] >= 128
               /\ p[n + 1] = 0
               /\ n <= 3 => LengthOf(p, n + 1) = u
<1> DEFINE e == write_variable_u32(u)
           n == variable_u32_binary_size(u)
           f == [e EXCEPT ![n] = @ + 128]
           p == f \o <<0>>
<1>1. /\ n \in 1 .. 4 /\ e \in Seq(Byte) /\ Len(e) = n
      /\ \A i \in 1 .. n - 1 : e[i] >= 128
      /\ e[n] < 128 /\ LengthOf(e, n) = u
    BY WrittenLength
<1>2. p = PaddedLength(u)
    BY <1>1 DEF PaddedLength
<1> HIDE DEF e, n
<1>3. \A i \in 1 .. n : e[i] \in Nat /\ e[i] <= 255
    BY <1>1, BytesAreNat
<1>4. e[n] + 128 \in Byte
    BY <1>1, <1>3, ByteIsNat
<1>5. /\ f \in Seq(Byte) /\ Len(f) = n
      /\ \A i \in 1 .. n : f[i] = IF i = n THEN e[n] + 128 ELSE e[i]
    BY <1>1, <1>4, ExceptSeq
<1> HIDE DEF f
<1>6. 0 \in Byte
    BY ByteIsNat
<1>7. /\ p \in Seq(Byte) /\ Len(p) = n + 1
      /\ \A i \in 1 .. n : p[i] = f[i]
      /\ p[n + 1] = 0
    BY <1>1, <1>5, <1>6
<1> HIDE DEF p
<1>8. \A i \in 1 .. n : p[i] >= 128 /\ p[i] % 128 = e[i] % 128
  <2>1. \A x \in Nat : x + 128 >= 128 /\ (x + 128) % 128 = x % 128
      OBVIOUS
  <2> SUFFICES ASSUME NEW i \in 1 .. n PROVE p[i] >= 128 /\ p[i] % 128 = e[i] % 128
      OBVIOUS
  <2>2. CASE i = n
      BY <1>3, <1>5, <1>7, <2>1, <2>2
  <2>3. CASE i # n
    <3>1. i \in 1 .. n - 1 /\ p[i] = e[i]
        BY <1>1, <1>5, <1>7, <2>3
    <3> QED BY <1>1, <3>1
  <2> QED BY <2>2, <2>3
<1>9. n <= 3 => LengthOf(p, n + 1) = u
    BY <1>1, <1>7, <1>8, LengthOfSame, LengthOfZero
<1> QED BY <1>2, <1>7, <1>8, <1>9 DEF n

\* A padded length is read with its zero, unless that is a fifth byte.
LEMMA ParsePadded ==
    ASSUME NEW u \in Sizes, NEW b \in Seq(Byte),
           \A i \in 1 .. Len(b) : i <= variable_u32_binary_size(u) + 1 => b[i] = PaddedLength(u)[i]
    PROVE  parse_variable_u32(b) =
               IF Len(b) >= 4 /\ variable_u32_binary_size(u) = 4 THEN Err
               ELSE IF Len(b) <= variable_u32_binary_size(u) THEN Incomplete
               ELSE Ok(u, SubSeq(b, variable_u32_binary_size(u) + 2, Len(b)))
<1>1. PICK n, p : /\ n = variable_u32_binary_size(u) /\ p = PaddedLength(u)
                  /\ n \in 1 .. 4
                  /\ \A i \in 1 .. n : p[i] >= 128
                  /\ p[n + 1] = 0
                  /\ n <= 3 => LengthOf(p, n + 1) = u
    BY WrittenLength, PaddedBytes
<1>2. Len(b) \in Nat
    BY BytesAreNat
<1>3. CASE Len(b) >= 4 /\ n = 4
  <2>1. \A i \in 1 .. 4 : b[i] >= 128
      BY <1>1, <1>2, <1>3
  <2> QED BY <1>1, <1>3, <2>1, ParseError
<1>4. CASE Len(b) <= n /\ Len(b) <= 3
  <2>1. \A i \in 1 .. Len(b) : b[i] >= 128
      BY <1>1, <1>2, <1>4
  <2>2. ~(Len(b) >= 4)
      BY <1>2, <1>4
  <2> QED BY <1>1, <1>4, <2>1, <2>2, ParseIncomplete
<1>5. CASE Len(b) > n /\ n <= 3
  <2>1. \A i \in 1 .. n + 1 : b[i] = p[i]
      BY <1>1, <1>2, <1>5
  <2>2. /\ n \in 0 .. 3 /\ n < Len(b) /\ (\A i \in 1 .. n : b[i] >= 128) /\ b[n + 1] < 128
        /\ n + 1 \in 1 .. 4 /\ n # 4 /\ ~(Len(b) <= n)
      BY <1>1, <1>2, <1>5, <2>1
  <2>3. parse_variable_u32(b) = Ok(LengthOf(b, n + 1), SubSeq(b, n + 2, Len(b)))
      BY <2>2, ParseOk
  <2>4. LengthOf(b, n + 1) = LengthOf(p, n + 1)
      BY <2>1, <2>2, LengthOfSame
  <2>5. LengthOf(b, n + 1) = u
      BY <1>1, <1>5, <2>4
  <2> QED BY <1>1, <2>2, <2>3, <2>5
<1>6. \/ Len(b) >= 4 /\ n = 4
      \/ Len(b) <= n /\ Len(b) <= 3
      \/ Len(b) > n /\ n <= 3
    BY <1>1, <1>2
<1> QED BY <1>3, <1>4, <1>5, <1>6

-----------------------------------------------------------------------------
(***************************************************************************)
(* The bytes of a packet and what decode makes of them.                     *)
(***************************************************************************)
LengthField(s) ==
    IF s.padded THEN PaddedLength(Len(s.packet.body)) ELSE write_variable_u32(Len(s.packet.body))

\* A packet is its first byte, its length and its body.
LEMMA PacketBytes ==
    ASSUME NEW s \in Sendable
    PROVE  /\ s.padded \in BOOLEAN /\ s.packet.header \in Byte
           /\ s.packet.body \in Seq(Byte) /\ Len(s.packet.body) \in Sizes
           /\ LengthField(s) \in Seq(Byte) /\ Len(LengthField(s)) \in 1 .. 5
           /\ Bytes(s) \in Seq(Byte)
           /\ Len(Bytes(s)) = 1 + Len(LengthField(s)) + Len(s.packet.body)
           /\ Bytes(s)[1] = s.packet.header
           /\ \A i \in 1 .. Len(LengthField(s)) : Bytes(s)[i + 1] = LengthField(s)[i]
           /\ \A i \in 1 .. Len(s.packet.body) :
                 Bytes(s)[i + 1 + Len(LengthField(s))] = s.packet.body[i]
<1>1. /\ s.padded \in BOOLEAN /\ s.packet \in Messages
    BY DEF Sendable
<1>2. /\ s.packet.header \in Byte /\ s.packet.body \in Seq(Byte)
      /\ Len(s.packet.body) <= VARIABLE_INTEGER_MAX
    BY <1>1, PacketAssumption
<1>3. PICK h, body : /\ h = s.packet.header /\ body = s.packet.body
                     /\ h \in Byte /\ body \in Seq(Byte) /\ Len(body) \in Sizes
    BY <1>2 DEF Sizes
<1>4. PICK l : /\ l = LengthField(s) /\ l \in Seq(Byte) /\ Len(l) \in 1 .. 5
  <2>1. CASE s.padded
    <3>1. PICK p, n : /\ p = PaddedLength(Len(body)) /\ n = variable_u32_binary_size(Len(body))
                      /\ p \in Seq(Byte) /\ Len(p) = n + 1 /\ n \in 1 .. 4
        BY <1>3, PaddedBytes, WrittenLength, Zenon
    <3>2. Len(p) \in 1 .. 5
        BY <3>1
    <3> QED BY <1>3, <2>1, <3>1, <3>2 DEF LengthField
  <2>2. CASE ~s.padded
    <3>1. PICK e, n : /\ e = write_variable_u32(Len(body)) /\ n = variable_u32_binary_size(Len(body))
                      /\ e \in Seq(Byte) /\ Len(e) = n /\ n \in 1 .. 4
        BY <1>3, WrittenLength, Zenon
    <3>2. Len(e) \in 1 .. 5
        BY <3>1
    <3> QED BY <1>3, <2>2, <3>1, <3>2 DEF LengthField
  <2> QED BY <2>1, <2>2
<1>5. Bytes(s) = (<<h>> \o l) \o body
    BY <1>3, <1>4, Zenon DEF Bytes, LengthField
<1>5a. h \in Byte /\ l \in Seq(Byte) /\ body \in Seq(Byte)
    BY <1>3, <1>4
<1> DEFINE hl == <<h>> \o l
<1>6. /\ hl \in Seq(Byte) /\ Len(hl) = 1 + Len(l)
      /\ hl[1] = h /\ \A i \in 1 .. Len(l) : hl[i + 1] = l[i]
    BY <1>5a, Headed
<1>6a. Bytes(s) = hl \o body
    BY <1>5
<1> HIDE DEF hl
<1>6b. hl \in Seq(Byte) /\ body \in Seq(Byte)
    BY <1>5a, <1>6
<1> DEFINE b == hl \o body
<1>7. /\ b \in Seq(Byte) /\ Len(b) = Len(hl) + Len(body)
      /\ \A i \in 1 .. Len(hl) : b[i] = hl[i]
      /\ \A i \in 1 .. Len(body) : b[i + Len(hl)] = body[i]
    BY <1>6b
<1>10. b = Bytes(s)
    BY <1>6a
<1> HIDE DEF b
<1>8. b[1] = h /\ \A i \in 1 .. Len(l) : b[i + 1] = l[i]
    BY <1>4, <1>6, <1>7
<1>9. \A i \in 1 .. Len(body) : b[i + 1 + Len(l)] = body[i]
  <2> SUFFICES ASSUME NEW i \in 1 .. Len(body) PROVE b[i + 1 + Len(l)] = body[i]
      OBVIOUS
  <2>1. Len(body) \in Nat
      BY <1>3
  <2>2. i + 1 + Len(l) = i + Len(hl)
      BY <1>4, <1>6, <2>1
  <2> QED BY <1>7, <2>2
<1>11. Len(b) = 1 + Len(l) + Len(body)
    BY <1>6, <1>7, Zenon
<1> QED BY <1>1, <1>3, <1>4, <1>7, <1>8, <1>9, <1>10, <1>11, Zenon

\* A whole packet is parsed, unless it has no type.
LEMMA ParseCompletePacket ==
    ASSUME NEW s \in Sendable, ~s.padded
    PROVE  parse_complete(Bytes(s)) =
               IF s.packet.header = NoType THEN Err ELSE Ok(s.packet, <<>>)
<1>1. PICK h, body, l, u, n, b :
        /\ h = s.packet.header /\ body = s.packet.body /\ l = LengthField(s) /\ b = Bytes(s)
        /\ u = Len(body) /\ n = Len(l)
    OBVIOUS
<1>2. /\ h \in Byte /\ body \in Seq(Byte) /\ u \in Sizes
      /\ b \in Seq(Byte) /\ Len(b) = 1 + n + u /\ b[1] = h
      /\ \A i \in 1 .. n : b[i + 1] = l[i]
      /\ \A i \in 1 .. u : b[i + 1 + n] = body[i]
    BY <1>1, PacketBytes
<1>3. l = write_variable_u32(u) /\ n = variable_u32_binary_size(u) /\ n \in 1 .. 4 /\ u \in Nat
    BY <1>1, <1>2, WrittenLength DEF LengthField, Sizes
<1> DEFINE t == Tail(b)
<1>4. /\ t \in Seq(Byte) /\ Len(t) = n + u
      /\ \A i \in 1 .. n + u : t[i] = b[i + 1]
  <2>1. b \in Seq(Byte) /\ b # <<>> /\ Len(b) - 1 = n + u
      BY <1>2, <1>3
  <2>2. /\ t \in Seq(Byte) /\ Len(t) = Len(b) - 1
        /\ \A i \in 1 .. Len(b) - 1 : t[i] = b[i + 1]
      BY <2>1, Tailed
  <2> HIDE DEF t
  <2> QED BY <2>1, <2>2
<1> HIDE DEF t
<1> DEFINE rest == SubSeq(t, n + 1, Len(t))
<1>5. /\ rest \in Seq(Byte) /\ Len(rest) = u
      /\ \A i \in 1 .. u : rest[i] = t[i + n]
  <2>1. n \in Nat /\ n <= Len(t) /\ Len(t) - n = u /\ t \in Seq(Byte)
    <3>1. n \in Nat /\ n <= n + u /\ (n + u) - n = u
        BY <1>3
    <3> QED BY <1>4, <3>1
  <2>2. /\ rest \in Seq(Byte) /\ Len(rest) = Len(t) - n
        /\ \A i \in 1 .. Len(t) - n : rest[i] = t[i + n]
      BY <2>1, Dropped
  <2> HIDE DEF rest
  <2> QED BY <2>1, <2>2
<1>5a. rest = SubSeq(t, n + 1, Len(t))
    OBVIOUS
<1> HIDE DEF rest
<1>6. parse_variable_u32(t) = Ok(u, rest)
  <2>1. ASSUME NEW i \in 1 .. Len(t), i <= n PROVE t[i] = l[i]
    <3>1. i \in 1 .. n /\ i \in 1 .. n + u
        BY <1>3, <1>4, <2>1
    <3> QED BY <1>2, <1>4, <3>1
  <2>2. ~(Len(t) < n)
      BY <1>3, <1>4
  <2> QED BY <1>2, <1>3, <1>4, <1>5a, <2>1, <2>2, ParseWritten
<1>7. rest = body
  <2>1. ASSUME NEW i \in 1 .. u PROVE rest[i] = body[i]
    <3>1. i + n \in 1 .. n + u /\ i + n + 1 = i + 1 + n
        BY <1>3
    <3>2. rest[i] = t[i + n] /\ t[i + n] = b[i + n + 1] /\ b[i + 1 + n] = body[i]
        BY <1>2, <1>4, <1>5, <3>1
    <3> QED BY <3>1, <3>2
  <2>2. rest \in Seq(Byte) /\ body \in Seq(Byte) /\ Len(rest) = Len(body)
        /\ \A i \in 1 .. Len(rest) : rest[i] = body[i]
      BY <1>1, <1>2, <1>5, <2>1
  <2> QED BY <2>2, SeqEqual
<1>8. take(u, body) = Ok(body, <<>>)
  <2>1. SubSeq(body, 1, u) = body /\ SubSeq(body, u + 1, u) = <<>> /\ ~(u < u)
      BY <1>1, <1>2, <1>3
  <2> QED BY <1>1, <2>1 DEF take
<1>9. s.packet = [header |-> h, body |-> body]
    BY <1>1, PacketAssumption DEF Sendable
<1> QED BY <1>1, <1>2, <1>4, <1>6, <1>7, <1>8, <1>9 DEF t, parse_complete, Ok, IsOk

\* What is left of a padded packet when a byte is missing at its end, which is
\* what decode takes, is not parsed: total_packet_length counts the bytes that
\* the length needs.
LEMMA ParsePaddedPacket ==
    ASSUME NEW s \in Sendable, s.padded, NEW b \in Seq(Byte),
           Len(b) + 1 = Len(Bytes(s)), \A i \in 1 .. Len(b) : b[i] = Bytes(s)[i]
    PROVE  ~IsOk(parse_complete(b))
<1>1. PICK body, l, u, n, t :
        /\ body = s.packet.body /\ l = LengthField(s) /\ t = Tail(b)
        /\ u = Len(body) /\ n = variable_u32_binary_size(u)
    OBVIOUS
<1>2. /\ u \in Sizes /\ Len(Bytes(s)) = 1 + Len(l) + u
      /\ \A i \in 1 .. Len(l) : Bytes(s)[i + 1] = l[i]
    BY <1>1, PacketBytes
<1>3. l = PaddedLength(u) /\ n \in 1 .. 4 /\ u \in Nat /\ Len(l) = n + 1
  <2>1. l = PaddedLength(u)
      BY <1>1 DEF LengthField
  <2>2. n \in 1 .. 4
      BY <1>1, <1>2, WrittenLength
  <2>3. Len(PaddedLength(u)) = n + 1
      BY <1>1, <1>2, PaddedBytes, Zenon
  <2> QED BY <1>2, <2>1, <2>2, <2>3 DEF Sizes
<1>4. Len(b) = 1 + n + u
  <2>1. Len(b) \in Nat
      OBVIOUS
  <2> QED BY <1>2, <1>3, <2>1
<1>5. /\ t \in Seq(Byte) /\ Len(t) = n + u
      /\ \A i \in 1 .. n + u : t[i] = b[i + 1]
  <2>1. b \in Seq(Byte) /\ b # <<>> /\ Len(b) - 1 = n + u
      BY <1>3, <1>4
  <2>2. /\ Tail(b) \in Seq(Byte) /\ Len(Tail(b)) = Len(b) - 1
        /\ \A i \in 1 .. Len(b) - 1 : Tail(b)[i] = b[i + 1]
      BY <2>1, Tailed
  <2> QED BY <1>1, <2>1, <2>2
<1>6. ASSUME NEW i \in 1 .. Len(t), i <= n + 1 PROVE t[i] = PaddedLength(u)[i]
  <2>1. i \in 1 .. n + u /\ i \in 1 .. Len(l) /\ i + 1 \in 1 .. Len(b)
      BY <1>3, <1>4, <1>5, <1>6
  <2> QED BY <1>2, <1>3, <1>5, <2>1
<1>7. parse_variable_u32(t) = IF Len(t) >= 4 /\ n = 4 THEN Err
                              ELSE IF Len(t) <= n THEN Incomplete
                              ELSE Ok(u, SubSeq(t, n + 2, Len(t)))
  <2>1. u \in Sizes /\ t \in Seq(Byte)
      BY <1>2, <1>5
  <2>2. \A i \in 1 .. Len(t) : i <= variable_u32_binary_size(u) + 1 => t[i] = PaddedLength(u)[i]
      BY <1>1, <1>6, Zenon
  <2>3. n = variable_u32_binary_size(u)
      BY <1>1
  <2> QED BY <2>1, <2>2, <2>3, ParsePadded, Zenon
<1>8. CASE (Len(t) >= 4 /\ n = 4) \/ Len(t) <= n
  <2>1. ~IsOk(parse_variable_u32(t))
      BY <1>7, <1>8 DEF IsOk, Err, Incomplete
  <2> QED BY <1>1, <2>1 DEF parse_complete, IsOk, Err
<1>9. CASE ~((Len(t) >= 4 /\ n = 4) \/ Len(t) <= n)
  <2>1. PICK rest : rest = SubSeq(t, n + 2, Len(t))
      OBVIOUS
  <2>2. Len(rest) < u
    <3>1. n + 1 \in Nat /\ n + 1 <= Len(t) /\ Len(t) - (n + 1) < u /\ (n + 1) + 1 = n + 2
        BY <1>3, <1>5, <1>9
    <3>2. Len(SubSeq(t, (n + 1) + 1, Len(t))) = Len(t) - (n + 1)
        BY <1>5, <3>1, Dropped
    <3> QED BY <2>1, <3>1, <3>2
  <2>3. parse_variable_u32(t) = Ok(u, rest)
      BY <1>7, <1>9, <2>1
  <2>4. take(u, rest) = Err
      BY <2>2 DEF take
  <2> QED BY <1>1, <2>3, <2>4 DEF parse_complete, IsOk, Err, Ok
<1> QED BY <1>8, <1>9

\* The start of a packet, or more than it, is in the buffer: decode asks for
\* more, fails on a malformed packet, or returns it and takes it off.
Waits(s) == NeedsMore /\ Len(src) < Len(Bytes(s))
Refuses(s) == Failed /\ Malformed(s) /\ src' \in Seq(Byte)
Returns(s) ==
    /\ ~Malformed(s) /\ Len(Bytes(s)) <= Len(src)
    /\ src' = SubSeq(src, Len(Bytes(s)) + 1, Len(src))
    /\ received' = Append(received, s)
    /\ UNCHANGED <<sent, wire, is_readable, end>>

\* decode, for a length that is read from the buffer.
LEMMA DecodeLength ==
    ASSUME decode, Len(src) \in Nat, Len(src) >= 2
    PROVE  LET len == parse_variable_u32(Tail(src))
           IN  \/ len.kind = "incomplete" /\ NeedsMore
               \/ len.kind = "error" /\ Failed /\ UNCHANGED src
               \/ IsOk(len) /\ DecodedOrWaiting(total_packet_length(len.value))
<1>1. ~(Len(src) < 2)
    OBVIOUS
<1> QED BY <1>1, Zenon DEF decode

\* Whatever follows the packet in the buffer, and however much of it is there.
LEMMA DecodeSound ==
    ASSUME decode, src \in Seq(Byte), NEW s \in Sendable,
           \A i \in 1 .. Len(src) : i <= Len(Bytes(s)) => src[i] = Bytes(s)[i]
    PROVE  Waits(s) \/ Refuses(s) \/ Returns(s)
<1>1. PICK l, u, n, b :
        /\ l = LengthField(s) /\ u = Len(s.packet.body) /\ b = Bytes(s)
        /\ n = variable_u32_binary_size(u)
    OBVIOUS
<1>2. /\ u \in Sizes /\ b \in Seq(Byte) /\ Len(b) = 1 + Len(l) + u
      /\ \A i \in 1 .. Len(l) : b[i + 1] = l[i]
    BY <1>1, PacketBytes
<1>3. n \in 1 .. 4 /\ u \in Nat
    BY <1>1, <1>2, WrittenLength DEF Sizes
<1>4. l = IF s.padded THEN PaddedLength(u) ELSE write_variable_u32(u)
    BY <1>1, Zenon DEF LengthField
<1>5. Len(l) = IF s.padded THEN n + 1 ELSE n
  <2>1. CASE s.padded
    <3>1. Len(PaddedLength(u)) = n + 1
        BY <1>1, <1>2, PaddedBytes, Zenon
    <3> QED BY <1>4, <2>1, <3>1
  <2>2. CASE ~s.padded
    <3>1. Len(write_variable_u32(u)) = n
        BY <1>1, <1>2, WrittenLength, Zenon
    <3> QED BY <1>4, <2>2, <3>1
  <2> QED BY <2>1, <2>2
<1>6. Len(l) \in 1 .. 5 /\ Len(b) \in Nat /\ Len(src) \in Nat /\ Len(b) >= 2
    BY <1>2, <1>3, <1>5
<1>7. CASE Len(src) < 2
  <2>1. NeedsMore
      BY <1>6, <1>7 DEF decode
  <2>2. Len(src) < Len(b)
      BY <1>6, <1>7
  <2> QED BY <1>1, <2>1, <2>2 DEF Waits
<1>8. CASE Len(src) >= 2
  <2>1. PICK t, len : t = Tail(src) /\ len = parse_variable_u32(t)
      OBVIOUS
  <2>2. /\ t \in Seq(Byte) /\ Len(t) = Len(src) - 1
        /\ \A i \in 1 .. Len(src) - 1 : t[i] = src[i + 1]
    <3>1. src \in Seq(Byte) /\ src # <<>>
        BY <1>8
    <3>2. /\ Tail(src) \in Seq(Byte) /\ Len(Tail(src)) = Len(src) - 1
          /\ \A i \in 1 .. Len(src) - 1 : Tail(src)[i] = src[i + 1]
        BY <3>1, Tailed
    <3> QED BY <2>1, <3>2
  <2>3. ASSUME NEW i \in 1 .. Len(t), i <= Len(l) PROVE t[i] = l[i]
    <3>1. /\ i \in 1 .. Len(src) - 1 /\ i \in 1 .. Len(l)
          /\ i + 1 \in 1 .. Len(src) /\ i + 1 <= Len(b)
        BY <1>2, <1>3, <1>6, <2>2, <2>3
    <3>2. t[i] = src[i + 1] /\ src[i + 1] = b[i + 1] /\ b[i + 1] = l[i]
        BY <1>1, <1>2, <2>2, <3>1
    <3> QED BY <3>2
  <2>4. \/ len.kind = "incomplete" /\ NeedsMore
        \/ len.kind = "error" /\ Failed /\ UNCHANGED src
        \/ IsOk(len) /\ DecodedOrWaiting(total_packet_length(len.value))
      BY <1>6, <1>8, <2>1, DecodeLength
  <2>5. total_packet_length(u) = 1 + n + u
      BY <1>1 DEF total_packet_length
  <2>6. CASE ~s.padded
    <3>1. len = IF Len(t) < n THEN Incomplete ELSE Ok(u, SubSeq(t, n + 1, Len(t)))
      <4>1. u \in Sizes /\ t \in Seq(Byte)
          BY <1>2, <2>2
      <4>2. Len(l) = n /\ l = write_variable_u32(u)
          BY <1>4, <1>5, <2>6
      <4>3. \A i \in 1 .. Len(t) :
              i <= variable_u32_binary_size(u) => t[i] = write_variable_u32(u)[i]
          BY <1>1, <2>3, <4>2, Zenon
      <4> QED BY <1>1, <2>1, <4>1, <4>3, ParseWritten, Zenon
    <3>2. CASE Len(t) < n
      <4>1. NeedsMore
          BY <2>4, <3>1, <3>2 DEF Incomplete, IsOk
      <4>2. Len(src) < Len(b)
          BY <1>2, <1>3, <1>5, <1>6, <2>2, <2>6, <3>2
      <4> QED BY <1>1, <4>1, <4>2 DEF Waits
    <3>3. CASE ~(Len(t) < n)
      <4>1. DecodedOrWaiting(1 + n + u)
          BY <2>4, <2>5, <3>1, <3>3 DEF Ok, IsOk
      <4>2. 1 + n + u = Len(b)
          BY <1>2, <1>5, <2>6
      <4>3. CASE Len(src) < Len(b)
        <5>1. NeedsMore
            BY <1>6, <4>1, <4>2, <4>3 DEF DecodedOrWaiting
        <5> QED BY <1>1, <4>3, <5>1 DEF Waits
      <4>4. CASE Len(src) >= Len(b)
        <5>1. Decoded(Len(b))
            BY <1>6, <4>1, <4>2, <4>4 DEF DecodedOrWaiting
        <5>2. SubSeq(src, 1, Len(b)) = b
          <6>1. Len(b) \in Nat /\ Len(b) <= Len(src) /\ src \in Seq(Byte)
              BY <1>6, <4>4
          <6> DEFINE f == SubSeq(src, 1, Len(b))
          <6>2. f \in Seq(Byte) /\ Len(f) = Len(b) /\ \A i \in 1 .. Len(b) : f[i] = src[i]
              BY <6>1, Kept
          <6> HIDE DEF f
          <6>3. ASSUME NEW i \in 1 .. Len(f) PROVE f[i] = b[i]
            <7>1. i \in 1 .. Len(b) /\ i \in 1 .. Len(src) /\ i <= Len(b)
                BY <6>1, <6>2
            <7> QED BY <1>1, <6>2, <7>1
          <6>4. f = b
              BY <1>2, <6>2, <6>3, SeqEqual
          <6> QED BY <6>4 DEF f
        <5>3. parse_complete(b) = IF s.packet.header = NoType THEN Err ELSE Ok(s.packet, <<>>)
            BY <1>1, <2>6, ParseCompletePacket
        <5>4. src' = SubSeq(src, Len(b) + 1, Len(src))
            BY <5>1 DEF Decoded
        <5>4a. PICK r : /\ r = parse_complete(b)
                        /\ \/ ~IsOk(r) /\ Failed
                           \/ /\ IsOk(r)
                              /\ received' = Append(received, [packet |-> r.value, padded |-> FALSE])
                              /\ UNCHANGED <<sent, wire, is_readable, end>>
            BY <5>1, <5>2, Zenon DEF Decoded
        <5>5. CASE s.packet.header = NoType
          <6>1. Failed
              BY <5>3, <5>4a, <5>5 DEF Err, IsOk
          <6>2. src' \in Seq(Byte)
            <7>1. Len(b) \in Nat /\ Len(b) <= Len(src) /\ src \in Seq(Byte)
                BY <1>6, <4>4
            <7>2. SubSeq(src, Len(b) + 1, Len(src)) \in Seq(Byte)
                BY <7>1, Dropped
            <7> QED BY <5>4, <7>2
          <6> QED BY <5>5, <6>1, <6>2 DEF Refuses, Malformed
        <5>6. CASE s.packet.header # NoType
          <6>1. /\ received' = Append(received, [packet |-> s.packet, padded |-> FALSE])
                /\ UNCHANGED <<sent, wire, is_readable, end>>
              BY <5>3, <5>4a, <5>6 DEF Ok, IsOk
          <6>2. s = [packet |-> s.packet, padded |-> FALSE]
              BY <2>6 DEF Sendable
          <6>3. ~Malformed(s)
              BY <2>6, <5>6 DEF Malformed
          <6>4. received' = Append(received, s)
              BY <6>1, <6>2
          <6>5. Len(b) <= Len(src)
              BY <1>6, <4>4
          <6> QED BY <1>1, <5>4, <6>1, <6>3, <6>4, <6>5, Zenon DEF Returns
        <5> QED BY <5>5, <5>6
      <4> QED BY <1>6, <4>3, <4>4
    <3> QED BY <3>2, <3>3
  <2>7. CASE s.padded
    <3>0. Malformed(s)
        BY <2>7 DEF Malformed
    <3>1. len = IF Len(t) >= 4 /\ n = 4 THEN Err
                ELSE IF Len(t) <= n THEN Incomplete
                ELSE Ok(u, SubSeq(t, n + 2, Len(t)))
      <4>1. u \in Sizes /\ t \in Seq(Byte)
          BY <1>2, <2>2
      <4>2. Len(l) = n + 1 /\ l = PaddedLength(u)
          BY <1>4, <1>5, <2>7
      <4>3. \A i \in 1 .. Len(t) :
              i <= variable_u32_binary_size(u) + 1 => t[i] = PaddedLength(u)[i]
          BY <1>1, <2>3, <4>2, Zenon
      <4> QED BY <1>1, <2>1, <4>1, <4>3, ParsePadded, Zenon
    <3>2. CASE Len(t) >= 4 /\ n = 4
      <4>1. Failed /\ UNCHANGED src
          BY <2>4, <3>1, <3>2 DEF Err, IsOk
      <4> QED BY <3>0, <4>1 DEF Refuses
    <3>3. CASE ~(Len(t) >= 4 /\ n = 4) /\ Len(t) <= n
      <4>1. NeedsMore
          BY <2>4, <3>1, <3>3 DEF Incomplete, IsOk
      <4>2. Len(src) < Len(b)
          BY <1>2, <1>3, <1>5, <1>6, <2>2, <2>7, <3>3
      <4> QED BY <1>1, <4>1, <4>2 DEF Waits
    <3>4. CASE ~(Len(t) >= 4 /\ n = 4) /\ ~(Len(t) <= n)
      <4>1. DecodedOrWaiting(1 + n + u)
          BY <2>4, <2>5, <3>1, <3>4 DEF Ok, IsOk
      <4>2. PICK k : k = 1 + n + u /\ k \in Nat /\ k + 1 = Len(b)
          BY <1>2, <1>3, <1>5, <2>7
      <4>3. CASE Len(src) < k
        <5>1. NeedsMore
            BY <1>6, <4>1, <4>2, <4>3 DEF DecodedOrWaiting
        <5>2. Len(src) < Len(b)
            BY <1>6, <4>2, <4>3
        <5> QED BY <1>1, <5>1, <5>2 DEF Waits
      <4>4. CASE Len(src) >= k
        <5>1. Decoded(k)
            BY <1>6, <4>1, <4>2, <4>4 DEF DecodedOrWaiting
        <5>2. k \in Nat /\ k <= Len(src) /\ src \in Seq(Byte)
            BY <1>6, <4>2, <4>4
        <5> DEFINE f == SubSeq(src, 1, k)
        <5>3. f \in Seq(Byte) /\ Len(f) = k /\ \A i \in 1 .. k : f[i] = src[i]
            BY <5>2, Kept
        <5> HIDE DEF f
        <5>4. ASSUME NEW i \in 1 .. Len(f) PROVE f[i] = b[i]
          <6>1. i \in 1 .. k /\ i \in 1 .. Len(src) /\ i <= Len(b)
              BY <1>6, <4>2, <5>2, <5>3
          <6> QED BY <1>1, <5>3, <6>1
        <5>5. ~IsOk(parse_complete(f))
          <6>1. Len(f) + 1 = Len(Bytes(s)) /\ f \in Seq(Byte)
              BY <1>1, <4>2, <5>3
          <6>2. \A i \in 1 .. Len(f) : f[i] = Bytes(s)[i]
              BY <1>1, <5>4
          <6> QED BY <2>7, <6>1, <6>2, ParsePaddedPacket, Zenon
        <5>6. Failed /\ src' = SubSeq(src, k + 1, Len(src))
            BY <5>1, <5>5 DEF Decoded, f
        <5>7. src' \in Seq(Byte)
          <6>1. SubSeq(src, k + 1, Len(src)) \in Seq(Byte)
              BY <5>2, Dropped
          <6> QED BY <5>6, <6>1
        <5> QED BY <3>0, <5>6, <5>7 DEF Refuses
      <4> QED BY <1>6, <4>2, <4>3, <4>4
    <3> QED BY <3>2, <3>3, <3>4
  <2> QED BY <2>6, <2>7
<1> QED BY <1>6, <1>7, <1>8

-----------------------------------------------------------------------------
(***************************************************************************)
(* The bytes of the packets that are not yet received.                      *)
(***************************************************************************)
LEMMA Split ==
    ASSUME NEW S, NEW x \in Seq(S), NEW n \in Nat, n <= Len(x)
    PROVE  SubSeq(x, 1, n) \o SubSeq(x, n + 1, Len(x)) = x
<1> DEFINE a == SubSeq(x, 1, n)
           c == SubSeq(x, n + 1, Len(x))
<1>1. a \in Seq(S) /\ Len(a) = n /\ \A i \in 1 .. n : a[i] = x[i]
    BY Kept
<1>2. c \in Seq(S) /\ Len(c) = Len(x) - n /\ \A i \in 1 .. Len(x) - n : c[i] = x[i + n]
    BY Dropped
<1> HIDE DEF a, c
<1>0. a \in Seq(S) /\ c \in Seq(S)
    BY <1>1, <1>2
<1> DEFINE j == a \o c
<1>3. /\ j \in Seq(S) /\ Len(j) = Len(a) + Len(c)
      /\ \A i \in 1 .. Len(a) : j[i] = a[i]
      /\ \A i \in 1 .. Len(c) : j[i + Len(a)] = c[i]
    BY <1>0
<1> HIDE DEF j
<1>4. Len(x) \in Nat /\ Len(j) = Len(x)
    BY <1>1, <1>2, <1>3
<1>5. ASSUME NEW i \in 1 .. Len(j) PROVE j[i] = x[i]
  <2>1. CASE i <= n
    <3>1. i \in 1 .. n
        BY <2>1
    <3> QED BY <1>1, <1>3, <3>1
  <2>2. CASE ~(i <= n)
    <3>1. PICK k \in Nat : k + n = i /\ k \in 1 .. Len(x) - n
        BY <1>4, <2>2
    <3> QED BY <1>1, <1>2, <1>3, <3>1
  <2> QED BY <2>1, <2>2
<1>6. j = x
    BY <1>3, <1>4, <1>5, SeqEqual
<1> QED BY <1>6 DEF j, a, c

\* One of two sequences that begin the same way begins the other, ...
LEMMA SameStart ==
    ASSUME NEW S, NEW x \in Seq(S), NEW y \in Seq(S), NEW z \in Seq(S), NEW w \in Seq(S),
           x \o y = z \o w
    PROVE  \A i \in 1 .. Len(x) : i <= Len(z) => x[i] = z[i]
<1>1. \A i \in 1 .. Len(x) : (x \o y)[i] = x[i]
    BY Joined
<1>2. \A i \in 1 .. Len(z) : (z \o w)[i] = z[i]
    BY Joined
<1> QED BY <1>1, <1>2

\* ... and what comes after the shorter one is the rest of the longer one.
LEMMA Cancel ==
    ASSUME NEW S, NEW x \in Seq(S), NEW y \in Seq(S), NEW z \in Seq(S), NEW w \in Seq(S),
           x \o y = z \o w, Len(z) <= Len(x)
    PROVE  SubSeq(x, Len(z) + 1, Len(x)) \o y = w
<1> DEFINE a == SubSeq(x, 1, Len(z))
           c == SubSeq(x, Len(z) + 1, Len(x))
<1>0. Len(z) \in Nat
    OBVIOUS
<1>1. a \in Seq(S) /\ Len(a) = Len(z) /\ \A i \in 1 .. Len(z) : a[i] = x[i]
    BY <1>0, Kept
<1>2. c \in Seq(S)
    BY <1>0, Dropped
<1>3. a \o c = x
    BY <1>0, Split
<1> HIDE DEF a, c
<1>4. \A i \in 1 .. Len(x) : i <= Len(z) => x[i] = z[i]
    BY SameStart, Zenon
<1>5. a = z
  <2>1. ASSUME NEW i \in 1 .. Len(a) PROVE a[i] = z[i]
    <3>1. i \in 1 .. Len(x) /\ i <= Len(z) /\ i \in 1 .. Len(z)
        BY <1>0, <1>1
    <3> QED BY <1>1, <1>4, <3>1
  <2> QED BY <1>1, <2>1, SeqEqual
<1>6. z \o (c \o y) = z \o w
  <2>1. x = z \o c
      BY <1>3, <1>5
  <2>2. Regroups(z, c, y)
      BY <1>2, Associative, Zenon
  <2> QED BY <2>1, <2>2, Zenon DEF Regroups
<1>7. c \o y \in Seq(S)
    BY <1>2
<1>8. c \o y = w
    BY <1>6, <1>7, ConcatSimplifications
<1> QED BY <1>8 DEF c

Pending(sn, n) == [i \in 1 .. Len(sn) - n |-> Bytes(sn[n + i])]
Rest(sn, n) == FlattenSeq(Pending(sn, n))
PacketWords == {Bytes(s) : s \in Sendable}

\* Packets are sequences of bytes.
LEMMA WordsNested == Nested(PacketWords, Byte)
BY PacketBytes, Zenon DEF Nested, PacketWords

\* The packets not yet received, one by one.
LEMMA PendingType ==
    ASSUME NEW sn \in Seq(Sendable), NEW n \in Nat, n <= Len(sn)
    PROVE  /\ Pending(sn, n) \in Seq(PacketWords)
           /\ Len(Pending(sn, n)) = Len(sn) - n
           /\ \A i \in 1 .. Len(sn) - n :
                 Pending(sn, n)[i] = Bytes(sn[n + i]) /\ sn[n + i] \in Sendable
<1>1. PICK k \in Nat : k = Len(sn) - n
    OBVIOUS
<1>2. ASSUME NEW i \in 1 .. k PROVE sn[n + i] \in Sendable
  <2>1. n + i \in 1 .. Len(sn)
      BY <1>1
  <2> QED BY <2>1
<1>3. ASSUME NEW i \in 1 .. k PROVE Bytes(sn[n + i]) \in PacketWords
    BY <1>2, Zenon DEF PacketWords
<1> DEFINE p == [i \in 1 .. k |-> Bytes(sn[n + i])]
<1>4. p \in Seq(PacketWords) /\ Len(p) = k /\ \A i \in 1 .. k : p[i] = Bytes(sn[n + i])
    BY <1>3
<1>5. p = Pending(sn, n)
    BY <1>1, Zenon DEF Pending
<1> QED BY <1>1, <1>2, <1>4, <1>5

\* Their bytes are bytes, ...
LEMMA RestType ==
    ASSUME NEW sn \in Seq(Sendable), NEW n \in Nat, n <= Len(sn)
    PROVE  Rest(sn, n) \in Seq(Byte)
<1>1. Pending(sn, n) \in Seq(PacketWords)
    BY PendingType
<1> QED BY <1>1, WordsNested, FlattenType, Zenon DEF Rest

\* ... none when all are received, ...
LEMMA RestNone ==
    ASSUME NEW sn \in Seq(Sendable), NEW n \in Nat, n = Len(sn)
    PROVE  Rest(sn, n) = <<>>
<1>1. n <= Len(sn) /\ Len(sn) - n = 0
    OBVIOUS
<1>2. Pending(sn, n) \in Seq(PacketWords) /\ Len(Pending(sn, n)) = 0
    BY <1>1, PendingType
<1>3. Pending(sn, n) = <<>>
    BY <1>2, EmptySeq
<1> QED BY <1>3, FlattenEmpty DEF Rest

\* ... end with what is sent now, ...
LEMMA RestAppend ==
    ASSUME NEW sn \in Seq(Sendable), NEW n \in Nat, n <= Len(sn), NEW s \in Sendable
    PROVE  Rest(Append(sn, s), n) = Rest(sn, n) \o Bytes(s)
<1>1. PICK r, k : r = Append(sn, s) /\ k = Len(sn) - n
    OBVIOUS
<1>2. /\ r \in Seq(Sendable) /\ Len(r) = Len(sn) + 1
      /\ (\A i \in 1 .. Len(sn) : r[i] = sn[i]) /\ r[Len(sn) + 1] = s
    BY <1>1, AppendProperties
<1>3. /\ k \in Nat /\ n <= Len(r) /\ Len(r) - n = k + 1 /\ n + (k + 1) = Len(sn) + 1
      /\ Len(sn) \in Nat
    BY <1>1, <1>2
<1>4. PICK p, q : p = Pending(sn, n) /\ q = Pending(r, n)
    OBVIOUS
<1>5. p \in Seq(PacketWords) /\ Len(p) = k /\ \A i \in 1 .. k : p[i] = Bytes(sn[n + i])
    BY <1>1, <1>4, PendingType
<1>6. q \in Seq(PacketWords) /\ Len(q) = k + 1 /\ \A i \in 1 .. k + 1 : q[i] = Bytes(r[n + i])
    BY <1>2, <1>3, <1>4, PendingType
<1>7. Bytes(s) \in PacketWords
    BY Zenon DEF PacketWords
<1>8. q = Append(p, Bytes(s))
  <2> DEFINE a == Append(p, Bytes(s))
  <2>1. /\ a \in Seq(PacketWords) /\ Len(a) = k + 1
        /\ (\A i \in 1 .. k : a[i] = p[i]) /\ a[k + 1] = Bytes(s)
      BY <1>5, <1>7, AppendProperties
  <2> HIDE DEF a
  <2>2. ASSUME NEW i \in 1 .. Len(a) PROVE a[i] = q[i]
    <3>1. CASE i = k + 1
      <4>1. k + 1 \in 1 .. k + 1
          BY <1>3
      <4> QED BY <1>2, <1>3, <1>6, <2>1, <3>1, <4>1
    <3>2. CASE i # k + 1
      <4>0. i \in 1 .. k + 1 /\ k \in Nat /\ Len(sn) \in Nat /\ k = Len(sn) - n
          BY <1>1, <1>3, <2>1, Zenon
      <4>1. i \in 1 .. k /\ i \in 1 .. k + 1 /\ n + i \in 1 .. Len(sn)
          BY <3>2, <4>0
      <4> QED BY <1>2, <1>5, <1>6, <2>1, <4>1
    <3> QED BY <3>1, <3>2
  <2>3. a = q
      BY <1>6, <2>1, <2>2, SeqEqual
  <2> QED BY <2>3 DEF a
<1>9. FlattenSeq(Append(p, Bytes(s))) = FlattenSeq(p) \o Bytes(s)
    BY <1>5, <1>7, WordsNested, FlattenAppend, Zenon
<1> QED BY <1>1, <1>4, <1>8, <1>9, Zenon DEF Rest

\* ... and begin with what is received next.
LEMMA RestFirst ==
    ASSUME NEW sn \in Seq(Sendable), NEW n \in Nat, n < Len(sn)
    PROVE  Rest(sn, n) = Bytes(sn[n + 1]) \o Rest(sn, n + 1)
<1>1. PICK k : k = Len(sn) - n /\ k \in Nat /\ k >= 1 /\ Len(sn) - (n + 1) = k - 1
    OBVIOUS
<1>2. PICK p, q : p = Pending(sn, n) /\ q = Pending(sn, n + 1)
    OBVIOUS
<1>3. p \in Seq(PacketWords) /\ Len(p) = k /\ \A i \in 1 .. k : p[i] = Bytes(sn[n + i])
  <2>1. n <= Len(sn)
      OBVIOUS
  <2> QED BY <1>1, <1>2, <2>1, PendingType
<1>4. /\ q \in Seq(PacketWords) /\ Len(q) = k - 1
      /\ \A i \in 1 .. k - 1 : q[i] = Bytes(sn[n + 1 + i])
  <2>1. n + 1 \in Nat /\ n + 1 <= Len(sn)
      OBVIOUS
  <2> QED BY <1>1, <1>2, <2>1, PendingType
<1>5. p # <<>> /\ p[1] = Bytes(sn[n + 1])
    BY <1>1, <1>3
<1>6. Tail(p) = q
  <2>0. /\ Tail(p) \in Seq(PacketWords) /\ Len(Tail(p)) = k - 1
        /\ \A i \in 1 .. k - 1 : Tail(p)[i] = p[i + 1]
      BY <1>3, <1>5, Tailed
  <2>1. PICK t : /\ t = Tail(p) /\ t \in Seq(PacketWords) /\ Len(t) = k - 1
                 /\ \A i \in 1 .. k - 1 : t[i] = p[i + 1]
      BY <2>0, Zenon
  <2>2. ASSUME NEW i \in 1 .. Len(t) PROVE t[i] = q[i]
    <3>0. i \in 1 .. k - 1 /\ k \in Nat
        BY <1>1, <2>1, Zenon
    <3>1. i \in 1 .. k - 1 /\ i + 1 \in 1 .. k /\ n + (i + 1) = n + 1 + i
        BY <3>0
    <3>2. t[i] = p[i + 1] /\ p[i + 1] = Bytes(sn[n + (i + 1)]) /\ q[i] = Bytes(sn[n + 1 + i])
        BY <1>3, <1>4, <2>1, <3>1
    <3> QED BY <3>1, <3>2
  <2>3. t = q
      BY <1>4, <2>1, <2>2, SeqEqual
  <2> QED BY <2>1, <2>3
<1>7. FlattenSeq(p) = p[1] \o FlattenSeq(Tail(p))
    BY <1>3, <1>5, WordsNested, FlattenFirst, Zenon
<1> QED BY <1>2, <1>5, <1>6, <1>7, Zenon DEF Rest

-----------------------------------------------------------------------------
(***************************************************************************)
(* The invariant.  The buffers hold the bytes of the packets that are not  *)
(* yet received, up to those that a break lost; and the reader, when it    *)
(* waits for bytes, has less than a packet.                                 *)
(***************************************************************************)
Live == {"open", "closed", "broken"}
NextSent == sent[Len(received) + 1]

CodecType ==
    /\ sent \in Seq(Sendable) /\ received \in Seq(Sendable)
    /\ Len(received) <= Len(sent)
    /\ wire \in Seq(Byte) /\ src \in Seq(Byte) /\ is_readable \in BOOLEAN
    /\ end \in Live \cup {"failed", "finished"}

InPlace ==
    end \in Live =>
      \E lost \in Seq(Byte) :
        /\ src \o (wire \o lost) = Rest(sent, Len(received))
        /\ end # "broken" => lost = <<>>

Asked ==
    end \in Live /\ ~is_readable /\ Len(received) < Len(sent) => Len(src) < Len(Bytes(NextSent))

Quiet == end = "finished" => ~is_readable

CodecInv == CodecType /\ InPlace /\ Asked /\ Quiet

\* Either everything is received or there is a next packet.
LEMMA LengthsAreNat ==
    ASSUME CodecType
    PROVE  /\ Len(sent) \in Nat /\ Len(received) \in Nat /\ Len(wire) \in Nat /\ Len(src) \in Nat
           /\ Len(received) < Len(sent) => NextSent \in Sendable
           /\ Len(received) < Len(sent) \/ Len(received) = Len(sent)
<1>1. Len(sent) \in Nat /\ Len(received) \in Nat /\ Len(wire) \in Nat /\ Len(src) \in Nat
    BY DEF CodecType
<1>2. sent \in Seq(Sendable) /\ Len(received) <= Len(sent)
    BY DEF CodecType
<1>3. ASSUME Len(received) < Len(sent) PROVE NextSent \in Sendable
  <2>1. Len(received) + 1 \in 1 .. Len(sent)
      BY <1>1, <1>3
  <2> QED BY <1>2, <2>1 DEF NextSent
<1> QED BY <1>1, <1>2, <1>3

\* With a stream that is not broken nothing is lost.
LEMMA InvImpliesInStep == CodecInv => InStep
<1> SUFFICES ASSUME CodecInv, end \in {"open", "closed"}
             PROVE  src \o wire = FlattenSeq([i \in 1..Len(sent) - Len(received) |->
                                                Bytes(sent[Len(received) + i])])
    BY DEF InStep
<1>1. src \o (wire \o <<>>) = Rest(sent, Len(received))
    BY DEF CodecInv, InPlace, Live
<1>2. wire \o <<>> = wire
    BY DEF CodecInv, CodecType
<1> QED BY <1>1, <1>2, Zenon DEF Rest, Pending

\* While a packet is waiting, the bytes begin with it.
LEMMA NextAtFront ==
    ASSUME CodecInv, end \in Live, Len(received) < Len(sent)
    PROVE  \E lost \in Seq(Byte) :
             /\ src \o (wire \o lost) = Bytes(NextSent) \o Rest(sent, Len(received) + 1)
             /\ end # "broken" => lost = <<>>
             /\ wire \o lost \in Seq(Byte)
             /\ Bytes(NextSent) \in Seq(Byte) /\ Len(Bytes(NextSent)) >= 2
             /\ Rest(sent, Len(received) + 1) \in Seq(Byte)
<1>1. /\ Len(received) \in Nat /\ Len(sent) \in Nat /\ sent \in Seq(Sendable)
      /\ wire \in Seq(Byte) /\ NextSent \in Sendable
    BY LengthsAreNat DEF CodecInv, CodecType
<1>2. PICK lost \in Seq(Byte) : /\ src \o (wire \o lost) = Rest(sent, Len(received))
                                /\ end # "broken" => lost = <<>>
    BY DEF CodecInv, InPlace
<1>3. Rest(sent, Len(received)) = Bytes(NextSent) \o Rest(sent, Len(received) + 1)
    BY <1>1, RestFirst DEF NextSent
<1>4. Rest(sent, Len(received) + 1) \in Seq(Byte)
  <2>1. Len(received) + 1 \in Nat /\ Len(received) + 1 <= Len(sent)
      BY <1>1
  <2> QED BY <1>1, <2>1, RestType
<1>5. Bytes(NextSent) \in Seq(Byte) /\ Len(Bytes(NextSent)) >= 2
  <2>1. PICK l, u, b : /\ b = Len(Bytes(NextSent)) /\ b = 1 + l + u /\ l \in 1 .. 5 /\ u \in Sizes
                       /\ Bytes(NextSent) \in Seq(Byte)
      BY <1>1, PacketBytes, Zenon
  <2>2. b >= 2
      BY <2>1 DEF Sizes
  <2> QED BY <2>1, <2>2
<1>6. wire \o lost \in Seq(Byte)
    BY <1>1
<1> QED BY <1>2, <1>3, <1>4, <1>5, <1>6, Zenon

\* When none is, the buffers are empty.
LEMMA NothingWaiting ==
    ASSUME CodecInv, end \in Live, Len(received) = Len(sent)
    PROVE  src = <<>> /\ wire = <<>>
<1>1. Len(received) \in Nat /\ sent \in Seq(Sendable) /\ src \in Seq(Byte) /\ wire \in Seq(Byte)
    BY LengthsAreNat DEF CodecInv, CodecType
<1>2. Rest(sent, Len(received)) = <<>>
    BY <1>1, RestNone
<1>3. PICK lost \in Seq(Byte) : src \o (wire \o lost) = <<>>
    BY <1>2 DEF CodecInv, InPlace
<1>4. wire \o lost \in Seq(Byte)
    BY <1>1
<1>5. src = <<>> /\ wire \o lost = <<>>
    BY <1>1, <1>3, <1>4, ConcatSimplifications
<1> QED BY <1>1, <1>5, ConcatSimplifications

\* What decode does in a state of the program.
LEMMA DecodeCases ==
    ASSUME CodecInv, decode
    PROVE  /\ end \in Live
           /\ \/ /\ Len(received) < Len(sent)
                 /\ Waits(NextSent) \/ Refuses(NextSent) \/ Returns(NextSent)
              \/ Len(received) = Len(sent) /\ NeedsMore
<1>1. end \in Live
    BY Zenon DEF CodecInv, CodecType, Quiet, decode
<1>2. CASE Len(received) < Len(sent)
  <2>1. NextSent \in Sendable /\ src \in Seq(Byte)
      BY <1>2, LengthsAreNat DEF CodecInv, CodecType
  <2>2. PICK lost \in Seq(Byte) :
             /\ src \o (wire \o lost) = Bytes(NextSent) \o Rest(sent, Len(received) + 1)
             /\ wire \o lost \in Seq(Byte)
             /\ Bytes(NextSent) \in Seq(Byte)
             /\ Rest(sent, Len(received) + 1) \in Seq(Byte)
      BY <1>1, <1>2, NextAtFront, Zenon
  <2>3. \A i \in 1 .. Len(src) : i <= Len(Bytes(NextSent)) => src[i] = Bytes(NextSent)[i]
      BY <2>1, <2>2, SameStart, Zenon
  <2> QED BY <1>1, <1>2, <2>1, <2>3, DecodeSound, Zenon
<1>3. CASE Len(received) = Len(sent)
  <2>1. src = <<>>
      BY <1>1, <1>3, NothingWaiting
  <2>2. Len(src) < 2 /\ ~(Len(src) >= 2)
      BY <2>1
  <2>3. NeedsMore
      BY <2>2, Zenon DEF decode
  <2> QED BY <1>1, <1>3, <2>3
<1> QED BY <1>2, <1>3, LengthsAreNat DEF CodecInv

\* At the end of the stream nothing is left over, unless it broke.
LEMMA EofCases ==
    ASSUME CodecInv, DecodeEof
    PROVE  \/ end = "closed" /\ src = <<>> /\ Len(received) = Len(sent)
           \/ end = "broken" /\ src = <<>>
           \/ end = "broken" /\ src # <<>> /\ Len(received) < Len(sent)
<1>1. end \in {"closed", "broken"} /\ end \in Live /\ wire = <<>> /\ ~is_readable
    BY DEF DecodeEof, Live
<1>2. CASE Len(received) = Len(sent)
  <2>1. src = <<>>
      BY <1>1, <1>2, NothingWaiting
  <2> QED BY <1>1, <1>2, <2>1
<1>3. CASE Len(received) < Len(sent)
  <2>1. CASE end = "broken"
      BY <1>3, <2>1
  <2>2. CASE end = "closed"
    <3>1. PICK lost \in Seq(Byte) :
             /\ src \o (wire \o lost) = Bytes(NextSent) \o Rest(sent, Len(received) + 1)
             /\ end # "broken" => lost = <<>>
             /\ Bytes(NextSent) \in Seq(Byte)
             /\ Rest(sent, Len(received) + 1) \in Seq(Byte)
        BY <1>1, <1>3, NextAtFront, Zenon
    <3>2. src \in Seq(Byte)
        BY DEF CodecInv, CodecType
    <3>3. wire \o lost = <<>> /\ src \o <<>> = src
        BY <1>1, <2>2, <3>1, <3>2
    <3>4. src = Bytes(NextSent) \o Rest(sent, Len(received) + 1)
        BY <3>1, <3>3
    <3>5. Len(src) >= Len(Bytes(NextSent))
      <4>1. PICK b, r : b = Bytes(NextSent) /\ r = Rest(sent, Len(received) + 1)
          OBVIOUS
      <4>2. b \in Seq(Byte) /\ r \in Seq(Byte) /\ src = b \o r
          BY <3>1, <3>4, <4>1
      <4>3. Len(src) >= Len(b)
          BY <4>2
      <4> QED BY <4>1, <4>3
    <3>6. Len(src) < Len(Bytes(NextSent))
        BY <1>1, <1>3 DEF CodecInv, Asked
    <3>7. Len(src) \in Nat /\ Len(Bytes(NextSent)) \in Nat
        BY <3>1, <3>2
    <3> QED BY <3>5, <3>6, <3>7
  <2> QED BY <1>1, <2>1, <2>2
<1> QED BY <1>2, <1>3, LengthsAreNat DEF CodecInv

-----------------------------------------------------------------------------
(***************************************************************************)
(* The steps.                                                               *)
(***************************************************************************)
LEMMA InitInv == Init => CodecInv
<1> SUFFICES ASSUME Init PROVE CodecInv
    OBVIOUS
<1>1. CodecType
  <2>1. <<>> \in Seq(Sendable) /\ <<>> \in Seq(Byte) /\ Len(<<>>) <= Len(<<>>)
      OBVIOUS
  <2>2. "open" \in Live
      BY DEF Live
  <2> QED BY <2>1, <2>2, Zenon DEF Init, CodecType
<1>2. InPlace
  <2>1. <<>> \in Seq(Sendable) /\ 0 \in Nat /\ 0 = Len(<<>>) /\ <<>> \in Seq(Byte)
      OBVIOUS
  <2>2. Rest(<<>>, 0) = <<>>
      BY <2>1, RestNone, Zenon
  <2>3. src \o (wire \o <<>>) = Rest(sent, Len(received))
      BY <2>1, <2>2 DEF Init
  <2> QED BY <2>1, <2>3, Zenon DEF InPlace
<1>3. Asked /\ Quiet
    BY DEF Init, Asked, Quiet
<1> QED BY <1>1, <1>2, <1>3 DEF CodecInv

\* encode adds its packet at the end of the bytes.
LEMMA EncodeStep ==
    ASSUME CodecInv, NEW s \in Sendable, encode(s)
    PROVE  CodecInv'
<1>1. /\ sent \in Seq(Sendable) /\ src \in Seq(Byte) /\ wire \in Seq(Byte)
      /\ Len(received) \in Nat /\ Len(sent) \in Nat /\ Len(received) <= Len(sent)
    BY LengthsAreNat DEF CodecInv, CodecType
<1>2. PICK b : b = Bytes(s) /\ b \in Seq(Byte) /\ Len(b) >= 2
  <2>1. PICK l, u, n : /\ n = Len(Bytes(s)) /\ n = 1 + l + u /\ l \in 1 .. 5 /\ u \in Sizes
                       /\ Bytes(s) \in Seq(Byte)
      BY PacketBytes, Zenon
  <2>2. n >= 2
      BY <2>1 DEF Sizes
  <2> QED BY <2>1, <2>2
<1>3. /\ sent' = Append(sent, s) /\ wire' = wire \o b /\ src' = src
      /\ is_readable' = is_readable /\ received' = received /\ end' = end /\ end = "open"
    BY <1>2 DEF encode
<1>4. sent' \in Seq(Sendable) /\ Len(sent') = Len(sent) + 1
    BY <1>1, <1>3
<1>5. CodecType'
  <2>1. wire \o b \in Seq(Byte)
      BY <1>1, <1>2
  <2> QED BY <1>1, <1>3, <1>4, <2>1 DEF CodecInv, CodecType
<1>6. InPlace'
  <2>1. src \o (wire \o <<>>) = Rest(sent, Len(received))
      BY <1>3 DEF CodecInv, InPlace, Live
  <2>2. wire \o <<>> = wire /\ (wire \o b) \o <<>> = wire \o b
      BY <1>1, <1>2
  <2>3. Rest(sent', Len(received)) = Rest(sent, Len(received)) \o b
      BY <1>1, <1>2, <1>3, RestAppend
  <2>4. PICK sw, wb : sw = src \o wire /\ wb = wire \o b
      OBVIOUS
  <2>5. sw \o b = src \o wb
    <3>1. Regroups(src, wire, b)
        BY <1>1, <1>2, Associative, Zenon
    <3> QED BY <2>4, <3>1, Zenon DEF Regroups
  <2>6. Rest(sent', Len(received')) = src \o wb
      BY <1>3, <2>1, <2>2, <2>3, <2>4, <2>5, Zenon
  <2>7. wire' \o <<>> = wb
      BY <1>3, <2>2, <2>4, Zenon
  <2>8. src' \o (wire' \o <<>>) = Rest(sent', Len(received'))
      BY <1>3, <2>6, <2>7, Zenon
  <2>9. <<>> \in Seq(Byte)
      OBVIOUS
  <2> QED BY <2>8, <2>9, Zenon DEF InPlace
<1>7. Asked'
  <2> SUFFICES ASSUME ~is_readable PROVE Len(src) < Len(Bytes(NextSent'))
      BY <1>3 DEF Asked
  <2>1. CASE Len(received) = Len(sent)
    <3>1. src = <<>>
        BY <1>3, <2>1, NothingWaiting DEF Live
    <3>2. NextSent' = s
        BY <1>1, <1>3, <2>1 DEF NextSent
    <3>3. 0 < Len(b)
        BY <1>2
    <3> QED BY <1>2, <3>1, <3>2, <3>3
  <2>2. CASE Len(received) < Len(sent)
    <3>1. Len(received) + 1 \in 1 .. Len(sent)
        BY <1>1, <2>2
    <3>2. NextSent' = NextSent
        BY <1>1, <1>3, <3>1 DEF NextSent
    <3> QED BY <1>3, <2>2, <3>2 DEF CodecInv, Asked, Live
  <2> QED BY <1>1, <2>1, <2>2
<1>8. Quiet'
    BY <1>3 DEF Quiet
<1> QED BY <1>5, <1>6, <1>7, <1>8 DEF CodecInv

\* A read moves bytes from one buffer to the other.
LEMMA ReadStep ==
    ASSUME CodecInv, Read
    PROVE  CodecInv'
<1>1. src \in Seq(Byte) /\ wire \in Seq(Byte) /\ Len(wire) \in Nat
    BY LengthsAreNat DEF CodecInv, CodecType
<1>2. PICK n : /\ n \in 1 .. Len(wire) /\ src' = src \o SubSeq(wire, 1, n)
               /\ wire' = SubSeq(wire, n + 1, Len(wire))
    BY Zenon DEF Read
<1>3. /\ is_readable' = TRUE /\ sent' = sent /\ received' = received /\ end' = end
      /\ end \in Live
    BY DEF Read, Live
<1>4. n \in Nat /\ n <= Len(wire)
    BY <1>1, <1>2
<1>5. PICK x, y : /\ x = SubSeq(wire, 1, n) /\ y = SubSeq(wire, n + 1, Len(wire))
                  /\ x \in Seq(Byte) /\ y \in Seq(Byte) /\ x \o y = wire
  <2>1. SubSeq(wire, 1, n) \in Seq(Byte)
      BY <1>1, <1>4, Kept
  <2>2. SubSeq(wire, n + 1, Len(wire)) \in Seq(Byte)
      BY <1>1, <1>4, Dropped
  <2>3. SubSeq(wire, 1, n) \o SubSeq(wire, n + 1, Len(wire)) = wire
      BY <1>1, <1>4, Split
  <2> QED BY <2>1, <2>2, <2>3, Zenon
<1>6. src' = src \o x /\ wire' = y /\ src \o x \in Seq(Byte)
    BY <1>1, <1>2, <1>5
<1>7. CodecType'
    BY <1>3, <1>5, <1>6 DEF CodecInv, CodecType
<1>8. InPlace'
  <2>1. PICK lost \in Seq(Byte) : /\ src \o (wire \o lost) = Rest(sent, Len(received))
                                  /\ end # "broken" => lost = <<>>
      BY <1>3 DEF CodecInv, InPlace
  <2>2. PICK sx, yl, wl : sx = src \o x /\ yl = y \o lost /\ wl = wire \o lost
      OBVIOUS
  <2>3. yl \in Seq(Byte)
      BY <1>5, <2>2
  <2>4. wl = x \o yl
    <3>1. Regroups(x, y, lost)
        BY <1>5, Associative, Zenon
    <3> QED BY <1>5, <2>2, <3>1, Zenon DEF Regroups
  <2>5. sx \o yl = src \o wl
    <3>1. Regroups(src, x, yl)
        BY <1>1, <1>5, <2>3, Associative, Zenon
    <3> QED BY <2>2, <2>4, <3>1, Zenon DEF Regroups
  <2>6. src' \o (wire' \o lost) = Rest(sent', Len(received'))
    <3>1. src \o wl = Rest(sent', Len(received'))
        BY <1>3, <2>1, <2>2, Zenon
    <3>2. wire' \o lost = yl /\ src' = sx
        BY <1>6, <2>2, Zenon
    <3> QED BY <2>5, <3>1, <3>2, Zenon
  <2> QED BY <1>3, <2>1, <2>6, Zenon DEF InPlace
<1>9. Asked' /\ Quiet'
    BY <1>3 DEF Asked, Quiet, Live
<1> QED BY <1>7, <1>8, <1>9 DEF CodecInv

\* decode takes away the first packet, or nothing, or fails.
LEMMA DecodeStep ==
    ASSUME CodecInv, decode
    PROVE  CodecInv'
<1>1. /\ sent \in Seq(Sendable) /\ received \in Seq(Sendable) /\ src \in Seq(Byte)
      /\ wire \in Seq(Byte) /\ Len(received) \in Nat /\ Len(sent) \in Nat
      /\ end \in Live
    BY LengthsAreNat, DecodeCases DEF CodecInv, CodecType
<1>2. CASE NeedsMore /\ (Len(received) < Len(sent) => Len(src) < Len(Bytes(NextSent)))
  <2>1. /\ is_readable' = FALSE /\ sent' = sent /\ wire' = wire /\ src' = src
        /\ received' = received /\ end' = end
      BY <1>2 DEF NeedsMore
  <2>2. NextSent' = NextSent
      BY <2>1 DEF NextSent
  <2>3. CodecType'
      BY <2>1 DEF CodecInv, CodecType
  <2>4. InPlace'
      BY <2>1, Zenon DEF CodecInv, InPlace
  <2>5. Asked'
      BY <1>2, <2>1, <2>2, Zenon DEF Asked
  <2>6. Quiet'
      BY <2>1 DEF Quiet
  <2> QED BY <2>3, <2>4, <2>5, <2>6 DEF CodecInv
<1>3. CASE Refuses(NextSent)
  <2>1. /\ end' = "failed" /\ sent' = sent /\ wire' = wire /\ is_readable' = is_readable
        /\ received' = received /\ src' \in Seq(Byte)
      BY <1>3 DEF Refuses, Failed
  <2>2. CodecType'
      BY <2>1 DEF CodecInv, CodecType
  <2>3. InPlace' /\ Asked' /\ Quiet'
      BY <2>1 DEF InPlace, Asked, Quiet, Live
  <2> QED BY <2>2, <2>3 DEF CodecInv
<1>4. CASE Len(received) < Len(sent) /\ Returns(NextSent)
  <2>1. /\ sent' = sent /\ wire' = wire /\ is_readable' = is_readable /\ end' = end
        /\ received' = Append(received, NextSent)
        /\ src' = SubSeq(src, Len(Bytes(NextSent)) + 1, Len(src))
        /\ Len(Bytes(NextSent)) <= Len(src)
      BY <1>4 DEF Returns
  <2>2. NextSent \in Sendable
      BY <1>4, LengthsAreNat DEF CodecInv
  <2>3. /\ received' \in Seq(Sendable) /\ Len(received') = Len(received) + 1
        /\ Len(received') <= Len(sent)
    <3>1. PICK s : s = NextSent /\ s \in Sendable /\ received' = Append(received, s)
        BY <2>1, <2>2
    <3>2. received' \in Seq(Sendable) /\ Len(received') = Len(received) + 1
        BY <1>1, <3>1
    <3> QED BY <1>1, <1>4, <3>2
  <2>4. PICK lost \in Seq(Byte) :
             /\ src \o (wire \o lost) = Bytes(NextSent) \o Rest(sent, Len(received) + 1)
             /\ end # "broken" => lost = <<>>
             /\ wire \o lost \in Seq(Byte)
             /\ Bytes(NextSent) \in Seq(Byte)
             /\ Rest(sent, Len(received) + 1) \in Seq(Byte)
      BY <1>1, <1>4, NextAtFront, Zenon
  <2>5. src' \o (wire \o lost) = Rest(sent, Len(received) + 1)
    <3>1. SubSeq(src, Len(Bytes(NextSent)) + 1, Len(src)) \o (wire \o lost)
             = Rest(sent, Len(received) + 1)
        BY <1>1, <2>1, <2>4, Cancel, Zenon
    <3> QED BY <2>1, <3>1, Zenon
  <2>6. src' \in Seq(Byte)
    <3>1. Len(Bytes(NextSent)) \in Nat
        BY <2>4
    <3>2. SubSeq(src, Len(Bytes(NextSent)) + 1, Len(src)) \in Seq(Byte)
        BY <1>1, <2>1, <3>1, Dropped
    <3> QED BY <2>1, <3>2
  <2>7. CodecType'
      BY <2>1, <2>3, <2>6 DEF CodecInv, CodecType
  <2>8. InPlace'
      BY <2>1, <2>3, <2>4, <2>5, Zenon DEF InPlace
  <2>9. Asked'
      BY <2>1, Zenon DEF Asked, decode
  <2>10. Quiet'
      BY <1>1, <2>1 DEF Quiet, Live
  <2> QED BY <2>7, <2>8, <2>9, <2>10 DEF CodecInv
<1>5. \/ Len(received) < Len(sent) /\ (Waits(NextSent) \/ Refuses(NextSent) \/ Returns(NextSent))
      \/ Len(received) = Len(sent) /\ NeedsMore
    BY DecodeCases
<1>6. CASE Len(received) = Len(sent) /\ NeedsMore
  <2>1. ~(Len(received) < Len(sent))
      BY <1>1, <1>6
  <2> QED BY <1>2, <1>6, <2>1
<1>7. CASE Waits(NextSent)
    BY <1>2, <1>7 DEF Waits
<1> QED BY <1>3, <1>4, <1>5, <1>6, <1>7, Zenon

\* The end of the stream moves no byte; a break cuts some off the end.
LEMMA EndStep ==
    ASSUME CodecInv, DecodeEof \/ Close \/ Break
    PROVE  CodecInv'
<1>1. src \in Seq(Byte) /\ wire \in Seq(Byte) /\ Len(wire) \in Nat
    BY LengthsAreNat DEF CodecInv, CodecType
<1>2. CASE DecodeEof
  <2>1. /\ end' \in {"finished", "failed"} /\ sent' = sent /\ wire' = wire /\ src' = src
        /\ is_readable' = is_readable /\ received' = received /\ ~is_readable
      BY <1>2 DEF DecodeEof
  <2>2. CodecType'
      BY <2>1 DEF CodecInv, CodecType
  <2>3. InPlace' /\ Asked' /\ Quiet'
      BY <2>1 DEF InPlace, Asked, Quiet, Live
  <2> QED BY <2>2, <2>3 DEF CodecInv
<1>3. CASE Close
  <2>1. /\ end' = "closed" /\ sent' = sent /\ wire' = wire /\ src' = src
        /\ is_readable' = is_readable /\ received' = received /\ end = "open"
      BY <1>3 DEF Close
  <2>2. NextSent' = NextSent
      BY <2>1 DEF NextSent
  <2>3. CodecType'
      BY <2>1 DEF CodecInv, CodecType, Live
  <2>4. InPlace'
    <3>1. PICK lost \in Seq(Byte) : /\ src \o (wire \o lost) = Rest(sent, Len(received))
                                    /\ lost = <<>>
        BY <2>1 DEF CodecInv, InPlace, Live
    <3> QED BY <2>1, <3>1, Zenon DEF InPlace
  <2>5. Asked' /\ Quiet'
      BY <2>1, <2>2 DEF CodecInv, Asked, Quiet, Live
  <2> QED BY <2>3, <2>4, <2>5 DEF CodecInv
<1>4. CASE Break
  <2>1. PICK n : n \in Chunks \cup {0} /\ n <= Len(wire) /\ wire' = SubSeq(wire, 1, n)
      BY <1>4, Zenon DEF Break
  <2>2. /\ end' = "broken" /\ sent' = sent /\ src' = src
        /\ is_readable' = is_readable /\ received' = received /\ end = "open"
      BY <1>4 DEF Break
  <2>3. n \in Nat
      BY <2>1, BoundsAssumption
  <2>4. PICK x, y : /\ x = SubSeq(wire, 1, n)
                    /\ x \in Seq(Byte) /\ y \in Seq(Byte) /\ x \o y = wire
    <3>1. SubSeq(wire, 1, n) \in Seq(Byte)
        BY <1>1, <2>1, <2>3, Kept
    <3>2. SubSeq(wire, n + 1, Len(wire)) \in Seq(Byte)
        BY <1>1, <2>1, <2>3, Dropped
    <3>3. SubSeq(wire, 1, n) \o SubSeq(wire, n + 1, Len(wire)) = wire
        BY <1>1, <2>1, <2>3, Split
    <3> QED BY <3>1, <3>2, <3>3, Zenon
  <2>5. CodecType'
      BY <2>1, <2>2, <2>4 DEF CodecInv, CodecType, Live
  <2>6. InPlace'
    <3>1. src \o (wire \o <<>>) = Rest(sent, Len(received))
        BY <2>2 DEF CodecInv, InPlace, Live
    <3>2. wire \o <<>> = x \o y
        BY <1>1, <2>4
    <3>3. src' \o (wire' \o y) = Rest(sent', Len(received'))
        BY <2>1, <2>2, <2>4, <3>1, <3>2, Zenon
    <3> QED BY <2>2, <2>4, <3>3 DEF InPlace
  <2>7. NextSent' = NextSent
      BY <2>2 DEF NextSent
  <2>8. Asked' /\ Quiet'
      BY <2>2, <2>7 DEF CodecInv, Asked, Quiet, Live
  <2> QED BY <2>5, <2>6, <2>8 DEF CodecInv
<1> QED BY <1>2, <1>3, <1>4

\* Every step keeps the invariant.
LEMMA CodecStep == CodecInv /\ [Next]_vars => CodecInv'
<1>1. CASE UNCHANGED vars
    BY <1>1 DEF vars, CodecInv, CodecType, InPlace, Asked, Quiet, NextSent
<1>2. CASE Next
    BY <1>2, EncodeStep, ReadStep, DecodeStep, EndStep DEF Next
<1> QED BY <1>1, <1>2

\* The detailed steps are steps of the abstract stream.
LEMMA StepRefines == CodecInv /\ [Next]_vars => [Stream!Next]_(Stream!vars)
<1> SUFFICES ASSUME CodecInv, [Next]_vars PROVE [Stream!Next]_(Stream!vars)
    OBVIOUS
<1> USE DEF Stream!vars
<1>1. CASE UNCHANGED vars
    BY <1>1 DEF vars
<1>2. ASSUME NEW s \in Sendable, encode(s) PROVE Stream!Next
  <2>1. Stream!Send(s)
      BY <1>2 DEF encode, Stream!Send
  <2> QED BY <2>1 DEF Stream!Next
<1>3. CASE Read
    BY <1>3 DEF Read
<1>4. CASE decode
  <2>1. end \in Live /\ Len(received) \in Nat /\ Len(sent) \in Nat
      BY <1>4, DecodeCases, LengthsAreNat DEF CodecInv
  <2>2. CASE NeedsMore
      BY <2>2 DEF NeedsMore
  <2>3. CASE Len(received) < Len(sent) /\ Refuses(NextSent)
    <3>1. Stream!Fail
        BY <2>1, <2>3 DEF Refuses, Failed, Stream!Fail, Stream!Waiting, Stream!NextPacket, NextSent, Live
    <3> QED BY <3>1 DEF Stream!Next, Stream!Receive
  <2>4. CASE Len(received) < Len(sent) /\ Returns(NextSent)
    <3>1. Stream!Deliver
        BY <2>1, <2>4 DEF Returns, Stream!Deliver, Stream!Waiting, Stream!NextPacket, NextSent, Live
    <3> QED BY <3>1 DEF Stream!Next, Stream!Receive
  <2> QED BY <1>4, <2>2, <2>3, <2>4, DecodeCases, Zenon DEF Waits
<1>5. CASE DecodeEof
  <2>1. /\ end' = (IF src = <<>> THEN "finished" ELSE "failed")
        /\ sent' = sent /\ received' = received
      BY <1>5 DEF DecodeEof
  <2>2. Len(received) \in Nat /\ Len(sent) \in Nat
      BY LengthsAreNat DEF CodecInv
  <2>3. Stream!Finish \/ Stream!Fail
      BY <1>5, <2>1, <2>2, EofCases DEF Stream!Finish, Stream!Fail, Stream!Waiting
  <2> QED BY <2>3 DEF Stream!Next, Stream!Receive
<1>6. CASE Close
    BY <1>6 DEF Close, Stream!Close, Stream!Next
<1>7. CASE Break
    BY <1>7 DEF Break, Stream!Break, Stream!Next
<1> QED BY <1>1, <1>2, <1>3, <1>4, <1>5, <1>6, <1>7 DEF Next

-----------------------------------------------------------------------------
\* However the stream cuts the bytes, decode never loses its place: the two
\* buffers hold exactly the packets that are not yet received.
THEOREM DecodeInStep == Spec => []InStep
<1>1. Spec => []CodecInv
    BY InitInv, CodecStep, PTL DEF Spec
<1> QED BY <1>1, InvImpliesInStep, PTL

\* The safety part of the promise: decode returns the packets that were sent,
\* whole, in order and once, and gives up only on a malformed packet or after
\* a break.  The packets may be of any number, contents and lengths.
THEOREM CodecIsStream == Spec => Stream!Init /\ [][Stream!Next]_(Stream!vars)
<1>1. Spec => []CodecInv
    BY InitInv, CodecStep, PTL DEF Spec
<1>2. Init => Stream!Init
    BY DEF Init, Stream!Init
<1> QED BY <1>1, <1>2, StepRefines, PTL DEF Spec

-----------------------------------------------------------------------------
\* write_variable_u32 and parse_variable_u32 agree for every length up to
\* VARIABLE_INTEGER_MAX: what is written is read back, whatever follows it, it
\* has the size that variable_u32_binary_size says, and less than all of its
\* bytes is Incomplete, never another number.
THEOREM VariableIntegerRoundTrip ==
    ASSUME NEW u \in 0 .. VARIABLE_INTEGER_MAX
    PROVE  /\ Len(write_variable_u32(u)) = variable_u32_binary_size(u)
           /\ \A rest \in Seq(Byte) :
                 parse_variable_u32(write_variable_u32(u) \o rest) = Ok(u, rest)
           /\ \A k \in 0 .. variable_u32_binary_size(u) - 1 :
                 parse_variable_u32(SubSeq(write_variable_u32(u), 1, k)) = Incomplete
<1>0. u \in Sizes
    BY DEF Sizes
<1>1. PICK e, n : /\ e = write_variable_u32(u) /\ n = variable_u32_binary_size(u)
                  /\ e \in Seq(Byte) /\ Len(e) = n /\ n \in 1 .. 4
    BY <1>0, WrittenLength, Zenon
<1>2. ASSUME NEW rest \in Seq(Byte)
      PROVE  parse_variable_u32(e \o rest) = Ok(u, rest)
  <2>1. PICK b : b = e \o rest
      OBVIOUS
  <2>0. e \in Seq(Byte) /\ rest \in Seq(Byte)
      BY <1>1
  <2>2. /\ b \in Seq(Byte) /\ Len(b) = Len(e) + Len(rest)
        /\ \A i \in 1 .. Len(e) : b[i] = e[i]
        /\ \A i \in 1 .. Len(rest) : b[i + Len(e)] = rest[i]
      BY <2>0, <2>1
  <2>3. ~(Len(b) < n) /\ Len(rest) \in Nat /\ Len(b) - n = Len(rest) /\ n \in Nat /\ n <= Len(b)
    <3>1. Len(rest) \in Nat
        OBVIOUS
    <3>2. PICK m, lb : m = Len(rest) /\ lb = Len(b) /\ lb = n + m /\ m \in Nat /\ n \in 1 .. 4
        BY <1>1, <2>2, <3>1, Zenon
    <3>3. ~(lb < n) /\ lb - n = m /\ n \in Nat /\ n <= lb
        BY <3>2
    <3> QED BY <3>2, <3>3, Zenon
  <2>4. \A i \in 1 .. Len(b) :
          i <= variable_u32_binary_size(u) => b[i] = write_variable_u32(u)[i]
    <3> SUFFICES ASSUME NEW i \in 1 .. Len(b), i <= n PROVE b[i] = e[i]
        BY <1>1, Zenon
    <3>1. i \in 1 .. Len(e)
        BY <1>1, <2>3
    <3> QED BY <2>2, <3>1
  <2>5. parse_variable_u32(b) = Ok(u, SubSeq(b, n + 1, Len(b)))
    <3>1. parse_variable_u32(b) = IF Len(b) < variable_u32_binary_size(u) THEN Incomplete
                 ELSE Ok(u, SubSeq(b, variable_u32_binary_size(u) + 1, Len(b)))
        BY <1>0, <2>2, <2>4, ParseWritten, Zenon
    <3> QED BY <1>1, <2>3, <3>1, Zenon
  <2>6. PICK r : /\ r = SubSeq(b, n + 1, Len(b)) /\ r \in Seq(Byte) /\ Len(r) = Len(rest)
                 /\ \A i \in 1 .. Len(rest) : r[i] = b[i + n]
    <3>1. /\ SubSeq(b, n + 1, Len(b)) \in Seq(Byte)
          /\ Len(SubSeq(b, n + 1, Len(b))) = Len(b) - n
          /\ \A i \in 1 .. Len(b) - n : SubSeq(b, n + 1, Len(b))[i] = b[i + n]
        BY <2>2, <2>3, Dropped
    <3> QED BY <2>3, <3>1, Zenon
  <2>7. \A i \in 1 .. Len(r) : r[i] = rest[i]
      BY <1>1, <2>2, <2>6, Zenon
  <2>8. r = rest
      BY <2>6, <2>7, SeqEqual
  <2> QED BY <2>1, <2>5, <2>6, <2>8, Zenon
<1>3. ASSUME NEW k \in 0 .. n - 1
      PROVE  parse_variable_u32(SubSeq(e, 1, k)) = Incomplete
  <2>1. k \in Nat /\ k <= Len(e) /\ k < n
      BY <1>1
  <2>2. PICK b : /\ b = SubSeq(e, 1, k) /\ b \in Seq(Byte) /\ Len(b) = k
                 /\ \A i \in 1 .. k : b[i] = e[i]
    <3>1. /\ SubSeq(e, 1, k) \in Seq(Byte) /\ Len(SubSeq(e, 1, k)) = k
          /\ \A i \in 1 .. k : SubSeq(e, 1, k)[i] = e[i]
        BY <1>1, <2>1, Kept
    <3> QED BY <3>1, Zenon
  <2>3. \A i \in 1 .. Len(b) :
          i <= variable_u32_binary_size(u) => b[i] = write_variable_u32(u)[i]
      BY <1>1, <2>2, Zenon
  <2>4. parse_variable_u32(b) = IF Len(b) < variable_u32_binary_size(u) THEN Incomplete
               ELSE Ok(u, SubSeq(b, variable_u32_binary_size(u) + 1, Len(b)))
      BY <1>0, <2>2, <2>3, ParseWritten, Zenon
  <2> QED BY <1>1, <2>1, <2>2, <2>4, Zenon
<1> QED BY <1>1, <1>2, <1>3, Zenon
=============================================================================
