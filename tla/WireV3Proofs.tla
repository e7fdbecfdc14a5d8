---------------------------- MODULE WireV3Proofs ----------------------------
(***************************************************************************)
(* What the v3 parser makes of what MPacket::write_to wrote, for every      *)
(* packet.                                                                  *)
(***************************************************************************)
EXTENDS WireV3, WirePrimitivesProofs

-----------------------------------------------------------------------------
(***************************************************************************)
(* Results.                                                                 *)
(***************************************************************************)
LEMMA OkIs == \A v, r : IsOk(Ok(v, r)) /\ Ok(v, r).value = v /\ Ok(v, r).rest = r
BY DEF Ok, IsOk

LEMMA OkOf ==
    ASSUME NEW x, NEW v, NEW r, x = Ok(v, r)
    PROVE  IsOk(x) /\ x.value = v /\ x.rest = r
BY OkIs, Zenon

LEMMA ErrIs == ~IsOk(Err) /\ Err.rest = <<>>
BY DEF Err, IsOk

\* Two results are the same only when their values are.
LEMMA OkInjective ==
    ASSUME NEW v, NEW r, NEW w, NEW s, Ok(v, r) = Ok(w, s)
    PROVE  v = w /\ r = s
<1>1. Ok(v, r).value = v /\ Ok(v, r).rest = r /\ Ok(w, s).value = w /\ Ok(w, s).rest = s
    BY OkIs
<1> QED BY <1>1

LEMMA TakeIs ==
    ASSUME NEW b \in Seq(Byte), NEW n \in Nat
    PROVE  /\ Len(b) < n => take(n, b) = Err
           /\ Len(b) >= n => take(n, b) = Ok(SubSeq(b, 1, n), SubSeq(b, n + 1, Len(b)))
BY DEF take

LEMMA ByteIs ==
    ASSUME NEW b \in Seq(Byte)
    PROVE  /\ Len(b) = 0 => parse_u8(b) = Err
           /\ Len(b) >= 1 => /\ b[1] \in Byte /\ SubSeq(b, 2, Len(b)) \in Seq(Byte)
                             /\ Len(SubSeq(b, 2, Len(b))) = Len(b) - 1
                             /\ parse_u8(b) = Ok(b[1], SubSeq(b, 2, Len(b)))
<1>1. CASE Len(b) = 0
    BY <1>1 DEF parse_u8, MapOk, Then, take, Err, IsOk
<1>2. CASE Len(b) >= 1
  <2>1. take(1, b) = Ok(SubSeq(b, 1, 1), SubSeq(b, 2, Len(b)))
      BY <1>2 DEF take
  <2>2. SubSeq(b, 1, 1)[1] = b[1] /\ b[1] \in Byte
      BY <1>2
  <2>3. parse_u8(b) = Ok(SubSeq(b, 1, 1)[1], SubSeq(b, 2, Len(b)))
    <3>1. /\ IsOk(take(1, b)) /\ take(1, b).value = SubSeq(b, 1, 1)
          /\ take(1, b).rest = SubSeq(b, 2, Len(b))
        BY <2>1, OkIs, Zenon
    <3> QED BY <3>1 DEF parse_u8, MapOk, Then
  <2>4. SubSeq(b, 1 + 1, Len(b)) \in Seq(Byte) /\ Len(SubSeq(b, 1 + 1, Len(b))) = Len(b) - 1
      BY <1>2, Dropped, ZenonT(60)
  <2> QED BY <1>2, <2>2, <2>3, <2>4
<1> QED BY <1>1, <1>2

-----------------------------------------------------------------------------
(***************************************************************************)
(* The fixed header.                                                        *)
(***************************************************************************)
LEMMA FrontCases ==
    ASSUME NEW n \in Nat, NEW x, NEW y, NEW z,
           n >= 1 => x \in Nat, n >= 2 => y \in Nat, n >= 3 => z \in Nat
    PROVE  \/ n = 0 \/ (n >= 1 /\ x < 128)
           \/ n >= 1 /\ x >= 128 /\ (n = 1 \/ y < 128)
           \/ n >= 2 /\ x >= 128 /\ y >= 128 /\ (n = 2 \/ z < 128)
           \/ n >= 3 /\ x >= 128 /\ y >= 128 /\ z >= 128
OBVIOUS

\* Every sequence has a number of front bytes.
LEMMA FrontExists ==
    ASSUME NEW b \in Seq(Byte)
    PROVE  \E k \in 0 .. 3 : FrontOf(b, k)
<1>1. Len(b) \in Nat /\ \A i \in 1 .. Len(b) : b[i] \in Nat
    BY BytesAreNat
<1>2. CASE Len(b) = 0 \/ (Len(b) >= 1 /\ b[1] < 128)
    BY <1>1, <1>2 DEF FrontOf
<1>3. CASE Len(b) >= 1 /\ b[1] >= 128 /\ (Len(b) = 1 \/ b[2] < 128)
    BY <1>1, <1>3 DEF FrontOf
<1>4. CASE Len(b) >= 2 /\ b[1] >= 128 /\ b[2] >= 128 /\ (Len(b) = 2 \/ b[3] < 128)
    BY <1>1, <1>4 DEF FrontOf
<1>5. CASE Len(b) >= 3 /\ b[1] >= 128 /\ b[2] >= 128 /\ b[3] >= 128
    BY <1>1, <1>5 DEF FrontOf
<1>6. Len(b) >= 1 => b[1] \in Nat
    BY <1>1
<1>7. Len(b) >= 2 => b[2] \in Nat
    BY <1>1
<1>8. Len(b) >= 3 => b[3] \in Nat
    BY <1>1
<1>9. \/ Len(b) = 0 \/ (Len(b) >= 1 /\ b[1] < 128)
      \/ Len(b) >= 1 /\ b[1] >= 128 /\ (Len(b) = 1 \/ b[2] < 128)
      \/ Len(b) >= 2 /\ b[1] >= 128 /\ b[2] >= 128 /\ (Len(b) = 2 \/ b[3] < 128)
      \/ Len(b) >= 3 /\ b[1] >= 128 /\ b[2] >= 128 /\ b[3] >= 128
  <2>1. PICK n \in Nat : n = Len(b)
      BY <1>1
  <2>2. PICK x, y, z : x = b[1] /\ y = b[2] /\ z = b[3]
      OBVIOUS
  <2>3. (n >= 1 => x \in Nat) /\ (n >= 2 => y \in Nat) /\ (n >= 3 => z \in Nat)
      BY <1>6, <1>7, <1>8, <2>1, <2>2
  <2>4. \/ n = 0 \/ (n >= 1 /\ x < 128)
        \/ n >= 1 /\ x >= 128 /\ (n = 1 \/ y < 128)
        \/ n >= 2 /\ x >= 128 /\ y >= 128 /\ (n = 2 \/ z < 128)
        \/ n >= 3 /\ x >= 128 /\ y >= 128 /\ z >= 128
      BY <2>3, FrontCases
  <2> QED BY <2>1, <2>2, <2>4, ZenonT(60)
<1> QED BY <1>2, <1>3, <1>4, <1>5, <1>9, Zenon

Number(a, b, c, d) == a + 128 * b + 16384 * c + 2097152 * d

LEMMA NumberIs ==
    ASSUME NEW a \in Nat, NEW b \in Nat, NEW c \in Nat, NEW d \in Nat,
           a <= 127, b <= 127, c <= 127, d <= 127
    PROVE  /\ Number(a, b, c, d) \in Nat /\ Number(a, b, c, d) >= a
           /\ Number(a, b, c, d) <= VARIABLE_INTEGER_MAX
BY SMT DEF Number, VARIABLE_INTEGER_MAX

\* The number that one to four bytes give, whatever they are.
LEMMA LengthIsNat ==
    ASSUME NEW t \in Seq(Byte), NEW n \in 1 .. 4, n <= Len(t)
    PROVE  /\ LengthOf(t, n) \in Nat /\ LengthOf(t, n) <= VARIABLE_INTEGER_MAX
           /\ LengthOf(t, n) >= t[1] % 128
<1> DEFINE digit(i) == IF i <= n THEN t[i] % 128 ELSE 0
<1>1. ASSUME NEW i \in 1 .. 4
      PROVE  digit(i) \in Nat /\ digit(i) <= 127
  <2>1. CASE i <= n
    <3>1. t[i] \in Nat
        BY <2>1, BytesAreNat
    <3> QED BY <2>1, <3>1
  <2>2. CASE ~(i <= n)
      BY <2>2
  <2> QED BY <2>1, <2>2
<1>2. /\ digit(1) \in Nat /\ digit(1) <= 127 /\ digit(2) \in Nat /\ digit(2) <= 127
      /\ digit(3) \in Nat /\ digit(3) <= 127 /\ digit(4) \in Nat /\ digit(4) <= 127
    BY <1>1
<1>3. digit(1) = t[1] % 128
    OBVIOUS
<1> HIDE DEF digit
<1>4. LengthOf(t, n) = Number(digit(1), digit(2), digit(3), digit(4))
    BY <1>2 DEF LengthOf, Number, digit
<1>5. PICK a, b, c, d : a = digit(1) /\ b = digit(2) /\ c = digit(3) /\ d = digit(4)
    OBVIOUS
<1>6. /\ Number(a, b, c, d) \in Nat /\ Number(a, b, c, d) >= a
      /\ Number(a, b, c, d) <= VARIABLE_INTEGER_MAX
    BY <1>2, <1>5, NumberIs
<1> QED BY <1>3, <1>4, <1>5, <1>6

LEMMA FrontFits ==
    ASSUME NEW x \in Seq(Byte), NEW k \in 0 .. 3, FrontOf(x, k)
    PROVE  k <= Len(x)
BY DEF FrontOf

LEMMA DecodeIs ==
    ASSUME NEW b \in Seq(Byte), NEW n \in 1 .. 4, n <= Len(b)
    PROVE  decode_variable_length(SubSeq(b, 1, n)) = LengthOf(b, n)
<1> DEFINE x == SubSeq(b, 1, n)
<1>1. Len(x) = n /\ \A i \in 1 .. n : x[i] = b[i]
    BY Kept
<1>2. 128^(1 - 1) = 1 /\ 128^(2 - 1) = 128 /\ 128^(3 - 1) = 16384 /\ 128^(4 - 1) = 2097152
    OBVIOUS
<1> HIDE DEF x
<1>3. decode_variable_length(x) =
        (IF 1 <= n THEN (x[1] % 128) * 1 ELSE 0) + (IF 2 <= n THEN (x[2] % 128) * 128 ELSE 0)
        + (IF 3 <= n THEN (x[3] % 128) * 16384 ELSE 0) + (IF 4 <= n THEN (x[4] % 128) * 2097152 ELSE 0)
    BY <1>1, <1>2 DEF decode_variable_length
<1>4. ASSUME NEW i \in 1 .. n
      PROVE  x[i] = b[i] /\ b[i] % 128 \in Nat
  <2>1. b[i] \in Nat
      BY BytesAreNat
  <2> QED BY <1>1, <2>1
<1>5. decode_variable_length(x) = LengthOf(b, n)
  <2>1. CASE n = 1
      BY <1>3, <1>4, <2>1 DEF LengthOf
  <2>2. CASE n = 2
      BY <1>3, <1>4, <2>2 DEF LengthOf
  <2>3. CASE n = 3
      BY <1>3, <1>4, <2>3 DEF LengthOf
  <2>4. CASE n = 4
      BY <1>3, <1>4, <2>4 DEF LengthOf
  <2> QED BY <2>1, <2>2, <2>3, <2>4
<1> QED BY <1>5 DEF x

LEMMA RemainingLengthIs ==
    ASSUME NEW t \in Seq(Byte)
    PROVE  /\ Len(t) = 0 => mremaining_length(t) = Err
           /\ Len(t) >= 1 =>
                \A k \in 0 .. 3 : FrontOf(SubSeq(t, 2, Len(t)), k) =>
                    mremaining_length(t) = Ok(LengthOf(t, k + 1), SubSeq(t, k + 2, Len(t)))
<1>1. CASE Len(t) = 0
    BY <1>1 DEF mremaining_length, Then, take, Err, IsOk
<1>2. ASSUME Len(t) >= 1, NEW k \in 0 .. 3, FrontOf(SubSeq(t, 2, Len(t)), k)
      PROVE  mremaining_length(t) = Ok(LengthOf(t, k + 1), SubSeq(t, k + 2, Len(t)))
  <2>1. SubSeq(t, 2, Len(t)) \in Seq(Byte) /\ Len(SubSeq(t, 2, Len(t))) = Len(t) - 1
      BY <1>2, ByteIs
  <2>2. LengthBytes(t) = 1 + k
      BY <1>2, <2>1, FrontBytesIs DEF LengthBytes
  <2>3. IsOk(take(1, t))
      BY <1>2, TakeIs, OkIs
  <2>4. mremaining_length(t) = Ok(decode_variable_length(SubSeq(t, 1, LengthBytes(t))),
                                  SubSeq(t, LengthBytes(t) + 1, Len(t)))
      BY <2>3 DEF mremaining_length, Then
  <2>5. 1 + k \in 1 .. 4 /\ 1 + k <= Len(t) /\ (1 + k) + 1 = k + 2 /\ 1 + k = k + 1
      BY <1>2, <2>1 DEF FrontOf
  <2>6. decode_variable_length(SubSeq(t, 1, 1 + k)) = LengthOf(t, 1 + k)
      BY <2>5, DecodeIs
  <2> QED BY <2>2, <2>4, <2>5, <2>6
<1> QED BY <1>1, <1>2
\* A first byte, a length of k + 1 bytes that gives l, and the rest.
Framed(b, k, l, r) ==
    LET t == SubSeq(b, 2, Len(b))
    IN  /\ FrontOf(SubSeq(t, 2, Len(t)), k)
        /\ l = LengthOf(t, k + 1)
        /\ r = SubSeq(t, k + 2, Len(t))

LEMMA FramedParts ==
    ASSUME NEW b \in Seq(Byte), Len(b) >= 2, NEW k \in 0 .. 3, NEW l, NEW r, Framed(b, k, l, r)
    PROVE  /\ l \in Nat /\ l <= VARIABLE_INTEGER_MAX /\ l >= b[2] % 128
           /\ r \in Seq(Byte) /\ Len(r) = Len(b) - k - 2
           /\ mremaining_length(SubSeq(b, 2, Len(b))) = Ok(l, r)
<1>1. PICK t : t = SubSeq(b, 2, Len(b))
    OBVIOUS
<1>2. t \in Seq(Byte) /\ Len(t) = Len(b) - 1 /\ Len(t) >= 1 /\ t[1] = b[2]
  <2>1. t \in Seq(Byte) /\ Len(t) = Len(b) - 1
      BY <1>1, ByteIs
  <2>2. t[1] = b[2]
      BY <1>1
  <2> QED BY <2>1, <2>2
<1>3. FrontOf(SubSeq(t, 2, Len(t)), k) /\ l = LengthOf(t, k + 1) /\ r = SubSeq(t, k + 2, Len(t))
    BY <1>1, Zenon DEF Framed
<1>4. PICK n \in 1 .. 4 : n = k + 1 /\ n + 1 = k + 2
    OBVIOUS
<1>5. n <= Len(t)
  <2>1. PICK x : x = SubSeq(t, 2, Len(t))
      OBVIOUS
  <2>2. x \in Seq(Byte) /\ Len(x) = Len(t) - 1
      BY <1>2, <2>1, ByteIs, Zenon
  <2>3. k <= Len(x)
      BY <1>3, <2>1, <2>2, FrontFits, Zenon
  <2> QED BY <1>2, <1>4, <2>2, <2>3
<1>6. mremaining_length(t) = Ok(l, r)
    BY <1>2, <1>3, RemainingLengthIs, Zenon
<1>7. l \in Nat /\ l <= VARIABLE_INTEGER_MAX /\ l >= b[2] % 128
    BY <1>2, <1>3, <1>4, <1>5, LengthIsNat, Zenon
<1>8. r \in Seq(Byte) /\ Len(r) = Len(t) - n
  <2>1. n \in Nat
      OBVIOUS
  <2>2. SubSeq(t, n + 1, Len(t)) \in Seq(Byte)
        /\ Len(SubSeq(t, n + 1, Len(t))) = Len(t) - n
      BY <1>2, <1>5, <2>1, Dropped, Zenon
  <2> QED BY <1>3, <1>4, <2>2, Zenon
<1>9. Len(r) = Len(b) - k - 2
  <2>1. PICK x \in Nat : x = Len(b)
      OBVIOUS
  <2> QED BY <1>2, <1>4, <1>8, <2>1
<1> QED BY <1>1, <1>6, <1>7, <1>8, <1>9, Zenon

\* Every sequence of two bytes or more has such parts.
LEMMA FramedExists ==
    ASSUME NEW b \in Seq(Byte), Len(b) >= 2
    PROVE  \E k \in 0 .. 3 : \E l, r : Framed(b, k, l, r)
<1>1. PICK t : t = SubSeq(b, 2, Len(b))
    OBVIOUS
<1>2. t \in Seq(Byte) /\ Len(t) >= 1
    BY <1>1, ByteIs
<1>3. SubSeq(t, 2, Len(t)) \in Seq(Byte)
    BY <1>2, ByteIs, Zenon
<1> QED BY <1>1, <1>3, FrontExists, Zenon DEF Framed

\* What mpacket makes of them.
LEMMA PacketIs ==
    ASSUME NEW b \in Seq(Byte), Len(b) >= 2, NEW k \in 0 .. 3, NEW l, NEW r, Framed(b, k, l, r)
    PROVE  /\ ~IsOk(mpacketkind(b[1])) => mpacket(b) = Err
           /\ IsOk(mpacketkind(b[1])) /\ Len(r) < l => mpacket(b) = Err
           /\ IsOk(mpacketkind(b[1])) /\ Len(r) >= l =>
                \A q : q = mpacketdata(mpacketkind(b[1]).value, SubSeq(r, 1, l)) =>
                  mpacket(b) = IF IsOk(q) THEN Ok(q.value, SubSeq(r, l + 1, Len(r))) ELSE Err
<1>1. PICK t : t = SubSeq(b, 2, Len(b))
    OBVIOUS
<1>2. parse_u8(b) = Ok(b[1], t)
    BY <1>1, ByteIs
<1>3. mremaining_length(t) = Ok(l, r) /\ l \in Nat /\ r \in Seq(Byte)
    BY <1>1, FramedParts, ZenonT(60)
<1>4. IsOk(parse_u8(b)) /\ parse_u8(b).value = b[1] /\ parse_u8(b).rest = t
    BY <1>2, OkOf
<1>5. /\ IsOk(mremaining_length(t)) /\ mremaining_length(t).value = l
      /\ mremaining_length(t).rest = r
    BY <1>3, OkOf, Zenon
<1>6. PICK h : h = mpacketkind(b[1])
    OBVIOUS
<1>7. PICK header : header = [kind |-> h.value, remaining_length |-> l]
    OBVIOUS
<1>8. mfixedheader(b) = IF IsOk(h) THEN Ok(header, r) ELSE Err
    BY <1>4, <1>5, <1>6, <1>7 DEF mfixedheader, MapOk, Then
<1>9. ~IsOk(h) => mpacket(b) = Err
    BY <1>8, ErrIs DEF mpacket, Then
<1>10. ASSUME IsOk(h)
       PROVE  mpacket(b) = Then(take(l, r), LAMBDA data, after :
                Then(mpacketdata(h.value, data), LAMBDA p, unread : Ok(p, after)))
  <2>1. mfixedheader(b) = Ok(header, r)
      BY <1>8, <1>10, Zenon
  <2>2. IsOk(mfixedheader(b)) /\ mfixedheader(b).rest = r /\ mfixedheader(b).value = header
      BY <2>1, OkOf, Zenon
  <2>3. header.remaining_length = l /\ header.kind = h.value
      BY <1>7
  <2> QED BY <2>2, <2>3 DEF mpacket, Then
<1>11. IsOk(h) /\ Len(r) < l => mpacket(b) = Err
    BY <1>3, <1>10, TakeIs, ErrIs DEF Then
<1>12. ASSUME IsOk(h), Len(r) >= l, NEW q, q = mpacketdata(h.value, SubSeq(r, 1, l))
       PROVE  mpacket(b) = IF IsOk(q) THEN Ok(q.value, SubSeq(r, l + 1, Len(r))) ELSE Err
  <2>1. take(l, r) = Ok(SubSeq(r, 1, l), SubSeq(r, l + 1, Len(r)))
      BY <1>3, <1>12, TakeIs, Zenon
  <2>2. /\ IsOk(take(l, r)) /\ take(l, r).value = SubSeq(r, 1, l)
        /\ take(l, r).rest = SubSeq(r, l + 1, Len(r))
      BY <2>1, OkOf, Zenon
  <2> QED BY <1>10, <1>12, <2>2 DEF Then
<1> QED BY <1>6, <1>9, <1>11, <1>12, Zenon

LEMMA PacketOk ==
    ASSUME NEW b \in Seq(Byte), Len(b) >= 2, NEW k \in 0 .. 3, NEW l, NEW r, Framed(b, k, l, r),
           IsOk(mpacketkind(b[1])), Len(r) >= l,
           NEW q, q = mpacketdata(mpacketkind(b[1]).value, SubSeq(r, 1, l))
    PROVE  mpacket(b) = IF IsOk(q) THEN Ok(q.value, SubSeq(r, l + 1, Len(r))) ELSE Err
BY PacketIs

LEMMA PacketErr ==
    ASSUME NEW b \in Seq(Byte), Len(b) >= 2, NEW k \in 0 .. 3, NEW l, NEW r, Framed(b, k, l, r),
           Len(r) < l
    PROVE  mpacket(b) = Err
<1>1. CASE IsOk(mpacketkind(b[1]))
    BY <1>1, PacketIs
<1>2. CASE ~IsOk(mpacketkind(b[1]))
    BY <1>2, PacketIs
<1> QED BY <1>1, <1>2

\* Bytes that are too few for a fixed header.
LEMMA TooShort ==
    ASSUME NEW b \in Seq(Byte), Len(b) < 2
    PROVE  mpacket(b) = Err
<1>1. CASE Len(b) = 0
  <2>1. mfixedheader(b) = Err
      BY <1>1, ByteIs, ErrIs DEF mfixedheader, Then
  <2> QED BY <2>1, ErrIs DEF mpacket, Then
<1>2. CASE Len(b) = 1
  <2>1. SubSeq(b, 2, Len(b)) \in Seq(Byte) /\ Len(SubSeq(b, 2, Len(b))) = 0
        /\ parse_u8(b) = Ok(b[1], SubSeq(b, 2, Len(b)))
      BY <1>2, ByteIs
  <2>2. ~IsOk(mremaining_length(SubSeq(b, 2, Len(b))))
      BY <2>1, RemainingLengthIs, ErrIs
  <2>3. IsOk(parse_u8(b)) /\ parse_u8(b).rest = SubSeq(b, 2, Len(b))
      BY <2>1, OkIs, ZenonT(60)
  <2>4. mfixedheader(b) = Err
      BY <2>2, <2>3 DEF mfixedheader, MapOk, Then
  <2> QED BY <2>4, ErrIs DEF mpacket, Then
<1> QED BY <1>1, <1>2

-----------------------------------------------------------------------------
(***************************************************************************)
(* The first byte.                                                          *)
(***************************************************************************)
Types == DOMAIN MPacketKind

LEMMA TypesAre ==
    Types = {"Connect", "Connack", "Publish", "Puback", "Pubrec", "Pubrel", "Pubcomp",
             "Subscribe", "Suback", "Unsubscribe", "Unsuback", "Pingreq", "Pingresp",
             "Disconnect"}
BY DEF Types, MPacketKind

LEMMA KindNumber ==
    ASSUME NEW t \in Types
    PROVE  MPacketKind[t] \in 1 .. 14
BY TypesAre DEF MPacketKind

LEMMA KindInjective ==
    ASSUME NEW t \in Types, NEW u \in Types, MPacketKind[t] = MPacketKind[u]
    PROVE  t = u
BY TypesAre DEF MPacketKind

AllowedFlags(t, flags) == IF t = "Publish" THEN QoSOf(flags) # 3 ELSE flags = FixedFlags(t)

\* The first byte gives the type and the flags that were written.
LEMMA KindOfWritten ==
    ASSUME NEW t \in Types, NEW flags \in 0 .. 15, AllowedFlags(t, flags)
    PROVE  /\ to_byte(t, flags) \in Byte
           /\ mpacketkind(to_byte(t, flags)) = Ok([type |-> t, flags |-> flags], <<>>)
<1> DEFINE byte == to_byte(t, flags)
           types == {u \in DOMAIN MPacketKind : MPacketKind[u] = byte \div 16}
<1>1. byte \in Byte /\ byte \div 16 = MPacketKind[t] /\ byte % 16 = flags
  <2>1. PICK m \in 1 .. 14 : m = MPacketKind[t]
      BY KindNumber
  <2>2. byte = 16 * m + flags
      BY <2>1 DEF to_byte
  <2> QED BY <2>1, <2>2 DEF Byte
<1> HIDE DEF byte
<1>2. types = {t}
    BY <1>1, KindInjective DEF Types
<1>3. (CHOOSE u \in types : TRUE) = t
    BY <1>2
<1>4. \E u \in types : (IF u = "Publish" THEN QoSOf(byte % 16) # 3 ELSE byte % 16 = FixedFlags(u))
    BY <1>1, <1>2 DEF AllowedFlags
<1> HIDE DEF types
<1>5. mpacketkind(byte) = Ok([type |-> CHOOSE u \in types : TRUE, flags |-> byte % 16], <<>>)
    BY <1>4 DEF mpacketkind, types
<1> QED BY <1>1, <1>3, <1>5 DEF byte

\* What it gives is a type and flags that can be written.
LEMMA KindOfByte ==
    ASSUME NEW byte \in Byte, IsOk(mpacketkind(byte))
    PROVE  \E t \in Types, flags \in 0 .. 15 :
              /\ mpacketkind(byte).value = [type |-> t, flags |-> flags]
              /\ AllowedFlags(t, flags)
<1> DEFINE types == {u \in DOMAIN MPacketKind : MPacketKind[u] = byte \div 16}
           allowed(u) == IF u = "Publish" THEN QoSOf(byte % 16) # 3 ELSE byte % 16 = FixedFlags(u)
<1>1. \E u \in types : allowed(u)
    BY ErrIs DEF mpacketkind
<1>2. PICK t \in types : allowed(t)
    BY <1>1
<1>3. t \in Types /\ types = {t}
    BY KindInjective DEF Types
<1>4. (CHOOSE u \in types : TRUE) = t
    BY <1>3
<1>5. mpacketkind(byte) = Ok([type |-> CHOOSE u \in types : TRUE, flags |-> byte % 16], <<>>)
    BY <1>1 DEF mpacketkind
<1> HIDE DEF types
<1>6. mpacketkind(byte).value = [type |-> t, flags |-> byte % 16]
  <2>1. PICK v : v = [type |-> t, flags |-> byte % 16]
      OBVIOUS
  <2>2. mpacketkind(byte) = Ok(v, <<>>)
      BY <1>4, <1>5, <2>1
  <2> QED BY <2>1, <2>2, OkOf
<1>7. byte % 16 \in 0 .. 15 /\ AllowedFlags(t, byte % 16)
    BY <1>2 DEF AllowedFlags, Byte
<1> QED BY <1>3, <1>6, <1>7

-----------------------------------------------------------------------------
(***************************************************************************)
(* What is where in the bytes of a packet.                                  *)
(***************************************************************************)
\* The rest of the bytes, place by place, and the number of front bytes, which
\* is the only one.
LEMMA FramedPlaces ==
    ASSUME NEW b \in Seq(Byte), Len(b) >= 2, NEW k \in 0 .. 3, NEW l, NEW r, Framed(b, k, l, r)
    PROVE  /\ \A i \in 1 .. Len(r) : r[i] = b[i + (k + 2)]
           /\ \A m \in 0 .. 3 : /\ m <= Len(b) - 2
                                /\ \A i \in 1 .. m : b[i + 2] >= 128
                                /\ m = 3 \/ m = Len(b) - 2 \/ b[m + 3] < 128
                                => k = m
<1>1. PICK t, x : t = SubSeq(b, 2, Len(b)) /\ x = SubSeq(t, 2, Len(t))
    OBVIOUS
<1>2. t \in Seq(Byte) /\ Len(t) = Len(b) - 1 /\ Len(t) >= 1
    BY <1>1, ByteIs
<1>3. x \in Seq(Byte) /\ Len(x) = Len(t) - 1
    BY <1>1, <1>2, ByteIs, Zenon
<1>4. FrontOf(x, k) /\ r = SubSeq(t, k + 2, Len(t))
    BY <1>1, Zenon DEF Framed
<1>5. \A i \in 1 .. Len(t) : t[i] = b[i + 1]
    BY <1>1, <1>2
<1>6. \A i \in 1 .. Len(x) : x[i] = t[i + 1]
    BY <1>1, <1>2, <1>3
<1>7. \A i \in 1 .. Len(x) : x[i] = b[i + 2]
  <2> TAKE i \in 1 .. Len(x)
  <2>1. PICK j \in 1 .. Len(t) : j = i + 1 /\ j + 1 = i + 2
      BY <1>2, <1>3
  <2> QED BY <1>5, <1>6, <2>1
<1>8. ASSUME NEW i \in 1 .. Len(r)
      PROVE  r[i] = b[i + (k + 2)]
  <2>1. k <= Len(x)
      BY <1>3, <1>4, FrontFits, Zenon
  <2>2. PICK n \in Nat : n = k + 1 /\ n + 1 = k + 2
      OBVIOUS
  <2>3. n <= Len(t) /\ r = SubSeq(t, n + 1, Len(t))
      BY <1>2, <1>3, <1>4, <2>1, <2>2
  <2>4. Len(r) = Len(t) - n /\ r[i] = t[i + n]
      BY <1>2, <2>3, Dropped
  <2>5. PICK j \in 1 .. Len(t) : j = i + n /\ j + 1 = i + (k + 2)
      BY <1>2, <2>2, <2>3, <2>4
  <2> QED BY <1>5, <2>4, <2>5
<1>9. ASSUME NEW m \in 0 .. 3, m <= Len(b) - 2,
             \A i \in 1 .. m : b[i + 2] >= 128,
             m = 3 \/ m = Len(b) - 2 \/ b[m + 3] < 128
      PROVE  k = m
  <2>1. PICK n \in Nat : n = Len(x) /\ n = Len(b) - 2
      BY <1>2, <1>3
  <2>2. \A i \in 1 .. m : x[i] >= 128
      BY <1>7, <1>9, <2>1
  <2>3. m = 3 \/ m = Len(x) \/ x[m + 1] < 128
    <3>1. CASE m < n /\ b[m + 3] < 128
      <4>1. PICK j \in 1 .. n : j = m + 1 /\ j + 2 = m + 3
          BY <3>1
      <4> QED BY <1>7, <2>1, <3>1, <4>1
    <3> QED BY <1>9, <2>1, <3>1
  <2>4. FrontOf(x, m)
      BY <1>9, <2>1, <2>2, <2>3 DEF FrontOf
  <2> QED BY <1>3, <1>4, <2>4, FrontBytesIs
<1> QED BY <1>8, <1>9

\* A byte, the bytes v and the bytes d, one after the other.
Laid(b, h, v, d) ==
    /\ b \in Seq(Byte) /\ Len(b) = 1 + Len(v) + Len(d) /\ b[1] = h
    /\ \A i \in 1 .. Len(v) : b[i + 1] = v[i]
    /\ \A i \in 1 .. Len(d) : b[i + (1 + Len(v))] = d[i]

LEMMA LaidOut ==
    ASSUME NEW h \in Byte, NEW v \in Seq(Byte), NEW d \in Seq(Byte)
    PROVE  Laid(<<h>> \o v \o d, h, v, d)
<1>1. PICK x : x = <<h>> \o v
    OBVIOUS
<1>2. x \in Seq(Byte) /\ Len(x) = 1 + Len(v) /\ x[1] = h /\ \A i \in 1 .. Len(v) : x[i + 1] = v[i]
    BY <1>1, Headed
<1>3. PICK b : b = x \o d
    OBVIOUS
<1>4. /\ b \in Seq(Byte) /\ Len(b) = Len(x) + Len(d)
      /\ \A i \in 1 .. Len(x) : b[i] = x[i]
      /\ \A i \in 1 .. Len(d) : b[i + Len(x)] = d[i]
  <2>1. x \in Seq(Byte)
      BY <1>2
  <2>2. /\ x \o d \in Seq(Byte) /\ Len(x \o d) = Len(x) + Len(d)
        /\ \A i \in 1 .. Len(x) : (x \o d)[i] = x[i]
        /\ \A i \in 1 .. Len(d) : (x \o d)[i + Len(x)] = d[i]
      BY <2>1
  <2> QED BY <1>3, <2>2, Zenon
<1>5. PICK n, m \in Nat : n = Len(v) /\ m = Len(d)
    OBVIOUS
<1>6. b[1] = h
    BY <1>2, <1>4, <1>5
<1>7. \A i \in 1 .. n : b[i + 1] = v[i]
    BY <1>2, <1>4, <1>5
<1> QED BY <1>1, <1>2, <1>3, <1>4, <1>5, <1>6, <1>7 DEF Laid

-----------------------------------------------------------------------------
(***************************************************************************)
(* A length of one byte, before a body that starts with a byte below 128:   *)
(* read as it was written, and a prefix is never enough.                    *)
(***************************************************************************)
Plain(d) == d = <<>> \/ d[1] < 128

LEMMA ShortLength ==
    ASSUME NEW l \in Nat, l < 128
    PROVE  write_remaining_length(l) = <<l>> /\ l \in Byte
BY DEF write_remaining_length, write_variable_u32, Byte

LEMMA TwoLess ==
    ASSUME NEW n \in Nat, n >= 2
    PROVE  \E m \in Nat : m = n - 2
OBVIOUS

\* b has a byte, a length of one byte and then bytes of d.
Begins(b, l, d) ==
    /\ Len(b) >= 2 /\ b[2] = l /\ Len(b) <= 2 + Len(d)
    /\ \A i \in 1 .. Len(b) - 2 : b[i + 2] = d[i]

LEMMA ShortFrame ==
    ASSUME NEW b \in Seq(Byte), NEW l \in Nat, l < 128, NEW d \in Seq(Byte), Plain(d),
           Begins(b, l, d), NEW k \in 0 .. 3, NEW m, NEW r, Framed(b, k, m, r)
    PROVE  k = 0 /\ m = l /\ Len(r) = Len(b) - 2 /\ \A i \in 1 .. Len(r) : r[i] = d[i]
<1> USE DEF Begins
<1>1. PICK n \in Nat : n = Len(b) - 2
  <2>1. Len(b) \in Nat
      BY Zenon, BytesAreNat
  <2> QED BY <2>1, TwoLess, Zenon
<1>2. k = 0
  <2>1. n = 0 \/ b[0 + 3] < 128
    <3>1. CASE n >= 1
      <4>1. PICK j \in 1 .. n : j = 1 /\ j + 2 = 0 + 3
          BY <3>1
      <4>2. b[j + 2] = d[j]
          BY <1>1, <4>1
      <4>3. d # <<>>
          BY <1>1, <3>1
      <4> QED BY <4>1, <4>2, <4>3 DEF Plain
    <3> QED BY <1>1, <3>1
  <2>2. \A i \in 1 .. 0 : b[i + 2] >= 128
      OBVIOUS
  <2>3. 0 \in 0 .. 3 /\ 0 <= Len(b) - 2 /\ (0 = 3 \/ 0 = Len(b) - 2 \/ b[0 + 3] < 128)
      BY <1>1, <2>1
  <2> QED BY <2>2, <2>3, FramedPlaces, ZenonT(60)
<1>3. m = l
  <2>1. PICK t : t = SubSeq(b, 2, Len(b))
      OBVIOUS
  <2>2. t[1] = b[2]
      BY <2>1
  <2>3. m = LengthOf(t, 0 + 1)
      BY <1>2, <2>1, Zenon DEF Framed
  <2>4. LengthOf(t, 1) = t[1]
      BY <2>2, LengthOfBytes
  <2> QED BY <2>2, <2>3, <2>4
<1>4. Len(r) = Len(b) - 2
    BY <1>2, FramedParts
<1>5. \A i \in 1 .. Len(r) : r[i] = d[i]
    BY <1>1, <1>2, <1>4, FramedPlaces, SMTT(60)
<1> QED BY <1>2, <1>3, <1>4, <1>5

LEMMA SameSequence ==
    ASSUME NEW S, NEW x \in Seq(S), NEW y \in Seq(S), Len(x) = Len(y),
           \A i \in 1 .. Len(x) : x[i] = y[i]
    PROVE  x = y
OBVIOUS

LEMMA ShortPlaces ==
    ASSUME NEW l \in Nat, NEW d \in Seq(Byte), NEW h, NEW b, Laid(b, h, <<l>>, d)
    PROVE  /\ b \in Seq(Byte) /\ Len(b) = 2 + Len(d) /\ b[1] = h /\ b[2] = l
           /\ \A i \in 1 .. Len(d) : b[i + 2] = d[i]
<1>1. Len(<<l>>) = 1 /\ <<l>>[1] = l
    OBVIOUS
<1>2. /\ b \in Seq(Byte) /\ Len(b) = 1 + 1 + Len(d) /\ b[1] = h
      /\ \A i \in 1 .. 1 : b[i + 1] = <<l>>[i]
      /\ \A i \in 1 .. Len(d) : b[i + (1 + 1)] = d[i]
    BY <1>1, Zenon DEF Laid
<1>3. Len(d) \in Nat
    OBVIOUS
<1> QED BY <1>1, <1>2, <1>3

\* The whole packet, when its body is as long as announced or longer.
LEMMA ShortPacket ==
    ASSUME NEW l \in Nat, l < 128, NEW d \in Seq(Byte), Plain(d), l <= Len(d),
           NEW h \in Byte, NEW b, Laid(b, h, <<l>>, d),
           IsOk(mpacketkind(h)), NEW q, q = mpacketdata(mpacketkind(h).value, SubSeq(d, 1, l))
    PROVE  mpacket(b) = IF IsOk(q) THEN Ok(q.value, SubSeq(d, l + 1, Len(d))) ELSE Err
<1>1. /\ b \in Seq(Byte) /\ Len(b) = 2 + Len(d) /\ b[1] = h /\ b[2] = l
      /\ \A i \in 1 .. Len(d) : b[i + 2] = d[i]
    BY ShortPlaces
<1>2. Len(b) >= 2 /\ Len(b) - 2 = Len(d) /\ Len(b) <= 2 + Len(d)
    BY <1>1
<1>3. PICK k \in 0 .. 3 : \E m, r : Framed(b, k, m, r)
    BY <1>1, <1>2, FramedExists, Zenon
<1>31. PICK m, r : Framed(b, k, m, r)
    BY <1>3
<1>4. k = 0 /\ m = l /\ Len(r) = Len(d) /\ \A i \in 1 .. Len(r) : r[i] = d[i]
  <2>1. Begins(b, l, d)
      BY <1>1, <1>2 DEF Begins
  <2>2. k = 0 /\ m = l /\ Len(r) = Len(b) - 2 /\ \A i \in 1 .. Len(r) : r[i] = d[i]
      BY <1>1, <1>31, <2>1, ShortFrame
  <2> QED BY <1>2, <2>2
<1>5. r \in Seq(Byte)
    BY <1>1, <1>2, <1>31, FramedParts, Zenon
<1>6. r = d
    BY <1>4, <1>5, SameSequence, Zenon
<1>7. Len(r) >= m
    BY <1>4
<1>8. q = mpacketdata(mpacketkind(b[1]).value, SubSeq(r, 1, m)) /\ IsOk(mpacketkind(b[1]))
    BY <1>1, <1>4, <1>6, Zenon
<1>9. mpacket(b) = IF IsOk(q) THEN Ok(q.value, SubSeq(r, m + 1, Len(r))) ELSE Err
    BY <1>1, <1>2, <1>31, <1>7, <1>8, PacketOk, Zenon
<1> QED BY <1>4, <1>6, <1>9, Zenon

\* What is cut off is missed: no proper prefix is a packet.
LEMMA ShortPrefix ==
    ASSUME NEW l \in Nat, l < 128, NEW d \in Seq(Byte), Plain(d), l = Len(d),
           NEW h \in Byte, NEW b, Laid(b, h, <<l>>, d), NEW n \in 0 .. Len(b) - 1
    PROVE  mpacket(SubSeq(b, 1, n)) = Err
<1>1. /\ b \in Seq(Byte) /\ Len(b) = 2 + l /\ b[2] = l
      /\ \A i \in 1 .. l : b[i + 2] = d[i]
    BY ShortPlaces
<1>2. PICK c : c = SubSeq(b, 1, n)
    OBVIOUS
<1>3. n \in Nat /\ n <= Len(b) /\ n < 2 + l
    BY <1>1
<1>4. c \in Seq(Byte) /\ Len(c) = n /\ \A i \in 1 .. n : c[i] = b[i]
    BY <1>1, <1>2, <1>3, Kept, Zenon
<1>5. CASE n < 2
    BY <1>2, <1>4, <1>5, TooShort
<1>6. CASE n >= 2
  <2>1. Begins(c, l, d)
    <3>1. PICK m \in Nat : m = n - 2
        BY <1>3, <1>6, TwoLess, Zenon
    <3>2. ASSUME NEW i \in 1 .. m
          PROVE  c[i + 2] = d[i]
      <4>1. i \in 1 .. l
          BY <1>3, <3>1
      <4>2. PICK j \in 1 .. n : j = i + 2
          BY <3>1
      <4> QED BY <1>1, <1>4, <4>1, <4>2
    <3>3. c[2] = l
        BY <1>1, <1>4, <1>6
    <3>4. Len(c) >= 2 /\ Len(c) <= 2 + Len(d) /\ Len(c) - 2 = m
        BY <1>3, <1>4, <1>6, <3>1
    <3> QED BY <3>2, <3>3, <3>4, Zenon DEF Begins
  <2>2. Len(c) >= 2
      BY <1>4, <1>6
  <2>3. PICK k \in 0 .. 3 : \E m, r : Framed(c, k, m, r)
      BY <1>4, <2>2, FramedExists, Zenon
  <2>4. PICK m, r : Framed(c, k, m, r)
      BY <2>3
  <2>5. m = l /\ Len(r) = Len(c) - 2
      BY <1>4, <2>1, <2>4, ShortFrame
  <2>6. Len(r) < m
      BY <1>3, <1>4, <2>5
  <2> QED BY <1>2, <1>4, <2>2, <2>4, <2>6, PacketErr, Zenon
<1> QED BY <1>3, <1>5, <1>6

\* A body that starts with a byte of 128 or more loses it to the length.
LEMMA LostByte ==
    ASSUME NEW l \in Nat, l < 128, NEW d \in Seq(Byte), d # <<>>, d[1] >= 128,
           NEW h \in Byte, NEW b, Laid(b, h, <<l>>, d),
           NEW k \in 0 .. 3, NEW m, NEW r, Framed(b, k, m, r)
    PROVE  m >= l /\ Len(r) < Len(d)
<1>1. /\ b \in Seq(Byte) /\ Len(b) = 2 + Len(d) /\ b[2] = l
      /\ \A i \in 1 .. Len(d) : b[i + 2] = d[i]
    BY ShortPlaces
<1>2. Len(d) \in Nat /\ Len(d) >= 1
    OBVIOUS
<1>3. Len(b) >= 2
    BY <1>1, <1>2
<1>4. m \in Nat /\ m >= b[2] % 128 /\ Len(r) = Len(b) - k - 2
    BY <1>1, <1>3, FramedParts, ZenonT(60)
<1>5. m >= l
  <2>1. l % 128 = l
      OBVIOUS
  <2> QED BY <1>1, <1>4, <2>1, Zenon
<1>6. k # 0
  <2>1. PICK t, x : t = SubSeq(b, 2, Len(b)) /\ x = SubSeq(t, 2, Len(t))
      OBVIOUS
  <2>2. FrontOf(x, k)
      BY <2>1, Zenon DEF Framed
  <2>3. t \in Seq(Byte) /\ Len(t) = Len(b) - 1
      BY <1>1, <1>3, <2>1, ByteIs
  <2>4. Len(x) = Len(b) - 2
      BY <1>1, <1>2, <2>1, <2>3, ByteIs
  <2>5. x[1] = b[3]
    <3>1. x[1] = t[2]
        BY <1>1, <1>2, <2>1, <2>3
    <3>2. t[2] = b[3]
        BY <1>1, <1>2, <2>1, <2>3
    <3> QED BY <3>1, <3>2
  <2>6. b[3] = d[1] /\ d[1] \in Nat
    <3>1. PICK j \in 1 .. Len(d) : j = 1 /\ j + 2 = 3
        BY <1>2
    <3> QED BY <1>1, <3>1, BytesAreNat
  <2>7. Len(x) # 0
      BY <1>1, <1>2, <2>4
  <2> QED BY <2>2, <2>5, <2>6, <2>7 DEF FrontOf
<1> QED BY <1>1, <1>2, <1>4, <1>5, <1>6

-----------------------------------------------------------------------------
(***************************************************************************)
(* A length of several bytes: the last one is not read, so that less than   *)
(* the body is taken.                                                       *)
(***************************************************************************)
LEMMA LastDigit ==
    ASSUME NEW v, NEW n \in 2 .. 4, \A i \in 1 .. n : v[i] \in Nat
    PROVE  LengthOf(v, n - 1) <= LengthOf(v, n)
<1>1. \A i \in 1 .. n : v[i] % 128 \in Nat
  <2> TAKE i \in 1 .. n
  <2>1. v[i] \in Nat
      OBVIOUS
  <2> QED BY <2>1
<1>2. CASE n = 2
    BY <1>1, <1>2 DEF LengthOf
<1>3. CASE n = 3
    BY <1>1, <1>3 DEF LengthOf
<1>4. CASE n = 4
    BY <1>1, <1>4 DEF LengthOf
<1> QED BY <1>2, <1>3, <1>4

LEMMA LongFrame ==
    ASSUME NEW l \in Nat, l >= 128, l <= VARIABLE_INTEGER_MAX, NEW d \in Seq(Byte),
           NEW h \in Byte, NEW b, Laid(b, h, write_remaining_length(l), d),
           NEW k \in 0 .. 3, NEW m, NEW r, Framed(b, k, m, r)
    PROVE  m <= l /\ Len(r) = Len(d) + 1
<1>1. PICK v : v = write_remaining_length(l)
    OBVIOUS
<1>2. l \in Sizes /\ v = write_variable_u32(l)
    BY <1>1 DEF Sizes, VARIABLE_INTEGER_MAX, write_remaining_length
<1>3. PICK n \in 1 .. 4 : n = variable_u32_binary_size(l)
    BY <1>2, WrittenLength, Zenon
<1>4. /\ v \in Seq(Byte) /\ Len(v) = n /\ \A i \in 1 .. n - 1 : v[i] >= 128
      /\ v[n] < 128 /\ LengthOf(v, n) = l
    BY <1>2, <1>3, WrittenLength, Zenon
<1>5. /\ b \in Seq(Byte) /\ Len(b) = 1 + n + Len(d)
      /\ \A i \in 1 .. n : b[i + 1] = v[i]
    BY <1>1, <1>4, Zenon DEF Laid
<1>6. \A i \in 1 .. n : v[i] \in Nat
    BY <1>4, BytesAreNat
<1>7. n # 1
  <2>1. ASSUME n = 1
        PROVE  FALSE
    <3>1. v[1] \in Nat /\ v[1] < 128
        BY <1>4, <1>6, <2>1
    <3>2. LengthOf(v, 1) = v[1]
        BY <3>1, LengthOfBytes
    <3> QED BY <1>4, <2>1, <3>1, <3>2
  <2> QED BY <2>1
<1>8. Len(d) \in Nat /\ Len(b) >= 2
    BY <1>5
<1>9. k = n - 2
  <2>1. PICK j \in 0 .. 3 : j = n - 2 /\ j + 3 = n + 1
      BY <1>7
  <2>2. ASSUME NEW i \in 1 .. j
        PROVE  b[i + 2] >= 128
    <3>1. PICK e \in 1 .. n - 1 : e = i + 1 /\ e + 1 = i + 2
        BY <2>1
    <3>2. e \in 1 .. n
        OBVIOUS
    <3> QED BY <1>4, <1>5, <3>1, <3>2
  <2>3. b[j + 3] < 128
      BY <1>4, <1>5, <2>1
  <2>4. j <= Len(b) - 2
      BY <1>5, <1>8, <2>1
  <2> QED BY <1>5, <1>8, <2>1, <2>2, <2>3, <2>4, FramedPlaces
<1>10. Len(r) = Len(d) + 1
  <2>1. Len(r) = Len(b) - k - 2
      BY <1>5, <1>8, FramedParts, ZenonT(60)
  <2> QED BY <1>5, <1>8, <1>9, <2>1
<1>11. m <= l
  <2>1. PICK t : t = SubSeq(b, 2, Len(b))
      OBVIOUS
  <2>2. PICK e \in 1 .. 4 : e = n - 1 /\ e = k + 1
      BY <1>7, <1>9
  <2>3. m = LengthOf(t, e)
      BY <2>1, <2>2, Zenon DEF Framed
  <2>4. \A i \in 1 .. e : t[i] = b[i + 1]
      BY <1>5, <1>8, <2>1, <2>2
  <2>5. \A i \in 1 .. e : t[i] % 128 = v[i] % 128
      BY <1>5, <2>2, <2>4
  <2>6. LengthOf(t, e) = LengthOf(v, e)
      BY <2>5, LengthOfSame, Zenon
  <2>7. LengthOf(v, n - 1) <= LengthOf(v, n)
      BY <1>6, <1>7, LastDigit
  <2> QED BY <1>4, <2>2, <2>3, <2>6, <2>7
<1> QED BY <1>10, <1>11

-----------------------------------------------------------------------------
(***************************************************************************)
(* Numbers of two bytes, payloads and strings: what is read, and that what  *)
(* was written is read again.                                               *)
(***************************************************************************)
LEMMA RangeIs == ASSUME NEW n \in Nat PROVE \A u : u \in 0 .. n <=> u \in Nat /\ u <= n
OBVIOUS

LEMMA U16IsNat == \A u : u \in U16 <=> u \in Nat /\ u <= U16_MAX
<1>1. U16_MAX \in Nat
    BY DEF U16_MAX
<1> QED BY <1>1, RangeIs DEF U16

LEMMA U16Is ==
    ASSUME NEW b \in Seq(Byte)
    PROVE  /\ Len(b) < 2 => parse_u16(b) = Err
           /\ Len(b) >= 2 => /\ parse_u16(b) = Ok(256 * b[1] + b[2], SubSeq(b, 3, Len(b)))
                             /\ 256 * b[1] + b[2] \in U16
                             /\ SubSeq(b, 3, Len(b)) \in Seq(Byte)
                             /\ Len(SubSeq(b, 3, Len(b))) = Len(b) - 2
<1>1. CASE Len(b) < 2
    BY <1>1, TakeIs, ErrIs DEF parse_u16, MapOk, Then
<1>2. CASE Len(b) >= 2
  <2>1. PICK t, r : t = SubSeq(b, 1, 2) /\ r = SubSeq(b, 2 + 1, Len(b))
      OBVIOUS
  <2>2. take(2, b) = Ok(t, r)
      BY <1>2, <2>1, TakeIs
  <2>3. IsOk(take(2, b)) /\ take(2, b).value = t /\ take(2, b).rest = r
      BY <2>2, OkOf, Zenon
  <2>4. parse_u16(b) = Ok(256 * t[1] + t[2], r)
      BY <2>3 DEF parse_u16, MapOk, Then
  <2>5. t[1] = b[1] /\ t[2] = b[2]
      BY <1>2, <2>1
  <2>6. b[1] \in Nat /\ b[1] <= 255 /\ b[2] \in Nat /\ b[2] <= 255
      BY <1>2, BytesAreNat
  <2>7. 256 * b[1] + b[2] \in U16
    <3>1. 256 * b[1] + b[2] \in Nat /\ 256 * b[1] + b[2] <= U16_MAX
        BY <2>6 DEF U16_MAX
    <3> QED BY <3>1, U16IsNat
  <2>8. r \in Seq(Byte) /\ Len(r) = Len(b) - 2
      BY <1>2, <2>1, Dropped
  <2>9. r = SubSeq(b, 3, Len(b))
      BY <2>1
  <2> QED BY <1>2, <2>4, <2>5, <2>7, <2>8, <2>9
<1> QED BY <1>1, <1>2

\* What a parser leaves when it has taken a value of n bytes.
Leaves(b, x, n) ==
    /\ x.rest \in Seq(Byte) /\ Len(b) = n + Len(x.rest)

LEMMA U16Taken ==
    ASSUME NEW b \in Seq(Byte), NEW x, x = parse_u16(b), IsOk(x)
    PROVE  x.value \in U16 /\ Leaves(b, x, 2)
<1>1. Len(b) >= 2
    BY U16Is, ErrIs
<1>2. PICK u, r : u = 256 * b[1] + b[2] /\ r = SubSeq(b, 3, Len(b))
    OBVIOUS
<1>3. x = Ok(u, r) /\ u \in U16 /\ r \in Seq(Byte) /\ Len(r) = Len(b) - 2
    BY <1>1, <1>2, U16Is
<1>4. x.value = u /\ x.rest = r
    BY <1>3, OkOf, Zenon
<1> QED BY <1>3, <1>4 DEF Leaves

LEMMA PayloadTaken ==
    ASSUME NEW b \in Seq(Byte), NEW x, x = mpayload(b), IsOk(x)
    PROVE  x.value \in Seq(Byte) /\ Len(x.value) <= U16_MAX /\ Leaves(b, x, 2 + Len(x.value))
<1>1. PICK y : y = parse_u16(b)
    OBVIOUS
<1>2. IsOk(y) /\ x = take(y.value, y.rest)
    BY <1>1, ErrIs DEF mpayload, parse_binary_data, Then
<1>3. y.value \in U16 /\ y.rest \in Seq(Byte) /\ Len(b) = 2 + Len(y.rest)
    BY <1>1, <1>2, U16Taken DEF Leaves
<1>4. PICK n \in U16, r \in Seq(Byte) : n = y.value /\ r = y.rest
    BY <1>3
<1>5. n \in Nat /\ n <= U16_MAX
    BY U16IsNat, Zenon
<1>6. Len(r) >= n /\ x = Ok(SubSeq(r, 1, n), SubSeq(r, n + 1, Len(r)))
    BY <1>2, <1>4, <1>5, TakeIs, ErrIs
<1>7. x.value = SubSeq(r, 1, n) /\ x.rest = SubSeq(r, n + 1, Len(r))
  <2>1. PICK u, v : u = SubSeq(r, 1, n) /\ v = SubSeq(r, n + 1, Len(r))
      OBVIOUS
  <2>2. x = Ok(u, v)
      BY <1>6, <2>1
  <2>3. x.value = u /\ x.rest = v
      BY <2>2 DEF Ok
  <2> QED BY <2>1, <2>3
<1>8. SubSeq(r, 1, n) \in Seq(Byte) /\ Len(SubSeq(r, 1, n)) = n
    BY <1>5, <1>6, Kept
<1>9. SubSeq(r, n + 1, Len(r)) \in Seq(Byte) /\ Len(SubSeq(r, n + 1, Len(r))) = Len(r) - n
    BY <1>5, <1>6, Dropped
<1>10. Len(x.rest) = Len(r) - n /\ Len(r) \in Nat /\ Len(b) = 2 + Len(r) /\ Len(x.value) = n
    BY <1>3, <1>4, <1>7, <1>8, <1>9
<1>11. Len(b) = 2 + Len(x.value) + Len(x.rest)
    BY <1>5, <1>10
<1>12. x.value \in Seq(Byte) /\ x.rest \in Seq(Byte)
    BY <1>7, <1>8, <1>9, Zenon
<1> QED BY <1>5, <1>10, <1>11, <1>12 DEF Leaves

LEMMA StringTaken ==
    ASSUME NEW b \in Seq(Byte), NEW x, x = mstring(b), IsOk(x)
    PROVE  Text(x.value) /\ Len(x.value) <= U16_MAX /\ Leaves(b, x, 2 + Len(x.value))
<1>1. PICK y : y = mpayload(b)
    OBVIOUS
<1>2. IsOk(y) /\ IsUtf8[y.value] /\ ~control_characters(y.value) /\ x = Ok(y.value, y.rest)
    BY <1>1, ErrIs DEF mstring, Verify, Then
<1>3. x.value = y.value /\ x.rest = y.rest
    BY <1>2, OkOf, ZenonT(60)
<1>4. y.value \in Seq(Byte) /\ Len(y.value) <= U16_MAX /\ Leaves(b, y, 2 + Len(y.value))
    BY <1>1, <1>2, PayloadTaken
<1> QED BY <1>2, <1>3, <1>4 DEF Text, Leaves

LEMMA U16Written ==
    ASSUME NEW u \in U16
    PROVE  /\ write_u16(u) \in Seq(Byte) /\ Len(write_u16(u)) = 2
           /\ 256 * write_u16(u)[1] + write_u16(u)[2] = u
           /\ write_u16(u)[1] = u \div 256
<1>1. u \in Nat /\ u <= U16_MAX
    BY U16IsNat, Zenon
<1>2. PICK x, y : x = (u \div 256) % 256 /\ y = u % 256
    OBVIOUS
<1>3. /\ x \in Nat /\ x <= 255 /\ x = u \div 256
      /\ y \in Nat /\ y <= 255 /\ 256 * x + y = u
    BY <1>1, <1>2 DEF U16_MAX
<1>4. x \in Byte /\ y \in Byte
    BY <1>3, ByteIsNat, ZenonT(60)
<1>5. write_u16(u) = <<x, y>>
    BY <1>2 DEF write_u16
<1> QED BY <1>3, <1>4, <1>5

LEMMA U16Again ==
    ASSUME NEW u \in U16, NEW s \in Seq(Byte)
    PROVE  write_u16(u) \o s \in Seq(Byte) /\ parse_u16(write_u16(u) \o s) = Ok(u, s)
<1>1. PICK w : w = write_u16(u)
    OBVIOUS
<1>2. w \in Seq(Byte) /\ Len(w) = 2 /\ 256 * w[1] + w[2] = u
    BY <1>1, U16Written
<1>3. PICK b : b = w \o s
    OBVIOUS
<1>4. b \in Seq(Byte) /\ Len(b) = 2 + Len(s) /\ b[1] = w[1] /\ b[2] = w[2]
  <2>1. /\ b \in Seq(Byte) /\ Len(b) = Len(w) + Len(s)
        /\ \A i \in 1 .. Len(w) : b[i] = w[i]
      BY <1>2, <1>3, Joined, ZenonT(60)
  <2> QED BY <1>2, <2>1
<1>5. SubSeq(b, 3, Len(b)) = s
    BY <1>2, <1>3, <1>4
<1>6. Len(b) >= 2
    BY <1>4
<1>7. parse_u16(b) = Ok(256 * b[1] + b[2], SubSeq(b, 3, Len(b)))
    BY <1>4, <1>6, U16Is, Zenon
<1>8. parse_u16(b) = Ok(u, s)
    BY <1>2, <1>4, <1>5, <1>7
<1> QED BY <1>1, <1>3, <1>4, <1>8, Zenon

LEMMA WriteStringIs ==
    ASSUME NEW s \in Seq(Byte)
    PROVE  /\ WriteString(s) \in Seq(Byte) /\ Len(WriteString(s)) = 2 + Len(s)
           /\ Len(s) < 128 => WriteString(s)[1] = 0
           /\ Len(s) <= U16_MAX => Len(s) \in U16 /\ WriteString(s) = write_u16(Len(s)) \o s
<1>1. PICK n \in Nat : n = Len(s)
    OBVIOUS
<1>2. 2^16 = 65536
    OBVIOUS
<1>3. PICK u : u = n % 65536
    OBVIOUS
<1>4. u \in Nat /\ u <= U16_MAX /\ (n <= U16_MAX => u = n)
    BY <1>3 DEF U16_MAX
<1>5. u \in U16
    BY <1>4, U16IsNat
<1>6. PICK w : w = write_u16(u)
    OBVIOUS
<1>7. w \in Seq(Byte) /\ Len(w) = 2 /\ w[1] = u \div 256
    BY <1>5, <1>6, U16Written
<1>8. WriteString(s) = w \o s
    BY <1>1, <1>2, <1>3, <1>6 DEF WriteString
<1>9. w \o s \in Seq(Byte) /\ Len(w \o s) = Len(w) + Len(s) /\ \A i \in 1 .. Len(w) : (w \o s)[i] = w[i]
  <2>1. w \in Seq(Byte)
      BY <1>7
  <2> QED BY <2>1
<1>10. n < 128 => w[1] = 0
    BY <1>4, <1>7 DEF U16_MAX
<1>11. (w \o s)[1] = w[1]
    BY <1>7, <1>9
<1> QED BY <1>1, <1>4, <1>5, <1>6, <1>7, <1>8, <1>9, <1>10, <1>11, Zenon

LEMMA TakeAgain ==
    ASSUME NEW s \in Seq(Byte), NEW x \in Seq(Byte)
    PROVE  take(Len(s), s \o x) = Ok(s, x)
<1>1. PICK n \in Nat : n = Len(s)
    OBVIOUS
<1>2. PICK b : b = s \o x
    OBVIOUS
<1>3. b \in Seq(Byte) /\ Len(b) = n + Len(x)
    BY <1>1, <1>2
<1>4. SubSeq(b, 1, n) = s
    BY <1>1, <1>2, <1>3
<1>5. SubSeq(b, n + 1, Len(b)) = x
    BY <1>1, <1>2, <1>3
<1>6. Len(b) >= n
    BY <1>3
<1>7. take(n, b) = Ok(SubSeq(b, 1, n), SubSeq(b, n + 1, Len(b)))
    BY <1>3, <1>6, TakeIs, Zenon
<1> QED BY <1>1, <1>2, <1>4, <1>5, <1>7, Zenon

\* A payload of at most 65535 bytes is read as it was written.
LEMMA PayloadAgain ==
    ASSUME NEW s \in Seq(Byte), Len(s) <= U16_MAX, NEW x \in Seq(Byte)
    PROVE  WriteString(s) \o x \in Seq(Byte) /\ mpayload(WriteString(s) \o x) = Ok(s, x)
<1>1. PICK w, n : n = Len(s) /\ w = write_u16(n)
    OBVIOUS
<1>2. n \in U16 /\ WriteString(s) = w \o s
    BY <1>1, WriteStringIs, Zenon
<1>3. w \in Seq(Byte)
    BY <1>1, <1>2, U16Written, Zenon
<1>4. s \o x \in Seq(Byte)
    OBVIOUS
<1>5. (w \o s) \o x = w \o (s \o x)
    BY <1>3, Associative DEF Regroups
<1>6. w \o (s \o x) \in Seq(Byte) /\ parse_u16(w \o (s \o x)) = Ok(n, s \o x)
    BY <1>1, <1>2, <1>4, U16Again, Zenon
<1>7. PICK y : y = parse_u16(w \o (s \o x))
    OBVIOUS
<1>8. IsOk(y) /\ y.value = n /\ y.rest = s \o x
    BY <1>6, <1>7, OkOf, Zenon
<1>9. mpayload(w \o (s \o x)) = take(n, s \o x)
    BY <1>7, <1>8 DEF mpayload, parse_binary_data, Then
<1> QED BY <1>1, <1>2, <1>5, <1>6, <1>9, TakeAgain, Zenon

\* So is a string.
LEMMA StringAgain ==
    ASSUME NEW s, Text(s), Len(s) <= U16_MAX, NEW x \in Seq(Byte)
    PROVE  WriteString(s) \o x \in Seq(Byte) /\ mstring(WriteString(s) \o x) = Ok(s, x)
<1>1. s \in Seq(Byte) /\ IsUtf8[s] /\ ~control_characters(s)
    BY Zenon DEF Text
<1>2. PICK b, y : b = WriteString(s) \o x /\ y = mpayload(b)
    OBVIOUS
<1>3. b \in Seq(Byte) /\ y = Ok(s, x)
    BY <1>1, <1>2, PayloadAgain, Zenon
<1>4. IsOk(y) /\ y.value = s /\ y.rest = x
    BY <1>3, OkOf
<1>5. mstring(b) = Ok(s, x)
    BY <1>1, <1>2, <1>4 DEF mstring, Verify, Then
<1> QED BY <1>2, <1>3, <1>5, Zenon

-----------------------------------------------------------------------------
(***************************************************************************)
(* Enumerations, and the acks of a SUBACK: many1_count takes the longest    *)
(* run of them at the start of its input.                                   *)
(***************************************************************************)
LEMMA EnumIs ==
    ASSUME NEW codes, NEW b \in Seq(Byte)
    PROVE  /\ Len(b) = 0 => ParseEnum(codes, b) = Err
           /\ Len(b) >= 1 /\ b[1] \notin codes => ParseEnum(codes, b) = Err
           /\ Len(b) >= 1 /\ b[1] \in codes => ParseEnum(codes, b) = Ok(b[1], SubSeq(b, 2, Len(b)))
<1>1. PICK y : y = parse_u8(b)
    OBVIOUS
<1>2. CASE Len(b) = 0
  <2>1. ~IsOk(y)
      BY <1>1, <1>2, ByteIs, ErrIs
  <2> QED BY <1>1, <1>2, <2>1 DEF ParseEnum, Verify, Then
<1>3. CASE Len(b) >= 1
  <2>1. PICK v, r : v = b[1] /\ r = SubSeq(b, 2, Len(b))
      OBVIOUS
  <2>2. y = Ok(v, r)
      BY <1>1, <1>3, <2>1, ByteIs
  <2>3. IsOk(y) /\ y.value = v /\ y.rest = r
      BY <2>2 DEF Ok, IsOk
  <2>4. ParseEnum(codes, b) = IF v \in codes THEN Ok(v, r) ELSE Err
      BY <1>1, <2>3 DEF ParseEnum, Verify, Then
  <2> QED BY <1>3, <2>1, <2>4
<1> QED BY <1>2, <1>3

LEMMA EnumTaken ==
    ASSUME NEW codes, NEW b \in Seq(Byte), NEW x, x = ParseEnum(codes, b), IsOk(x)
    PROVE  x.value \in codes /\ Leaves(b, x, 1)
<1>1. Len(b) >= 1 /\ b[1] \in codes
    BY EnumIs, ErrIs
<1>2. PICK v, r : v = b[1] /\ r = SubSeq(b, 2, Len(b))
    OBVIOUS
<1>21. x = Ok(v, r)
    BY <1>1, <1>2, EnumIs
<1>3. x.value = b[1] /\ x.rest = SubSeq(b, 2, Len(b))
  <2>1. x.value = v /\ x.rest = r
      BY <1>21, OkOf, Zenon
  <2> QED BY <1>2, <2>1, Zenon
<1>4. SubSeq(b, 2, Len(b)) \in Seq(Byte) /\ Len(SubSeq(b, 2, Len(b))) = Len(b) - 1
    BY <1>1, ByteIs
<1> QED BY <1>1, <1>3, <1>4 DEF Leaves

LEMMA EnumAgain ==
    ASSUME NEW codes, NEW c \in Byte, c \in codes, NEW s \in Seq(Byte)
    PROVE  <<c>> \o s \in Seq(Byte) /\ ParseEnum(codes, <<c>> \o s) = Ok(c, s)
<1>1. PICK b : b = <<c>> \o s
    OBVIOUS
<1>2. b \in Seq(Byte) /\ Len(b) >= 1 /\ b[1] = c /\ SubSeq(b, 2, Len(b)) = s
    BY <1>1
<1>3. ParseEnum(codes, b) = Ok(b[1], SubSeq(b, 2, Len(b)))
    BY <1>2, EnumIs
<1> QED BY <1>1, <1>2, <1>3, Zenon

\* What many1_count makes of the count and the input before item i.
ItemStep(kind, i, r) ==
    Then(r, LAMBDA count, rest :
      LET item == ParseItem(kind, rest)
      IN  IF count = i - 1 /\ IsOk(item) THEN Ok(i, item.rest) ELSE Ok(count, rest))

Counts(f, kind, b) ==
    f = [i \in 0 .. Len(b) |-> IF i = 0 THEN Ok(0, b) ELSE ItemStep(kind, i, f[i - 1])]

LEMMA ManyItemsIs ==
    ASSUME NEW kind, NEW b
    PROVE  ManyItems(kind, b) =
             Verify((CHOOSE f : Counts(f, kind, b))[Len(b)], LAMBDA count : count > 0)
BY Zenon DEF ManyItems, Counts, ItemStep

\* The first m bytes are acks, and no more than these.
AckRun(b, m) ==
    /\ m <= Len(b) /\ \A i \in 1 .. m : b[i] \in MSubscriptionAck
    /\ m = Len(b) \/ b[m + 1] \notin MSubscriptionAck

LEMMA AckRunExists ==
    ASSUME NEW b \in Seq(Byte)
    PROVE  \E m \in Nat : AckRun(b, m)
<1>1. PICK n \in Nat : n = Len(b)
    OBVIOUS
<1> DEFINE S == {m \in Nat : m <= n => (\A i \in 1 .. m : b[i] \in MSubscriptionAck) \/ \E j \in Nat : AckRun(b, j)}
<1>2. 0 \in S
    OBVIOUS
<1>3. ASSUME NEW m \in Nat, m \in S
      PROVE  m + 1 \in S
  <2>1. CASE m + 1 <= n /\ ~ \E j \in Nat : AckRun(b, j)
    <3>1. \A i \in 1 .. m : b[i] \in MSubscriptionAck
        BY <1>3, <2>1
    <3>2. b[m + 1] \in MSubscriptionAck
      <4>1. ASSUME b[m + 1] \notin MSubscriptionAck
            PROVE  FALSE
        <5>1. AckRun(b, m)
            BY <1>1, <2>1, <3>1, <4>1 DEF AckRun
        <5> QED BY <2>1, <5>1
      <4> QED BY <4>1
    <3>3. \A i \in 1 .. m + 1 : b[i] \in MSubscriptionAck
      <4> TAKE i \in 1 .. m + 1
      <4>1. i = m + 1 \/ i \in 1 .. m
          OBVIOUS
      <4> QED BY <3>1, <3>2, <4>1
    <3> QED BY <3>3
  <2> QED BY <2>1
<1> HIDE DEF S
<1>4. Nat \subseteq S
    BY <1>2, <1>3, NatSetInduction, Zenon
<1>5. n \in S
    BY <1>4
<1>6. (\A i \in 1 .. n : b[i] \in MSubscriptionAck) => AckRun(b, n)
    BY <1>1 DEF AckRun
<1> QED BY <1>5, <1>6 DEF S

Least(i, m) == IF i <= m THEN i ELSE m

\* The count and the input after i items.
AfterAcks(b, m, i) == Ok(Least(i, m), SubSeq(b, Least(i, m) + 1, Len(b)))

LEMMA AckStep ==
    ASSUME NEW b \in Seq(Byte), NEW m \in Nat, AckRun(b, m), NEW i \in 1 .. Len(b)
    PROVE  ItemStep("ack", i, AfterAcks(b, m, i - 1)) = AfterAcks(b, m, i)
<1>1. PICK n \in Nat : n = Len(b) /\ m <= n /\ i <= n
    BY DEF AckRun
<1>2. PICK c : c = Least(i - 1, m)
    OBVIOUS
<1>3. c \in Nat /\ c < n /\ (i <= m => c = i - 1) /\ (i > m => c = m)
    BY <1>1, <1>2 DEF Least
<1>4. PICK r : r = SubSeq(b, c + 1, Len(b))
    OBVIOUS
<1>5. r \in Seq(Byte) /\ Len(r) = n - c /\ \A j \in 1 .. n - c : r[j] = b[j + c]
    BY <1>1, <1>3, <1>4, Dropped
<1>6. Len(r) >= 1 /\ r[1] = b[c + 1]
    BY <1>3, <1>5
<1>7. PICK y : y = AfterAcks(b, m, i - 1)
    OBVIOUS
<1>8. IsOk(y) /\ y.value = c /\ y.rest = r
  <2>1. y = Ok(c, r)
      BY <1>2, <1>4, <1>7, Zenon DEF AfterAcks
  <2> QED BY <2>1 DEF Ok, IsOk
<1>9. PICK item : item = ParseEnum(MSubscriptionAck, r)
    OBVIOUS
<1>10. ItemStep("ack", i, y) = IF c = i - 1 /\ IsOk(item) THEN Ok(i, item.rest) ELSE Ok(c, r)
    BY <1>8, <1>9 DEF ItemStep, Then, ParseItem
<1>11. CASE i <= m
  <2>1. c = i - 1 /\ c + 1 = i /\ Least(i, m) = i
      BY <1>3, <1>11 DEF Least
  <2>2. b[i] \in MSubscriptionAck
      BY <1>11 DEF AckRun
  <2>3. item = Ok(r[1], SubSeq(r, 2, Len(r)))
      BY <1>5, <1>6, <1>9, <2>1, <2>2, EnumIs
  <2>4. IsOk(item) /\ item.rest = SubSeq(r, 2, Len(r))
      BY <2>3, OkIs
  <2>5. SubSeq(r, 2, Len(r)) = SubSeq(b, i + 1, Len(b))
    <3>1. PICK x, z : x = SubSeq(r, 1 + 1, Len(r)) /\ z = SubSeq(b, i + 1, Len(b))
        OBVIOUS
    <3>2. x \in Seq(Byte) /\ Len(x) = Len(r) - 1 /\ \A j \in 1 .. Len(r) - 1 : x[j] = r[j + 1]
        BY <1>5, <1>6, <3>1, Dropped
    <3>3. z \in Seq(Byte) /\ Len(z) = n - i /\ \A j \in 1 .. n - i : z[j] = b[j + i]
        BY <1>1, <3>1, Dropped
    <3>4. Len(x) = Len(z) /\ Len(x) = n - i /\ Len(r) - 1 = n - i
      <4>1. PICK e : e = Len(r)
          OBVIOUS
      <4>2. e = n - c
          BY <1>5, <4>1, Zenon
      <4>3. PICK z1 \in Nat : z1 = i
          OBVIOUS
      <4>4. e - 1 = n - i
          BY <2>1, <4>2, <4>3
      <4> QED BY <3>2, <3>3, <4>1, <4>4, Zenon
    <3>5. ASSUME NEW j \in 1 .. n - i
          PROVE  x[j] = z[j]
      <4>1. PICK e \in 1 .. n - c : e = j + 1 /\ e + c = j + i
          BY <1>1, <1>3, <2>1
      <4> QED BY <1>5, <3>2, <3>3, <3>4, <4>1
    <3>6. x = z
        BY <3>2, <3>3, <3>4, <3>5, SameSequence
    <3>7. 1 + 1 = 2
        OBVIOUS
    <3> QED BY <3>1, <3>6, <3>7, Zenon
  <2> QED BY <1>7, <1>10, <2>1, <2>4, <2>5 DEF AfterAcks
<1>12. CASE i > m
  <2>1. c = m /\ Least(i, m) = m
      BY <1>3, <1>12 DEF Least
  <2>2. ItemStep("ack", i, y) = Ok(c, r)
    <3>1. CASE c = i - 1
      <4>1. b[m + 1] \notin MSubscriptionAck
          BY <1>1, <1>3, <2>1 DEF AckRun
      <4>2. item = Err
          BY <1>5, <1>6, <1>9, <2>1, <4>1, EnumIs
      <4> QED BY <1>10, <4>2, ErrIs
    <3>2. CASE c # i - 1
        BY <1>10, <3>2
    <3> QED BY <3>1, <3>2
  <2> QED BY <1>4, <1>7, <2>1, <2>2, Zenon DEF AfterAcks
<1> QED BY <1>1, <1>11, <1>12

LEMMA ManyAcks ==
    ASSUME NEW b \in Seq(Byte), NEW m \in Nat, AckRun(b, m)
    PROVE  ManyItems("ack", b) = IF m > 0 THEN Ok(m, SubSeq(b, m + 1, Len(b))) ELSE Err
<1>1. PICK n \in Nat : n = Len(b) /\ m <= n
    BY DEF AckRun
<1> DEFINE g == [i \in 0 .. n |-> AfterAcks(b, m, i)]
<1>2. AfterAcks(b, m, 0) = Ok(0, b)
  <2>1. Least(0, m) = 0
      BY DEF Least
  <2>2. SubSeq(b, 0 + 1, Len(b)) = b
      OBVIOUS
  <2> QED BY <2>1, <2>2, Zenon DEF AfterAcks
<1>3. ASSUME NEW i \in 0 .. n
      PROVE  AfterAcks(b, m, i) = IF i = 0 THEN Ok(0, b) ELSE ItemStep("ack", i, g[i - 1])
  <2>1. CASE i = 0
      BY <1>2, <2>1
  <2>2. CASE i # 0
    <3>1. i \in 1 .. Len(b) /\ i - 1 \in 0 .. n
        BY <1>1, <2>2
    <3>2. g[i - 1] = AfterAcks(b, m, i - 1)
        BY <3>1
    <3>3. ItemStep("ack", i, AfterAcks(b, m, i - 1)) = AfterAcks(b, m, i)
        BY <3>1, AckStep, Zenon
    <3> QED BY <2>2, <3>2, <3>3, Zenon
  <2> QED BY <2>1, <2>2
<1>4. Counts(g, "ack", b)
  <2>1. g = [i \in 0 .. n |-> IF i = 0 THEN Ok(0, b) ELSE ItemStep("ack", i, g[i - 1])]
      BY <1>3, Zenon
  <2> HIDE DEF g
  <2> QED BY <1>1, <2>1, Zenon DEF Counts
<1>5. PICK f : f = CHOOSE c : Counts(c, "ack", b)
    OBVIOUS
<1>6. Counts(f, "ack", b)
  <2> HIDE DEF g
  <2> QED BY <1>4, <1>5, Zenon
<1>7. \A i \in 0 .. n : f[i] = IF i = 0 THEN Ok(0, b) ELSE ItemStep("ack", i, f[i - 1])
    BY <1>1, <1>6, Zenon DEF Counts
<1> DEFINE S == {i \in Nat : i <= n => f[i] = AfterAcks(b, m, i)}
<1>8. 0 \in S
    BY <1>2, <1>7
<1>9. ASSUME NEW i \in Nat, i \in S
      PROVE  i + 1 \in S
  <2>1. CASE i + 1 <= n
    <3>1. PICK j \in 1 .. Len(b) : j = i + 1 /\ j - 1 = i /\ j \in 0 .. n /\ j # 0
        BY <1>1, <2>1
    <3>2. f[i] = AfterAcks(b, m, i)
        BY <1>9, <2>1
    <3>3. f[j] = ItemStep("ack", j, f[j - 1])
        BY <1>7, <3>1
    <3>4. ItemStep("ack", j, AfterAcks(b, m, j - 1)) = AfterAcks(b, m, j)
        BY <3>1, AckStep, Zenon
    <3>5. f[j] = AfterAcks(b, m, j)
        BY <3>1, <3>2, <3>3, <3>4, Zenon
    <3> QED BY <3>1, <3>5
  <2>2. CASE ~(i + 1 <= n)
      BY <2>2
  <2> QED BY <2>1, <2>2
<1> HIDE DEF S
<1>10. Nat \subseteq S
    BY <1>8, <1>9, NatSetInduction, Zenon
<1>11. f[n] = AfterAcks(b, m, n)
    BY <1>10 DEF S
<1>12. Least(n, m) = m
    BY <1>1 DEF Least
<1>13. f[n] = Ok(m, SubSeq(b, m + 1, Len(b)))
    BY <1>11, <1>12, Zenon DEF AfterAcks
<1>14. PICK y, r : y = f[n] /\ r = SubSeq(b, m + 1, Len(b))
    OBVIOUS
<1>15. IsOk(y) /\ y.value = m /\ y.rest = r
  <2>1. y = Ok(m, r)
      BY <1>13, <1>14, Zenon
  <2> QED BY <2>1 DEF Ok, IsOk
<1>16. ManyItems("ack", b) = Verify(y, LAMBDA count : count > 0)
    BY <1>1, <1>5, <1>14, ManyItemsIs
<1>17. ManyItems("ack", b) = IF m > 0 THEN Ok(m, r) ELSE Err
    BY <1>15, <1>16 DEF Verify, Then
<1> QED BY <1>14, <1>17

\* The acks are the bytes of the run.
LEMMA AcksAre ==
    ASSUME NEW b \in Seq(Byte), NEW m \in Nat, AckRun(b, m), NEW x, x = msubscriptionacks(b)
    PROVE  /\ m = 0 => ~IsOk(x)
           /\ m > 0 => IsOk(x) /\ x.value = SubSeq(b, 1, m)
<1>1. PICK y : y = ManyItems("ack", b)
    OBVIOUS
<1>2. y = IF m > 0 THEN Ok(m, SubSeq(b, m + 1, Len(b))) ELSE Err
    BY <1>1, ManyAcks, Zenon
<1>3. CASE m = 0
  <2>1. ~IsOk(y)
      BY <1>2, <1>3, ErrIs
  <2>2. x = Err
      BY <1>1, <2>1 DEF msubscriptionacks, MapOk, Then
  <2> QED BY <1>3, <2>2, ErrIs
<1>4. CASE m > 0
  <2>1. IsOk(y) /\ y.value = m
      BY <1>2, <1>4 DEF Ok, IsOk
  <2>2. x = Ok(SubSeq(b, 1, m), y.rest)
      BY <1>1, <2>1 DEF msubscriptionacks, MapOk, Then
  <2>3. IsOk(x) /\ x.value = SubSeq(b, 1, m)
      BY <2>2 DEF Ok, IsOk
  <2> QED BY <1>4, <2>3
<1> QED BY <1>3, <1>4

LEMMA AcksTaken ==
    ASSUME NEW b \in Seq(Byte), NEW x, x = msubscriptionacks(b), IsOk(x)
    PROVE  x.value \in Seq(MSubscriptionAck) /\ x.value # <<>> /\ Len(x.value) <= Len(b)
<1>1. PICK m \in Nat : AckRun(b, m)
    BY AckRunExists, Zenon
<1>2. m > 0 /\ x.value = SubSeq(b, 1, m)
    BY <1>1, AcksAre
<1>3. m <= Len(b) /\ \A i \in 1 .. m : b[i] \in MSubscriptionAck
    BY <1>1 DEF AckRun
<1>4. PICK s : s = SubSeq(b, 1, m)
    OBVIOUS
<1>5. s \in Seq(Byte) /\ Len(s) = m /\ \A i \in 1 .. m : s[i] = b[i]
    BY <1>3, <1>4, Kept
<1>6. s \in Seq(MSubscriptionAck)
    BY <1>3, <1>5
<1>7. s # <<>>
    BY <1>2, <1>5
<1> QED BY <1>2, <1>3, <1>4, <1>5, <1>6, <1>7

LEMMA AcksAgain ==
    ASSUME NEW s \in Seq(MSubscriptionAck), s # <<>>
    PROVE  s \in Seq(Byte) /\ IsOk(msubscriptionacks(s)) /\ msubscriptionacks(s).value = s
<1>1. s \in Seq(Byte)
    BY DEF MSubscriptionAck, Byte
<1>2. PICK m \in Nat : m = Len(s)
    OBVIOUS
<1>3. m > 0
    BY <1>2
<1>4. AckRun(s, m)
    BY <1>2 DEF AckRun
<1>5. SubSeq(s, 1, m) = s
    BY <1>2
<1>6. PICK x : x = msubscriptionacks(s)
    OBVIOUS
<1>7. IsOk(x) /\ x.value = SubSeq(s, 1, m)
    BY <1>1, <1>3, <1>4, <1>6, AcksAre
<1> QED BY <1>1, <1>5, <1>6, <1>7

-----------------------------------------------------------------------------
(***************************************************************************)
(* The bodies other than CONNECT's: what is read is well formed, and what   *)
(* was written from a well-formed one is read again.                        *)
(***************************************************************************)
LEMMA ConnackTaken ==
    ASSUME NEW b \in Seq(Byte), NEW x, x = ConnackData(b), IsOk(x)
    PROVE  /\ x.value = <<x.value[1], x.value[2]>>
           /\ x.value[1] \in {0, 1} /\ x.value[2] \in MConnectReturnCode
<1>1. PICK y : y = ParseEnum({0, 1}, b)
    OBVIOUS
<1>2. PICK z : z = ParseEnum(MConnectReturnCode, y.rest)
    OBVIOUS
<1>3. IsOk(y) /\ IsOk(z) /\ x = Ok(<<y.value, z.value>>, z.rest)
    BY <1>1, <1>2, ErrIs DEF ConnackData, MapOk, Then
<1>4. y.value \in {0, 1} /\ y.rest \in Seq(Byte)
    BY <1>1, <1>3, EnumTaken DEF Leaves
<1>5. z.value \in MConnectReturnCode
    BY <1>2, <1>3, <1>4, EnumTaken
<1>6. x.value = <<y.value, z.value>>
    BY <1>3 DEF Ok
<1> QED BY <1>4, <1>5, <1>6

LEMMA ConnackAgain ==
    ASSUME NEW s \in {0, 1}, NEW c \in MConnectReturnCode
    PROVE  /\ <<s, c>> \in Seq(Byte)
           /\ IsOk(ConnackData(<<s, c>>)) /\ ConnackData(<<s, c>>).value = <<s, c>>
<1>1. s \in Byte /\ c \in Byte
    BY DEF Byte, MConnectReturnCode
<1>2. PICK b, e : b = <<s, c>> /\ e = <<c>>
    OBVIOUS
<1>3. b \in Seq(Byte) /\ Len(b) >= 1 /\ b[1] = s /\ SubSeq(b, 2, Len(b)) = e
  <2>1. b \in Seq(Byte) /\ Len(b) = 2 /\ b[1] = s /\ b[2] = c
      BY <1>1, <1>2
  <2>2. e \in Seq(Byte) /\ Len(e) = 1 /\ e[1] = c
      BY <1>1, <1>2
  <2>3. PICK r : r = SubSeq(b, 2, Len(b))
      OBVIOUS
  <2>4. r \in Seq(Byte) /\ Len(r) = 1 /\ r[1] = b[2]
      BY <2>1, <2>3
  <2>5. r = e
      BY <2>1, <2>2, <2>4, SameSequence
  <2> QED BY <2>1, <2>3, <2>5
<1>4. e \in Seq(Byte) /\ Len(e) >= 1 /\ e[1] = c
    BY <1>1, <1>2
<1>5. PICK y : y = ParseEnum({0, 1}, b)
    OBVIOUS
<1>6. y = Ok(b[1], SubSeq(b, 2, Len(b)))
    BY <1>3, <1>5, EnumIs
<1>7. IsOk(y) /\ y.value = s /\ y.rest = e
    BY <1>3, <1>6 DEF Ok, IsOk
<1>8. PICK z : z = ParseEnum(MConnectReturnCode, e)
    OBVIOUS
<1>9. z = Ok(e[1], SubSeq(e, 2, Len(e)))
    BY <1>4, <1>8, EnumIs
<1>10. IsOk(z) /\ z.value = c
    BY <1>4, <1>9 DEF Ok, IsOk
<1>11. ConnackData(b) = Ok(<<s, c>>, z.rest)
    BY <1>5, <1>7, <1>8, <1>10 DEF ConnackData, MapOk, Then
<1>12. IsOk(ConnackData(b)) /\ ConnackData(b).value = <<s, c>>
    BY <1>11 DEF Ok, IsOk
<1> QED BY <1>2, <1>3, <1>12, Zenon

LEMMA PublishTaken ==
    ASSUME NEW b \in Seq(Byte), NEW flags \in 0 .. 15, QoSOf(flags) # 3,
           NEW x, x = PublishData(flags, b), IsOk(x)
    PROVE  /\ MPublish(flags, x.value)
           /\ get_len(x.value[1]) + 2 * Len(x.value[2]) + Len(x.value[3]) = Len(b)
<1>1. PICK y : y = mstring(b)
    OBVIOUS
<1>2. PICK z : z = Optional(QoSOf(flags) # 0, parse_u16(y.rest), y.rest)
    OBVIOUS
<1>3. /\ IsOk(y) /\ ~(DupOf(flags) /\ QoSOf(flags) = 0) /\ IsOk(z)
      /\ x = Ok(<<y.value, z.value, z.rest>>, <<>>)
  <2>1. PICK w : w = IF IsOk(y) THEN (IF ~(DupOf(flags) /\ QoSOf(flags) = 0) THEN Ok(y.value, y.rest) ELSE Err) ELSE Err
      OBVIOUS
  <2>2. x = IF IsOk(w)
            THEN Then(Optional(QoSOf(flags) # 0, parse_u16(w.rest), w.rest),
                      LAMBDA id, payload : Ok(<<w.value, id, payload>>, <<>>))
            ELSE Err
      BY <1>1, <2>1 DEF PublishData, Verify, Then
  <2>3. IsOk(w)
      BY <2>2, ErrIs
  <2>4. IsOk(y) /\ ~(DupOf(flags) /\ QoSOf(flags) = 0) /\ w = Ok(y.value, y.rest)
      BY <2>1, <2>3, ErrIs
  <2>5. w.value = y.value /\ w.rest = y.rest
      BY <2>4 DEF Ok
  <2>6. x = IF IsOk(z) THEN Ok(<<y.value, z.value, z.rest>>, <<>>) ELSE Err
      BY <1>2, <2>2, <2>3, <2>5 DEF Then
  <2> QED BY <2>4, <2>6, ErrIs
<1>4. Text(y.value) /\ y.rest \in Seq(Byte) /\ Len(b) = 2 + Len(y.value) + Len(y.rest)
    BY <1>1, <1>3, StringTaken DEF Leaves
<1>5. x.value = <<y.value, z.value, z.rest>>
    BY <1>3 DEF Ok
<1>6. PICK t, id, p : t = y.value /\ id = z.value /\ p = z.rest
    OBVIOUS
<1>61. PICK v : v = <<t, id, p>>
    OBVIOUS
<1>62. x.value = v /\ v[1] = t /\ v[2] = id /\ v[3] = p /\ v = <<v[1], v[2], v[3]>>
    BY <1>5, <1>6, <1>61
<1>7. CASE QoSOf(flags) = 0
  <2>1. z = Ok(<<>>, y.rest)
      BY <1>2, <1>7 DEF Optional
  <2>2. id = <<>> /\ p = y.rest
      BY <1>6, <2>1 DEF Ok
  <2>3. Text(t) /\ t \in Seq(Byte) /\ p \in Seq(Byte) /\ Len(b) = 2 + Len(t) + Len(p)
      BY <1>4, <1>6, <2>2 DEF Text
  <2>4. (2 + Len(t)) + 2 * Len(id) + Len(p) = Len(b)
      BY <2>2, <2>3
  <2>5. MPublish(flags, v)
      BY <1>3, <1>62, <1>7, <2>2, <2>3 DEF MPublish
  <2>6. get_len(v[1]) + 2 * Len(v[2]) + Len(v[3]) = Len(b)
      BY <1>62, <2>4 DEF get_len
  <2> QED BY <1>62, <2>5, <2>6, Zenon
<1>8. CASE QoSOf(flags) # 0
  <2>1. PICK w : w = parse_u16(y.rest)
      OBVIOUS
  <2>2. z = IF IsOk(w) THEN Ok(<<w.value>>, w.rest) ELSE Err
      BY <1>2, <1>8, <2>1 DEF Optional, MapOk, Then
  <2>3. IsOk(w) /\ z = Ok(<<w.value>>, w.rest)
      BY <1>3, <2>2, ErrIs
  <2>4. w.value \in U16 /\ w.rest \in Seq(Byte) /\ Len(y.rest) = 2 + Len(w.rest)
      BY <1>4, <2>1, <2>3, U16Taken DEF Leaves
  <2>5. id = <<w.value>> /\ p = w.rest
      BY <1>6, <2>3 DEF Ok
  <2>6. id = <<id[1]>> /\ id[1] \in U16 /\ Len(id) = 1
      BY <2>4, <2>5
  <2>7. Text(t) /\ t \in Seq(Byte) /\ p \in Seq(Byte) /\ Len(b) = 2 + Len(t) + (2 + Len(p))
      BY <1>4, <1>6, <2>4, <2>5 DEF Text
  <2>8. (2 + Len(t)) + 2 * Len(id) + Len(p) = Len(b)
      BY <2>6, <2>7
  <2>9. MPublish(flags, v)
      BY <1>3, <1>62, <1>8, <2>6, <2>7 DEF MPublish
  <2>10. get_len(v[1]) + 2 * Len(v[2]) + Len(v[3]) = Len(b)
      BY <1>62, <2>8 DEF get_len
  <2> QED BY <1>62, <2>9, <2>10, Zenon
<1> QED BY <1>7, <1>8

PublishBody(body) ==
    WriteString(body[1]) \o (IF body[2] = <<>> THEN <<>> ELSE write_u16(body[2][1])) \o body[3]

LEMMA PublishAgain ==
    ASSUME NEW flags, NEW body, MPublish(flags, body), Len(body[1]) <= U16_MAX,
           NEW d, d = PublishBody(body)
    PROVE  IsOk(PublishData(flags, d)) /\ PublishData(flags, d).value = body
<1>1. PICK t, id, p : t = body[1] /\ id = body[2] /\ p = body[3]
    OBVIOUS
<1>2. PICK w, u : w = WriteString(t) /\ u = IF id = <<>> THEN <<>> ELSE write_u16(id[1])
    OBVIOUS
<1>3. /\ body = <<t, id, p>> /\ Text(t) /\ t \in Seq(Byte) /\ p \in Seq(Byte) /\ Len(t) <= U16_MAX
      /\ ~(DupOf(flags) /\ QoSOf(flags) = 0)
      /\ QoSOf(flags) = 0 => id = <<>>
      /\ QoSOf(flags) # 0 => id = <<id[1]>> /\ id[1] \in U16
    BY <1>1 DEF MPublish, Text
<1>4. PICK r : r = u \o p
    OBVIOUS
<1>5. PICK z : z = Optional(QoSOf(flags) # 0, parse_u16(r), r)
    OBVIOUS
<1>6. u \in Seq(Byte) /\ r \in Seq(Byte) /\ z = Ok(id, p)
  <2>1. CASE QoSOf(flags) = 0
    <3>1. id = <<>> /\ u = <<>>
        BY <1>2, <1>3, <2>1
    <3>2. u \in Seq(Byte) /\ r = p
        BY <1>3, <1>4, <3>1
    <3>3. z = Ok(<<>>, r)
        BY <1>5, <2>1 DEF Optional
    <3> QED BY <1>3, <3>1, <3>2, <3>3
  <2>2. CASE QoSOf(flags) # 0
    <3>1. PICK e \in U16 : e = id[1] /\ id = <<e>>
        BY <1>3, <2>2
    <3>2. id # <<>>
        BY <3>1
    <3>3. u = write_u16(e)
        BY <1>2, <3>1, <3>2
    <3>4. u \in Seq(Byte) /\ r \in Seq(Byte) /\ parse_u16(r) = Ok(e, p)
        BY <1>3, <1>4, <3>3, U16Written, U16Again
    <3>5. PICK y : y = parse_u16(r)
        OBVIOUS
    <3>6. IsOk(y) /\ y.value = e /\ y.rest = p
        BY <3>4, <3>5 DEF Ok, IsOk
    <3>7. z = Ok(<<e>>, p)
        BY <1>5, <2>2, <3>5, <3>6 DEF Optional, MapOk, Then
    <3> QED BY <3>1, <3>4, <3>7
  <2> QED BY <2>1, <2>2
<1>7. d = w \o r
  <2>1. w \in Seq(Byte)
      BY <1>2, <1>3, WriteStringIs, Zenon
  <2>2. (w \o u) \o p = w \o (u \o p)
    <3>1. Regroups(w, u, p)
        BY <1>3, <1>6, <2>1, Associative, Zenon
    <3> QED BY <3>1 DEF Regroups
  <2>3. d = (w \o u) \o p
      BY <1>1, <1>2 DEF PublishBody
  <2> QED BY <1>4, <2>2, <2>3, Zenon
<1>8. PICK y : y = mstring(d)
    OBVIOUS
<1>9. y = Ok(t, r)
    BY <1>2, <1>3, <1>6, <1>7, <1>8, StringAgain, Zenon
<1>10. IsOk(y) /\ y.value = t /\ y.rest = r
    BY <1>9 DEF Ok, IsOk
<1>11. IsOk(z) /\ z.value = id /\ z.rest = p
    BY <1>6 DEF Ok, IsOk
<1>12. PICK v : v = Verify(y, LAMBDA topic : ~(DupOf(flags) /\ QoSOf(flags) = 0))
    OBVIOUS
<1>13. v = Ok(t, r)
    BY <1>3, <1>10, <1>12 DEF Verify, Then
<1>14. IsOk(v) /\ v.value = t /\ v.rest = r
    BY <1>13 DEF Ok, IsOk
<1>15. PublishData(flags, d) = Ok(<<t, id, p>>, <<>>)
    BY <1>5, <1>8, <1>11, <1>12, <1>14 DEF PublishData, Then
<1> QED BY <1>3, <1>15 DEF Ok, IsOk

LEMMA RequestsTaken ==
    ASSUME NEW kind, NEW b \in Seq(Byte), NEW x, x = mrequests(kind, b), IsOk(x)
    PROVE  MRequests(kind, x.value) /\ x.value.data = b
<1>1. PICK y : y = ManyItems(kind, b)
    OBVIOUS
<1>2. IsOk(y) /\ x = Ok([count |-> y.value, data |-> b], y.rest)
    BY <1>1, ErrIs DEF mrequests, MapOk, Then
<1>3. x.value = [count |-> y.value, data |-> b]
    BY <1>2 DEF Ok
<1>4. x.value.count = y.value /\ x.value.data = b
    BY <1>3
<1>5. x.value = [count |-> x.value.count, data |-> x.value.data]
    BY <1>3, <1>4
<1> QED BY <1>1, <1>2, <1>4, <1>5 DEF MRequests

LEMMA RequestsAgain ==
    ASSUME NEW kind, NEW r, MRequests(kind, r)
    PROVE  IsOk(mrequests(kind, r.data)) /\ mrequests(kind, r.data).value = r
<1>1. PICK y, b : b = r.data /\ y = ManyItems(kind, b)
    OBVIOUS
<1>2. IsOk(y) /\ r = [count |-> y.value, data |-> b]
    BY <1>1 DEF MRequests
<1>3. mrequests(kind, b) = Ok(r, y.rest)
    BY <1>1, <1>2 DEF mrequests, MapOk, Then
<1> QED BY <1>1, <1>3 DEF Ok, IsOk

\* What follows the identifier.
Following(type, b) ==
    CASE type = "Subscribe" -> mrequests("subscription", b)
      [] type = "Unsubscribe" -> mrequests("unsubscription", b)
      [] type = "Suback" -> msubscriptionacks(b)
      [] OTHER -> Ok(<<>>, b)

LEMMA IdentifiedIs ==
    ASSUME NEW type, NEW b, NEW y, y = parse_u16(b), NEW z, z = Following(type, y.rest)
    PROVE  IdentifiedData(type, b) =
             IF IsOk(y) THEN (IF IsOk(z) THEN Ok(<<y.value, z.value>>, z.rest) ELSE Err) ELSE Err
BY DEF IdentifiedData, MapOk, Then, Following

LEMMA IdentifiedTaken ==
    ASSUME NEW type, NEW b \in Seq(Byte), NEW x, x = IdentifiedData(type, b), IsOk(x)
    PROVE  /\ MIdentified(type, x.value)
           /\ type = "Subscribe" => Len(b) = 2 + Len(x.value[2].data)
           /\ type = "Suback" => Len(b) >= 2 + Len(x.value[2])
<1>1. PICK y : y = parse_u16(b)
    OBVIOUS
<1>2. PICK z : z = Following(type, y.rest)
    OBVIOUS
<1>3. IsOk(y) /\ IsOk(z) /\ x = Ok(<<y.value, z.value>>, z.rest)
  <2>1. x = IF IsOk(y) THEN (IF IsOk(z) THEN Ok(<<y.value, z.value>>, z.rest) ELSE Err) ELSE Err
      BY <1>1, <1>2, IdentifiedIs, ZenonT(60)
  <2> QED BY <2>1, ErrIs
<1>4. y.value \in U16 /\ y.rest \in Seq(Byte) /\ Len(b) = 2 + Len(y.rest)
    BY <1>1, <1>3, U16Taken DEF Leaves
<1>5. PICK id, m, v : id = y.value /\ m = z.value /\ v = <<id, m>>
    OBVIOUS
<1>6. x.value = v /\ v[1] = id /\ v[2] = m /\ v = <<v[1], v[2]>> /\ id \in U16
    BY <1>3, <1>4, <1>5 DEF Ok
<1>7. CASE type = "Subscribe"
  <2>1. z = mrequests("subscription", y.rest)
      BY <1>2, <1>7 DEF Following
  <2>2. MRequests("subscription", m) /\ m.data = y.rest
      BY <1>3, <1>4, <1>5, <2>1, RequestsTaken, ZenonT(60)
  <2> QED BY <1>4, <1>6, <1>7, <2>2 DEF MIdentified
<1>8. CASE type = "Unsubscribe"
  <2>1. z = mrequests("unsubscription", y.rest)
      BY <1>2, <1>8 DEF Following
  <2>2. MRequests("unsubscription", m) /\ m.data = y.rest
      BY <1>3, <1>4, <1>5, <2>1, RequestsTaken, ZenonT(60)
  <2> QED BY <1>6, <1>8, <2>2 DEF MIdentified
<1>9. CASE type = "Suback"
  <2>1. z = msubscriptionacks(y.rest)
      BY <1>2, <1>9 DEF Following
  <2>2. m \in Seq(MSubscriptionAck) /\ m # <<>> /\ Len(m) <= Len(y.rest)
      BY <1>3, <1>4, <1>5, <2>1, AcksTaken, Zenon
  <2>3. Len(b) >= 2 + Len(m)
      BY <1>4, <2>2
  <2> QED BY <1>6, <1>9, <2>2, <2>3 DEF MIdentified
<1>10. CASE type \notin {"Subscribe", "Unsubscribe", "Suback"}
  <2>1. z = Ok(<<>>, y.rest)
      BY <1>2, <1>10 DEF Following
  <2>2. m = <<>>
      BY <1>5, <2>1 DEF Ok
  <2> QED BY <1>6, <1>10, <2>2 DEF MIdentified
<1> QED BY <1>7, <1>8, <1>9, <1>10

LEMMA IdentifiedAgain ==
    ASSUME NEW type, NEW body, MIdentified(type, body), NEW s \in Seq(Byte),
           IsOk(Following(type, s)), Following(type, s).value = body[2]
    PROVE  /\ IsOk(IdentifiedData(type, write_u16(body[1]) \o s))
           /\ IdentifiedData(type, write_u16(body[1]) \o s).value = body
<1>1. PICK id \in U16 : id = body[1] /\ body = <<id, body[2]>>
    BY Zenon DEF MIdentified
<1>2. PICK d, y : d = write_u16(id) \o s /\ y = parse_u16(d)
    OBVIOUS
<1>3. y = Ok(id, s)
    BY <1>2, U16Again, Zenon
<1>4. IsOk(y) /\ y.value = id /\ y.rest = s
    BY <1>3 DEF Ok, IsOk
<1>5. PICK z : z = Following(type, s)
    OBVIOUS
<1>6. IdentifiedData(type, d) = Ok(<<id, body[2]>>, z.rest)
  <2>1. IdentifiedData(type, d) =
          IF IsOk(y) THEN (IF IsOk(z) THEN Ok(<<y.value, z.value>>, z.rest) ELSE Err) ELSE Err
      BY <1>2, <1>4, <1>5, IdentifiedIs, Zenon
  <2> QED BY <1>4, <1>5, <2>1
<1>7. IsOk(IdentifiedData(type, d)) /\ IdentifiedData(type, d).value = body
    BY <1>1, <1>6 DEF Ok, IsOk
<1> QED BY <1>1, <1>2, <1>7, Zenon

-----------------------------------------------------------------------------
(***************************************************************************)
(* CONNECT, step by step: what each parser does with the results of the     *)
(* ones before it.                                                          *)
(***************************************************************************)
FlagsAllowed(flags) == Bit(flags, 0) = 0 /\ (Bit(flags, 2) = 1 \/ (flags \div 8) % 4 = 0)

KeepAliveStep(flags, b) == MapOk(parse_u16(b), LAMBDA keep_alive : <<flags, keep_alive>>)
FlagsStep(b) ==
    Then(Verify(parse_u8(b), FlagsAllowed), LAMBDA flags, time : KeepAliveStep(flags, time))
LevelStep(b) ==
    Then(Verify(parse_u8(b), LAMBDA v : v = 4), LAMBDA v, rest : FlagsStep(rest))

\* A verified result: the same one, or an error.
LEMMA VerifiedIs ==
    ASSUME NEW y, NEW ok, NEW w,
           w = IF IsOk(y) THEN (IF ok THEN Ok(y.value, y.rest) ELSE Err) ELSE Err
    PROVE  /\ IsOk(w) <=> IsOk(y) /\ ok
           /\ IsOk(w) => w.value = y.value /\ w.rest = y.rest
<1>1. CASE IsOk(y) /\ ok
  <2>1. w = Ok(y.value, y.rest)
      BY <1>1
  <2> QED BY <1>1, <2>1 DEF Ok, IsOk
<1>2. CASE ~(IsOk(y) /\ ok)
  <2>1. w = Err
      BY <1>2
  <2> QED BY <1>2, <2>1, ErrIs
<1> QED BY <1>1, <1>2

LEMMA HeaderSteps ==
    ASSUME NEW b, NEW y, y = mstring(b)
    PROVE  ConnectHeader(b) = IF IsOk(y) /\ y.value = MQTT THEN LevelStep(y.rest) ELSE Err
<1>1. PICK w : w = Verify(y, LAMBDA name : name = MQTT)
    OBVIOUS
<1>2. w = IF IsOk(y) THEN (IF y.value = MQTT THEN Ok(y.value, y.rest) ELSE Err) ELSE Err
    BY <1>1 DEF Verify, Then
<1>3. /\ IsOk(w) <=> IsOk(y) /\ y.value = MQTT
      /\ IsOk(w) => w.value = y.value /\ w.rest = y.rest
    BY <1>2, VerifiedIs, ZenonT(60)
<1>4. ConnectHeader(b) = Then(w, LAMBDA name, level : LevelStep(level))
    BY <1>1 DEF ConnectHeader, LevelStep, FlagsStep, KeepAliveStep, FlagsAllowed
<1> QED BY <1>3, <1>4 DEF Then

LEMMA LevelSteps ==
    ASSUME NEW b, NEW y, y = parse_u8(b)
    PROVE  LevelStep(b) = IF IsOk(y) /\ y.value = 4 THEN FlagsStep(y.rest) ELSE Err
<1>1. PICK w : w = Verify(y, LAMBDA v : v = 4)
    OBVIOUS
<1>2. w = IF IsOk(y) THEN (IF y.value = 4 THEN Ok(y.value, y.rest) ELSE Err) ELSE Err
    BY <1>1 DEF Verify, Then
<1>3. /\ IsOk(w) <=> IsOk(y) /\ y.value = 4
      /\ IsOk(w) => w.value = y.value /\ w.rest = y.rest
    BY <1>2, VerifiedIs, ZenonT(60)
<1> QED BY <1>1, <1>3 DEF LevelStep, Then

LEMMA FlagsSteps ==
    ASSUME NEW b, NEW y, y = parse_u8(b)
    PROVE  FlagsStep(b) = IF IsOk(y) /\ FlagsAllowed(y.value) THEN KeepAliveStep(y.value, y.rest) ELSE Err
<1>1. PICK w : w = Verify(y, FlagsAllowed)
    OBVIOUS
<1>2. w = IF IsOk(y) THEN (IF FlagsAllowed(y.value) THEN Ok(y.value, y.rest) ELSE Err) ELSE Err
    BY <1>1 DEF Verify, Then
<1>3. /\ IsOk(w) <=> IsOk(y) /\ FlagsAllowed(y.value)
      /\ IsOk(w) => w.value = y.value /\ w.rest = y.rest
    BY <1>2, VerifiedIs, Zenon
<1> QED BY <1>1, <1>3 DEF FlagsStep, Then

LEMMA ByteTaken ==
    ASSUME NEW b \in Seq(Byte), NEW y, y = parse_u8(b), IsOk(y)
    PROVE  y.value \in Byte /\ Leaves(b, y, 1)
<1>1. Len(b) >= 1
    BY ByteIs, ErrIs
<1>2. PICK v, r : v = b[1] /\ r = SubSeq(b, 2, Len(b))
    OBVIOUS
<1>3. y = Ok(v, r) /\ v \in Byte /\ r \in Seq(Byte) /\ Len(r) = Len(b) - 1
    BY <1>1, <1>2, ByteIs
<1>4. y.value = v /\ y.rest = r
    BY <1>3 DEF Ok
<1> QED BY <1>1, <1>3, <1>4 DEF Leaves

LEMMA ByteAgain ==
    ASSUME NEW c \in Byte, NEW s \in Seq(Byte), NEW y, y = parse_u8(<<c>> \o s)
    PROVE  IsOk(y) /\ y.value = c /\ y.rest = s /\ <<c>> \o s \in Seq(Byte)
<1>1. PICK b : b = <<c>> \o s
    OBVIOUS
<1>2. b \in Seq(Byte) /\ Len(b) >= 1 /\ b[1] = c /\ SubSeq(b, 2, Len(b)) = s
    BY <1>1
<1>3. y = Ok(b[1], SubSeq(b, 2, Len(b)))
    BY <1>1, <1>2, ByteIs
<1>4. y = Ok(c, s)
    BY <1>2, <1>3, Zenon
<1> QED BY <1>1, <1>2, <1>4 DEF Ok, IsOk

LEMMA HeaderTaken ==
    ASSUME NEW b \in Seq(Byte), NEW x, x = ConnectHeader(b), IsOk(x)
    PROVE  /\ x.value[1] \in Byte /\ FlagsAllowed(x.value[1]) /\ x.value[2] \in U16
           /\ x.rest \in Seq(Byte) /\ Text(MQTT)
<1>1. PICK y1 : y1 = mstring(b)
    OBVIOUS
<1>2. PICK y2 : y2 = parse_u8(y1.rest)
    OBVIOUS
<1>3. PICK y3 : y3 = parse_u8(y2.rest)
    OBVIOUS
<1>4. PICK y4 : y4 = parse_u16(y3.rest)
    OBVIOUS
<1>5. IsOk(y1) /\ y1.value = MQTT /\ x = LevelStep(y1.rest)
    BY <1>1, HeaderSteps, ErrIs
<1>6. IsOk(y2) /\ x = FlagsStep(y2.rest)
    BY <1>2, <1>5, LevelSteps, ErrIs
<1>7. IsOk(y3) /\ FlagsAllowed(y3.value) /\ x = KeepAliveStep(y3.value, y3.rest)
    BY <1>3, <1>6, FlagsSteps, ErrIs
<1>8. IsOk(y4) /\ x = Ok(<<y3.value, y4.value>>, y4.rest)
    BY <1>4, <1>7, ErrIs DEF KeepAliveStep, MapOk, Then
<1>9. Text(MQTT) /\ y1.rest \in Seq(Byte)
    BY <1>1, <1>5, StringTaken DEF Leaves
<1>10. y2.rest \in Seq(Byte)
    BY <1>2, <1>6, <1>9, ByteTaken DEF Leaves
<1>11. y3.value \in Byte /\ y3.rest \in Seq(Byte)
    BY <1>3, <1>7, <1>10, ByteTaken DEF Leaves
<1>12. y4.value \in U16 /\ y4.rest \in Seq(Byte)
    BY <1>4, <1>8, <1>11, U16Taken DEF Leaves
<1>13. x.value = <<y3.value, y4.value>> /\ x.rest = y4.rest
    BY <1>8 DEF Ok
<1>14. x.value[1] = y3.value /\ x.value[2] = y4.value
    BY <1>13
<1> QED BY <1>7, <1>9, <1>11, <1>12, <1>13, <1>14, Zenon

LEMMA HeaderAgain ==
    ASSUME Text(MQTT), NEW f \in Byte, FlagsAllowed(f), NEW k \in U16, NEW r \in Seq(Byte),
           NEW x, x = ConnectHeader(WriteString(MQTT) \o (<<4, f>> \o (write_u16(k) \o r)))
    PROVE  x = Ok(<<f, k>>, r)
<1>1. PICK r3, r2, r1 : r3 = write_u16(k) \o r /\ r2 = <<f>> \o r3 /\ r1 = <<4>> \o r2
    OBVIOUS
<1>2. r3 \in Seq(Byte) /\ parse_u16(r3) = Ok(k, r)
    BY <1>1, U16Again
<1>3. PICK y4 : y4 = parse_u16(r3)
    OBVIOUS
<1>4. IsOk(y4) /\ y4.value = k /\ y4.rest = r
    BY <1>2, <1>3 DEF Ok, IsOk
<1>5. PICK y3 : y3 = parse_u8(r2)
    OBVIOUS
<1>6. IsOk(y3) /\ y3.value = f /\ y3.rest = r3 /\ r2 \in Seq(Byte)
    BY <1>1, <1>2, <1>5, ByteAgain, ZenonT(60)
<1>7. PICK y2 : y2 = parse_u8(r1)
    OBVIOUS
<1>8. 4 \in Byte
    BY DEF Byte
<1>9. IsOk(y2) /\ y2.value = 4 /\ y2.rest = r2 /\ r1 \in Seq(Byte)
  <2>1. PICK level \in Byte : level = 4
      BY <1>8
  <2>2. r2 \in Seq(Byte) /\ r1 = <<level>> \o r2
      BY <1>1, <1>6, <2>1
  <2>3. IsOk(y2) /\ y2.value = level /\ y2.rest = r2 /\ r1 \in Seq(Byte)
      BY <1>7, <2>2, ByteAgain, Zenon
  <2> QED BY <2>1, <2>3
<1>10. <<4, f>> \o r3 = r1
  <2>1. <<4, f>> = <<4>> \o <<f>> /\ <<4>> \in Seq(Byte) /\ <<f>> \in Seq(Byte)
      BY <1>8
  <2>2. Regroups(<<4>>, <<f>>, r3)
      BY <1>2, <2>1, Associative, Zenon
  <2> QED BY <1>1, <2>1, <2>2 DEF Regroups
<1>11. PICK b, y1 : b = WriteString(MQTT) \o r1 /\ y1 = mstring(b)
    OBVIOUS
<1>12. Len(MQTT) <= U16_MAX
    BY DEF MQTT, U16_MAX
<1>13. y1 = Ok(MQTT, r1)
    BY <1>9, <1>11, <1>12, StringAgain, Zenon
<1>14. IsOk(y1) /\ y1.value = MQTT /\ y1.rest = r1
    BY <1>13 DEF Ok, IsOk
<1>15. x = ConnectHeader(b)
    BY <1>1, <1>10, <1>11, Zenon
<1>16. x = LevelStep(r1)
    BY <1>11, <1>14, <1>15, HeaderSteps
<1>17. x = FlagsStep(r2)
    BY <1>7, <1>9, <1>16, LevelSteps
<1>18. x = KeepAliveStep(f, r3)
    BY <1>5, <1>6, <1>17, FlagsSteps
<1> QED BY <1>3, <1>4, <1>18 DEF KeepAliveStep, MapOk, Then

-----------------------------------------------------------------------------
(***************************************************************************)
(* The bits of the flags of CONNECT.                                        *)
(***************************************************************************)
LEMMA FlagBits ==
    ASSUME NEW x1 \in {0, 1}, NEW x2 \in {0, 1}, NEW x3 \in {0, 1}, NEW x4 \in {0, 1},
           NEW x5 \in {0, 1}, NEW x6 \in {0, 1}, NEW x7 \in {0, 1},
           NEW f, f = 128 * x7 + 64 * x6 + 32 * x5 + 16 * x4 + 8 * x3 + 4 * x2 + 2 * x1
    PROVE  /\ f \in Byte
           /\ Bit(f, 0) = 0 /\ Bit(f, 1) = x1 /\ Bit(f, 2) = x2 /\ (f \div 8) % 4 = 2 * x4 + x3
           /\ Bit(f, 5) = x5 /\ Bit(f, 6) = x6 /\ Bit(f, 7) = x7
<1>1. f \in Nat /\ f <= 255
    OBVIOUS
<1>2. f \in Byte
    BY <1>1, ByteIsNat
<1>3. Bit(f, 0) = 0
    BY <1>1 DEF Bit
<1>4. Bit(f, 1) = x1
    BY <1>1 DEF Bit
<1>5. Bit(f, 2) = x2
    BY <1>1 DEF Bit
<1>6. (f \div 8) % 4 = 2 * x4 + x3
    BY <1>1
<1>7. Bit(f, 5) = x5
    BY <1>1 DEF Bit
<1>8. Bit(f, 6) = x6
    BY <1>1 DEF Bit
<1>9. Bit(f, 7) = x7
    BY <1>1 DEF Bit
<1> QED BY <1>2, <1>3, <1>4, <1>5, <1>6, <1>7, <1>8, <1>9

\* A flag that is set adds its power of two.
One(P) == IF P THEN 1 ELSE 0

\* The flags say which fields follow, and what the will's qos and retain are: a
\* QoS of 0 is given as 1.
LEMMA ConnectFlagsAre ==
    ASSUME NEW c, MConnect(c), NEW f, f = ConnectFlags(c)
    PROVE  /\ f \in Byte /\ FlagsAllowed(f)
           /\ (Bit(f, 1) = 1) = c.clean_session
           /\ Bit(f, 2) = 1 <=> c.will # <<>>
           /\ Bit(f, 7) = 1 <=> c.username # <<>>
           /\ Bit(f, 6) = 1 <=> c.password # <<>>
           /\ c.will # <<>> => /\ (f \div 8) % 4 = IF c.will[1].qos = 2 THEN 2 ELSE 1
                               /\ (Bit(f, 5) = 1) = c.will[1].retain
<1>1. PICK w, u, p, q, r, s : /\ w = One(c.will # <<>>) /\ u = One(c.username # <<>>)
                              /\ p = One(c.password # <<>>)
                              /\ q = One(c.will # <<>> /\ c.will[1].qos = 2)
                              /\ r = One(c.will # <<>> /\ c.will[1].retain)
                              /\ s = One(c.clean_session)
    OBVIOUS
<1>2. PICK t : t = One(c.will # <<>> /\ c.will[1].qos # 2)
    OBVIOUS
<1>3. /\ w \in {0, 1} /\ u \in {0, 1} /\ p \in {0, 1} /\ q \in {0, 1} /\ r \in {0, 1}
      /\ s \in {0, 1} /\ t \in {0, 1}
    BY <1>1, <1>2 DEF One
<1>4. f = 128 * u + 64 * p + 32 * r + 16 * q + 8 * t + 4 * w + 2 * s
  <2>1. 2^1 = 2 /\ 2^2 = 4 /\ 2^3 = 8 /\ 2^4 = 16 /\ 2^5 = 32 /\ 2^6 = 64 /\ 2^7 = 128
      OBVIOUS
  <2>2. Flag(c.username # <<>>, 7) = 128 * u
      BY <1>1, <2>1 DEF Flag, One
  <2>3. Flag(c.password # <<>>, 6) = 64 * p
      BY <1>1, <2>1 DEF Flag, One
  <2>4. Flag(c.will # <<>> /\ c.will[1].retain, 5) = 32 * r
      BY <1>1, <2>1 DEF Flag, One
  <2>5. Flag(c.will # <<>> /\ c.will[1].qos = 2, 4) = 16 * q
      BY <1>1, <2>1 DEF Flag, One
  <2>6. Flag(c.will # <<>> /\ c.will[1].qos # 2, 3) = 8 * t
      BY <1>2, <2>1 DEF Flag, One
  <2>7. Flag(c.will # <<>> /\ TRUE, 2) = 4 * w
      BY <1>1, <2>1 DEF Flag, One
  <2>8. Flag(c.clean_session, 1) = 2 * s
      BY <1>1, <2>1 DEF Flag, One
  <2>9. f = Flag(c.username # <<>>, 7) + Flag(c.password # <<>>, 6)
            + Flag(c.will # <<>> /\ c.will[1].retain, 5)
            + Flag(c.will # <<>> /\ c.will[1].qos = 2, 4) + Flag(c.will # <<>> /\ c.will[1].qos # 2, 3)
            + Flag(c.will # <<>> /\ TRUE, 2) + Flag(c.clean_session, 1)
      BY Zenon DEF ConnectFlags
  <2> QED BY <2>2, <2>3, <2>4, <2>5, <2>6, <2>7, <2>8, <2>9, Zenon
<1>5. /\ f \in Byte
      /\ Bit(f, 0) = 0 /\ Bit(f, 1) = s /\ Bit(f, 2) = w /\ (f \div 8) % 4 = 2 * q + t
      /\ Bit(f, 5) = r /\ Bit(f, 6) = p /\ Bit(f, 7) = u
    BY <1>3, <1>4, FlagBits
<1>6. c.clean_session \in BOOLEAN /\ (c.will # <<>> => c.will[1].retain \in BOOLEAN)
    BY DEF MConnect, MLastWill
<1>7. (Bit(f, 1) = 1) = c.clean_session
  <2>1. CASE c.clean_session = TRUE
      BY <1>1, <1>5, <2>1 DEF One
  <2>2. CASE c.clean_session = FALSE
    <3>1. ~(Bit(f, 1) = 1)
        BY <1>1, <1>5, <2>2 DEF One
    <3> QED BY <2>2, <3>1, Zenon
  <2> QED BY <1>6, <2>1, <2>2
<1>8. /\ Bit(f, 2) = 1 <=> c.will # <<>>
      /\ Bit(f, 7) = 1 <=> c.username # <<>>
      /\ Bit(f, 6) = 1 <=> c.password # <<>>
    BY <1>1, <1>5 DEF One
<1>9. CASE c.will = <<>>
  <2>1. q = 0 /\ t = 0
      BY <1>1, <1>2, <1>9 DEF One
  <2>2. (f \div 8) % 4 = 0
      BY <1>5, <2>1
  <2> QED BY <1>5, <1>7, <1>8, <1>9, <2>2 DEF FlagsAllowed
<1>10. CASE c.will # <<>>
  <2>1. FlagsAllowed(f)
      BY <1>5, <1>8, <1>10 DEF FlagsAllowed
  <2>2. (f \div 8) % 4 = IF c.will[1].qos = 2 THEN 2 ELSE 1
    <3>1. CASE c.will[1].qos = 2
      <4>1. q = 1 /\ t = 0
          BY <1>1, <1>2, <1>10, <3>1 DEF One
      <4> QED BY <1>5, <3>1, <4>1
    <3>2. CASE c.will[1].qos # 2
      <4>1. q = 0 /\ t = 1
          BY <1>1, <1>2, <1>10, <3>2 DEF One
      <4> QED BY <1>5, <3>2, <4>1
    <3> QED BY <3>1, <3>2
  <2>3. (Bit(f, 5) = 1) = c.will[1].retain
    <3>1. CASE c.will[1].retain = TRUE
        BY <1>1, <1>5, <1>10, <3>1 DEF One
    <3>2. CASE c.will[1].retain = FALSE
      <4>1. ~(Bit(f, 5) = 1)
          BY <1>1, <1>5, <1>10, <3>2 DEF One
      <4> QED BY <3>2, <4>1, Zenon
    <3> QED BY <1>6, <1>10, <3>1, <3>2
  <2> QED BY <1>5, <1>7, <1>8, <2>1, <2>2, <2>3
<1> QED BY <1>9, <1>10

-----------------------------------------------------------------------------
(***************************************************************************)
(* The payload of CONNECT.                                                  *)
(***************************************************************************)
WillOf(topic, payload, flags) ==
    [topic |-> topic, payload |-> payload, qos |-> (flags \div 8) % 4, retain |-> Bit(flags, 5) = 1]

LEMMA WillIs ==
    ASSUME NEW f, NEW b, NEW y, y = mstring(b), NEW z, z = mpayload(y.rest)
    PROVE  mlastwill(f, b) =
             IF IsOk(y) /\ IsOk(z) /\ (f \div 8) % 4 \in mquality_of_service
             THEN Ok(WillOf(y.value, z.value, f), z.rest) ELSE Err
<1>1. PICK w : w = Verify(z, LAMBDA payload : (f \div 8) % 4 \in mquality_of_service)
    OBVIOUS
<1>2. w = IF IsOk(z) THEN (IF (f \div 8) % 4 \in mquality_of_service THEN Ok(z.value, z.rest) ELSE Err) ELSE Err
    BY <1>1 DEF Verify, Then
<1>3. /\ IsOk(w) <=> IsOk(z) /\ (f \div 8) % 4 \in mquality_of_service
      /\ IsOk(w) => w.value = z.value /\ w.rest = z.rest
    BY <1>2, VerifiedIs, ZenonT(60)
<1>4. mlastwill(f, b) =
        IF IsOk(y) THEN (IF IsOk(w) THEN Ok(WillOf(y.value, w.value, f), w.rest) ELSE Err) ELSE Err
    BY <1>1 DEF mlastwill, MapOk, Then, WillOf
<1> QED BY <1>3, <1>4

LEMMA WillTaken ==
    ASSUME NEW f, NEW b \in Seq(Byte), NEW x, x = mlastwill(f, b), IsOk(x)
    PROVE  /\ MLastWill(x.value) /\ x.rest \in Seq(Byte)
           /\ Len(x.value.topic) <= U16_MAX /\ Len(x.value.payload) <= U16_MAX
<1>1. PICK y : y = mstring(b)
    OBVIOUS
<1>2. PICK z : z = mpayload(y.rest)
    OBVIOUS
<1>3. IsOk(y) /\ IsOk(z) /\ (f \div 8) % 4 \in mquality_of_service /\ x = Ok(WillOf(y.value, z.value, f), z.rest)
    BY <1>1, <1>2, WillIs, ErrIs
<1>4. Text(y.value) /\ Len(y.value) <= U16_MAX /\ y.rest \in Seq(Byte)
    BY <1>1, <1>3, StringTaken DEF Leaves
<1>5. z.value \in Seq(Byte) /\ Len(z.value) <= U16_MAX /\ z.rest \in Seq(Byte)
    BY <1>2, <1>3, <1>4, PayloadTaken DEF Leaves
<1>6. PICK t, p, q, s : t = y.value /\ p = z.value /\ q = (f \div 8) % 4 /\ s = (Bit(f, 5) = 1)
    OBVIOUS
<1>7. PICK v : v = [topic |-> t, payload |-> p, qos |-> q, retain |-> s]
    OBVIOUS
<1>8. x.value = v /\ x.rest = z.rest
    BY <1>3, <1>6, <1>7 DEF Ok, WillOf
<1>9. v.topic = t /\ v.payload = p /\ v.qos = q /\ v.retain = s
    BY <1>7
<1>10. s \in BOOLEAN
    BY <1>6
<1>11. MLastWill(v)
    BY <1>3, <1>4, <1>5, <1>6, <1>7, <1>9, <1>10 DEF MLastWill
<1> QED BY <1>4, <1>5, <1>6, <1>8, <1>9, <1>11, Zenon

LEMMA WillAgain ==
    ASSUME NEW f, (f \div 8) % 4 \in mquality_of_service, NEW t, Text(t), Len(t) <= U16_MAX,
           NEW p \in Seq(Byte), Len(p) <= U16_MAX, NEW r \in Seq(Byte),
           NEW x, x = mlastwill(f, (WriteString(t) \o WriteString(p)) \o r)
    PROVE  IsOk(x) /\ x.value = WillOf(t, p, f) /\ x.rest = r
<1>1. PICK v, w, s : v = WriteString(t) /\ w = WriteString(p) /\ s = w \o r
    OBVIOUS
<1>2. v \in Seq(Byte) /\ w \in Seq(Byte)
  <2>1. t \in Seq(Byte)
      BY DEF Text
  <2> QED BY <1>1, <2>1, WriteStringIs
<1>3. (v \o w) \o r = v \o s
  <2>1. Regroups(v, w, r)
      BY <1>2, Associative, Zenon
  <2> QED BY <1>1, <2>1 DEF Regroups
<1>4. s \in Seq(Byte) /\ mpayload(s) = Ok(p, r)
    BY <1>1, PayloadAgain, Zenon
<1>5. PICK b : b = v \o s
    OBVIOUS
<1>6. mstring(b) = Ok(t, s)
    BY <1>1, <1>4, <1>5, StringAgain, Zenon
<1>7. PICK y, z : y = mstring(b) /\ z = mpayload(s)
    OBVIOUS
<1>8. IsOk(y) /\ y.value = t /\ y.rest = s
    BY <1>6, <1>7 DEF Ok, IsOk
<1>9. IsOk(z) /\ z.value = p /\ z.rest = r
    BY <1>4, <1>7 DEF Ok, IsOk
<1>10. x = mlastwill(f, b)
    BY <1>1, <1>3, <1>5, Zenon
<1>11. x = Ok(WillOf(t, p, f), r)
    BY <1>7, <1>8, <1>9, <1>10, WillIs
<1> QED BY <1>11 DEF Ok, IsOk

ConnectOf(header, client_id, last_will, username, password) ==
    [protocol_name |-> MQTT, protocol_level |-> 4, clean_session |-> Bit(header[1], 1) = 1,
     will |-> last_will, username |-> username, password |-> password,
     keep_alive |-> header[2], client_id |-> client_id]

PasswordStep(header, client_id, last_will, username, r) ==
    MapOk(Optional(Bit(header[1], 6) = 1, mpayload(r), r),
          LAMBDA password : ConnectOf(header, client_id, last_will, username, password))
UsernameStep(header, client_id, last_will, r) ==
    Then(Optional(Bit(header[1], 7) = 1, mstring(r), r),
         LAMBDA username, rest : PasswordStep(header, client_id, last_will, username, rest))
WillStep(header, client_id, r) ==
    Then(Optional(Bit(header[1], 2) = 1, mlastwill(header[1], r), r),
         LAMBDA last_will, rest : UsernameStep(header, client_id, last_will, rest))
ClientStep(header, r) ==
    Then(mstring(r), LAMBDA client_id, rest : WillStep(header, client_id, rest))

LEMMA ConnectSteps ==
    ASSUME NEW b, NEW y, y = ConnectHeader(b)
    PROVE  ConnectData(b) = IF IsOk(y) THEN ClientStep(y.value, y.rest) ELSE Err
BY DEF ConnectData, ClientStep, WillStep, UsernameStep, PasswordStep, ConnectOf, Then, MapOk

LEMMA ClientSteps ==
    ASSUME NEW h, NEW b, NEW y, y = mstring(b)
    PROVE  ClientStep(h, b) = IF IsOk(y) THEN WillStep(h, y.value, y.rest) ELSE Err
BY DEF ClientStep, Then

LEMMA WillSteps ==
    ASSUME NEW h, NEW id, NEW b, NEW y, y = Optional(Bit(h[1], 2) = 1, mlastwill(h[1], b), b)
    PROVE  WillStep(h, id, b) = IF IsOk(y) THEN UsernameStep(h, id, y.value, y.rest) ELSE Err
BY DEF WillStep, Then

LEMMA UsernameSteps ==
    ASSUME NEW h, NEW id, NEW w, NEW b, NEW y, y = Optional(Bit(h[1], 7) = 1, mstring(b), b)
    PROVE  UsernameStep(h, id, w, b) = IF IsOk(y) THEN PasswordStep(h, id, w, y.value, y.rest) ELSE Err
BY DEF UsernameStep, Then

LEMMA PasswordSteps ==
    ASSUME NEW h, NEW id, NEW w, NEW u, NEW b, NEW y, y = Optional(Bit(h[1], 6) = 1, mpayload(b), b)
    PROVE  PasswordStep(h, id, w, u, b) = IF IsOk(y) THEN Ok(ConnectOf(h, id, w, u, y.value), y.rest) ELSE Err
BY DEF PasswordStep, MapOk, Then

\* A field of at most 65535 bytes, or none.
ShortField(o) == o = <<>> \/ (o = <<o[1]>> /\ o[1] \in Seq(Byte) /\ Len(o[1]) <= U16_MAX)

TextField(o) == o = <<>> \/ (o = <<o[1]>> /\ Text(o[1]))

LEMMA UsernameTaken ==
    ASSUME NEW f, NEW k, NEW b \in Seq(Byte), NEW x, x = Optional(Bit(f, k) = 1, mstring(b), b), IsOk(x)
    PROVE  TextField(x.value) /\ ShortField(x.value) /\ x.rest \in Seq(Byte)
<1>1. CASE Bit(f, k) # 1
  <2>0. x = Ok(<<>>, b)
      BY <1>1 DEF Optional
  <2>1. x.value = <<>> /\ x.rest = b
      BY <2>0 DEF Ok
  <2> QED BY <2>1 DEF ShortField, TextField
<1>2. CASE Bit(f, k) = 1
  <2>1. PICK y : y = mstring(b)
      OBVIOUS
  <2>0. x = IF IsOk(y) THEN Ok(<<y.value>>, y.rest) ELSE Err
      BY <1>2, <2>1 DEF Optional, MapOk, Then
  <2>9. IsOk(y)
      BY <2>0, ErrIs
  <2>2. IsOk(y) /\ x.value = <<y.value>> /\ x.rest = y.rest
      BY <2>0, <2>9 DEF Ok
  <2>3. Text(y.value) /\ Len(y.value) <= U16_MAX /\ y.rest \in Seq(Byte)
      BY <2>1, <2>2, StringTaken DEF Leaves
  <2>4. y.value \in Seq(Byte)
      BY <2>3 DEF Text
  <2>5. x.value[1] = y.value /\ x.value = <<x.value[1]>>
      BY <2>2
  <2> QED BY <2>2, <2>3, <2>4, <2>5 DEF ShortField, TextField
<1> QED BY <1>1, <1>2

LEMMA PasswordTaken ==
    ASSUME NEW f, NEW k, NEW b \in Seq(Byte), NEW x, x = Optional(Bit(f, k) = 1, mpayload(b), b), IsOk(x)
    PROVE  ShortField(x.value) /\ x.rest \in Seq(Byte)
<1>1. CASE Bit(f, k) # 1
  <2>0. x = Ok(<<>>, b)
      BY <1>1 DEF Optional
  <2>1. x.value = <<>> /\ x.rest = b
      BY <2>0 DEF Ok
  <2> QED BY <2>1 DEF ShortField
<1>2. CASE Bit(f, k) = 1
  <2>1. PICK y : y = mpayload(b)
      OBVIOUS
  <2>0. x = IF IsOk(y) THEN Ok(<<y.value>>, y.rest) ELSE Err
      BY <1>2, <2>1 DEF Optional, MapOk, Then
  <2>9. IsOk(y)
      BY <2>0, ErrIs
  <2>2. IsOk(y) /\ x.value = <<y.value>> /\ x.rest = y.rest
      BY <2>0, <2>9 DEF Ok
  <2>3. y.value \in Seq(Byte) /\ Len(y.value) <= U16_MAX /\ y.rest \in Seq(Byte)
      BY <2>1, <2>2, PayloadTaken DEF Leaves
  <2>5. x.value[1] = y.value /\ x.value = <<x.value[1]>>
      BY <2>2
  <2> QED BY <2>2, <2>3, <2>5 DEF ShortField
<1> QED BY <1>1, <1>2

ShortWill(w) ==
    \/ w = <<>>
    \/ /\ w = <<w[1]>> /\ MLastWill(w[1])
       /\ Len(w[1].topic) <= U16_MAX /\ Len(w[1].payload) <= U16_MAX

LEMMA OptionalWillTaken ==
    ASSUME NEW f, NEW k, NEW b \in Seq(Byte),
           NEW x, x = Optional(Bit(f, k) = 1, mlastwill(f, b), b), IsOk(x)
    PROVE  ShortWill(x.value) /\ x.rest \in Seq(Byte)
<1>1. CASE Bit(f, k) # 1
  <2>0. x = Ok(<<>>, b)
      BY <1>1 DEF Optional
  <2>1. x.value = <<>> /\ x.rest = b
      BY <2>0 DEF Ok
  <2> QED BY <2>1 DEF ShortWill
<1>2. CASE Bit(f, k) = 1
  <2>1. PICK y : y = mlastwill(f, b)
      OBVIOUS
  <2>0. x = IF IsOk(y) THEN Ok(<<y.value>>, y.rest) ELSE Err
      BY <1>2, <2>1 DEF Optional, MapOk, Then
  <2>9. IsOk(y)
      BY <2>0, ErrIs
  <2>2. IsOk(y) /\ x.value = <<y.value>> /\ x.rest = y.rest
      BY <2>0, <2>9 DEF Ok
  <2>3. /\ MLastWill(y.value) /\ y.rest \in Seq(Byte)
        /\ Len(y.value.topic) <= U16_MAX /\ Len(y.value.payload) <= U16_MAX
      BY <2>1, <2>2, WillTaken, Zenon
  <2>4. x.value[1] = y.value /\ x.value = <<x.value[1]>>
      BY <2>2
  <2> QED BY <2>2, <2>3, <2>4 DEF ShortWill
<1> QED BY <1>1, <1>2

\* Every field as long as its own length allows: the announced length counts them.
ShortConnect(c) ==
    /\ Len(c.client_id) <= U16_MAX
    /\ ShortWill(c.will) /\ ShortField(c.username) /\ ShortField(c.password)

LEMMA FieldLength ==
    ASSUME NEW o, ShortField(o)
    PROVE  \E n \in Nat : n <= U16_MAX + 2 /\ n = IF o = <<>> THEN 0 ELSE get_len(o[1])
<1>1. CASE o = <<>>
    BY <1>1 DEF U16_MAX
<1>2. CASE o # <<>>
  <2>1. PICK s : s = o[1]
      OBVIOUS
  <2>2. s \in Seq(Byte) /\ Len(s) <= U16_MAX
      BY <1>2, <2>1 DEF ShortField
  <2>3. Len(s) \in Nat
      BY <2>2
  <2>4. get_len(s) \in Nat /\ get_len(s) <= U16_MAX + 2
      BY <2>2, <2>3 DEF get_len, U16_MAX
  <2> QED BY <1>2, <2>1, <2>4
<1> QED BY <1>1, <1>2

LEMMA WillLength ==
    ASSUME NEW w, ShortWill(w)
    PROVE  \E n \in Nat : /\ n <= 2 * (U16_MAX + 2)
                          /\ n = IF w = <<>> THEN 0 ELSE get_len(w[1].topic) + get_len(w[1].payload)
<1>1. CASE w = <<>>
    BY <1>1 DEF U16_MAX
<1>2. CASE w # <<>>
  <2>1. PICK s, t : s = w[1].topic /\ t = w[1].payload
      OBVIOUS
  <2>2. s \in Seq(Byte) /\ Len(s) <= U16_MAX /\ t \in Seq(Byte) /\ Len(t) <= U16_MAX
      BY <1>2, <2>1 DEF ShortWill, MLastWill, Text
  <2>3. Len(s) \in Nat /\ Len(t) \in Nat
      BY <2>2
  <2>4. PICK n : n = get_len(s) + get_len(t)
      OBVIOUS
  <2>5. n \in Nat /\ n <= 2 * (U16_MAX + 2)
      BY <2>2, <2>3, <2>4 DEF get_len, U16_MAX
  <2> QED BY <1>2, <2>1, <2>4, <2>5
<1> QED BY <1>1, <1>2

LEMMA ConnectLengthIs ==
    ASSUME NEW c, Text(c.client_id), ShortConnect(c)
    PROVE  ConnectLength(c) \in Nat /\ ConnectLength(c) <= VARIABLE_INTEGER_MAX
<1>1. PICK w \in Nat : /\ w <= 2 * (U16_MAX + 2)
                       /\ w = IF c.will = <<>> THEN 0 ELSE get_len(c.will[1].topic) + get_len(c.will[1].payload)
    BY WillLength DEF ShortConnect
<1>2. PICK u \in Nat : u <= U16_MAX + 2 /\ u = IF c.username = <<>> THEN 0 ELSE get_len(c.username[1])
    BY FieldLength DEF ShortConnect
<1>3. PICK p \in Nat : p <= U16_MAX + 2 /\ p = IF c.password = <<>> THEN 0 ELSE get_len(c.password[1])
    BY FieldLength DEF ShortConnect
<1>4. PICK s : s = c.client_id
    OBVIOUS
<1>5. s \in Seq(Byte) /\ Len(s) <= U16_MAX
    BY <1>4 DEF Text, ShortConnect
<1>6. PICK i : i = Len(s)
    OBVIOUS
<1>7. i \in Nat /\ i <= U16_MAX
    BY <1>5, <1>6
<1>8. get_len(s) = 2 + i
    BY <1>6 DEF get_len
<1>9. ConnectLength(c) = 10 + (2 + i) + w + u + p
    BY <1>1, <1>2, <1>3, <1>4, <1>8 DEF ConnectLength
<1>10. w <= 131074 /\ u <= 65537 /\ p <= 65537 /\ i <= 65535
    BY <1>1, <1>2, <1>3, <1>7 DEF U16_MAX
<1>11. PICK n : n = 10 + (2 + i) + w + u + p
    OBVIOUS
<1>12. n \in Nat /\ n <= 327695
    BY <1>7, <1>10, <1>11
<1>13. n <= VARIABLE_INTEGER_MAX
    BY <1>12 DEF VARIABLE_INTEGER_MAX
<1> QED BY <1>9, <1>11, <1>12, <1>13

LEMMA ConnectOfIs ==
    ASSUME Text(MQTT), NEW h, h[2] \in U16, NEW id, Text(id), Len(id) <= U16_MAX,
           NEW w, ShortWill(w), NEW u, ShortField(u), TextField(u),
           NEW p, ShortField(p), NEW c, c = ConnectOf(h, id, w, u, p)
    PROVE  MConnect(c) /\ ShortConnect(c)
<1>1. PICK cs, k : cs = (Bit(h[1], 1) = 1) /\ k = h[2]
    OBVIOUS
<1>2. cs \in BOOLEAN
    BY <1>1
<1>3. c = [protocol_name |-> MQTT, protocol_level |-> 4, clean_session |-> cs,
           will |-> w, username |-> u, password |-> p, keep_alive |-> k, client_id |-> id]
    BY <1>1 DEF ConnectOf
<1>4. /\ c.protocol_name = MQTT /\ c.protocol_level = 4 /\ c.clean_session = cs /\ c.will = w
      /\ c.username = u /\ c.password = p /\ c.keep_alive = k /\ c.client_id = id
    BY <1>3
<1>5. c.will = <<>> \/ (c.will = <<c.will[1]>> /\ MLastWill(c.will[1]))
    BY <1>4 DEF ShortWill
<1>6. c.password = <<>> \/ (c.password = <<c.password[1]>> /\ c.password[1] \in Seq(Byte))
    BY <1>4 DEF ShortField
<1>7. c.username = <<>> \/ (c.username = <<c.username[1]>> /\ Text(c.username[1]))
    BY <1>4 DEF TextField
<1>8. c = [protocol_name |-> MQTT, protocol_level |-> 4, clean_session |-> c.clean_session,
          will |-> c.will, username |-> c.username, password |-> c.password,
          keep_alive |-> c.keep_alive, client_id |-> c.client_id]
    BY <1>3, <1>4
<1>9. c.clean_session \in BOOLEAN
    BY <1>2, <1>4
<1>10. c.keep_alive \in U16
    BY <1>1, <1>4
<1>11. Text(c.protocol_name) /\ Text(c.client_id)
    BY <1>4
<1>12. MConnect(c)
    BY <1>5, <1>6, <1>7, <1>8, <1>9, <1>10, <1>11, Zenon DEF MConnect
<1>13. ShortConnect(c)
    BY <1>4 DEF ShortConnect
<1> QED BY <1>12, <1>13

\* Whatever is parsed as a CONNECT can be announced.
LEMMA ConnectTaken ==
    ASSUME NEW b \in Seq(Byte), NEW x, x = ConnectData(b), IsOk(x)
    PROVE  MConnect(x.value) /\ ConnectLength(x.value) <= VARIABLE_INTEGER_MAX
<1>1. PICK y : y = ConnectHeader(b)
    OBVIOUS
<1>2. IsOk(y) /\ x = ClientStep(y.value, y.rest)
    BY <1>1, ConnectSteps, ErrIs
<1>3. PICK h, r0 : h = y.value /\ r0 = y.rest
    OBVIOUS
<1>4. h[2] \in U16 /\ r0 \in Seq(Byte) /\ Text(MQTT)
    BY <1>1, <1>2, <1>3, HeaderTaken
<1>5. PICK i : i = mstring(r0)
    OBVIOUS
<1>6. IsOk(i) /\ x = WillStep(h, i.value, i.rest)
    BY <1>2, <1>3, <1>5, ClientSteps, ErrIs
<1>7. Text(i.value) /\ Len(i.value) <= U16_MAX /\ i.rest \in Seq(Byte)
    BY <1>4, <1>5, <1>6, StringTaken DEF Leaves
<1>8. PICK id, r1, f : id = i.value /\ r1 = i.rest /\ f = h[1]
    OBVIOUS
<1>9. PICK w : w = Optional(Bit(f, 2) = 1, mlastwill(f, r1), r1)
    OBVIOUS
<1>10. IsOk(w) /\ x = UsernameStep(h, id, w.value, w.rest)
    BY <1>6, <1>8, <1>9, WillSteps, ErrIs
<1>11. ShortWill(w.value) /\ w.rest \in Seq(Byte)
    BY <1>7, <1>8, <1>9, <1>10, OptionalWillTaken
<1>12. PICK lw, r2 : lw = w.value /\ r2 = w.rest
    OBVIOUS
<1>13. PICK u : u = Optional(Bit(f, 7) = 1, mstring(r2), r2)
    OBVIOUS
<1>14. IsOk(u) /\ x = PasswordStep(h, id, lw, u.value, u.rest)
    BY <1>8, <1>10, <1>12, <1>13, UsernameSteps, ErrIs
<1>15. TextField(u.value) /\ ShortField(u.value) /\ u.rest \in Seq(Byte)
    BY <1>11, <1>12, <1>13, <1>14, UsernameTaken
<1>16. PICK un, r3 : un = u.value /\ r3 = u.rest
    OBVIOUS
<1>17. PICK p : p = Optional(Bit(f, 6) = 1, mpayload(r3), r3)
    OBVIOUS
<1>18. IsOk(p) /\ x = Ok(ConnectOf(h, id, lw, un, p.value), p.rest)
    BY <1>8, <1>14, <1>16, <1>17, PasswordSteps, ErrIs
<1>19. ShortField(p.value)
    BY <1>15, <1>16, <1>17, <1>18, PasswordTaken
<1>20. PICK pw : pw = p.value
    OBVIOUS
<1>21. PICK c : c = ConnectOf(h, id, lw, un, pw)
    OBVIOUS
<1>22. x.value = c
    BY <1>18, <1>20, <1>21 DEF Ok
<1>23. MConnect(c) /\ ShortConnect(c)
    BY <1>4, <1>7, <1>8, <1>11, <1>12, <1>15, <1>16, <1>19, <1>20, <1>21, ConnectOfIs
<1>24. Text(c.client_id)
    BY <1>23 DEF MConnect
<1> QED BY <1>22, <1>23, <1>24, ConnectLengthIs

-----------------------------------------------------------------------------
\* What write_to writes for a field, and what is parsed from it.
FieldBytes(o) == IF o = <<>> THEN <<>> ELSE WriteString(o[1])
WillBytes(w) == IF w = <<>> THEN <<>> ELSE WriteString(w[1].topic) \o WriteString(w[1].payload)

LEMMA NothingBefore ==
    ASSUME NEW r \in Seq(Byte)
    PROVE  <<>> \in Seq(Byte) /\ Len(<<>>) = 0 /\ <<>> \o r = r /\ r \o <<>> = r
OBVIOUS

LEMMA FieldBytesAre ==
    ASSUME NEW o, o = <<>> \/ o[1] \in Seq(Byte)
    PROVE  /\ FieldBytes(o) \in Seq(Byte)
           /\ Len(FieldBytes(o)) = IF o = <<>> THEN 0 ELSE get_len(o[1])
<1>1. CASE o = <<>>
    BY <1>1 DEF FieldBytes
<1>2. CASE o # <<>>
  <2>1. PICK s : s = o[1]
      OBVIOUS
  <2>2. s \in Seq(Byte)
      BY <1>2, <2>1
  <2>3. WriteString(s) \in Seq(Byte) /\ Len(WriteString(s)) = get_len(s)
      BY <2>2, WriteStringIs DEF get_len
  <2>4. FieldBytes(o) = WriteString(s)
      BY <1>2, <2>1 DEF FieldBytes
  <2> QED BY <1>2, <2>1, <2>3, <2>4
<1> QED BY <1>1, <1>2

\* x is parsed from b, which has the field o in front of r if bit k of the flags
\* f announces it.
Announced(f, k, o) == Bit(f, k) = 1 <=> o # <<>>
AnnouncedUsername(x, f, k, o, b, r) ==
    /\ TextField(o) /\ ShortField(o) /\ Announced(f, k, o) /\ r \in Seq(Byte)
    /\ b = FieldBytes(o) \o r /\ x = Optional(Bit(f, k) = 1, mstring(b), b)
AnnouncedPassword(x, f, k, o, b, r) ==
    /\ ShortField(o) /\ Announced(f, k, o) /\ r \in Seq(Byte)
    /\ b = FieldBytes(o) \o r /\ x = Optional(Bit(f, k) = 1, mpayload(b), b)
AnnouncedWill(x, f, w, b, r) ==
    /\ ShortWill(w) /\ Announced(f, 2, w) /\ r \in Seq(Byte)
    /\ w # <<>> => (f \div 8) % 4 \in mquality_of_service
    /\ b = WillBytes(w) \o r /\ x = Optional(Bit(f, 2) = 1, mlastwill(f, b), b)

LEMMA UsernameAgain ==
    ASSUME NEW x, NEW f, NEW k, NEW o, NEW b, NEW r, AnnouncedUsername(x, f, k, o, b, r)
    PROVE  IsOk(x) /\ x.value = o /\ x.rest = r
<1>0. x = Optional(Bit(f, k) = 1, mstring(b), b) /\ (Bit(f, k) = 1 <=> o # <<>>)
    BY DEF AnnouncedUsername, Announced
<1>5. TextField(o) /\ ShortField(o) /\ r \in Seq(Byte) /\ b = FieldBytes(o) \o r
    BY DEF AnnouncedUsername
<1>1. CASE o = <<>>
  <2>1. b = r
      BY <1>5, <1>1, NothingBefore DEF FieldBytes
  <2>2. x = Ok(<<>>, b)
      BY <1>0, <1>1 DEF Optional
  <2> QED BY <1>1, <2>1, <2>2 DEF Ok, IsOk
<1>2. CASE o # <<>>
  <2>1. PICK s : s = o[1]
      OBVIOUS
  <2>2. o = <<s>> /\ Text(s) /\ Len(s) <= U16_MAX
      BY <1>5, <1>2, <2>1 DEF ShortField, TextField
  <2>3. b = WriteString(s) \o r
      BY <1>5, <1>2, <2>1 DEF FieldBytes
  <2>4. PICK y : y = mstring(b)
      OBVIOUS
  <2>5. y = Ok(s, r)
      BY <1>5, <2>2, <2>3, <2>4, StringAgain
  <2>6. IsOk(y) /\ y.value = s /\ y.rest = r
      BY <2>5 DEF Ok, IsOk
  <2>7. x = IF IsOk(y) THEN Ok(<<y.value>>, y.rest) ELSE Err
      BY <1>0, <1>2, <2>4 DEF Optional, MapOk, Then
  <2> QED BY <2>2, <2>6, <2>7 DEF Ok, IsOk
<1> QED BY <1>1, <1>2

LEMMA PasswordAgain ==
    ASSUME NEW x, NEW f, NEW k, NEW o, NEW b, NEW r, AnnouncedPassword(x, f, k, o, b, r)
    PROVE  IsOk(x) /\ x.value = o /\ x.rest = r
<1>0. x = Optional(Bit(f, k) = 1, mpayload(b), b) /\ (Bit(f, k) = 1 <=> o # <<>>)
    BY DEF AnnouncedPassword, Announced
<1>5. ShortField(o) /\ r \in Seq(Byte) /\ b = FieldBytes(o) \o r
    BY DEF AnnouncedPassword
<1>1. CASE o = <<>>
  <2>1. b = r
      BY <1>5, <1>1, NothingBefore DEF FieldBytes
  <2>2. x = Ok(<<>>, b)
      BY <1>0, <1>1 DEF Optional
  <2> QED BY <1>1, <2>1, <2>2 DEF Ok, IsOk
<1>2. CASE o # <<>>
  <2>1. PICK s : s = o[1]
      OBVIOUS
  <2>2. o = <<s>> /\ s \in Seq(Byte) /\ Len(s) <= U16_MAX
      BY <1>5, <1>2, <2>1 DEF ShortField
  <2>3. b = WriteString(s) \o r
      BY <1>5, <1>2, <2>1 DEF FieldBytes
  <2>4. PICK y : y = mpayload(b)
      OBVIOUS
  <2>5. y = Ok(s, r)
      BY <1>5, <2>2, <2>3, <2>4, PayloadAgain
  <2>6. IsOk(y) /\ y.value = s /\ y.rest = r
      BY <2>5 DEF Ok, IsOk
  <2>7. x = IF IsOk(y) THEN Ok(<<y.value>>, y.rest) ELSE Err
      BY <1>0, <1>2, <2>4 DEF Optional, MapOk, Then
  <2> QED BY <2>2, <2>6, <2>7 DEF Ok, IsOk
<1> QED BY <1>1, <1>2

LEMMA WillBytesAre ==
    ASSUME NEW w, w = <<>> \/ MLastWill(w[1])
    PROVE  /\ WillBytes(w) \in Seq(Byte)
           /\ Len(WillBytes(w)) = IF w = <<>> THEN 0 ELSE get_len(w[1].topic) + get_len(w[1].payload)
<1>1. CASE w = <<>>
    BY <1>1 DEF WillBytes
<1>2. CASE w # <<>>
  <2>1. PICK s, t : s = w[1].topic /\ t = w[1].payload
      OBVIOUS
  <2>2. s \in Seq(Byte) /\ t \in Seq(Byte)
      BY <1>2, <2>1 DEF MLastWill, Text
  <2>3. PICK u, v : u = WriteString(s) /\ v = WriteString(t)
      OBVIOUS
  <2>4. u \in Seq(Byte) /\ Len(u) = get_len(s)
      BY <2>2, <2>3, WriteStringIs DEF get_len
  <2>5. v \in Seq(Byte) /\ Len(v) = get_len(t)
      BY <2>2, <2>3, WriteStringIs DEF get_len
  <2>6. u \o v \in Seq(Byte) /\ Len(u \o v) = Len(u) + Len(v)
      BY <2>4, <2>5
  <2>7. WillBytes(w) = u \o v
      BY <1>2, <2>1, <2>3 DEF WillBytes
  <2> QED BY <1>2, <2>1, <2>4, <2>5, <2>6, <2>7
<1> QED BY <1>1, <1>2

\* The will as the flags say it.
WillAs(w, f) == IF w = <<>> THEN <<>> ELSE <<WillOf(w[1].topic, w[1].payload, f)>>

LEMMA OptionalWillAgain ==
    ASSUME NEW x, NEW f, NEW w, NEW b, NEW r, AnnouncedWill(x, f, w, b, r)
    PROVE  IsOk(x) /\ x.value = WillAs(w, f) /\ x.rest = r
<1>0. x = Optional(Bit(f, 2) = 1, mlastwill(f, b), b) /\ (Bit(f, 2) = 1 <=> w # <<>>)
    BY DEF AnnouncedWill, Announced
<1>5. ShortWill(w) /\ r \in Seq(Byte) /\ b = WillBytes(w) \o r
    BY DEF AnnouncedWill
<1>6. w # <<>> => (f \div 8) % 4 \in mquality_of_service
    BY DEF AnnouncedWill
<1>1. CASE w = <<>>
  <2>1. b = r
      BY <1>5, <1>1, NothingBefore DEF WillBytes
  <2>2. x = Ok(<<>>, b)
      BY <1>0, <1>1 DEF Optional
  <2>3. WillAs(w, f) = <<>>
      BY <1>1 DEF WillAs
  <2> QED BY <2>1, <2>2, <2>3 DEF Ok, IsOk
<1>2. CASE w # <<>>
  <2>1. PICK t, p : t = w[1].topic /\ p = w[1].payload
      OBVIOUS
  <2>2. Text(t) /\ Len(t) <= U16_MAX /\ p \in Seq(Byte) /\ Len(p) <= U16_MAX
      BY <1>5, <1>2, <2>1 DEF ShortWill, MLastWill
  <2>3. b = (WriteString(t) \o WriteString(p)) \o r
      BY <1>5, <1>2, <2>1 DEF WillBytes
  <2>4. PICK y : y = mlastwill(f, b)
      OBVIOUS
  <2>5. IsOk(y) /\ y.value = WillOf(t, p, f) /\ y.rest = r
      BY <1>5, <1>6, <1>2, <2>2, <2>3, <2>4, WillAgain
  <2>6. x = IF IsOk(y) THEN Ok(<<y.value>>, y.rest) ELSE Err
      BY <1>0, <1>2, <2>4 DEF Optional, MapOk, Then
  <2>7. WillAs(w, f) = <<y.value>>
      BY <1>2, <2>1, <2>5 DEF WillAs
  <2> QED BY <2>5, <2>6, <2>7 DEF Ok, IsOk
<1> QED BY <1>1, <1>2

LEMMA JoinedBytes ==
    ASSUME NEW x \in Seq(Byte), NEW y \in Seq(Byte), NEW z, z = x \o y
    PROVE  z \in Seq(Byte) /\ Len(z) = Len(x) + Len(y) /\ (Len(x) > 0 => z[1] = x[1])
OBVIOUS

Pieces(a, b, c, d, e, f, g) ==
    /\ a \in Seq(Byte) /\ b \in Seq(Byte) /\ c \in Seq(Byte) /\ d \in Seq(Byte)
    /\ e \in Seq(Byte) /\ f \in Seq(Byte) /\ g \in Seq(Byte)
Seven(z, a, b, c, d, e, f, g) == z = a \o b \o c \o d \o e \o f \o g
InOrder(t, b, c, d, e, f, g) == t = b \o (c \o (d \o (e \o (f \o g))))

LEMMA RegroupSeven ==
    ASSUME NEW a, NEW b, NEW c, NEW d, NEW e, NEW f, NEW g, Pieces(a, b, c, d, e, f, g),
           NEW z, Seven(z, a, b, c, d, e, f, g), NEW t, InOrder(t, b, c, d, e, f, g)
    PROVE  /\ z = a \o t /\ z \in Seq(Byte) /\ t \in Seq(Byte)
           /\ Len(z) = Len(a) + Len(b) + Len(c) + Len(d) + Len(e) + Len(f) + Len(g)
<1>0. /\ a \in Seq(Byte) /\ b \in Seq(Byte) /\ c \in Seq(Byte) /\ d \in Seq(Byte)
      /\ e \in Seq(Byte) /\ f \in Seq(Byte) /\ g \in Seq(Byte)
    BY DEF Pieces
<1>1. PICK s5 : s5 = f \o g
    OBVIOUS
<1>2. PICK s4 : s4 = e \o s5
    OBVIOUS
<1>3. PICK s3 : s3 = d \o s4
    OBVIOUS
<1>4. PICK s2 : s2 = c \o s3
    OBVIOUS
<1>5. PICK t1 : t1 = a \o b
    OBVIOUS
<1>6. PICK t2 : t2 = t1 \o c
    OBVIOUS
<1>7. PICK t3 : t3 = t2 \o d
    OBVIOUS
<1>8. PICK t4 : t4 = t3 \o e
    OBVIOUS
<1>9. s5 \in Seq(Byte) /\ Len(s5) = Len(f) + Len(g)
    BY <1>0, <1>1, JoinedBytes, Zenon
<1>10. s4 \in Seq(Byte) /\ Len(s4) = Len(e) + Len(s5)
    BY <1>0, <1>2, <1>9, JoinedBytes, ZenonT(60)
<1>11. s3 \in Seq(Byte) /\ Len(s3) = Len(d) + Len(s4)
    BY <1>0, <1>3, <1>10, JoinedBytes, ZenonT(60)
<1>12. s2 \in Seq(Byte) /\ Len(s2) = Len(c) + Len(s3)
    BY <1>0, <1>4, <1>11, JoinedBytes, ZenonT(60)
<1>13. t1 \in Seq(Byte)
    BY <1>0, <1>5
<1>14. t2 \in Seq(Byte)
    BY <1>0, <1>6, <1>13
<1>15. t3 \in Seq(Byte)
    BY <1>0, <1>7, <1>14
<1>16. t4 \in Seq(Byte)
    BY <1>0, <1>8, <1>15
<1>17. (t4 \o f) \o g = t4 \o s5
  <2>1. Regroups(t4, f, g)
      BY <1>0, <1>16, Associative, Zenon
  <2> QED BY <1>1, <2>1 DEF Regroups
<1>18. t4 \o s5 = t3 \o s4
  <2>1. Regroups(t3, e, s5)
      BY <1>0, <1>15, <1>9, Associative, Zenon
  <2> QED BY <1>2, <1>8, <2>1 DEF Regroups
<1>19. t3 \o s4 = t2 \o s3
  <2>1. Regroups(t2, d, s4)
      BY <1>0, <1>14, <1>10, Associative, Zenon
  <2> QED BY <1>3, <1>7, <2>1 DEF Regroups
<1>20. t2 \o s3 = t1 \o s2
  <2>1. Regroups(t1, c, s3)
      BY <1>0, <1>13, <1>11, Associative, Zenon
  <2> QED BY <1>4, <1>6, <2>1 DEF Regroups
<1>21. PICK s1 : s1 = b \o s2
    OBVIOUS
<1>22. t1 \o s2 = a \o s1
  <2>1. Regroups(a, b, s2)
      BY <1>0, <1>12, Associative, Zenon
  <2> QED BY <1>5, <1>21, <2>1 DEF Regroups
<1>23. s1 \in Seq(Byte) /\ Len(s1) = Len(b) + Len(s2)
    BY <1>0, <1>12, <1>21, JoinedBytes, ZenonT(60)
<1>25. z = a \o s1
    BY <1>5, <1>6, <1>7, <1>8, <1>17, <1>18, <1>19, <1>20, <1>22 DEF Seven
<1>24. z \in Seq(Byte) /\ Len(z) = Len(a) + Len(s1)
    BY <1>0, <1>23, <1>25, JoinedBytes, ZenonT(60)
<1>26. s1 = t
    BY <1>1, <1>2, <1>3, <1>4, <1>21 DEF InOrder
<1>27. Len(a) \in Nat /\ Len(b) \in Nat /\ Len(c) \in Nat /\ Len(d) \in Nat /\ Len(e) \in Nat /\ Len(f) \in Nat /\ Len(g) \in Nat
    BY <1>0
<1>28. Len(z) = Len(a) + Len(b) + Len(c) + Len(d) + Len(e) + Len(f) + Len(g)
    BY <1>9, <1>10, <1>11, <1>12, <1>23, <1>24, <1>27
<1> QED BY <1>23, <1>24, <1>25, <1>26, <1>28

\* The bytes of a CONNECT, in the order in which they are parsed.
LEMMA ConnectBytesAre ==
    ASSUME NEW c, MConnect(c), NEW f, f = ConnectFlags(c)
    PROVE  /\ ConnectBytes(c) \in Seq(Byte) /\ Len(ConnectBytes(c)) = ConnectLength(c)
           /\ ConnectBytes(c) = WriteString(MQTT) \o (<<4, f>> \o (write_u16(c.keep_alive)
                \o (WriteString(c.client_id) \o (WillBytes(c.will)
                \o (FieldBytes(c.username) \o FieldBytes(c.password))))))
           /\ Plain(ConnectBytes(c))
<1>0. f \in Byte
    BY ConnectFlagsAre
<1>1. PICK s1, s2, s3, s4, s5, s6, s7 :
        /\ s1 = WriteString(MQTT) /\ s2 = <<4, f>> /\ s3 = write_u16(c.keep_alive)
        /\ s4 = WriteString(c.client_id) /\ s5 = WillBytes(c.will)
        /\ s6 = FieldBytes(c.username) /\ s7 = FieldBytes(c.password)
    OBVIOUS
<1>2. c.protocol_name = MQTT /\ c.protocol_level = 4
    BY DEF MConnect
<1>3. c.keep_alive \in U16 /\ Text(c.client_id)
    BY DEF MConnect
<1>4. MQTT \in Seq(Byte) /\ Len(MQTT) = 4
    BY DEF MQTT, Byte
<1>5. s1 \in Seq(Byte) /\ Len(s1) = 6 /\ s1[1] = 0
  <2>1. PICK m : m = MQTT
      OBVIOUS
  <2>2. m \in Seq(Byte) /\ Len(m) = 4 /\ s1 = WriteString(m)
      BY <1>1, <1>4, <2>1
  <2>3. s1 \in Seq(Byte) /\ Len(s1) = 2 + Len(m) /\ (Len(m) < 128 => s1[1] = 0)
      BY <2>2, WriteStringIs
  <2> QED BY <2>2, <2>3
<1>6. s2 \in Seq(Byte) /\ Len(s2) = 2
    BY <1>0, <1>1 DEF Byte
<1>7. s3 \in Seq(Byte) /\ Len(s3) = 2
    BY <1>1, <1>3, U16Written
<1>8. s4 \in Seq(Byte) /\ Len(s4) = get_len(c.client_id)
    BY <1>1, <1>3, WriteStringIs DEF Text, get_len
<1>9. s5 \in Seq(Byte) /\ Len(s5) = IF c.will = <<>> THEN 0 ELSE get_len(c.will[1].topic) + get_len(c.will[1].payload)
    BY <1>1, WillBytesAre DEF MConnect
<1>10. s6 \in Seq(Byte) /\ Len(s6) = IF c.username = <<>> THEN 0 ELSE get_len(c.username[1])
    BY <1>1, FieldBytesAre DEF MConnect, Text
<1>11. s7 \in Seq(Byte) /\ Len(s7) = IF c.password = <<>> THEN 0 ELSE get_len(c.password[1])
    BY <1>1, FieldBytesAre DEF MConnect
<1>12. ConnectBytes(c) = s1 \o s2 \o s3 \o s4 \o s5 \o s6 \o s7
    BY <1>1, <1>2 DEF ConnectBytes, WillBytes, FieldBytes
<1>13. PICK t : t = s2 \o (s3 \o (s4 \o (s5 \o (s6 \o s7))))
    OBVIOUS
<1>14. /\ ConnectBytes(c) = s1 \o t
       /\ ConnectBytes(c) \in Seq(Byte) /\ t \in Seq(Byte)
       /\ Len(ConnectBytes(c)) = Len(s1) + Len(s2) + Len(s3) + Len(s4) + Len(s5) + Len(s6) + Len(s7)
  <2>1. PICK z : z = ConnectBytes(c)
      OBVIOUS
  <2>2. Seven(z, s1, s2, s3, s4, s5, s6, s7) /\ InOrder(t, s2, s3, s4, s5, s6, s7)
      BY <1>12, <1>13, <2>1 DEF Seven, InOrder
  <2>3. Pieces(s1, s2, s3, s4, s5, s6, s7)
      BY <1>5, <1>6, <1>7, <1>8, <1>9, <1>10, <1>11 DEF Pieces
  <2>4. /\ z = s1 \o t /\ z \in Seq(Byte) /\ t \in Seq(Byte)
        /\ Len(z) = Len(s1) + Len(s2) + Len(s3) + Len(s4) + Len(s5) + Len(s6) + Len(s7)
      BY <2>2, <2>3, RegroupSeven
  <2> QED BY <2>1, <2>4
<1>15. PICK n4, n5, n6, n7 : n4 = Len(s4) /\ n5 = Len(s5) /\ n6 = Len(s6) /\ n7 = Len(s7)
    OBVIOUS
<1>16. n4 \in Nat /\ n5 \in Nat /\ n6 \in Nat /\ n7 \in Nat
    BY <1>8, <1>9, <1>10, <1>11, <1>15
<1>17. ConnectLength(c) = 10 + n4 + n5 + n6 + n7
    BY <1>8, <1>9, <1>10, <1>11, <1>15 DEF ConnectLength
<1>18. Len(ConnectBytes(c)) = 6 + 2 + 2 + n4 + n5 + n6 + n7
    BY <1>5, <1>6, <1>7, <1>14, <1>15
<1>19. Len(ConnectBytes(c)) = ConnectLength(c)
    BY <1>16, <1>17, <1>18
<1>21. ConnectBytes(c)[1] = 0
  <2>1. PICK z : z = ConnectBytes(c)
      OBVIOUS
  <2>2. z = s1 \o t /\ t \in Seq(Byte)
      BY <1>14, <2>1
  <2>3. Len(s1) > 0 => z[1] = s1[1]
      BY <1>5, <2>2, JoinedBytes
  <2> QED BY <1>5, <2>1, <2>3
<1>22. Plain(ConnectBytes(c))
    BY <1>21 DEF Plain
<1> QED BY <1>1, <1>13, <1>14, <1>19, <1>22

\* A CONNECT is parsed again as what its flags say.
LEMMA ConnectParsed ==
    ASSUME NEW c, MConnect(c), ShortConnect(c), NEW f, f = ConnectFlags(c),
           NEW x, x = ConnectData(ConnectBytes(c))
    PROVE  /\ IsOk(x)
           /\ x.value = ConnectOf(<<f, c.keep_alive>>, c.client_id, WillAs(c.will, f), c.username, c.password)
<1>1. PICK s7 : s7 = FieldBytes(c.password)
    OBVIOUS
<1>2. PICK r3 : r3 = FieldBytes(c.password) \o <<>>
    OBVIOUS
<1>3. s7 \in Seq(Byte) /\ r3 = s7
    BY <1>1, <1>2, FieldBytesAre, NothingBefore DEF ShortConnect, ShortField
<1>4. PICK r2 : r2 = FieldBytes(c.username) \o r3
    OBVIOUS
<1>5. r2 \in Seq(Byte)
    BY <1>3, <1>4, FieldBytesAre, JoinedBytes DEF ShortConnect, ShortField
<1>6. PICK r1 : r1 = WillBytes(c.will) \o r2
    OBVIOUS
<1>7. r1 \in Seq(Byte)
    BY <1>5, <1>6, WillBytesAre, JoinedBytes DEF ShortConnect, ShortWill
<1>8. PICK id : id = c.client_id
    OBVIOUS
<1>9. Text(id) /\ Len(id) <= U16_MAX
    BY <1>8 DEF MConnect, ShortConnect
<1>10. PICK r0 : r0 = WriteString(id) \o r1
    OBVIOUS
<1>11. r0 \in Seq(Byte) /\ mstring(r0) = Ok(id, r1)
    BY <1>7, <1>9, <1>10, StringAgain
<1>12. PICK k : k = c.keep_alive
    OBVIOUS
<1>13. k \in U16 /\ Text(MQTT)
    BY <1>12 DEF MConnect
<1>14. f \in Byte /\ FlagsAllowed(f)
    BY ConnectFlagsAre
<1>15. PICK b : b = ConnectBytes(c)
    OBVIOUS
<1>16. b = WriteString(MQTT) \o (<<4, f>> \o (write_u16(k) \o r0))
    BY <1>1, <1>3, <1>4, <1>6, <1>8, <1>10, <1>12, <1>15, ConnectBytesAre
<1>17. PICK y : y = ConnectHeader(b)
    OBVIOUS
<1>18. y = Ok(<<f, k>>, r0)
    BY <1>11, <1>13, <1>14, <1>16, <1>17, HeaderAgain
<1>19. PICK h : h = <<f, k>>
    OBVIOUS
<1>20. h[1] = f /\ h[2] = k
    BY <1>19
<1>21. IsOk(y) /\ y.value = h /\ y.rest = r0
    BY <1>18, <1>19 DEF Ok, IsOk
<1>22. x = ClientStep(h, r0)
    BY <1>15, <1>17, <1>21, ConnectSteps
<1>23. PICK i : i = mstring(r0)
    OBVIOUS
<1>24. IsOk(i) /\ i.value = id /\ i.rest = r1
    BY <1>11, <1>23 DEF Ok, IsOk
<1>25. x = WillStep(h, id, r1)
    BY <1>22, <1>23, <1>24, ClientSteps
<1>26. PICK w : w = Optional(Bit(f, 2) = 1, mlastwill(f, r1), r1)
    OBVIOUS
<1>27. c.will # <<>> => (f \div 8) % 4 \in mquality_of_service
    BY ConnectFlagsAre DEF mquality_of_service
<1>28. Bit(f, 2) = 1 <=> c.will # <<>>
    BY ConnectFlagsAre
<1>29. Bit(f, 7) = 1 <=> c.username # <<>>
    BY ConnectFlagsAre
<1>30. Bit(f, 6) = 1 <=> c.password # <<>>
    BY ConnectFlagsAre
<1>31. IsOk(w) /\ w.value = WillAs(c.will, f) /\ w.rest = r2
  <2>1. AnnouncedWill(w, f, c.will, r1, r2)
      BY <1>5, <1>6, <1>26, <1>27, <1>28 DEF AnnouncedWill, Announced, ShortConnect
  <2> QED BY <2>1, OptionalWillAgain
<1>32. PICK lw : lw = WillAs(c.will, f)
    OBVIOUS
<1>33. x = UsernameStep(h, id, lw, r2)
    BY <1>20, <1>25, <1>26, <1>31, <1>32, WillSteps
<1>34. PICK u : u = Optional(Bit(f, 7) = 1, mstring(r2), r2)
    OBVIOUS
<1>35. PICK un : un = c.username
    OBVIOUS
<1>36. TextField(un) /\ ShortField(un)
    BY <1>35 DEF MConnect, ShortConnect, TextField
<1>37. IsOk(u) /\ u.value = un /\ u.rest = r3
  <2>1. AnnouncedUsername(u, f, 7, un, r2, r3)
      BY <1>3, <1>4, <1>29, <1>34, <1>35, <1>36 DEF AnnouncedUsername, Announced
  <2> QED BY <2>1, UsernameAgain
<1>38. x = PasswordStep(h, id, lw, un, r3)
    BY <1>20, <1>33, <1>34, <1>37, UsernameSteps
<1>39. PICK p : p = Optional(Bit(f, 6) = 1, mpayload(r3), r3)
    OBVIOUS
<1>40. PICK pw : pw = c.password
    OBVIOUS
<1>41. <<>> \in Seq(Byte)
    OBVIOUS
<1>42. IsOk(p) /\ p.value = pw
  <2>1. AnnouncedPassword(p, f, 6, pw, r3, <<>>)
      BY <1>2, <1>30, <1>39, <1>40, <1>41 DEF AnnouncedPassword, Announced, ShortConnect
  <2> QED BY <2>1, PasswordAgain
<1>43. x = Ok(ConnectOf(h, id, lw, un, pw), p.rest)
    BY <1>20, <1>38, <1>39, <1>42, PasswordSteps
<1>44. IsOk(x) /\ x.value = ConnectOf(h, id, lw, un, pw)
    BY <1>43 DEF Ok, IsOk
<1> QED BY <1>8, <1>12, <1>19, <1>32, <1>35, <1>40, <1>44

\* What they say of the will is right unless its QoS is 0.
LEMMA WillAsItIs ==
    ASSUME NEW w, w # <<>>, w = <<w[1]>>, MLastWill(w[1]), NEW f,
           (f \div 8) % 4 = IF w[1].qos = 2 THEN 2 ELSE 1, (Bit(f, 5) = 1) = w[1].retain
    PROVE  WillAs(w, f) = w <=> w[1].qos # 0
<1>1. PICK v : v = w[1]
    OBVIOUS
<1>2. PICK t, p, q, s : t = v.topic /\ p = v.payload /\ q = v.qos /\ s = v.retain
    OBVIOUS
<1>3. v = [topic |-> t, payload |-> p, qos |-> q, retain |-> s] /\ q \in {0, 1, 2}
    BY <1>1, <1>2 DEF MLastWill, mquality_of_service
<1>4. PICK n : n = IF q = 2 THEN 2 ELSE 1
    OBVIOUS
<1>5. PICK u : u = [topic |-> t, payload |-> p, qos |-> n, retain |-> s]
    OBVIOUS
<1>6. WillAs(w, f) = <<u>>
    BY <1>1, <1>2, <1>4, <1>5 DEF WillAs, WillOf
<1>7. w = <<v>>
    BY <1>1
<1>8. CASE q = 0
  <2>1. u.qos = 1 /\ v.qos = 0
      BY <1>2, <1>4, <1>5, <1>8
  <2>2. u # v
      BY <2>1
  <2>3. WillAs(w, f)[1] = u
      BY <1>6
  <2> QED BY <1>1, <2>1, <2>2, <2>3
<1>9. CASE q # 0
  <2>1. n = q
      BY <1>3, <1>4, <1>9
  <2>2. u = v
      BY <1>3, <1>5, <2>1
  <2> QED BY <1>1, <1>2, <1>6, <1>7, <1>9, <2>2
<1> QED BY <1>8, <1>9

LEMMA ConnectAgain ==
    ASSUME NEW c, MConnect(c), ShortConnect(c), NEW x, x = ConnectData(ConnectBytes(c))
    PROVE  IsOk(x) /\ (x.value = c <=> ~(c.will # <<>> /\ c.will[1].qos = 0))
<1>1. PICK f : f = ConnectFlags(c)
    OBVIOUS
<1>2. PICK cs, lw, v : cs = (Bit(f, 1) = 1) /\ lw = WillAs(c.will, f) /\ v = x.value
    OBVIOUS
<1>3. PICK k, id, un, pw : k = c.keep_alive /\ id = c.client_id /\ un = c.username /\ pw = c.password
    OBVIOUS
<1>4. IsOk(x) /\ v = ConnectOf(<<f, k>>, id, lw, un, pw)
    BY <1>1, <1>2, <1>3, ConnectParsed
<1>5. v = [protocol_name |-> MQTT, protocol_level |-> 4, clean_session |-> cs, will |-> lw,
           username |-> un, password |-> pw, keep_alive |-> k, client_id |-> id]
    BY <1>2, <1>4 DEF ConnectOf
<1>6. cs = c.clean_session
    BY <1>1, <1>2, ConnectFlagsAre
<1>7. PICK w : w = c.will
    OBVIOUS
<1>8. c = [protocol_name |-> MQTT, protocol_level |-> 4, clean_session |-> cs, will |-> w,
           username |-> un, password |-> pw, keep_alive |-> k, client_id |-> id]
    BY <1>3, <1>6, <1>7 DEF MConnect
<1>9. v = c <=> lw = w
  <2>1. v.will = lw /\ c.will = w
      BY <1>5, <1>7
  <2>2. lw = w => v = c
      BY <1>5, <1>8
  <2> QED BY <2>1, <2>2
<1>10. lw = w <=> ~(w # <<>> /\ w[1].qos = 0)
  <2>1. CASE w = <<>>
      BY <1>2, <1>7, <2>1 DEF WillAs
  <2>2. CASE w # <<>>
    <3>1. w = <<w[1]>> /\ MLastWill(w[1])
        BY <1>7, <2>2 DEF MConnect
    <3>2. (f \div 8) % 4 = IF w[1].qos = 2 THEN 2 ELSE 1
        BY <1>1, <1>7, <2>2, ConnectFlagsAre
    <3>3. (Bit(f, 5) = 1) = w[1].retain
        BY <1>1, <1>7, <2>2, ConnectFlagsAre
    <3>4. WillAs(w, f) = w <=> w[1].qos # 0
        BY <2>2, <3>1, <3>2, <3>3, WillAsItIs
    <3> QED BY <1>2, <1>7, <2>2, <3>4
  <2> QED BY <2>1, <2>2
<1> QED BY <1>2, <1>4, <1>7, <1>9, <1>10

-----------------------------------------------------------------------------
(***************************************************************************)
(* Packets.  The bytes of a body are as many as announced, but for SUBACK.  *)
(***************************************************************************)
LEMMA ShortConnectIs ==
    ASSUME NEW c, MConnect(c), ConnectLength(c) < 128
    PROVE  ShortConnect(c)
<1>1. PICK f : f = ConnectFlags(c)
    OBVIOUS
<1>2. PICK i, w, u, p :
        /\ i = Len(c.client_id)
        /\ w = IF c.will = <<>> THEN 0 ELSE get_len(c.will[1].topic) + get_len(c.will[1].payload)
        /\ u = IF c.username = <<>> THEN 0 ELSE get_len(c.username[1])
        /\ p = IF c.password = <<>> THEN 0 ELSE get_len(c.password[1])
    OBVIOUS
<1>3. i \in Nat
    BY <1>2 DEF MConnect, Text
<1>4. w \in Nat
    BY <1>2, WillBytesAre DEF MConnect
<1>5. u \in Nat
    BY <1>2, FieldBytesAre DEF MConnect, Text
<1>6. p \in Nat
    BY <1>2, FieldBytesAre DEF MConnect
<1>7. ConnectLength(c) = 10 + (2 + i) + w + u + p
    BY <1>2 DEF ConnectLength, get_len
<1>8. i < 128 /\ w < 128 /\ u < 128 /\ p < 128
    BY <1>3, <1>4, <1>5, <1>6, <1>7
<1>9. ShortField(c.username)
  <2>1. CASE c.username = <<>>
      BY <2>1 DEF ShortField
  <2>2. CASE c.username # <<>>
    <3>1. PICK s : s = c.username[1]
        OBVIOUS
    <3>2. c.username = <<s>> /\ s \in Seq(Byte)
        BY <2>2, <3>1 DEF MConnect, Text
    <3>3. Len(s) \in Nat /\ u = 2 + Len(s)
        BY <1>2, <2>2, <3>1, <3>2 DEF get_len
    <3>4. Len(s) <= U16_MAX
        BY <1>8, <3>3 DEF U16_MAX
    <3> QED BY <3>1, <3>2, <3>4 DEF ShortField
  <2> QED BY <2>1, <2>2
<1>10. ShortField(c.password)
  <2>1. CASE c.password = <<>>
      BY <2>1 DEF ShortField
  <2>2. CASE c.password # <<>>
    <3>1. PICK s : s = c.password[1]
        OBVIOUS
    <3>2. c.password = <<s>> /\ s \in Seq(Byte)
        BY <2>2, <3>1 DEF MConnect
    <3>3. Len(s) \in Nat /\ p = 2 + Len(s)
        BY <1>2, <2>2, <3>1, <3>2 DEF get_len
    <3>4. Len(s) <= U16_MAX
        BY <1>8, <3>3 DEF U16_MAX
    <3> QED BY <3>1, <3>2, <3>4 DEF ShortField
  <2> QED BY <2>1, <2>2
<1>11. ShortWill(c.will)
  <2>1. CASE c.will = <<>>
      BY <2>1 DEF ShortWill
  <2>2. CASE c.will # <<>>
    <3>1. PICK v : v = c.will[1]
        OBVIOUS
    <3>2. c.will = <<v>> /\ MLastWill(v)
        BY <2>2, <3>1 DEF MConnect
    <3>3. PICK s, t : s = v.topic /\ t = v.payload
        OBVIOUS
    <3>4. s \in Seq(Byte) /\ t \in Seq(Byte)
        BY <3>2, <3>3 DEF MLastWill, Text
    <3>5. Len(s) \in Nat /\ Len(t) \in Nat /\ w = (2 + Len(s)) + (2 + Len(t))
        BY <1>2, <2>2, <3>1, <3>3, <3>4 DEF get_len
    <3>6. Len(s) <= U16_MAX /\ Len(t) <= U16_MAX
        BY <1>8, <3>5 DEF U16_MAX
    <3> QED BY <3>1, <3>2, <3>3, <3>6 DEF ShortWill
  <2> QED BY <2>1, <2>2
<1>12. Len(c.client_id) <= U16_MAX
    BY <1>2, <1>3, <1>8 DEF U16_MAX
<1> QED BY <1>9, <1>10, <1>11, <1>12 DEF ShortConnect

LEMMA PublishBytes ==
    ASSUME NEW flags, NEW body, MPublish(flags, body),
           NEW d, d = PublishBody(body)
    PROVE  /\ d \in Seq(Byte) /\ Len(d) = get_len(body[1]) + 2 * Len(body[2]) + Len(body[3])
           /\ Len(d) < 128 => Len(body[1]) <= U16_MAX
<1>1. PICK s, o, t : s = body[1] /\ o = body[2] /\ t = body[3]
    OBVIOUS
<1>2. PICK u : u = IF o = <<>> THEN <<>> ELSE write_u16(o[1])
    OBVIOUS
<1>3. s \in Seq(Byte) /\ t \in Seq(Byte)
    BY <1>1 DEF MPublish, Text
<1>4. o = <<>> \/ (o = <<o[1]>> /\ o[1] \in U16)
    BY <1>1 DEF MPublish
<1>5. u \in Seq(Byte) /\ Len(u) = 2 * Len(o) /\ Len(o) \in {0, 1}
  <2>1. CASE o = <<>>
      BY <1>2, <2>1
  <2>2. CASE o # <<>>
    <3>1. u = write_u16(o[1]) /\ o[1] \in U16
        BY <1>2, <1>4, <2>2
    <3>2. u \in Seq(Byte) /\ Len(u) = 2
        BY <3>1, U16Written
    <3>3. Len(o) = 1
        BY <1>4, <2>2
    <3> QED BY <3>2, <3>3
  <2> QED BY <2>1, <2>2
<1>6. PICK w : w = WriteString(s)
    OBVIOUS
<1>7. w \in Seq(Byte) /\ Len(w) = 2 + Len(s)
    BY <1>3, <1>6, WriteStringIs
<1>8. PICK v : v = w \o u
    OBVIOUS
<1>9. v \in Seq(Byte) /\ Len(v) = Len(w) + Len(u)
    BY <1>5, <1>7, <1>8, JoinedBytes, Zenon
<1>10. d = v \o t
    BY <1>1, <1>2, <1>6, <1>8 DEF PublishBody
<1>11. d \in Seq(Byte) /\ Len(d) = Len(v) + Len(t)
    BY <1>3, <1>9, <1>10, JoinedBytes, Zenon
<1>12. PICK ns, no, nt : ns = Len(s) /\ no = Len(o) /\ nt = Len(t)
    OBVIOUS
<1>13. ns \in Nat /\ nt \in Nat /\ no \in Nat
    BY <1>3, <1>5, <1>12
<1>14. Len(d) = (2 + ns) + 2 * no + nt
    BY <1>5, <1>7, <1>9, <1>11, <1>12, <1>13
<1>15. Len(d) < 128 => ns <= U16_MAX
  <2>1. PICK n : n = Len(d)
      OBVIOUS
  <2>2. n < 128 => ns < 128
      BY <1>13, <1>14, <2>1
  <2>3. ns < 128 => ns <= U16_MAX
      BY <1>13 DEF U16_MAX
  <2> QED BY <2>1, <2>2, <2>3
<1> QED BY <1>1, <1>11, <1>12, <1>14, <1>15 DEF get_len

LEMMA AckIsByte == \A x : x \in MSubscriptionAck => x \in Byte
BY DEF MSubscriptionAck, Byte

LEMMA AcksAreBytes ==
    ASSUME NEW s \in Seq(MSubscriptionAck)
    PROVE  s \in Seq(Byte)
BY AckIsByte

LEMMA IdentifiedBytes ==
    ASSUME NEW id \in U16, NEW s \in Seq(Byte), NEW d, d = write_u16(id) \o s
    PROVE  d \in Seq(Byte) /\ Len(d) = 2 + Len(s)
<1>1. PICK u : u = write_u16(id)
    OBVIOUS
<1>2. u \in Seq(Byte) /\ Len(u) = 2
    BY <1>1, U16Written
<1>3. d \in Seq(Byte) /\ Len(d) = Len(u) + Len(s)
    BY <1>1, <1>2, JoinedBytes
<1> QED BY <1>2, <1>3

\* The announced length is the length of the body, but that of a SUBACK is 3.
BytesOf(p, d, l) ==
    /\ d \in Seq(Byte) /\ l \in Nat
    /\ p.type # "Suback" => Len(d) = l
    /\ p.type = "Suback" => l = 3 /\ Len(d) = 2 + Len(p.body[2])

LEMMA BytesAre ==
    ASSUME NEW p, WellFormed(p), p.type \notin Unwritable,
           NEW d, d = Bytes(p), NEW l, l = RemainingLength(p)
    PROVE  BytesOf(p, d, l)
<1>1. PICK t, c : t = p.type /\ c = p.body
    OBVIOUS
<1>2. t \in Types \ Unwritable
    BY <1>1 DEF WellFormed, Types
<1>3. CASE t = "Connect"
  <2>1. MConnect(c) /\ d = ConnectBytes(c) /\ l = ConnectLength(c)
      BY <1>1, <1>3 DEF WellFormed, Bytes, RemainingLength
  <2>2. d \in Seq(Byte) /\ Len(d) = l
      BY <2>1, ConnectBytesAre
  <2>3. l \in Nat
      BY <2>2
  <2> QED BY <1>1, <1>3, <2>2, <2>3 DEF BytesOf
<1>4. CASE t = "Connack"
  <2>1. d = c /\ l = 2
      BY <1>1, <1>4 DEF Bytes, RemainingLength
  <2>2. PICK x, y : x = c[1] /\ y = c[2]
      OBVIOUS
  <2>3. c = <<x, y>> /\ x \in {0, 1} /\ y \in 0 .. 5
      BY <1>1, <1>4, <2>2 DEF WellFormed, MConnectReturnCode
  <2>4. c \in Seq(Byte) /\ Len(c) = 2
      BY <2>3 DEF Byte
  <2> QED BY <1>1, <1>4, <2>1, <2>4 DEF BytesOf
<1>5. CASE t = "Publish"
  <2>1. MPublish(p.flags, c)
      BY <1>1, <1>5 DEF WellFormed
  <2>2. d = PublishBody(c) /\ l = get_len(c[1]) + 2 * Len(c[2]) + Len(c[3])
      BY <1>1, <1>5 DEF Bytes, RemainingLength, PublishBody
  <2>3. d \in Seq(Byte) /\ Len(d) = l
      BY <2>1, <2>2, PublishBytes
  <2>4. l \in Nat
      BY <2>3
  <2> QED BY <1>1, <1>5, <2>3, <2>4 DEF BytesOf
<1>6. CASE t \in {"Pingreq", "Pingresp"}
  <2>1. d = <<>> /\ l = 0
      BY <1>1, <1>6 DEF Bytes, RemainingLength
  <2>2. d \in Seq(Byte) /\ Len(d) = 0
      BY <2>1
  <2> QED BY <1>1, <1>6, <2>1, <2>2 DEF BytesOf
<1>7. CASE t = "Subscribe"
  <2>1. PICK id, s : id = c[1] /\ s = c[2].data
      OBVIOUS
  <2>2. MIdentified(t, c)
      BY <1>1, <1>7 DEF WellFormed
  <2>3. id \in U16 /\ s \in Seq(Byte)
      BY <1>7, <2>1, <2>2 DEF MIdentified, MRequests
  <2>4. d = write_u16(id) \o s /\ l = 2 + Len(s)
      BY <1>1, <1>7, <2>1 DEF Bytes, RemainingLength
  <2>5. d \in Seq(Byte) /\ Len(d) = 2 + Len(s)
      BY <2>3, <2>4, IdentifiedBytes
  <2>6. l \in Nat
      BY <2>3, <2>4
  <2> QED BY <1>1, <1>7, <2>4, <2>5, <2>6 DEF BytesOf
<1>8. CASE t = "Suback"
  <2>1. PICK id, s : id = c[1] /\ s = c[2]
      OBVIOUS
  <2>2. MIdentified(t, c)
      BY <1>1, <1>8 DEF WellFormed
  <2>3. id \in U16 /\ s \in Seq(MSubscriptionAck)
      BY <1>8, <2>1, <2>2 DEF MIdentified
  <2>7. l = 2 + 1
      BY <1>1, <1>8 DEF RemainingLength
  <2>8. l = 3
      BY <2>7
  <2>9. d = write_u16(id) \o s
      BY <1>1, <1>8, <2>1 DEF Bytes
  <2>4. d = write_u16(id) \o s /\ l = 3
      BY <2>8, <2>9
  <2>5. s \in Seq(Byte)
      BY <2>3, AcksAreBytes
  <2>6. d \in Seq(Byte) /\ Len(d) = 2 + Len(s)
      BY <2>3, <2>4, <2>5, IdentifiedBytes
  <2> QED BY <1>1, <1>8, <2>1, <2>4, <2>6 DEF BytesOf
<1>9. CASE t \in {"Puback", "Pubrec", "Pubrel", "Pubcomp"}
  <2>1. MIdentified(t, c)
      BY <1>1, <1>9 DEF WellFormed
  <2>2. PICK id : id = c[1]
      OBVIOUS
  <2>3. id \in U16
      BY <2>1, <2>2 DEF MIdentified
  <2>4. d = write_u16(id) /\ l = 2
      BY <1>1, <1>9, <2>2 DEF Bytes, RemainingLength
  <2>5. d \in Seq(Byte) /\ Len(d) = 2
      BY <2>3, <2>4, U16Written
  <2> QED BY <1>1, <1>9, <2>4, <2>5 DEF BytesOf
<1> QED BY <1>2, <1>3, <1>4, <1>5, <1>6, <1>7, <1>8, <1>9, TypesAre DEF Unwritable

-----------------------------------------------------------------------------
\* The body that mpacketdata parses.
BodyOf(type, flags, b) ==
    CASE type = "Connect" -> ConnectData(b)
      [] type = "Connack" -> ConnackData(b)
      [] type = "Publish" -> PublishData(flags, b)
      [] type \in {"Pingreq", "Pingresp", "Disconnect"} -> Ok(<<>>, b)
      [] OTHER -> IdentifiedData(type, b)

LEMMA PacketDataIs ==
    ASSUME NEW t, NEW fl, NEW kind, kind = [type |-> t, flags |-> fl], NEW b,
           NEW y, y = BodyOf(t, fl, b), NEW q, q = mpacketdata(kind, b)
    PROVE  /\ IsOk(q) <=> IsOk(y)
           /\ IsOk(q) => q.value = MPacket(t, fl, y.value)
<1>1. kind.type = t /\ kind.flags = fl
    OBVIOUS
<1>2. q = MapOk(y, LAMBDA body : MPacket(t, fl, body))
    BY <1>1 DEF mpacketdata, BodyOf
<1>3. q = IF IsOk(y) THEN Ok(MPacket(t, fl, y.value), y.rest) ELSE Err
    BY <1>2 DEF MapOk, Then
<1>4. CASE IsOk(y)
  <2>1. q = Ok(MPacket(t, fl, y.value), y.rest)
      BY <1>3, <1>4
  <2>2. IsOk(q) /\ q.value = MPacket(t, fl, y.value)
      BY <2>1 DEF Ok, IsOk
  <2> QED BY <1>4, <2>2
<1>5. CASE ~IsOk(y)
    BY <1>3, <1>5, ErrIs
<1> QED BY <1>4, <1>5

LEMMA MPacketIs ==
    ASSUME NEW t, NEW fl, NEW body, NEW p, p = MPacket(t, fl, body)
    PROVE  p.type = t /\ p.flags = fl /\ p.body = body
BY DEF MPacket

\* Everything that is parsed can be written, as far as write_to is written at all.
LEMMA DataTaken ==
    ASSUME NEW t \in Types, NEW fl \in 0 .. 15, AllowedFlags(t, fl),
           NEW kind, kind = [type |-> t, flags |-> fl],
           NEW b \in Seq(Byte), Len(b) <= VARIABLE_INTEGER_MAX,
           NEW q, q = mpacketdata(kind, b), IsOk(q)
    PROVE  Sendable(q.value)
<1>1. PICK y, p : y = BodyOf(t, fl, b) /\ p = q.value
    OBVIOUS
<1>2. IsOk(y) /\ p = MPacket(t, fl, y.value)
    BY <1>1, PacketDataIs
<1>3. PICK c : c = y.value
    OBVIOUS
<1>4. p.type = t /\ p.flags = fl /\ p.body = c
    BY <1>2, <1>3, MPacketIs
<1>5. p = MPacket(p.type, p.flags, p.body) /\ p.type \in DOMAIN MPacketKind
    BY <1>2, <1>3, <1>4 DEF Types
<1>6. p.type # "Publish" => p.flags = FixedFlags(p.type)
    BY <1>4 DEF AllowedFlags
<1>7. 2 <= VARIABLE_INTEGER_MAX /\ 3 <= VARIABLE_INTEGER_MAX /\ 0 <= VARIABLE_INTEGER_MAX
    BY DEF VARIABLE_INTEGER_MAX
<1>8. CASE t = "Connect"
  <2>1. y = ConnectData(b)
      BY <1>1, <1>8 DEF BodyOf
  <2>2. MConnect(c) /\ ConnectLength(c) <= VARIABLE_INTEGER_MAX
      BY <1>2, <1>3, <2>1, ConnectTaken
  <2>3. RemainingLength(p) = ConnectLength(c)
      BY <1>4, <1>8 DEF RemainingLength
  <2>4. WellFormed(p)
      BY <1>4, <1>5, <1>6, <1>8, <2>2 DEF WellFormed
  <2> QED BY <1>1, <2>2, <2>3, <2>4 DEF Sendable
<1>9. CASE t = "Connack"
  <2>1. y = ConnackData(b)
      BY <1>1, <1>9 DEF BodyOf
  <2>2. c = <<c[1], c[2]>> /\ c[1] \in {0, 1} /\ c[2] \in MConnectReturnCode
      BY <1>2, <1>3, <2>1, ConnackTaken
  <2>3. RemainingLength(p) = 2
      BY <1>4, <1>9 DEF RemainingLength
  <2>4. WellFormed(p)
      BY <1>4, <1>5, <1>6, <1>9, <2>2 DEF WellFormed
  <2> QED BY <1>1, <1>7, <2>3, <2>4 DEF Sendable
<1>10. CASE t = "Publish"
  <2>1. y = PublishData(fl, b)
      BY <1>1, <1>10 DEF BodyOf
  <2>2. QoSOf(fl) # 3
      BY <1>10 DEF AllowedFlags
  <2>3. MPublish(fl, c) /\ get_len(c[1]) + 2 * Len(c[2]) + Len(c[3]) = Len(b)
      BY <1>2, <1>3, <2>1, <2>2, PublishTaken
  <2>4. RemainingLength(p) = Len(b)
      BY <1>4, <1>10, <2>3 DEF RemainingLength
  <2>5. WellFormed(p)
      BY <1>4, <1>5, <1>6, <1>10, <2>3 DEF WellFormed
  <2> QED BY <1>1, <2>4, <2>5 DEF Sendable
<1>11. CASE t \in {"Pingreq", "Pingresp", "Disconnect"}
  <2>1. y = Ok(<<>>, b)
      BY <1>1, <1>11 DEF BodyOf
  <2>2. c = <<>>
      BY <1>3, <2>1 DEF Ok
  <2>3. RemainingLength(p) = 0 \/ RemainingLength(p) = 2
      BY <1>4, <1>11 DEF RemainingLength
  <2>4. WellFormed(p)
      BY <1>4, <1>5, <1>6, <1>11, <2>2 DEF WellFormed
  <2> QED BY <1>1, <1>7, <2>3, <2>4 DEF Sendable
<1>12. CASE t \notin {"Connect", "Connack", "Publish", "Pingreq", "Pingresp", "Disconnect"}
  <2>1. y = IdentifiedData(t, b)
      BY <1>1, <1>12 DEF BodyOf
  <2>2. MIdentified(t, c) /\ (t = "Subscribe" => Len(b) = 2 + Len(c[2].data))
      BY <1>2, <1>3, <2>1, IdentifiedTaken
  <2>3. WellFormed(p)
      BY <1>4, <1>5, <1>6, <1>12, <2>2 DEF WellFormed
  <2>4. CASE t = "Subscribe"
    <3>1. RemainingLength(p) = 2 + Len(c[2].data)
        BY <1>4, <2>4 DEF RemainingLength
    <3> QED BY <1>1, <2>2, <2>3, <2>4, <3>1 DEF Sendable
  <2>5. CASE t = "Suback"
    <3>1. RemainingLength(p) = 2 + 1
        BY <1>4, <2>5 DEF RemainingLength
    <3> QED BY <1>1, <1>7, <2>3, <3>1 DEF Sendable
  <2>6. CASE t \notin {"Subscribe", "Suback"}
    <3>1. RemainingLength(p) = 2
        BY <1>4, <1>12, <2>6 DEF RemainingLength
    <3> QED BY <1>1, <1>7, <2>3, <3>1 DEF Sendable
  <2> QED BY <2>4, <2>5, <2>6
<1> QED BY <1>8, <1>9, <1>10, <1>11, <1>12

\* Every packet has a first byte, from which its type and flags are parsed.
LEMMA FlagsInRange ==
    ASSUME NEW p, WellFormed(p)
    PROVE  p.type \in Types /\ p.flags \in 0 .. 15 /\ AllowedFlags(p.type, p.flags)
<1>1. p.type \in Types
    BY DEF WellFormed, Types
<1>2. CASE p.type = "Publish"
  <2>1. MPublish(p.flags, p.body)
      BY <1>2 DEF WellFormed
  <2>2. p.flags \in 0 .. 15 /\ QoSOf(p.flags) # 3
      BY <2>1 DEF MPublish
  <2> QED BY <1>1, <1>2, <2>2 DEF AllowedFlags
<1>3. CASE p.type # "Publish"
  <2>1. p.flags = FixedFlags(p.type)
      BY <1>3 DEF WellFormed
  <2>2. FixedFlags(p.type) \in {0, 2}
      BY DEF FixedFlags
  <2>3. p.flags \in 0 .. 15
      BY <2>1, <2>2
  <2> QED BY <1>1, <1>3, <2>1, <2>3 DEF AllowedFlags
<1> QED BY <1>2, <1>3

\* All of the body is parsed as the packet, unless its will has QoS 0.
ZeroWill(p) == p.type = "Connect" /\ p.body.will # <<>> /\ p.body.will[1].qos = 0

LEMMA DataAgain ==
    ASSUME NEW p, WellFormed(p), p.type \notin Unwritable, RemainingLength(p) < 128,
           NEW kind, kind = [type |-> p.type, flags |-> p.flags],
           NEW q, q = mpacketdata(kind, Bytes(p))
    PROVE  IsOk(q) /\ (q.value = p <=> ~ZeroWill(p))
<1>1. PICK t, fl, c, d : t = p.type /\ fl = p.flags /\ c = p.body /\ d = Bytes(p)
    OBVIOUS
<1>2. t \in Types \ Unwritable
    BY <1>1 DEF WellFormed, Types
<1>3. p = MPacket(t, fl, c)
    BY <1>1 DEF WellFormed
<1>4. PICK y : y = BodyOf(t, fl, d)
    OBVIOUS
<1>5. (IsOk(q) <=> IsOk(y)) /\ (IsOk(q) => q.value = MPacket(t, fl, y.value))
    BY <1>1, <1>4, PacketDataIs
<1>6. ASSUME IsOk(y), y.value = c <=> ~ZeroWill(p)
      PROVE  IsOk(q) /\ (q.value = p <=> ~ZeroWill(p))
  <2>1. PICK r : r = q.value
      OBVIOUS
  <2>2. IsOk(q) /\ r = MPacket(t, fl, y.value)
      BY <1>5, <1>6, <2>1
  <2>3. r.body = y.value
      BY <2>2, MPacketIs
  <2>4. r = p => y.value = c
      BY <1>1, <2>3
  <2>5. y.value = c => r = p
      BY <1>3, <2>2
  <2> QED BY <1>6, <2>1, <2>2, <2>4, <2>5
<1>7. CASE t = "Connect"
  <2>1. MConnect(c) /\ d = ConnectBytes(c) /\ ConnectLength(c) < 128
      BY <1>1, <1>7 DEF WellFormed, Bytes, RemainingLength
  <2>2. y = ConnectData(d)
      BY <1>4, <1>7 DEF BodyOf
  <2>3. ShortConnect(c)
      BY <2>1, ShortConnectIs
  <2>4. IsOk(y) /\ (y.value = c <=> ~(c.will # <<>> /\ c.will[1].qos = 0))
      BY <2>1, <2>2, <2>3, ConnectAgain
  <2>5. ZeroWill(p) <=> c.will # <<>> /\ c.will[1].qos = 0
      BY <1>1, <1>7 DEF ZeroWill
  <2> QED BY <1>6, <2>4, <2>5
<1>8. ASSUME t # "Connect", IsOk(y), y.value = c
      PROVE  IsOk(q) /\ (q.value = p <=> ~ZeroWill(p))
  <2>1. ~ZeroWill(p)
      BY <1>1, <1>8 DEF ZeroWill
  <2> QED BY <1>6, <1>8, <2>1
<1>9. CASE t = "Connack"
  <2>1. y = ConnackData(d) /\ d = c
      BY <1>1, <1>4, <1>9 DEF BodyOf, Bytes
  <2>2. PICK u, v : u = c[1] /\ v = c[2]
      OBVIOUS
  <2>3. c = <<u, v>> /\ u \in {0, 1} /\ v \in MConnectReturnCode
      BY <1>1, <1>9, <2>2 DEF WellFormed
  <2>4. IsOk(y) /\ y.value = c
      BY <2>1, <2>3, ConnackAgain
  <2> QED BY <1>8, <1>9, <2>4
<1>10. CASE t = "Publish"
  <2>1. MPublish(fl, c)
      BY <1>1, <1>10 DEF WellFormed
  <2>2. d = PublishBody(c)
      BY <1>1, <1>10 DEF Bytes, PublishBody
  <2>3. get_len(c[1]) + 2 * Len(c[2]) + Len(c[3]) < 128
      BY <1>1, <1>10 DEF RemainingLength
  <2>4. Len(c[1]) <= U16_MAX
      BY <2>1, <2>2, <2>3, PublishBytes
  <2>5. y = PublishData(fl, d)
      BY <1>4, <1>10 DEF BodyOf
  <2>6. IsOk(y) /\ y.value = c
      BY <2>1, <2>2, <2>4, <2>5, PublishAgain
  <2> QED BY <1>8, <1>10, <2>6
<1>11. CASE t \in {"Pingreq", "Pingresp"}
  <2>1. y = Ok(<<>>, d)
      BY <1>4, <1>11 DEF BodyOf
  <2>2. c = <<>>
      BY <1>1, <1>11 DEF WellFormed
  <2>3. IsOk(y) /\ y.value = c
      BY <2>1, <2>2 DEF Ok, IsOk
  <2> QED BY <1>8, <1>11, <2>3
<1>12. CASE t \in {"Subscribe", "Suback", "Puback", "Pubrec", "Pubrel", "Pubcomp"}
  <2>1. MIdentified(t, c)
      BY <1>1, <1>12 DEF WellFormed
  <2>2. y = IdentifiedData(t, d)
      BY <1>4, <1>12 DEF BodyOf
  <2>3. \E s \in Seq(Byte) :
          d = write_u16(c[1]) \o s /\ IsOk(Following(t, s)) /\ Following(t, s).value = c[2]
    <3>1. CASE t = "Subscribe"
      <4>1. PICK r : r = c[2]
          OBVIOUS
      <4>2. MRequests("subscription", r)
          BY <2>1, <3>1, <4>1 DEF MIdentified
      <4>3. PICK s : s = r.data
          OBVIOUS
      <4>4. s \in Seq(Byte)
          BY <4>2, <4>3 DEF MRequests
      <4>5. IsOk(mrequests("subscription", s)) /\ mrequests("subscription", s).value = r
          BY <4>2, <4>3, RequestsAgain
      <4>6. Following(t, s) = mrequests("subscription", s)
          BY <3>1 DEF Following
      <4>7. d = write_u16(c[1]) \o s
          BY <1>1, <3>1, <4>1, <4>3 DEF Bytes
      <4> QED BY <4>1, <4>4, <4>5, <4>6, <4>7
    <3>2. CASE t = "Suback"
      <4>1. PICK s : s = c[2]
          OBVIOUS
      <4>2. s \in Seq(MSubscriptionAck) /\ s # <<>>
          BY <2>1, <3>2, <4>1 DEF MIdentified
      <4>3. s \in Seq(Byte) /\ IsOk(msubscriptionacks(s)) /\ msubscriptionacks(s).value = s
          BY <4>2, AcksAgain
      <4>4. Following(t, s) = msubscriptionacks(s)
          BY <3>2 DEF Following
      <4>5. d = write_u16(c[1]) \o s
          BY <1>1, <3>2, <4>1 DEF Bytes
      <4> QED BY <4>1, <4>3, <4>4, <4>5
    <3>3. CASE t \in {"Puback", "Pubrec", "Pubrel", "Pubcomp"}
      <4>1. PICK id, s : id = c[1] /\ s = <<>>
          OBVIOUS
      <4>2. id \in U16 /\ c[2] = <<>>
          BY <2>1, <3>3, <4>1 DEF MIdentified
      <4>3. d = write_u16(id)
          BY <1>1, <3>3, <4>1 DEF Bytes
      <4>4. d \in Seq(Byte)
          BY <4>2, <4>3, U16Written
      <4>5. d = write_u16(id) \o s /\ s \in Seq(Byte)
          BY <4>1, <4>3, <4>4, NothingBefore
      <4>6. Following(t, s) = Ok(<<>>, s)
          BY <3>3 DEF Following
      <4>7. IsOk(Following(t, s)) /\ Following(t, s).value = <<>>
          BY <4>6 DEF Ok, IsOk
      <4> QED BY <4>1, <4>2, <4>5, <4>7
    <3> QED BY <1>12, <3>1, <3>2, <3>3
  <2>4. IsOk(y) /\ y.value = c
      BY <2>1, <2>2, <2>3, IdentifiedAgain
  <2> QED BY <1>8, <1>12, <2>4
<1> QED BY <1>2, <1>7, <1>9, <1>10, <1>11, <1>12, TypesAre DEF Unwritable

-----------------------------------------------------------------------------
(***************************************************************************)
(* What is written and parsed again.                                        *)
(***************************************************************************)
KindOf(p) == [type |-> p.type, flags |-> p.flags]

\* b are the bytes of p: the byte h, the length l and the body d.
WrittenAs(p, b, h, l, d) ==
    /\ h = to_byte(p.type, p.flags) /\ l = RemainingLength(p) /\ d = Bytes(p)
    /\ Laid(b, h, write_remaining_length(l), d)
    /\ h \in Byte /\ mpacketkind(h) = Ok(KindOf(p), <<>>)
    /\ BytesOf(p, d, l) /\ l <= VARIABLE_INTEGER_MAX

LEMMA WriteToIs ==
    ASSUME NEW p, Sendable(p), p.type \notin Unwritable, NEW b, b = write_to(p)
    PROVE  b \in Seq(Byte) /\ \E h, l, d : WrittenAs(p, b, h, l, d)
<1>1. PICK h, l, d : h = to_byte(p.type, p.flags) /\ l = RemainingLength(p) /\ d = Bytes(p)
    OBVIOUS
<1>2. WellFormed(p) /\ l <= VARIABLE_INTEGER_MAX
    BY <1>1 DEF Sendable
<1>3. BytesOf(p, d, l)
    BY <1>1, <1>2, BytesAre
<1>4. h \in Byte /\ mpacketkind(h) = Ok(KindOf(p), <<>>)
    BY <1>1, <1>2, FlagsInRange, KindOfWritten DEF KindOf
<1>5. l \in Sizes /\ d \in Seq(Byte)
    BY <1>2, <1>3 DEF BytesOf, Sizes
<1>6. PICK v : v = write_remaining_length(l)
    OBVIOUS
<1>7. v \in Seq(Byte)
    BY <1>5, <1>6, WrittenLength DEF write_remaining_length
<1>8. b = <<h>> \o v \o d
    BY <1>1, <1>6 DEF write_to
<1>9. Laid(b, h, v, d)
    BY <1>4, <1>5, <1>7, <1>8, LaidOut
<1>10. b \in Seq(Byte)
    BY <1>9 DEF Laid
<1>11. WrittenAs(p, b, h, l, d)
    BY <1>1, <1>2, <1>3, <1>4, <1>6, <1>9 DEF WrittenAs
<1> QED BY <1>10, <1>11

LEMMA WrittenParts ==
    ASSUME NEW p, NEW b, NEW h, NEW l, NEW d, WrittenAs(p, b, h, l, d)
    PROVE  /\ b \in Seq(Byte) /\ d \in Seq(Byte) /\ l \in Nat /\ l <= VARIABLE_INTEGER_MAX
           /\ h \in Byte /\ b[1] = h /\ IsOk(mpacketkind(h))
           /\ mpacketkind(h).value = KindOf(p)
           /\ Laid(b, h, write_remaining_length(l), d)
           /\ p.type # "Suback" => Len(d) = l
           /\ p.type = "Suback" => l = 3 /\ Len(d) = 2 + Len(p.body[2])
           /\ l = RemainingLength(p) /\ d = Bytes(p)
           /\ l < 128 => Laid(b, h, <<l>>, d)
<1>1. PICK k : k = mpacketkind(h)
    OBVIOUS
<1>2. k = Ok(KindOf(p), <<>>)
    BY <1>1 DEF WrittenAs
<1>3. IsOk(k) /\ k.value = KindOf(p)
    BY <1>2 DEF Ok, IsOk
<1>4. /\ d \in Seq(Byte) /\ l \in Nat
      /\ p.type # "Suback" => Len(d) = l
      /\ p.type = "Suback" => l = 3 /\ Len(d) = 2 + Len(p.body[2])
    BY DEF WrittenAs, BytesOf
<1>5. /\ Laid(b, h, write_remaining_length(l), d) /\ l <= VARIABLE_INTEGER_MAX /\ h \in Byte
      /\ l = RemainingLength(p) /\ d = Bytes(p)
    BY DEF WrittenAs
<1>6. b \in Seq(Byte) /\ b[1] = h
    BY <1>5 DEF Laid
<1>7. l < 128 => Laid(b, h, <<l>>, d)
    BY <1>4, <1>5, ShortLength
<1> QED BY <1>1, <1>3, <1>4, <1>5, <1>6, <1>7, Zenon

LEMMA WrittenFrame ==
    ASSUME NEW p, NEW b, NEW h, NEW l, NEW d, WrittenAs(p, b, h, l, d)
    PROVE  Len(b) >= 2 /\ \E k \in 0 .. 3 : \E m, r : Framed(b, k, m, r)
<1>1. /\ b \in Seq(Byte) /\ d \in Seq(Byte) /\ l \in Nat /\ l <= VARIABLE_INTEGER_MAX
      /\ Laid(b, h, write_remaining_length(l), d)
    BY WrittenParts
<1>2. l \in Sizes
    BY <1>1 DEF Sizes
<1>3. PICK v : v = write_variable_u32(l)
    OBVIOUS
<1>4. v \in Seq(Byte) /\ Len(v) \in 1 .. 4
    BY <1>2, <1>3, WrittenLength
<1>5. Len(b) = 1 + Len(v) + Len(d) /\ Len(d) \in Nat
    BY <1>1, <1>3 DEF Laid, write_remaining_length
<1>6. Len(b) >= 2
    BY <1>4, <1>5, SMTT(60)
<1> QED BY <1>1, <1>6, FramedExists

\* Without a defect the length is one byte, and the body all that it announces.
LEMMA NoDefect ==
    ASSUME NEW p, WellFormed(p), ~KnownDefect(p), NEW b, NEW h, NEW l, NEW d, WrittenAs(p, b, h, l, d)
    PROVE  l < 128 /\ Plain(d) /\ l = Len(d) /\ ~ZeroWill(p)
<1>1. p # NoPacket
  <2>1. p.type \in Types
      BY FlagsInRange
  <2>2. p.type # "None"
      BY <2>1, TypesAre
  <2>3. NoPacket.type = "None"
      BY DEF NoPacket, MPacket
  <2> QED BY <2>2, <2>3
<1>2. l = RemainingLength(p) /\ d = Bytes(p) /\ l \in Nat /\ d \in Seq(Byte)
    BY WrittenParts
<1>3. ~(l >= 128) /\ ~(d # <<>> /\ d[1] >= 128)
    BY <1>1, <1>2 DEF KnownDefect
<1>4. ~(p.type = "Suback" /\ Len(p.body[2]) > 1) /\ ~ZeroWill(p)
    BY DEF KnownDefect, ZeroWill
<1>5. Plain(d)
  <2>1. CASE d = <<>>
      BY <2>1 DEF Plain
  <2>2. CASE d # <<>>
    <3>1. d[1] \in Nat
        BY <1>2, <2>2, BytesAreNat
    <3> QED BY <1>3, <2>2, <3>1 DEF Plain
  <2> QED BY <2>1, <2>2
<1>7. /\ p.type # "Suback" => Len(d) = l
      /\ p.type = "Suback" => l = 3 /\ Len(d) = 2 + Len(p.body[2])
    BY DEF WrittenAs, BytesOf
<1>6. l = Len(d)
  <2>1. CASE p.type # "Suback"
      BY <1>7, <2>1
  <2>2. CASE p.type = "Suback"
    <3>1. PICK s : s = p.body[2]
        OBVIOUS
    <3>2. MIdentified("Suback", p.body)
        BY <2>2 DEF WellFormed
    <3>3. s \in Seq(MSubscriptionAck) /\ s # <<>>
        BY <3>1, <3>2 DEF MIdentified
    <3>4. Len(s) \in Nat /\ Len(s) # 0
        BY <3>3
    <3>7. PICK n : n = Len(s)
        OBVIOUS
    <3>8. ~(n > 1) /\ n \in Nat /\ n # 0
        BY <1>4, <2>2, <3>1, <3>4, <3>7
    <3>9. n = 1
        BY <3>8
    <3>5. Len(s) = 1
        BY <3>7, <3>9
    <3>6. l = 3 /\ Len(d) = 2 + Len(s)
        BY <1>7, <2>2, <3>1
    <3> QED BY <3>5, <3>6
  <2> QED BY <2>1, <2>2
<1> QED BY <1>2, <1>3, <1>4, <1>5, <1>6

\* The packet itself, to its last byte.
Returns(p, b) == IsOk(mpacket(b)) /\ mpacket(b).value = p /\ mpacket(b).rest = <<>>

LEMMA AllOfIt ==
    ASSUME NEW d \in Seq(Byte), NEW l, l = Len(d)
    PROVE  SubSeq(d, 1, l) = d /\ SubSeq(d, l + 1, Len(d)) = <<>>
<1>1. l \in Nat
    OBVIOUS
<1>2. PICK s : s = SubSeq(d, 1, l)
    OBVIOUS
<1>3. s \in Seq(Byte) /\ Len(s) = l /\ \A i \in 1 .. l : s[i] = d[i]
    BY <1>1, <1>2, Kept
<1>4. s = d
    BY <1>3, SameSequence
<1>5. PICK e : e = SubSeq(d, l + 1, Len(d))
    OBVIOUS
<1>6. e \in Seq(Byte) /\ Len(e) = Len(d) - l
    BY <1>1, <1>5, Dropped
<1>7. e = <<>>
    BY <1>1, <1>6
<1> QED BY <1>2, <1>4, <1>5, <1>7

LEMMA SoundReturns ==
    ASSUME NEW p, Sendable(p), p.type \notin Unwritable, ~KnownDefect(p),
           NEW b, NEW h, NEW l, NEW d, WrittenAs(p, b, h, l, d)
    PROVE  Returns(p, b)
<1>1. l < 128 /\ Plain(d) /\ l = Len(d) /\ ~ZeroWill(p)
    BY NoDefect DEF Sendable
<1>2. /\ d \in Seq(Byte) /\ l \in Nat /\ h \in Byte /\ IsOk(mpacketkind(h))
      /\ l = RemainingLength(p) /\ d = Bytes(p)
    BY WrittenParts
<1>3. Laid(b, h, <<l>>, d)
    BY <1>1, WrittenParts
<1>4. PICK kind : kind = mpacketkind(h).value
    OBVIOUS
<1>15. kind = KindOf(p)
    BY <1>4, WrittenParts
<1>5. kind = [type |-> p.type, flags |-> p.flags]
    BY <1>15 DEF KindOf
<1>6. SubSeq(d, 1, l) = d /\ SubSeq(d, l + 1, Len(d)) = <<>>
    BY <1>1, <1>2, AllOfIt
<1>7. PICK q : q = mpacketdata(mpacketkind(h).value, SubSeq(d, 1, l))
    OBVIOUS
<1>8. q = mpacketdata(kind, Bytes(p))
    BY <1>2, <1>4, <1>6, <1>7
<1>9. IsOk(q) /\ q.value = p
    BY <1>1, <1>2, <1>5, <1>8, DataAgain DEF Sendable
<1>10. PICK x : x = mpacket(b)
    OBVIOUS
<1>14. /\ d \in Seq(Byte) /\ l \in Nat /\ h \in Byte /\ IsOk(mpacketkind(h))
       /\ l < 128 /\ Plain(d) /\ l <= Len(d)
    BY <1>1, <1>2
<1>11. mpacket(b) = IF IsOk(q) THEN Ok(q.value, SubSeq(d, l + 1, Len(d))) ELSE Err
    BY <1>3, <1>7, <1>14, ShortPacket
<1>12. x = Ok(p, <<>>)
    BY <1>6, <1>9, <1>10, <1>11
<1>13. IsOk(x) /\ x.value = p /\ x.rest = <<>>
    BY <1>12 DEF Ok, IsOk
<1> QED BY <1>10, <1>13 DEF Returns

\* p is what mpacketdata makes of the first m bytes of r.
ParsedBody(b, r, m, p) ==
    \E q : q = mpacketdata(mpacketkind(b[1]).value, SubSeq(r, 1, m)) /\ IsOk(q) /\ p = q.value

\* What mpacket takes for the body, when it takes b for a packet.
LEMMA ParsedFrom ==
    ASSUME NEW b \in Seq(Byte), Len(b) >= 2, NEW k \in 0 .. 3, NEW m, NEW r, Framed(b, k, m, r),
           NEW x, x = mpacket(b), IsOk(x)
    PROVE  /\ m \in Nat /\ m <= Len(r) /\ r \in Seq(Byte) /\ IsOk(mpacketkind(b[1]))
           /\ x.rest = SubSeq(r, m + 1, Len(r)) /\ ParsedBody(b, r, m, x.value)
<1>1. m \in Nat /\ r \in Seq(Byte)
    BY FramedParts
<1>2. Len(r) \in Nat
    BY <1>1
<1>3. ~(Len(r) < m)
    BY PacketErr, ErrIs
<1>4. IsOk(mpacketkind(b[1]))
    BY PacketIs, ErrIs
<1>5. PICK q : q = mpacketdata(mpacketkind(b[1]).value, SubSeq(r, 1, m))
    OBVIOUS
<1>6. Len(r) >= m
    BY <1>1, <1>2, <1>3
<1>7. x = IF IsOk(q) THEN Ok(q.value, SubSeq(r, m + 1, Len(r))) ELSE Err
    BY <1>4, <1>5, <1>6, PacketOk
<1>8. IsOk(q) /\ x = Ok(q.value, SubSeq(r, m + 1, Len(r)))
    BY <1>7, ErrIs
<1>9. PICK s : s = SubSeq(r, m + 1, Len(r))
    OBVIOUS
<1>10. x = Ok(q.value, s)
    BY <1>8, <1>9
<1>11. x.value = q.value /\ x.rest = s
    BY <1>10 DEF Ok
<1>12. ParsedBody(b, r, m, x.value)
    BY <1>5, <1>8, <1>11 DEF ParsedBody
<1> QED BY <1>1, <1>4, <1>6, <1>9, <1>11, <1>12

\* A length of two bytes or more: a byte of it is taken for the body's, and at
\* least one byte is left.
LEMMA LongIsLost ==
    ASSUME NEW p, NEW b, NEW h, NEW l, NEW d, WrittenAs(p, b, h, l, d), l >= 128
    PROVE  ~Returns(p, b)
<1> SUFFICES ASSUME Returns(p, b) PROVE FALSE
    OBVIOUS
<1>1. PICK x : x = mpacket(b)
    OBVIOUS
<1>2. IsOk(x)
    BY <1>1 DEF Returns
<1>12. x.rest = <<>>
    BY <1>1 DEF Returns
<1>3. /\ b \in Seq(Byte) /\ d \in Seq(Byte) /\ l \in Nat /\ l <= VARIABLE_INTEGER_MAX /\ h \in Byte
      /\ Laid(b, h, write_remaining_length(l), d)
    BY WrittenParts
<1>4. Len(b) >= 2
    BY WrittenFrame
<1>5. PICK k \in 0 .. 3 : \E m, r : Framed(b, k, m, r)
    BY WrittenFrame
<1>6. PICK m, r : Framed(b, k, m, r)
    BY <1>5
<1>7. m <= l /\ Len(r) = Len(d) + 1
    BY <1>3, <1>6, LongFrame
<1>13. b \in Seq(Byte)
    BY <1>3
<1>14. m \in Nat /\ r \in Seq(Byte) /\ m <= Len(r)
    BY <1>1, <1>2, <1>13, <1>4, <1>6, ParsedFrom
<1>15. x.rest = SubSeq(r, m + 1, Len(r))
    BY <1>1, <1>2, <1>13, <1>4, <1>6, ParsedFrom, SMTT(60)
<1>8. m \in Nat /\ r \in Seq(Byte) /\ m <= Len(r) /\ x.rest = SubSeq(r, m + 1, Len(r))
    BY <1>14, <1>15
<1>9. Len(d) = l
  <2>1. p.type = "Suback" => l = 3
      BY DEF WrittenAs, BytesOf
  <2>2. p.type # "Suback"
      BY <2>1
  <2> QED BY <2>2 DEF WrittenAs, BytesOf
<1>10. Len(SubSeq(r, m + 1, Len(r))) = Len(r) - m
    BY <1>8, Dropped
<1>11. Len(r) - m = 0
    BY <1>8, <1>10, <1>12
<1> QED BY <1>3, <1>7, <1>8, <1>9, <1>11

\* A body whose first byte looks like one of the length: it is too short then.
LEMMA FirstByteIsLost ==
    ASSUME NEW p, NEW b, NEW h, NEW l, NEW d, WrittenAs(p, b, h, l, d), l < 128, Len(d) = l,
           d # <<>>, d[1] >= 128
    PROVE  ~Returns(p, b)
<1> SUFFICES ASSUME Returns(p, b) PROVE FALSE
    OBVIOUS
<1>1. PICK x : x = mpacket(b)
    OBVIOUS
<1>2. IsOk(x)
    BY <1>1 DEF Returns
<1>3. b \in Seq(Byte) /\ d \in Seq(Byte) /\ l \in Nat /\ h \in Byte /\ Laid(b, h, <<l>>, d)
    BY WrittenParts
<1>4. Len(b) >= 2
    BY WrittenFrame
<1>5. PICK k \in 0 .. 3 : \E m, r : Framed(b, k, m, r)
    BY WrittenFrame
<1>6. PICK m, r : Framed(b, k, m, r)
    BY <1>5
<1>7. m >= l /\ Len(r) < Len(d)
    BY <1>3, <1>6, LostByte
<1>8. m \in Nat /\ r \in Seq(Byte) /\ m <= Len(r)
    BY <1>1, <1>2, <1>3, <1>4, <1>6, ParsedFrom
<1>9. Len(r) \in Nat
    BY <1>8
<1> QED BY <1>3, <1>7, <1>8, <1>9

\* Several codes of a SUBACK: fewer are parsed.
LEMMA AcksAreLost ==
    ASSUME NEW p, WellFormed(p), p.type = "Suback", Len(p.body[2]) > 1,
           NEW b, NEW h, NEW l, NEW d, WrittenAs(p, b, h, l, d)
    PROVE  ~Returns(p, b)
<1> SUFFICES ASSUME Returns(p, b) PROVE FALSE
    OBVIOUS
<1>1. PICK x : x = mpacket(b)
    OBVIOUS
<1>2. IsOk(x) /\ x.value = p
    BY <1>1 DEF Returns
<1>3. b \in Seq(Byte) /\ d \in Seq(Byte) /\ h \in Byte /\ b[1] = h
    BY WrittenParts
<1>4. l = 3 /\ Len(d) = 2 + Len(p.body[2])
    BY DEF WrittenAs, BytesOf
<1>25. l < 128
    BY <1>4
<1>5. Laid(b, h, <<l>>, d) /\ l \in Nat /\ l < 128
    BY <1>25, WrittenParts
<1>6. Len(b) >= 2
    BY WrittenFrame
<1>7. PICK k \in 0 .. 3 : \E m, r : Framed(b, k, m, r)
    BY WrittenFrame
<1>8. PICK m, r : Framed(b, k, m, r)
    BY <1>7
<1>9. m \in Nat /\ r \in Seq(Byte) /\ m <= Len(r) /\ ParsedBody(b, r, m, x.value)
    BY <1>1, <1>2, <1>3, <1>6, <1>8, ParsedFrom
<1>10. PICK s : s = SubSeq(r, 1, m)
    OBVIOUS
<1>11. s \in Seq(Byte) /\ Len(s) = m
    BY <1>9, <1>10, Kept
<1>12. PICK n : n = Len(p.body[2])
    OBVIOUS
<1>13. n \in Nat /\ n > 1
  <2>1. MIdentified("Suback", p.body)
      BY DEF WellFormed
  <2>2. p.body[2] \in Seq(MSubscriptionAck)
      BY <2>1 DEF MIdentified
  <2> QED BY <1>12, <2>2
<1>14. m < 2 + n
  <2>1. CASE Plain(d)
    <3>1. Begins(b, l, d)
        BY <1>3, <1>4, <1>5, ShortPlaces DEF Begins
    <3>2. m = l
        BY <1>3, <1>5, <1>8, <2>1, <3>1, ShortFrame
    <3> QED BY <1>4, <1>13, <3>2
  <2>2. CASE ~Plain(d)
    <3>1. d # <<>> /\ ~(d[1] < 128)
        BY <2>2 DEF Plain
    <3>2. d[1] \in Nat
        BY <1>3, <3>1, BytesAreNat
    <3>3. d[1] >= 128
        BY <3>1, <3>2
    <3>4. Len(r) < Len(d)
        BY <1>3, <1>5, <1>8, <3>1, <3>3, LostByte
    <3>5. Len(r) \in Nat
        BY <1>9
    <3> QED BY <1>4, <1>9, <1>12, <1>13, <3>4, <3>5
  <2> QED BY <2>1, <2>2
<1>15. PICK q : q = mpacketdata(mpacketkind(b[1]).value, s) /\ IsOk(q) /\ p = q.value
    BY <1>2, <1>9, <1>10 DEF ParsedBody
<1>16. PICK kind : kind = mpacketkind(b[1]).value
    OBVIOUS
<1>26. kind = KindOf(p)
    BY <1>3, <1>16, WrittenParts
<1>17. kind = [type |-> p.type, flags |-> p.flags]
    BY <1>26 DEF KindOf
<1>18. PICK t, fl, y : t = p.type /\ fl = p.flags /\ y = BodyOf(t, fl, s)
    OBVIOUS
<1>24. q = mpacketdata(kind, s) /\ kind = [type |-> t, flags |-> fl]
    BY <1>15, <1>16, <1>17, <1>18
<1>27. y = BodyOf(t, fl, s)
    BY <1>18
<1>28. (IsOk(q) <=> IsOk(y)) /\ (IsOk(q) => q.value = MPacket(t, fl, y.value))
    BY <1>24, <1>27, PacketDataIs
<1>19. IsOk(y) /\ p = MPacket(t, fl, y.value)
    BY <1>15, <1>28
<1>20. p.body = y.value
    BY <1>19, MPacketIs
<1>21. y = IdentifiedData("Suback", s)
    BY <1>18 DEF BodyOf
<1>22. Len(s) >= 2 + Len(y.value[2])
    BY <1>11, <1>19, <1>21, IdentifiedTaken
<1>23. m >= 2 + n
    BY <1>11, <1>12, <1>20, <1>22
<1> QED BY <1>9, <1>13, <1>14, <1>23

\* A will of QoS 0: it comes back with QoS 1.
LEMMA WillIsChanged ==
    ASSUME NEW p, WellFormed(p), ZeroWill(p), NEW b, NEW h, NEW l, NEW d, WrittenAs(p, b, h, l, d), l < 128
    PROVE  ~Returns(p, b)
<1> SUFFICES ASSUME Returns(p, b) PROVE FALSE
    OBVIOUS
<1>1. p.type = "Connect" /\ p.type \notin Unwritable
    BY DEF ZeroWill, Unwritable
<1>2. /\ d \in Seq(Byte) /\ l \in Nat /\ h \in Byte /\ IsOk(mpacketkind(h))
      /\ l = RemainingLength(p) /\ d = Bytes(p) /\ Laid(b, h, <<l>>, d)
    BY WrittenParts
<1>3. Len(d) = l
    BY <1>1 DEF WrittenAs, BytesOf
<1>4. Plain(d)
  <2>1. MConnect(p.body) /\ d = ConnectBytes(p.body)
      BY <1>1, <1>2 DEF WellFormed, Bytes
  <2> QED BY <2>1, ConnectBytesAre
<1>5. PICK kind : kind = mpacketkind(h).value
    OBVIOUS
<1>6. kind = KindOf(p)
    BY <1>5, WrittenParts
<1>7. kind = [type |-> p.type, flags |-> p.flags]
    BY <1>6 DEF KindOf
<1>8. SubSeq(d, 1, l) = d
    BY <1>2, <1>3, AllOfIt
<1>9. PICK q : q = mpacketdata(mpacketkind(h).value, SubSeq(d, 1, l))
    OBVIOUS
<1>10. q = mpacketdata(kind, Bytes(p))
    BY <1>2, <1>5, <1>8, <1>9
<1>11. IsOk(q) /\ q.value # p
    BY <1>1, <1>2, <1>7, <1>10, DataAgain
<1>12. /\ d \in Seq(Byte) /\ l \in Nat /\ h \in Byte /\ IsOk(mpacketkind(h))
       /\ l < 128 /\ Plain(d) /\ l <= Len(d) /\ Laid(b, h, <<l>>, d)
    BY <1>2, <1>3, <1>4
<1>13. mpacket(b) = IF IsOk(q) THEN Ok(q.value, SubSeq(d, l + 1, Len(d))) ELSE Err
    BY <1>9, <1>12, ShortPacket
<1>14. PICK x, s : x = mpacket(b) /\ s = SubSeq(d, l + 1, Len(d))
    OBVIOUS
<1>15. x = Ok(q.value, s)
    BY <1>11, <1>13, <1>14
<1>16. x.value = q.value
    BY <1>15 DEF Ok
<1>17. x.value = p
    BY <1>14 DEF Returns
<1> QED BY <1>11, <1>16, <1>17

\* A packet comes back if and only if it has none of the defects.
LEMMA ReturnsUnlessDefect ==
    ASSUME NEW p, Sendable(p), p.type \notin Unwritable, NEW b, b = write_to(p)
    PROVE  Returns(p, b) <=> ~KnownDefect(p)
<1>1. PICK h, l, d : WrittenAs(p, b, h, l, d)
    BY WriteToIs
<1>2. WellFormed(p)
    BY DEF Sendable
<1>3. CASE ~KnownDefect(p)
    BY <1>1, <1>3, SoundReturns
<1>4. CASE KnownDefect(p)
  <2>1. l = RemainingLength(p) /\ d = Bytes(p) /\ l \in Nat /\ d \in Seq(Byte)
      BY <1>1, WrittenParts
  <2>2. CASE l >= 128
    <3>1. ~Returns(p, b)
        BY <1>1, <2>2, LongIsLost
    <3> QED BY <1>4, <3>1
  <2>3. CASE l < 128 /\ p.type = "Suback" /\ Len(p.body[2]) > 1
    <3>1. ~Returns(p, b)
        BY <1>1, <1>2, <2>3, AcksAreLost
    <3> QED BY <1>4, <3>1
  <2>4. CASE l < 128 /\ ZeroWill(p)
    <3>1. ~Returns(p, b)
        BY <1>1, <1>2, <2>4, WillIsChanged
    <3> QED BY <1>4, <3>1
  <2>5. CASE l < 128 /\ ~(p.type = "Suback" /\ Len(p.body[2]) > 1) /\ ~ZeroWill(p)
    <3>1. d # <<>> /\ d[1] >= 128
        BY <1>4, <2>1, <2>5 DEF KnownDefect, ZeroWill
    <3>2. Len(d) = l
      <4>1. /\ p.type # "Suback" => Len(d) = l
            /\ p.type = "Suback" => l = 3 /\ Len(d) = 2 + Len(p.body[2])
          BY <1>1 DEF WrittenAs, BytesOf
      <4>2. CASE p.type # "Suback"
          BY <4>1, <4>2
      <4>3. CASE p.type = "Suback"
        <5>1. PICK s, n : s = p.body[2] /\ n = Len(s)
            OBVIOUS
        <5>2. MIdentified("Suback", p.body)
            BY <1>2, <4>3 DEF WellFormed
        <5>3. s \in Seq(MSubscriptionAck) /\ s # <<>>
            BY <5>1, <5>2 DEF MIdentified
        <5>4. n \in Nat /\ n # 0
            BY <5>1, <5>3
        <5>5. ~(n > 1)
            BY <2>5, <4>3, <5>1
        <5>6. n = 1
            BY <5>4, <5>5
        <5> QED BY <4>1, <4>3, <5>1, <5>6
      <4> QED BY <4>2, <4>3
    <3>3. ~Returns(p, b)
        BY <1>1, <2>5, <3>1, <3>2, FirstByteIsLost
    <3> QED BY <1>4, <3>3
  <2>6. l >= 128 \/ l < 128
      BY <2>1
  <2> QED BY <2>2, <2>3, <2>4, <2>5, <2>6
<1> QED BY <1>3, <1>4

\* No prefix of it is taken for a packet then.
LEMMA PrefixRefused ==
    ASSUME NEW p, Sendable(p), p.type \notin Unwritable, ~KnownDefect(p), NEW b, b = write_to(p),
           NEW n \in 0 .. Len(b) - 1
    PROVE  ~IsOk(mpacket(SubSeq(b, 1, n)))
<1>1. PICK h, l, d : WrittenAs(p, b, h, l, d)
    BY WriteToIs
<1>2. l < 128 /\ Plain(d) /\ l = Len(d)
    BY <1>1, NoDefect DEF Sendable
<1>3. d \in Seq(Byte) /\ l \in Nat /\ h \in Byte /\ Laid(b, h, <<l>>, d)
    BY <1>1, <1>2, WrittenParts
<1>4. mpacket(SubSeq(b, 1, n)) = Err
    BY <1>2, <1>3, ShortPrefix
<1> QED BY <1>4, ErrIs

\* Whatever is parsed, from whatever bytes, can be written again.
LEMMA ParsedIsSendable ==
    ASSUME NEW b \in Seq(Byte), NEW x, x = mpacket(b), IsOk(x)
    PROVE  Sendable(x.value)
<1>1. Len(b) >= 2
  <2>1. Len(b) \in Nat
      OBVIOUS
  <2>2. ~(Len(b) < 2)
      BY TooShort, ErrIs
  <2> QED BY <2>1, <2>2
<1>2. PICK k \in 0 .. 3 : \E m, r : Framed(b, k, m, r)
    BY <1>1, FramedExists
<1>3. PICK m, r : Framed(b, k, m, r)
    BY <1>2
<1>4. m \in Nat /\ m <= Len(r) /\ r \in Seq(Byte) /\ IsOk(mpacketkind(b[1])) /\ ParsedBody(b, r, m, x.value)
    BY <1>1, <1>3, ParsedFrom
<1>5. m <= VARIABLE_INTEGER_MAX
    BY <1>1, <1>3, FramedParts
<1>6. PICK q : q = mpacketdata(mpacketkind(b[1]).value, SubSeq(r, 1, m)) /\ IsOk(q) /\ x.value = q.value
    BY <1>4 DEF ParsedBody
<1>7. PICK s : s = SubSeq(r, 1, m)
    OBVIOUS
<1>8. s \in Seq(Byte) /\ Len(s) = m
    BY <1>4, <1>7, Kept
<1>9. b[1] \in Byte
    BY <1>1
<1>10. PICK t \in Types, fl \in 0 .. 15 :
         mpacketkind(b[1]).value = [type |-> t, flags |-> fl] /\ AllowedFlags(t, fl)
    BY <1>4, <1>9, KindOfByte
<1>11. PICK kind : kind = [type |-> t, flags |-> fl]
    OBVIOUS
<1>12. q = mpacketdata(kind, s) /\ Len(s) <= VARIABLE_INTEGER_MAX /\ AllowedFlags(t, fl)
    BY <1>5, <1>6, <1>7, <1>8, <1>10, <1>11
<1>13. Sendable(q.value)
    BY <1>6, <1>8, <1>11, <1>12, DataTaken
<1> QED BY <1>6, <1>13

-----------------------------------------------------------------------------
(***************************************************************************)
(* The relay.                                                               *)
(***************************************************************************)
\* The bytes are bytes, and those of the packet that they were written from; what
\* is to be written can be; what was parsed was parsed from them.
RelayOK ==
    /\ stage \in {"given", "written", "parsed", "refused", "panicked"}
    /\ buffer \in Seq(Byte)
    /\ stage \in {"given", "parsed"} => Sendable(packet)
    /\ written # NoPacket =>
         Sendable(written) /\ written.type \notin Unwritable /\ buffer = write_to(written)
    /\ stage = "parsed" => /\ IsOk(mpacket(buffer))
                           /\ packet = mpacket(buffer).value /\ trailing = mpacket(buffer).rest
    /\ stage = "refused" => ~IsOk(mpacket(buffer)) /\ packet = NoPacket

\* What the relay holds is always well formed, whatever bytes arrive: whatever
\* mpacket accepts is a packet that write_to can announce the length of, so that it
\* can be written again.
THEOREM RelayStaysOK == Spec => []RelayOK
<1>1. Init => RelayOK
  <2> SUFFICES ASSUME Init PROVE RelayOK
      OBVIOUS
  <2>1. stage = "given" /\ packet \in Packets /\ written = NoPacket /\ buffer = <<>>
      BY DEF Init
  <2>2. Sendable(packet)
      BY <2>1, PacketsAssumption
  <2>3. buffer \in Seq(Byte)
      BY <2>1
  <2> QED BY <2>1, <2>2, <2>3 DEF RelayOK
<1>2. RelayOK /\ [Next]_vars => RelayOK'
  <2> SUFFICES ASSUME RelayOK, [Next]_vars PROVE RelayOK'
      OBVIOUS
  <2>1. CASE UNCHANGED vars
      BY <2>1 DEF RelayOK, vars
  <2>2. CASE Write
    <3>1. Sendable(packet)
        BY <2>2 DEF Write, RelayOK
    <3>2. CASE packet.type \in Unwritable
      <4>1. stage' = "panicked" /\ buffer' = buffer /\ written' = written
          BY <2>2, <3>2 DEF Write
      <4> QED BY <4>1 DEF RelayOK
    <3>3. CASE packet.type \notin Unwritable
      <4>1. stage' = "written" /\ buffer' = write_to(packet) /\ written' = packet
          BY <2>2, <3>3 DEF Write
      <4>2. buffer' \in Seq(Byte)
          BY <3>1, <3>3, <4>1, WriteToIs
      <4> QED BY <3>1, <3>3, <4>1, <4>2 DEF RelayOK
    <3> QED BY <3>2, <3>3
  <2>3. CASE Edit
    <3>1. stage = "written" /\ stage' = stage /\ written' = NoPacket
        BY <2>3 DEF Edit
    <3>2. PICK i \in DOMAIN buffer, v \in EditValues : buffer' = [buffer EXCEPT ![i] = v]
        BY <2>3 DEF Edit
    <3>3. v \in Byte /\ buffer \in Seq(Byte)
        BY EditValuesAssumption DEF RelayOK
    <3>4. buffer' \in Seq(Byte)
        BY <3>2, <3>3
    <3> QED BY <3>1, <3>4 DEF RelayOK
  <2>4. CASE Parse
    <3>1. PICK r : /\ r = mpacket(buffer)
                   /\ stage' = IF IsOk(r) THEN "parsed" ELSE "refused"
                   /\ packet' = IF IsOk(r) THEN r.value ELSE NoPacket
                   /\ trailing' = r.rest
        BY <2>4 DEF Parse
    <3>2. buffer' = buffer /\ written' = written /\ buffer \in Seq(Byte)
        BY <2>4 DEF Parse, RelayOK
    <3>3. CASE IsOk(r)
      <4>1. Sendable(r.value)
          BY <3>1, <3>2, <3>3, ParsedIsSendable
      <4> QED BY <3>1, <3>2, <3>3, <4>1 DEF RelayOK
    <3>4. CASE ~IsOk(r)
        BY <3>1, <3>2, <3>4 DEF RelayOK
    <3> QED BY <3>3, <3>4
  <2> QED BY <2>1, <2>2, <2>3, <2>4 DEF Next
<1> QED BY <1>1, <1>2, PTL DEF Spec

\* mpacket gives back what MPacket::write_to wrote, and leaves nothing of it, exactly
\* when the packet has none of the four defects; for packets of every size and
\* content, and for those that were parsed from changed bytes and sent on.
THEOREM RoundTripsUnlessDefect == Spec => []RoundTripUnlessDefect
<1>1. RelayOK => RoundTripUnlessDefect
  <2> SUFFICES ASSUME RelayOK, stage \in {"parsed", "refused"}, written # NoPacket
               PROVE  packet = written /\ trailing = <<>> <=> ~KnownDefect(written)
      BY DEF RoundTripUnlessDefect
  <2>1. PICK x : x = mpacket(buffer)
      OBVIOUS
  <2>2. Sendable(written) /\ written.type \notin Unwritable /\ buffer = write_to(written)
      BY DEF RelayOK
  <2>3. Returns(written, buffer) <=> ~KnownDefect(written)
      BY <2>2, ReturnsUnlessDefect
  <2>4. CASE stage = "parsed"
    <3>1. IsOk(x) /\ packet = x.value /\ trailing = x.rest
        BY <2>1, <2>4 DEF RelayOK
    <3>2. Returns(written, buffer) <=> packet = written /\ trailing = <<>>
        BY <2>1, <3>1 DEF Returns
    <3> QED BY <2>3, <3>2
  <2>5. CASE stage = "refused"
    <3>1. ~IsOk(x) /\ packet = NoPacket
        BY <2>1, <2>5 DEF RelayOK
    <3>2. ~Returns(written, buffer)
        BY <2>1, <3>1 DEF Returns
    <3> QED BY <2>3, <3>1, <3>2
  <2> QED BY <2>4, <2>5
<1> QED BY <1>1, RelayStaysOK, PTL

\* Of such a packet mpacket accepts no proper prefix: a reader never takes the
\* part that has arrived for a whole packet.
THEOREM PrefixesStayRefused == Spec => []PrefixesAreRefused
<1>1. RelayOK => PrefixesAreRefused
  <2> SUFFICES ASSUME RelayOK, written # NoPacket, ~KnownDefect(written), NEW n \in 0 .. Len(buffer) - 1
               PROVE  ~IsOk(mpacket(SubSeq(buffer, 1, n)))
      BY DEF PrefixesAreRefused
  <2>1. Sendable(written) /\ written.type \notin Unwritable /\ buffer = write_to(written)
      BY DEF RelayOK
  <2> QED BY <2>1, PrefixRefused
<1> QED BY <1>1, RelayStaysOK, PTL
=============================================================================
