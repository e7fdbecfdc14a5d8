------------------------ MODULE WirePrimitivesProofs ------------------------
(***************************************************************************)
(* What the proofs about the wire formats and about the codec share:        *)
(* induction over a number; variable byte integers, which are read as they  *)
(* were written, for every length and every cut; FlattenSeq, which is       *)
(* recursive; and what is at each place of a sequence of bytes.             *)
(***************************************************************************)
EXTENDS WirePrimitives, SequenceTheorems, WellFoundedInduction, TLAPS

-----------------------------------------------------------------------------
(***************************************************************************)
(* Induction over the natural numbers, for a set: the library's theorem    *)
(* asks for an operator.                                                    *)
(***************************************************************************)
Less == {pair \in Nat \X Nat : pair[1] < pair[2]}

\* There is no endless descent.
LEMMA LessWellFounded == IsWellFoundedOn(Less, Nat)
<1>1. OpToRel(<, Nat) = Less
    BY DEF OpToRel, Less
<1> QED BY <1>1, NatLessThanWellFounded, Zenon

\* A set that has 0 and every successor has every number.
LEMMA NatSetInduction ==
    ASSUME NEW S, 0 \in S, \A n \in Nat : n \in S => n + 1 \in S
    PROVE  Nat \subseteq S
<1>1. IsWellFoundedOn(Less, Nat)
    BY LessWellFounded
<1> SUFFICES ASSUME Nat \ S # {} PROVE FALSE
    OBVIOUS
<1>2. PICK x \in Nat \ S : \A y \in Nat \ S : ~(<<y, x>> \in Less)
    BY <1>1, WFMin
<1>3. x # 0 /\ x - 1 \in Nat /\ x - 1 \notin S
    OBVIOUS
<1>4. <<x - 1, x>> \in Less
    BY <1>3 DEF Less
<1> QED BY <1>2, <1>3, <1>4

-----------------------------------------------------------------------------
(***************************************************************************)
(* Variable byte integers.                                                  *)
(***************************************************************************)
Sizes == {u \in Nat : u <= VARIABLE_INTEGER_MAX}

\* A byte is a number below 256.
LEMMA ByteIsNat == \A x : x \in Byte <=> x \in Nat /\ x <= 255
BY DEF Byte

FrontOf(b, n) ==
    /\ n <= Len(b)
    /\ \A i \in 1..n : b[i] >= 128
    /\ n = 3 \/ n = Len(b) \/ b[n + 1] < 128

\* There is only one number of front bytes.
LEMMA FrontBytesIs ==
    ASSUME NEW b \in Seq(Byte), NEW n \in 0 .. 3, FrontOf(b, n)
    PROVE  FrontBytes(b) = n
<1>1. Len(b) \in Nat /\ \A i \in 1 .. Len(b) : b[i] \in Nat
  <2>1. Len(b) \in Nat /\ \A i \in 1 .. Len(b) : b[i] \in Byte
      OBVIOUS
  <2> QED BY <2>1, ByteIsNat
<1>2. \A m \in 0 .. 3 : FrontOf(b, m) => m = n
  <2> SUFFICES ASSUME NEW m \in 0 .. 3, FrontOf(b, m), m # n PROVE FALSE
      OBVIOUS
  <2>1. CASE m < n
      BY <1>1, <2>1 DEF FrontOf
  <2>2. CASE n < m
      BY <1>1, <2>2 DEF FrontOf
  <2> QED BY <2>1, <2>2
<1> QED BY <1>2, Zenon DEF FrontBytes, FrontOf

\* The number that n bytes give.
LengthOf(b, n) ==
    LET digit(i) == IF i <= n THEN b[i] % 128 ELSE 0
    IN  digit(1) + 128 * digit(2) + 128 * 128 * digit(3) + 128 * 128 * 128 * digit(4)

\* ... for one to four bytes.
LEMMA LengthOfBytes ==
    ASSUME NEW b
    PROVE  /\ b[1] \in Nat /\ b[1] < 128 => LengthOf(b, 1) = b[1]
           /\ b[1] \in Nat /\ b[2] \in Nat /\ b[2] < 128 =>
                 LengthOf(b, 2) = (b[1] % 128) + 128 * b[2]
           /\ b[1] \in Nat /\ b[2] \in Nat /\ b[3] \in Nat /\ b[3] < 128 =>
                 LengthOf(b, 3) = (b[1] % 128) + 128 * (b[2] % 128) + 16384 * b[3]
           /\ b[1] \in Nat /\ b[2] \in Nat /\ b[3] \in Nat /\ b[4] \in Nat /\ b[4] < 128 =>
                 LengthOf(b, 4) = (b[1] % 128) + 128 * (b[2] % 128) + 16384 * (b[3] % 128)
                                      + 2097152 * b[4]
<1>1. ASSUME b[1] \in Nat, b[1] < 128
      PROVE  LengthOf(b, 1) = b[1]
  <2>1. LengthOf(b, 1) = (b[1] % 128) + 128 * 0 + 128 * 128 * 0 + 128 * 128 * 128 * 0
      BY SMT DEF LengthOf
  <2>2. b[1] % 128 = b[1]
      BY <1>1
  <2> QED BY <1>1, <2>1, <2>2, SMT
<1>2. ASSUME b[1] \in Nat, b[2] \in Nat, b[2] < 128
      PROVE  LengthOf(b, 2) = (b[1] % 128) + 128 * b[2]
  <2>1. LengthOf(b, 2) = (b[1] % 128) + 128 * (b[2] % 128) + 128 * 128 * 0 + 128 * 128 * 128 * 0
      BY SMT DEF LengthOf
  <2>2. b[2] % 128 = b[2]
      BY <1>2
  <2> QED BY <1>2, <2>1, <2>2, SMT
<1>3. ASSUME b[1] \in Nat, b[2] \in Nat, b[3] \in Nat, b[3] < 128
      PROVE  LengthOf(b, 3) = (b[1] % 128) + 128 * (b[2] % 128) + 16384 * b[3]
  <2>1. LengthOf(b, 3) = (b[1] % 128) + 128 * (b[2] % 128) + 128 * 128 * (b[3] % 128) + 128 * 128 * 128 * 0
      BY SMT DEF LengthOf
  <2>2. b[3] % 128 = b[3]
      BY <1>3
  <2> QED BY <1>3, <2>1, <2>2, SMT
<1>4. ASSUME b[1] \in Nat, b[2] \in Nat, b[3] \in Nat, b[4] \in Nat, b[4] < 128
      PROVE  LengthOf(b, 4) = (b[1] % 128) + 128 * (b[2] % 128) + 16384 * (b[3] % 128) + 2097152 * b[4]
  <2>1. LengthOf(b, 4) = (b[1] % 128) + 128 * (b[2] % 128) + 128 * 128 * (b[3] % 128) + 128 * 128 * 128 * (b[4] % 128)
      BY SMT DEF LengthOf
  <2>2. b[4] % 128 = b[4]
      BY <1>4
  <2> QED BY <1>4, <2>1, <2>2, SMT
<1> QED BY <1>1, <1>2, <1>3, <1>4

\* The bytes of a length: front bytes and a last one, which give the number.
LEMMA WrittenLength ==
    ASSUME NEW u \in Sizes
    PROVE  /\ variable_u32_binary_size(u) \in 1 .. 4
           /\ write_variable_u32(u) \in Seq(Byte)
           /\ Len(write_variable_u32(u)) = variable_u32_binary_size(u)
           /\ \A i \in 1 .. variable_u32_binary_size(u) - 1 : write_variable_u32(u)[i] >= 128
           /\ write_variable_u32(u)[variable_u32_binary_size(u)] < 128
           /\ LengthOf(write_variable_u32(u), variable_u32_binary_size(u)) = u
<1>1. u \in Nat /\ u <= VARIABLE_INTEGER_MAX
    BY DEF Sizes
<1>1a. VARIABLE_INTEGER_MAX = 268435455
    BY SMT DEF VARIABLE_INTEGER_MAX
<1>2. CASE u <= 127
  <2>1. write_variable_u32(u) = <<u>> /\ variable_u32_binary_size(u) = 1
      BY <1>1, <1>1a, <1>2, SMT DEF write_variable_u32, variable_u32_binary_size
  <2>2. u \in Byte
      BY <1>1, <1>2, ByteIsNat
  <2> QED BY <1>1, <1>2, <2>1, <2>2, LengthOfBytes, SMT
<1>3. CASE 127 < u /\ u <= 16383
  <2> DEFINE x == FrontByte(u)
             y == u \div 128
  <2>1. write_variable_u32(u) = <<x, y>> /\ variable_u32_binary_size(u) = 2
      BY <1>1, <1>1a, <1>3, SMT DEF write_variable_u32, variable_u32_binary_size
  <2>2. /\ x \in Nat /\ x <= 255 /\ x >= 128 /\ x % 128 = u % 128
        /\ y \in Nat /\ y < 128 /\ (u % 128) + 128 * y = u
      BY <1>1, <1>3, SMT DEF FrontByte
  <2>3. x \in Byte /\ y \in Byte
      BY <2>2, ByteIsNat
  <2> HIDE DEF x, y
  <2> QED BY <2>1, <2>2, <2>3, LengthOfBytes, SMT
<1>4. CASE 16383 < u /\ u <= 2097151
  <2> DEFINE x == FrontByte(u)
             y == FrontByte(u \div 128)
             z == u \div (128 * 128)
  <2>1. write_variable_u32(u) = <<x, y, z>> /\ variable_u32_binary_size(u) = 3
      BY <1>1, <1>1a, <1>4, SMT DEF write_variable_u32, variable_u32_binary_size
  <2>2. /\ x \in Nat /\ x <= 255 /\ x >= 128 /\ x % 128 = u % 128
        /\ y \in Nat /\ y <= 255 /\ y >= 128 /\ y % 128 = (u \div 128) % 128
        /\ z \in Nat /\ z < 128
        /\ (u % 128) + 128 * ((u \div 128) % 128) + 16384 * z = u
      BY <1>1, <1>4, SMT DEF FrontByte
  <2>3. x \in Byte /\ y \in Byte /\ z \in Byte
      BY <2>2, ByteIsNat
  <2> HIDE DEF x, y, z
  <2> QED BY <2>1, <2>2, <2>3, LengthOfBytes, SMT
<1>5. CASE 2097151 < u
  <2> DEFINE x == FrontByte(u)
             y == FrontByte(u \div 128)
             z == FrontByte(u \div (128 * 128))
             w == u \div (128 * 128 * 128)
  <2>1. write_variable_u32(u) = <<x, y, z, w>> /\ variable_u32_binary_size(u) = 4
      BY <1>1, <1>1a, <1>5, SMT DEF write_variable_u32, variable_u32_binary_size
  <2>2. /\ x \in Nat /\ x <= 255 /\ x >= 128 /\ x % 128 = u % 128
        /\ y \in Nat /\ y <= 255 /\ y >= 128 /\ y % 128 = (u \div 128) % 128
        /\ z \in Nat /\ z <= 255 /\ z >= 128 /\ z % 128 = (u \div 16384) % 128
        /\ w \in Nat /\ w < 128
        /\ (u % 128) + 128 * ((u \div 128) % 128) + 16384 * ((u \div 16384) % 128)
             + 2097152 * w = u
      BY <1>1, <1>1a, <1>5, SMT DEF FrontByte
  <2>3. x \in Byte /\ y \in Byte /\ z \in Byte /\ w \in Byte
      BY <2>2, ByteIsNat
  <2> HIDE DEF x, y, z, w
  <2> QED BY <2>1, <2>2, <2>3, LengthOfBytes, SMT
<1> QED BY <1>1, <1>2, <1>3, <1>4, <1>5

\* What the bytes of a sequence are.
LEMMA BytesAreNat ==
    ASSUME NEW b \in Seq(Byte)
    PROVE  Len(b) \in Nat /\ \A i \in 1 .. Len(b) : b[i] \in Nat /\ b[i] <= 255
<1>1. Len(b) \in Nat /\ \A i \in 1 .. Len(b) : b[i] \in Byte
    OBVIOUS
<1> QED BY <1>1, ByteIsNat

\* k front bytes and a last one are a length.
LEMMA ParseOk ==
    ASSUME NEW b \in Seq(Byte), NEW k \in 0 .. 3, k < Len(b),
           \A i \in 1 .. k : b[i] >= 128, b[k + 1] < 128
    PROVE  parse_variable_u32(b) = Ok(LengthOf(b, k + 1), SubSeq(b, k + 2, Len(b)))
<1>1. Len(b) \in Nat /\ \A i \in 1 .. Len(b) : b[i] \in Nat
    BY BytesAreNat
<1>2. FrontBytes(b) = k
  <2>1. FrontOf(b, k)
      BY <1>1 DEF FrontOf
  <2> QED BY <2>1, FrontBytesIs
<1>3. Len(b) # k /\ ~(b[k + 1] >= 128)
    BY <1>1
<1> QED BY <1>2, <1>3 DEF parse_variable_u32, LengthOf

\* Front bytes alone are no length yet.
LEMMA ParseIncomplete ==
    ASSUME NEW b \in Seq(Byte), Len(b) <= 3, \A i \in 1 .. Len(b) : b[i] >= 128
    PROVE  parse_variable_u32(b) = Incomplete
<1>1. Len(b) \in Nat
    BY BytesAreNat, Zenon
<1>2. FrontBytes(b) = Len(b)
  <2>1. \A n \in Nat : n <= 3 => n \in 0 .. 3 /\ n <= n
      OBVIOUS
  <2>2. Len(b) \in 0 .. 3 /\ FrontOf(b, Len(b))
      BY <1>1, <2>1, Zenon DEF FrontOf
  <2> QED BY <2>2, FrontBytesIs, Zenon
<1> QED BY <1>2 DEF parse_variable_u32

\* Four front bytes are no length.
LEMMA ParseError ==
    ASSUME NEW b \in Seq(Byte), Len(b) >= 4, \A i \in 1 .. 4 : b[i] >= 128
    PROVE  parse_variable_u32(b) = Err
<1>1. Len(b) \in Nat /\ b[4] \in Nat /\ b[4] >= 128
    BY BytesAreNat
<1>2. FrontBytes(b) = 3
    BY <1>1, FrontBytesIs DEF FrontOf
<1>3. Len(b) # 3 /\ b[3 + 1] >= 128
    BY <1>1
<1> QED BY <1>2, <1>3 DEF parse_variable_u32

\* The number depends only on the low bits of the bytes, and a zero adds nothing.
LEMMA LengthOfSame ==
    ASSUME NEW b, NEW c, NEW n \in 1 .. 4, \A i \in 1 .. n : b[i] % 128 = c[i] % 128
    PROVE  LengthOf(b, n) = LengthOf(c, n)
<1>1. CASE n = 1
    BY <1>1 DEF LengthOf
<1>2. CASE n = 2
    BY <1>2 DEF LengthOf
<1>3. CASE n = 3
    BY <1>3 DEF LengthOf
<1>4. CASE n = 4
    BY <1>4 DEF LengthOf
<1> QED BY <1>1, <1>2, <1>3, <1>4

\* A last byte of zero adds nothing to the number.
LEMMA LengthOfZero ==
    ASSUME NEW b, NEW n \in 1 .. 3, b[n + 1] = 0
    PROVE  LengthOf(b, n + 1) = LengthOf(b, n)
<1>0. 0 % 128 = 0
    OBVIOUS
<1>1. CASE n = 1
    BY <1>0, <1>1 DEF LengthOf
<1>2. CASE n = 2
    BY <1>0, <1>2 DEF LengthOf
<1>3. CASE n = 3
    BY <1>0, <1>3 DEF LengthOf
<1> QED BY <1>1, <1>2, <1>3

\* A length that was written is read, as soon as all of it is there.
LEMMA ParseWritten ==
    ASSUME NEW u \in Sizes, NEW b \in Seq(Byte),
           \A i \in 1 .. Len(b) : i <= variable_u32_binary_size(u) => b[i] = write_variable_u32(u)[i]
    PROVE  parse_variable_u32(b) =
               IF Len(b) < variable_u32_binary_size(u) THEN Incomplete
               ELSE Ok(u, SubSeq(b, variable_u32_binary_size(u) + 1, Len(b)))
<1>1. PICK n, e : /\ n = variable_u32_binary_size(u) /\ e = write_variable_u32(u)
                  /\ n \in 1 .. 4 /\ Len(e) = n
                  /\ \A i \in 1 .. n - 1 : e[i] >= 128
                  /\ e[n] < 128 /\ LengthOf(e, n) = u
    BY WrittenLength
<1>2. Len(b) \in Nat
    BY BytesAreNat
<1>3. CASE Len(b) < n
  <2>1. \A i \in 1 .. Len(b) : i <= n - 1 /\ b[i] = e[i]
      BY <1>1, <1>2, <1>3
  <2>2. Len(b) <= 3 /\ \A i \in 1 .. Len(b) : b[i] >= 128
      BY <1>1, <1>2, <1>3, <2>1
  <2> QED BY <1>1, <1>3, <2>2, ParseIncomplete
<1>4. CASE Len(b) >= n
  <2>1. \A i \in 1 .. n : b[i] = e[i]
      BY <1>1, <1>2, <1>4
  <2>2. PICK k \in 0 .. 3 : k = n - 1
      BY <1>1
  <2>3. k < Len(b) /\ (\A i \in 1 .. k : b[i] >= 128) /\ b[k + 1] < 128
      BY <1>1, <1>2, <1>4, <2>1, <2>2
  <2>4. parse_variable_u32(b) = Ok(LengthOf(b, k + 1), SubSeq(b, k + 2, Len(b)))
      BY <2>3, ParseOk
  <2>5. LengthOf(b, n) = u
      BY <1>1, <2>1, LengthOfSame
  <2>6. k + 1 = n /\ k + 2 = n + 1 /\ ~(Len(b) < n)
      BY <1>1, <1>2, <1>4, <2>2
  <2> QED BY <1>1, <2>4, <2>5, <2>6
<1> QED BY <1>1, <1>2, <1>3, <1>4

-----------------------------------------------------------------------------
(***************************************************************************)
(* FlattenSeq.  Its recursive function exists and is unique, by induction  *)
(* on its domain.                                                           *)
(***************************************************************************)
\* A set that has 1 and, up to N, every successor has every number up to N.
LEMMA Induction ==
    ASSUME NEW N \in Nat, NEW T, 1 \in T,
           \A n \in Nat : 1 <= n /\ n < N /\ n \in T => n + 1 \in T
    PROVE  \A n \in 1 .. N : n \in T
<1> DEFINE U == {n \in Nat : n < N => n + 1 \in T}
<1>1. 0 \in U
    OBVIOUS
<1>2. \A n \in Nat : n \in U => n + 1 \in U
    OBVIOUS
<1>3. Nat \subseteq U
  <2> HIDE DEF U
  <2> QED BY <1>1, <1>2, NatSetInduction
<1>4. ASSUME NEW n \in 1 .. N PROVE n \in T
  <2>1. n - 1 \in Nat /\ n - 1 < N /\ (n - 1) + 1 = n
      OBVIOUS
  <2>2. n - 1 \in U
      BY <1>3, <2>1
  <2> QED BY <2>1, <2>2
<1> QED BY <1>4

\* The defining equation of FlattenSeq's function.
Recurs(f, q, N) == f = [i \in 1 .. N |-> IF i = 1 THEN q[i] ELSE f[i - 1] \o q[i]]

\* ... and what it says of each value.
Flattens(f, q, N) ==
    f[1] = q[1] /\ \A i \in 1 .. N : i # 1 => f[i] = f[i - 1] \o q[i]

\* The equation gives the value at every index ...
LEMMA RecursFlattens ==
    ASSUME NEW q, NEW N \in Nat, N # 0, NEW f, Recurs(f, q, N)
    PROVE  Flattens(f, q, N)
<1>1. \A i \in 1 .. N : f[i] = IF i = 1 THEN q[i] ELSE f[i - 1] \o q[i]
    BY Zenon DEF Recurs
<1>2. 1 \in 1 .. N
    OBVIOUS
<1> QED BY <1>1, <1>2 DEF Flattens

\* ... and has a solution, so that CHOOSE finds one.
LEMMA RecursExists ==
    ASSUME NEW q, NEW N \in Nat, N # 0
    PROVE  \E f : Recurs(f, q, N)
<1> DEFINE T == {n \in Nat : \E f : Recurs(f, q, n)}
<1>1. 1 \in T
  <2> DEFINE g == [i \in 1 .. 1 |-> q[1]]
  <2>1. \A i \in 1 .. 1 : i = 1
      OBVIOUS
  <2>2. [i \in 1 .. 1 |-> IF i = 1 THEN q[i] ELSE g[i - 1] \o q[i]] = g
      BY <2>1
  <2>3. Recurs(g, q, 1)
      BY <2>2 DEF Recurs
  <2> QED BY <2>3
<1>2. ASSUME NEW n \in Nat, 1 <= n, n \in T PROVE n + 1 \in T
  <2>1. PICK f : Recurs(f, q, n)
      BY <1>2
  <2>1a. \A i \in 1 .. n : f[i] = IF i = 1 THEN q[i] ELSE f[i - 1] \o q[i]
      BY <2>1, Zenon DEF Recurs
  <2>2. PICK last : last = f[n] \o q[n + 1]
      OBVIOUS
  <2> DEFINE g == [i \in 1 .. n + 1 |-> IF i = n + 1 THEN last ELSE f[i]]
  <2>3. ASSUME NEW i \in 1 .. n + 1
        PROVE  g[i] = IF i = 1 THEN q[i] ELSE g[i - 1] \o q[i]
    <3>1. CASE i = n + 1
      <4>1. i # 1 /\ g[i] = last /\ g[i - 1] = f[n]
          BY <1>2, <3>1
      <4> HIDE DEF g
      <4> QED BY <2>2, <3>1, <4>1
    <3>2. CASE i # n + 1
      <4>1. i \in 1 .. n /\ (i # 1 => i - 1 \in 1 .. n)
          BY <3>2
      <4>2. g[i] = f[i] /\ (i # 1 => g[i - 1] = f[i - 1])
          BY <4>1
      <4> HIDE DEF g
      <4> QED BY <2>1a, <4>1, <4>2
    <3> QED BY <3>1, <3>2
  <2>4. Recurs(g, q, n + 1)
      BY <2>3, Zenon DEF Recurs
  <2> HIDE DEF g
  <2> QED BY <1>2, <2>4
<1>3. N \in T
  <2> HIDE DEF T
  <2>1. \A n \in 1 .. N : n \in T
      BY <1>1, <1>2, Induction
  <2> QED BY <2>1
<1> QED BY <1>3

\* FlattenSeq takes the last value of such a function.
LEMMA FlattenHas ==
    ASSUME NEW q, NEW N \in Nat, N # 0, Len(q) = N
    PROVE  \E f : Flattens(f, q, N) /\ FlattenSeq(q) = f[N]
<1> DEFINE F == CHOOSE f : Recurs(f, q, N)
<1>1. Recurs(F, q, N)
    BY RecursExists, Zenon
<1>2. FlattenSeq(q) = F[N]
    BY Zenon DEF FlattenSeq, Recurs
<1> HIDE DEF F
<1> QED BY <1>1, <1>2, RecursFlattens

\* There is only one, ...
LEMMA FlattenIs ==
    ASSUME NEW q, NEW N \in Nat, N # 0, Len(q) = N, NEW g, Flattens(g, q, N)
    PROVE  FlattenSeq(q) = g[N]
<1>1. PICK f : Flattens(f, q, N) /\ FlattenSeq(q) = f[N]
    BY FlattenHas
<1> DEFINE T == {n \in Nat : f[n] = g[n]}
<1>2. 1 \in T
    BY <1>1 DEF Flattens
<1>3. ASSUME NEW n \in Nat, 1 <= n, n < N, n \in T PROVE n + 1 \in T
  <2>1. n + 1 \in 1 .. N /\ n + 1 # 1 /\ (n + 1) - 1 = n /\ f[n] = g[n]
      BY <1>3
  <2>2. f[n + 1] = f[n] \o q[n + 1] /\ g[n + 1] = g[n] \o q[n + 1]
      BY <1>1, <2>1 DEF Flattens
  <2>3. f[n + 1] = g[n + 1]
      BY <2>1, <2>2, Zenon
  <2> QED BY <2>3
<1>4. N \in T
  <2> HIDE DEF T
  <2>1. \A n \in 1 .. N : n \in T
      BY <1>2, <1>3, Induction
  <2> QED BY <2>1
<1> QED BY <1>1, <1>4

\* ... and its values are sequences.
LEMMA FlattenTypes ==
    ASSUME NEW S, NEW q, NEW N \in Nat, N # 0, NEW f, Flattens(f, q, N),
           \A i \in 1 .. N : q[i] \in Seq(S)
    PROVE  \A i \in 1 .. N : f[i] \in Seq(S)
<1> DEFINE T == {n \in Nat : f[n] \in Seq(S)}
<1>1. 1 \in T
    BY DEF Flattens
<1>2. ASSUME NEW n \in Nat, 1 <= n, n < N, n \in T PROVE n + 1 \in T
  <2>1. n + 1 \in 1 .. N /\ n + 1 # 1 /\ (n + 1) - 1 = n /\ f[n] \in Seq(S)
      BY <1>2
  <2>2. f[n + 1] = f[n] \o q[n + 1] /\ q[n + 1] \in Seq(S)
      BY <2>1 DEF Flattens
  <2>3. f[n + 1] \in Seq(S)
      BY <2>1, <2>2, ConcatProperties
  <2> QED BY <2>3
<1>3. \A n \in 1 .. N : n \in T
  <2> HIDE DEF T
  <2> QED BY <1>1, <1>2, Induction
<1> QED BY <1>3

\* Nothing flattens to nothing.
LEMMA FlattenEmpty == FlattenSeq(<<>>) = <<>>
BY DEF FlattenSeq

\* Sequences of sequences.
Nested(A, S) == \A x \in A : x \in Seq(S)

\* Bytes put together are bytes.
LEMMA FlattenType ==
    ASSUME NEW S, NEW A, Nested(A, S), NEW q \in Seq(A)
    PROVE  FlattenSeq(q) \in Seq(S)
<1>1. Len(q) \in Nat /\ \A i \in 1 .. Len(q) : q[i] \in A
    OBVIOUS
<1>2. PICK N \in Nat : N = Len(q)
    BY <1>1
<1>3. \A i \in 1 .. N : q[i] \in Seq(S)
    BY <1>1, <1>2, Zenon DEF Nested
<1>4. CASE N = 0
  <2>1. q = <<>>
      BY <1>2, <1>4, EmptySeq
  <2>2. <<>> \in Seq(S)
      OBVIOUS
  <2> QED BY <2>1, <2>2, FlattenEmpty, Zenon
<1>5. CASE N # 0
  <2>1. PICK f : Flattens(f, q, N) /\ FlattenSeq(q) = f[N]
      BY <1>2, <1>5, FlattenHas, Zenon
  <2>2. N \in 1 .. N
      BY <1>5
  <2>3. \A i \in 1 .. N : f[i] \in Seq(S)
      BY <1>3, <1>5, <2>1, FlattenTypes, Zenon
  <2> QED BY <2>1, <2>2, <2>3, Zenon
<1> QED BY <1>4, <1>5

\* What is sent last is flattened last, ...
LEMMA FlattenLast ==
    ASSUME NEW q, NEW r, NEW N \in Nat, N # 0, Len(q) = N, Len(r) = N + 1,
           \A i \in 1 .. N : r[i] = q[i]
    PROVE  FlattenSeq(r) = FlattenSeq(q) \o r[N + 1]
<1>1. PICK f : Flattens(f, q, N) /\ FlattenSeq(q) = f[N]
    BY FlattenHas
<1>2. PICK last : last = f[N] \o r[N + 1]
    OBVIOUS
<1> DEFINE g == [i \in 1 .. N + 1 |-> IF i = N + 1 THEN last ELSE f[i]]
<1>3. g[N + 1] = last /\ \A i \in 1 .. N : g[i] = f[i]
    OBVIOUS
<1> HIDE DEF g
<1>4. g[1] = r[1]
    BY <1>1, <1>3 DEF Flattens
<1>5. ASSUME NEW i \in 1 .. N + 1, i # 1
      PROVE  g[i] = g[i - 1] \o r[i]
  <2>1. CASE i = N + 1
    <3>1. i - 1 = N /\ N \in 1 .. N
        BY <2>1
    <3> QED BY <1>2, <1>3, <2>1, <3>1
  <2>2. CASE i # N + 1
    <3>1. i \in 1 .. N /\ i - 1 \in 1 .. N
        BY <1>5, <2>2
    <3>2. f[i] = f[i - 1] \o q[i]
        BY <1>1, <1>5, <3>1 DEF Flattens
    <3> QED BY <1>3, <3>1, <3>2
  <2> QED BY <2>1, <2>2
<1>6. Flattens(g, r, N + 1)
    BY <1>4, <1>5 DEF Flattens
<1>7. N + 1 \in Nat /\ N + 1 # 0
    OBVIOUS
<1>8. FlattenSeq(r) = g[N + 1]
    BY <1>6, <1>7, FlattenIs
<1> QED BY <1>1, <1>2, <1>3, <1>8, Zenon

\* The same for Append.
LEMMA FlattenAppend ==
    ASSUME NEW S, NEW A, Nested(A, S), NEW q \in Seq(A), NEW x \in A
    PROVE  FlattenSeq(Append(q, x)) = FlattenSeq(q) \o x
<1>1. Len(q) \in Nat
    OBVIOUS
<1>2. PICK N \in Nat : N = Len(q)
    BY <1>1
<1>3. PICK r : r = Append(q, x)
    OBVIOUS
<1>4. Len(r) = N + 1 /\ (\A i \in 1 .. N : r[i] = q[i]) /\ r[N + 1] = x
    BY <1>2, <1>3, AppendProperties
<1>5. CASE N # 0
  <2>1. /\ Len(q) = N /\ Len(r) = N + 1 /\ r[N + 1] = x
        /\ \A i \in 1 .. N : r[i] = q[i]
      BY <1>2, <1>4, Zenon
  <2>2. FlattenSeq(r) = FlattenSeq(q) \o r[N + 1]
      BY <1>5, <2>1, FlattenLast
  <2> QED BY <1>3, <2>1, <2>2, Zenon
<1>6. CASE N = 0
  <2>1. q = <<>>
      BY <1>2, <1>6, EmptySeq
  <2>2. Len(r) = 1 /\ r[1] = x /\ 1 \in Nat /\ 1 # 0
      BY <1>4, <1>6
  <2>3. Flattens(r, r, 1)
      BY DEF Flattens
  <2>4. FlattenSeq(r) = x
      BY <2>2, <2>3, FlattenIs, Zenon
  <2>5. x \in Seq(S)
      BY DEF Nested
  <2>6. <<>> \o x = x
      BY <2>5, ConcatEmptySeq, Zenon
  <2> QED BY <1>3, <2>1, <2>4, <2>6, FlattenEmpty, Zenon
<1> QED BY <1>5, <1>6

\* Concatenation, as a formula without assumptions.
LEMMA ConcatRegroups == \A S : \A x, y, z \in Seq(S) : (x \o y) \o z = x \o (y \o z)
BY ConcatAssociative

\* As an atom, which the provers instantiate more easily.
Regroups(x, y, z) == (x \o y) \o z = x \o (y \o z)

LEMMA Associative == \A S : \A x, y, z \in Seq(S) : Regroups(x, y, z)
BY ConcatRegroups, Zenon DEF Regroups

IsShift(g, x, h, N) == g[1] = x /\ \A i \in 1 .. N : g[i + 1] = h[i]

\* A function with one value more in front.
LEMMA Shifted ==
    ASSUME NEW N \in Nat, NEW x, NEW h
    PROVE  \E g : IsShift(g, x, h, N)
<1>0. PICK g : g = [i \in 1 .. N + 1 |-> IF i = 1 THEN x ELSE h[i - 1]]
    OBVIOUS
<1>1. g[1] = x
    BY <1>0
<1>2. ASSUME NEW i \in 1 .. N PROVE g[i + 1] = h[i]
  <2>1. i + 1 \in 1 .. N + 1 /\ i + 1 # 1 /\ (i + 1) - 1 = i
      OBVIOUS
  <2> QED BY <1>0, <2>1
<1> QED BY <1>1, <1>2 DEF IsShift

\* Every index but the first follows another.
LEMMA Predecessor ==
    ASSUME NEW N \in Nat, NEW i \in 1 .. N, i # 1
    PROVE  \E j \in 1 .. N : j + 1 = i /\ i - 1 = j
<1>1. i - 1 \in 1 .. N /\ (i - 1) + 1 = i
    OBVIOUS
<1> QED BY <1>1

\* ... and what is sent first is flattened first, by induction over the length.
LEMMA FlattenTail ==
    ASSUME NEW S, NEW q, NEW r, NEW N \in Nat, N # 0, Len(r) = N, Len(q) = N + 1,
           \A i \in 1 .. N : r[i] = q[i + 1] /\ r[i] \in Seq(S), q[1] \in Seq(S)
    PROVE  FlattenSeq(q) = q[1] \o FlattenSeq(r)
<1>1. PICK f : Flattens(f, r, N) /\ FlattenSeq(r) = f[N]
    BY FlattenHas
<1>2. \A i \in 1 .. N : f[i] \in Seq(S)
    BY <1>1, FlattenTypes
<1>3. PICK x : x = q[1] /\ x \in Seq(S)
    OBVIOUS
<1> DEFINE h == [i \in 1 .. N |-> x \o f[i]]
<1>4a. \A i \in 1 .. N : h[i] = x \o f[i]
    BY Zenon
<1> HIDE DEF h
<1>4b. PICK g : IsShift(g, x, h, N)
    BY Shifted, Zenon
<1>4. g[1] = x /\ \A i \in 1 .. N : g[i + 1] = x \o f[i]
    BY <1>4a, <1>4b, Zenon DEF IsShift
<1>5. ASSUME NEW i \in 1 .. N
      PROVE  g[i + 1] = g[i] \o q[i + 1]
  <2>0. g[i + 1] = x \o f[i] /\ r[i] = q[i + 1]
      BY <1>4
  <2>1. CASE i = 1
    <3>1. f[i] = r[i]
        BY <1>1, <2>1 DEF Flattens
    <3> QED BY <1>4, <2>0, <2>1, <3>1
  <2>2. CASE i # 1
    <3>1. PICK j \in 1 .. N : j + 1 = i /\ i - 1 = j
        BY <2>2, Predecessor, Zenon
    <3>2. f[i] = f[j] \o r[i]
        BY <1>1, <2>2, <3>1 DEF Flattens
    <3>3. g[i] = x \o f[j]
        BY <1>4, <3>1
    <3>4. PICK y, z : y = f[j] /\ z = r[i] /\ y \in Seq(S) /\ z \in Seq(S)
        BY <1>2, <3>1
    <3>5. x \in Seq(S) /\ y \in Seq(S) /\ z \in Seq(S)
        BY <1>3, <3>4, Zenon
    <3>6. Regroups(x, y, z)
        BY <3>5, Associative, Zenon
    <3> QED BY <2>0, <3>2, <3>3, <3>4, <3>6, Zenon DEF Regroups
  <2> QED BY <2>1, <2>2
<1>6. Flattens(g, q, N + 1)
  <2>1. ASSUME NEW i \in 1 .. N + 1, i # 1 PROVE g[i] = g[i - 1] \o q[i]
    <3>1. i - 1 \in 1 .. N /\ (i - 1) + 1 = i
        BY <2>1
    <3> QED BY <1>5, <3>1
  <2> QED BY <1>3, <1>4, <2>1 DEF Flattens
<1>7. N + 1 \in Nat /\ N + 1 # 0 /\ N \in 1 .. N
    OBVIOUS
<1>8. FlattenSeq(q) = g[N + 1]
    BY <1>6, <1>7, FlattenIs
<1> QED BY <1>1, <1>3, <1>4, <1>7, <1>8, Zenon

\* The same for Tail.
LEMMA FlattenFirst ==
    ASSUME NEW S, NEW A, Nested(A, S), NEW q \in Seq(A), q # <<>>
    PROVE  FlattenSeq(q) = q[1] \o FlattenSeq(Tail(q))
<1>1. PICK r : r = Tail(q)
    OBVIOUS
<1>2. PICK N \in Nat : N = Len(r) /\ Len(q) = N + 1
    BY <1>1, HeadTailProperties
<1>3. /\ q[1] \in A /\ \A i \in 1 .. N : r[i] = q[i + 1] /\ r[i] \in A
      /\ N = 0 => r = <<>>
    BY <1>1, <1>2, HeadTailProperties
<1>4. q[1] \in Seq(S) /\ \A i \in 1 .. N : r[i] = q[i + 1] /\ r[i] \in Seq(S)
    BY <1>3, Zenon DEF Nested
<1>5. CASE N # 0
  <2>1. FlattenSeq(q) = q[1] \o FlattenSeq(r)
      BY <1>2, <1>4, <1>5, FlattenTail, Zenon
  <2> QED BY <1>1, <2>1, Zenon
<1>6. CASE N = 0
  <2>1. r = <<>> /\ Len(q) = 1 /\ 1 \in Nat /\ 1 # 0
      BY <1>2, <1>3, <1>6
  <2>2. Flattens(q, q, 1)
      BY DEF Flattens
  <2>3. FlattenSeq(q) = q[1]
      BY <2>1, <2>2, FlattenIs, Zenon
  <2>4. q[1] \o <<>> = q[1]
      BY <1>4, ConcatEmptySeq, Zenon
  <2> QED BY <1>1, <2>1, <2>3, <2>4, FlattenEmpty, Zenon
<1> QED BY <1>5, <1>6

-----------------------------------------------------------------------------
(***************************************************************************)
(* Sequences, by their elements.                                            *)
(***************************************************************************)
LEMMA Joined ==
    ASSUME NEW S, NEW x \in Seq(S), NEW y \in Seq(S)
    PROVE  /\ x \o y \in Seq(S) /\ Len(x \o y) = Len(x) + Len(y)
           /\ \A i \in 1 .. Len(x) : (x \o y)[i] = x[i]
           /\ \A i \in 1 .. Len(y) : (x \o y)[i + Len(x)] = y[i]
OBVIOUS

\* What \o, Tail and SubSeq do, index by index.
LEMMA Headed ==
    ASSUME NEW S, NEW h \in S, NEW x \in Seq(S)
    PROVE  /\ <<h>> \o x \in Seq(S) /\ Len(<<h>> \o x) = 1 + Len(x)
           /\ (<<h>> \o x)[1] = h
           /\ \A i \in 1 .. Len(x) : (<<h>> \o x)[i + 1] = x[i]
OBVIOUS

\* The same for Tail, ...
LEMMA Tailed ==
    ASSUME NEW S, NEW x \in Seq(S), x # <<>>
    PROVE  /\ Tail(x) \in Seq(S) /\ Len(Tail(x)) = Len(x) - 1
           /\ \A i \in 1 .. Len(x) - 1 : Tail(x)[i] = x[i + 1]
OBVIOUS

\* ... for the front of a sequence ...
LEMMA Kept ==
    ASSUME NEW S, NEW x \in Seq(S), NEW n \in Nat, n <= Len(x)
    PROVE  /\ SubSeq(x, 1, n) \in Seq(S) /\ Len(SubSeq(x, 1, n)) = n
           /\ \A i \in 1 .. n : SubSeq(x, 1, n)[i] = x[i]
OBVIOUS

\* ... and for the rest of it.
LEMMA Dropped ==
    ASSUME NEW S, NEW x \in Seq(S), NEW n \in Nat, n <= Len(x)
    PROVE  /\ SubSeq(x, n + 1, Len(x)) \in Seq(S)
           /\ Len(SubSeq(x, n + 1, Len(x))) = Len(x) - n
           /\ \A i \in 1 .. Len(x) - n : SubSeq(x, n + 1, Len(x))[i] = x[i + n]
OBVIOUS
=============================================================================
