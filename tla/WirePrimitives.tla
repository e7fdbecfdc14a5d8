--------------------------- MODULE WirePrimitives ---------------------------
(***************************************************************************)
(* The primitive values of the MQTT v5 wire format: integers, strings,     *)
(* binary data, booleans and qualities of service, each as a parser over a *)
(* sequence of bytes, a writer and a size.                                  *)
(*                                                                         *)
(* A parser returns a result: "ok" with the value and the unread input,    *)
(* "incomplete" (only where the code parses a Partial input: for complete  *)
(* input both failures are the same Err) or "error".  A writer returns the *)
(* bytes; WriteInvariant among them stands for MqttWriteError::Invariant,  *)
(* which ? passes on from every writer to its caller.                      *)
(* A u32 is a pair of u16 halves, since TLC's integers have 32 bits.       *)
(***************************************************************************)
EXTENDS Integers, Sequences, SequencesExt

Byte == 0..255

Ok(v, rest) == [kind |-> "ok", value |-> v, rest |-> rest]
Err == [kind |-> "error", value |-> <<>>, rest |-> <<>>]
Incomplete == [kind |-> "incomplete", value |-> <<>>, rest |-> <<>>]
IsOk(r) == r.kind = "ok"

WriteInvariant == -1
Written(bytes) == \A i \in DOMAIN bytes : bytes[i] # WriteInvariant

\* winnow's token::take.
take(n, b) ==
  IF Len(b) < n THEN Err ELSE Ok(SubSeq(b, 1, n), SubSeq(b, n + 1, Len(b)))

\* winnow's combinators: go on after a parser, map its value, verify it.
Then(r, Cont(_, _)) == IF IsOk(r) THEN Cont(r.value, r.rest) ELSE Err
MapOk(r, F(_)) == Then(r, LAMBDA v, rest : Ok(F(v), rest))
Verify(r, P(_)) == Then(r, LAMBDA v, rest : IF P(v) THEN Ok(v, rest) ELSE Err)

\* Bit k of a byte, as winnow's bits parsers and the shifts of the writers see it.
Bit(byte, k) == (byte \div 2^k) % 2
Flag(set, k) == IF set THEN 2^k ELSE 0

-----------------------------------------------------------------------------
parse_u8(b) == MapOk(take(1, b), LAMBDA t : t[1])

parse_u16(b) == MapOk(take(2, b), LAMBDA t : 256 * t[1] + t[2])

write_u16(u) == <<(u \div 256) % 256, u % 256>>

parse_u16_nonzero(b) == Verify(parse_u16(b), LAMBDA u : u # 0)

parse_u32(b) ==
  MapOk(take(4, b), LAMBDA t : <<256 * t[1] + t[2], 256 * t[3] + t[4]>>)

write_u32(u) == write_u16(u[1]) \o write_u16(u[2])

-----------------------------------------------------------------------------
(***************************************************************************)
(* Variable byte integers.                                                  *)
(***************************************************************************)
VARIABLE_INTEGER_MAX == 268435455

\* take_while(0..=3, |b| b & 0b1000_0000 != 0): the number of front bytes.
FrontBytes(b) ==
  CHOOSE n \in 0..3 :
    /\ n <= Len(b)
    /\ \A i \in 1..n : b[i] >= 128
    /\ n = 3 \/ n = Len(b) \/ b[n + 1] < 128

parse_variable_u32(b) ==
  LET n == FrontBytes(b)
      digit(i) == IF i <= n + 1 THEN b[i] % 128 ELSE 0
  IN  IF Len(b) = n THEN Incomplete
      ELSE IF b[n + 1] >= 128 THEN Err
      ELSE Ok(digit(1) + 128 * digit(2) + 128 * 128 * digit(3) + 128 * 128 * 128 * digit(4),
              SubSeq(b, n + 2, Len(b)))

\* Defined for u <= VARIABLE_INTEGER_MAX only: the last arm is unreachable!().
variable_u32_binary_size(u) ==
  CASE u <= 127 -> 1
    [] 127 < u /\ u <= 16383 -> 2
    [] 16383 < u /\ u <= 2097151 -> 3
    [] 2097151 < u /\ u <= VARIABLE_INTEGER_MAX -> 4

\* (x % 128) | 0b1000_0000: a byte that another one follows.
FrontByte(x) == 128 + (x % 128)

write_variable_u32(u) ==
  CASE u <= 127 -> <<u>>
    [] 127 < u /\ u <= 16383 -> <<FrontByte(u), u \div 128>>
    [] 16383 < u /\ u <= 2097151 ->
         <<FrontByte(u), FrontByte(u \div 128), u \div (128 * 128)>>
    [] 2097151 < u /\ u <= VARIABLE_INTEGER_MAX ->
         <<FrontByte(u), FrontByte(u \div 128), FrontByte(u \div (128 * 128)),
           u \div (128 * 128 * 128)>>
    [] OTHER -> <<WriteInvariant>>

-----------------------------------------------------------------------------
(***************************************************************************)
(* Strings and binary data.                                                 *)
(***************************************************************************)
Continuation(byte) == byte \in 128..191

\* One character of well-formed UTF-8: no overlong form, no surrogate.
IsUtf8Char(c) ==
  /\ \A i \in 2..Len(c) : Continuation(c[i])
  /\ \/ Len(c) = 1 /\ c[1] < 128
     \/ Len(c) = 2 /\ c[1] \in 194..223
     \/ /\ Len(c) = 3 /\ c[1] \in 224..239
        /\ c[1] = 224 => c[2] >= 160
        /\ c[1] = 237 => c[2] < 160
     \/ /\ Len(c) = 4 /\ c[1] \in 240..244
        /\ c[1] = 240 => c[2] >= 144
        /\ c[1] = 244 => c[2] < 144

\* core::str::from_utf8.
IsUtf8[s \in Seq(Byte)] ==
  \/ s = <<>>
  \/ \E n \in 1..4 : /\ n <= Len(s)
                     /\ IsUtf8Char(SubSeq(s, 1, n))
                     /\ IsUtf8[SubSeq(s, n + 1, Len(s))]

parse_binary_data(b) == Then(parse_u16(b), take)

write_binary_data(data) ==
  (IF Len(data) > 65535 THEN <<WriteInvariant>> ELSE write_u16(Len(data))) \o data

binary_data_binary_size(data) == 2 + Len(data)

parse_string(b) == Verify(parse_binary_data(b), LAMBDA s : IsUtf8[s])

\* A string is written and measured as its bytes.
write_string(s) == write_binary_data(s)
string_binary_size(s) == binary_data_binary_size(s)

parse_string_pair(b) ==
  Then(parse_string(b), LAMBDA key, rest :
         MapOk(parse_string(rest), LAMBDA val : <<key, val>>))

string_pair_binary_size(p) == string_binary_size(p[1]) + string_binary_size(p[2])

-----------------------------------------------------------------------------
(***************************************************************************)
(* Enumerations of one byte.                                                *)
(***************************************************************************)
ParseEnum(codes, b) == Verify(parse_u8(b), LAMBDA u : u \in codes)

QualityOfServiceCodes == 0..2
MaximumQualityOfServiceCodes == 0..1

parse_bool(b) == MapOk(ParseEnum({0, 1}, b), LAMBDA u : u = 1)

write_bool(v) == <<IF v THEN 1 ELSE 0>>

-----------------------------------------------------------------------------
(***************************************************************************)
(* The primitives by kind, as the tables of WireProperties and WirePackets *)
(* name them.                                                               *)
(***************************************************************************)
ParsePrimitive(kind, b) ==
  CASE kind = "u8" -> parse_u8(b)
    [] kind = "u16" -> parse_u16(b)
    [] kind = "nonzero" -> parse_u16_nonzero(b)
    [] kind = "u32" -> parse_u32(b)
    [] kind = "variable" -> parse_variable_u32(b)
    [] kind = "string" -> parse_string(b)
    [] kind = "binary" -> parse_binary_data(b)
    [] kind = "bool" -> parse_bool(b)
    [] kind = "maximum_qos" -> ParseEnum(MaximumQualityOfServiceCodes, b)

WritePrimitive(kind, v) ==
  CASE kind \in {"u8", "maximum_qos"} -> <<v>>
    [] kind \in {"u16", "nonzero"} -> write_u16(v)
    [] kind = "u32" -> write_u32(v)
    [] kind = "variable" -> write_variable_u32(v)
    [] kind \in {"string", "binary"} -> write_binary_data(v)
    [] kind = "bool" -> write_bool(v)

SizePrimitive(kind, v) ==
  CASE kind \in {"u8", "bool", "maximum_qos"} -> 1
    [] kind \in {"u16", "nonzero"} -> 2
    [] kind = "u32" -> 4
    [] kind = "variable" -> variable_u32_binary_size(v)
    [] kind \in {"string", "binary"} -> binary_data_binary_size(v)
=============================================================================
