----------------------------- MODULE PacketCodec -----------------------------
(***************************************************************************)
(* MqttPacketCodec at both ends of a byte stream that cuts and joins the   *)
(* bytes as it likes: encode appends a packet to the writer's buffer,      *)
(* decode takes packets out of the reader's.                                *)
(*                                                                         *)
(* A packet is its first byte and its body; what the bodies mean is left   *)
(* to WirePackets, where MqttPacketWire checks that they are written and   *)
(* parsed consistently.  Packets come from MqttPacket::new, so that write  *)
(* does not fail.  A peer may also send a packet type that does not exist, *)
(* or a length with more bytes than it needs.                               *)
(***************************************************************************)
EXTENDS WirePrimitives

CONSTANTS Messages,    \* the packets that may be sent
          MaxPackets,  \* bound on the packets of a connection
          Chunks       \* how many bytes one read may return

\* A packet is bytes, and MqttPacket::new has written it: its length can be.
ASSUME PacketAssumption ==
  Messages \subseteq {m \in [header : Byte, body : Seq(Byte)] :
                        Len(m.body) <= VARIABLE_INTEGER_MAX}
ASSUME BoundsAssumption == MaxPackets \in Nat /\ Chunks \subseteq Nat

VARIABLES sent,         \* the packets sent, each with a padded length or not
          wire,         \* bytes written and not yet read
          src,          \* the reader's BytesMut
          is_readable,  \* FramedRead: src may hold a packet
          received,     \* the packets that decode returned
          end           \* "open", "closed", "broken", "failed", "finished"

vars == <<sent, wire, src, is_readable, received, end>>

Sendable == [packet : Messages, padded : BOOLEAN]

\* The first byte of a packet without a type (MFixedHeader::parse: (0, _)).
NoType == 0
Malformed(s) == s.padded \/ s.packet.header = NoType

Init ==
  /\ sent = <<>> /\ received = <<>>
  /\ wire = <<>> /\ src = <<>> /\ is_readable = FALSE
  /\ end = "open"

\* The same length with a continuation bit and a zero byte more.
PaddedLength(u) ==
  LET b == write_variable_u32(u) IN [b EXCEPT ![Len(b)] = @ + 128] \o <<0>>

Bytes(s) ==
  <<s.packet.header>>
    \o (IF s.padded THEN PaddedLength(Len(s.packet.body))
                    ELSE write_variable_u32(Len(s.packet.body)))
    \o s.packet.body

\* encode, and FramedWrite's flush.
encode(s) ==
  /\ end = "open" /\ Len(sent) < MaxPackets
  /\ sent' = Append(sent, s)
  /\ wire' = wire \o Bytes(s)
  /\ UNCHANGED <<src, is_readable, received, end>>

\* One read of FramedRead, after decode asked for more.
Read ==
  /\ end \in {"open", "closed", "broken"} /\ ~is_readable
  /\ \E n \in Chunks \cup {Len(wire)} :
       /\ n \in 1..Len(wire)
       /\ src' = src \o SubSeq(wire, 1, n)
       /\ wire' = SubSeq(wire, n + 1, Len(wire))
  /\ is_readable' = TRUE
  /\ UNCHANGED <<sent, received, end>>

-----------------------------------------------------------------------------
(***************************************************************************)
(* decode.  \E x \in {e} gives the value of e a name.                       *)
(***************************************************************************)
\* MqttPacket::parse_complete: fixed header, length, and a body of that length.
parse_complete(b) ==
  LET len == parse_variable_u32(Tail(b))
      body == take(len.value, len.rest)
  IN  IF b[1] = NoType \/ ~IsOk(len) THEN Err
      ELSE IF IsOk(body) THEN Ok([header |-> b[1], body |-> body.value], body.rest) ELSE Err

total_packet_length(len) == 1 + variable_u32_binary_size(len) + len

\* Ok(None): less than two bytes, an incomplete length or an incomplete packet.
NeedsMore == is_readable' = FALSE /\ UNCHANGED <<sent, wire, src, received, end>>

\* Err: FramedRead ends after it.
Failed == end' = "failed" /\ UNCHANGED <<sent, wire, is_readable, received>>

\* Mutant: the buffer is emptied with the packet, split() for split_to(total).
DecodedClearsBuffer(total) ==
  /\ src' = <<>>
  /\ \E r \in {parse_complete(SubSeq(src, 1, total))} :
       \/ ~IsOk(r) /\ Failed
       \/ /\ IsOk(r)
          /\ received' = Append(received, [packet |-> r.value, padded |-> FALSE])
          /\ UNCHANGED <<sent, wire, is_readable, end>>

\* The packet is split off before it is parsed.
Decoded(total) ==
  /\ src' = SubSeq(src, total + 1, Len(src))
  /\ \E r \in {parse_complete(SubSeq(src, 1, total))} :
       \/ ~IsOk(r) /\ Failed
       \/ /\ IsOk(r)
          /\ received' = Append(received, [packet |-> r.value, padded |-> FALSE])
          /\ UNCHANGED <<sent, wire, is_readable, end>>

\* Mutant: a packet is parsed as soon as its length is known.
DecodedOrWaitingEager(total) == Decoded(Min({total, Len(src)}))

DecodedOrWaiting(total) ==
  \/ Len(src) < total /\ NeedsMore
  \/ Len(src) >= total /\ Decoded(total)

decode ==
  /\ is_readable /\ end # "failed"
  /\ \/ Len(src) < 2 /\ NeedsMore
     \/ /\ Len(src) >= 2
        /\ \E tail \in {Tail(src)} :
             \E len \in {parse_variable_u32(tail)} :
               \/ len.kind = "incomplete" /\ NeedsMore
               \/ len.kind = "error" /\ Failed /\ UNCHANGED src
               \/ IsOk(len) /\ DecodedOrWaiting(total_packet_length(len.value))

\* decode_eof of tokio_util: bytes that are left over are an error.
DecodeEof ==
  /\ end \in {"closed", "broken"} /\ wire = <<>> /\ ~is_readable
  /\ end' = IF src = <<>> THEN "finished" ELSE "failed"
  /\ UNCHANGED <<sent, wire, src, is_readable, received>>

\* The sender closes the stream, or the network loses the rest of the bytes.
Close ==
  /\ end = "open"
  /\ end' = "closed"
  /\ UNCHANGED <<sent, wire, src, is_readable, received>>

Break ==
  /\ end = "open"
  /\ \E n \in (Chunks \cup {0}) : n <= Len(wire) /\ wire' = SubSeq(wire, 1, n)
  /\ end' = "broken"
  /\ UNCHANGED <<sent, src, is_readable, received>>

Next == (\E s \in Sendable : encode(s)) \/ Read \/ decode \/ DecodeEof \/ Close \/ Break

\* The runtime polls the reader as long as it can make progress.
Fairness == WF_vars(Read) /\ WF_vars(decode) /\ WF_vars(DecodeEof)

Spec == Init /\ [][Next]_vars /\ Fairness

-----------------------------------------------------------------------------
\* The bytes in the two buffers are the packets that are not yet received, cut
\* anywhere but in agreement: decode never loses its place in the stream.
InStep ==
  end \in {"open", "closed"} =>
    src \o wire = FlattenSeq([i \in 1..Len(sent) - Len(received) |->
                                Bytes(sent[Len(received) + i])])

Stream == INSTANCE PacketStream WITH Packets <- Sendable

\* Whatever the network does to the bytes, the packets arrive whole, in order
\* and once, and the reader fails only on a malformed packet or a broken stream.
StreamOfPackets == Stream!Spec
=============================================================================
