------------------------------- MODULE WireV3 -------------------------------
(***************************************************************************)
(* The wire format of MQTT v3: mpacket and MPacket::write_to as functions, *)
(* and a relay that parses what arrives and writes what it parsed.         *)
(*                                                                         *)
(* A packet is its type, the four flags of the fixed header and its body:  *)
(* a record for CONNECT, the fields of the struct in order for the others. *)
(* An Option is a sequence of at most one value.                           *)
(***************************************************************************)
EXTENDS WirePrimitives

CONSTANTS Packets,    \* the packets that are sent
          EditValues, \* values that a changed byte may get
          MaxEdits    \* bound on the changes of one packet

VARIABLES stage,   \* "given", "written", "parsed", "refused" or "panicked"
          packet,  \* the packet that is written, or was parsed
          written, \* the packet that the bytes were written from, if any
          trailing, \* what the parser left unread
          buffer,  \* the bytes
          edits    \* how often the bytes were changed

vars == <<stage, packet, written, trailing, buffer, edits>>

MPacket(type, flags, body) == [type |-> type, flags |-> flags, body |-> body]
NoPacket == MPacket("None", 0, <<>>)

-----------------------------------------------------------------------------
\* The upper four bits of the first byte, and the lower ones where they are
\* fixed.
MPacketKind ==
  [Connect |-> 1, Connack |-> 2, Publish |-> 3, Puback |-> 4, Pubrec |-> 5, Pubrel |-> 6,
   Pubcomp |-> 7, Subscribe |-> 8, Suback |-> 9, Unsubscribe |-> 10, Unsuback |-> 11,
   Pingreq |-> 12, Pingresp |-> 13, Disconnect |-> 14]
FixedFlags(type) == IF type \in {"Pubrel", "Subscribe", "Unsubscribe"} THEN 2 ELSE 0

QoSOf(flags) == (flags % 8) \div 2
DupOf(flags) == flags >= 8

to_byte(type, flags) == 16 * MPacketKind[type] + flags

mpacketkind(byte) ==
  LET types == {t \in DOMAIN MPacketKind : MPacketKind[t] = byte \div 16}
      flags == byte % 16
      allowed(t) == IF t = "Publish" THEN QoSOf(flags) # 3 ELSE flags = FixedFlags(t)
  IN  IF \E t \in types : allowed(t)
      THEN Ok([type |-> CHOOSE t \in types : TRUE, flags |-> flags], <<>>)
      ELSE Err

decode_variable_length(bytes) ==
  LET digit(i) == IF i <= Len(bytes) THEN (bytes[i] % 128) * 128^(i - 1) ELSE 0
  IN  digit(1) + digit(2) + digit(3) + digit(4)

\* One byte of any value, then up to three that say another one follows.
LengthBytes(b) == 1 + FrontBytes(SubSeq(b, 2, Len(b)))

mremaining_length(b) ==
  Then(take(1, b), LAMBDA first, rest :
         LET n == LengthBytes(b)
         IN  Ok(decode_variable_length(SubSeq(b, 1, n)), SubSeq(b, n + 1, Len(b))))

mfixedheader(b) ==
  Then(parse_u8(b), LAMBDA byte, rest :
    Then(mpacketkind(byte), LAMBDA kind, none :
      MapOk(mremaining_length(rest),
            LAMBDA len : [kind |-> kind, remaining_length |-> len])))

write_remaining_length(len) == write_variable_u32(len)

-----------------------------------------------------------------------------
\* U+0001 to U+001F and U+007F to U+009F, in UTF-8.
control_characters(s) ==
  \E i \in DOMAIN s :
    \/ s[i] \in 1..31 \cup {127}
    \/ s[i] = 194 /\ s[i + 1] \in 128..159

mpayload(b) == parse_binary_data(b)

mstring(b) ==
  Verify(mpayload(b), LAMBDA s : IsUtf8[s] /\ ~control_characters(s))

\* MString::write_to; a payload is written in the same way.
WriteString(s) == write_u16(Len(s) % 2^16) \o s
get_len(s) == 2 + Len(s)

mquality_of_service == 0..2
MConnectReturnCode == 0..5
MSubscriptionAck == {0, 1, 2, 128}

msubscriptionrequest(b) ==
  Then(mstring(b), LAMBDA topic, rest :
    MapOk(ParseEnum(mquality_of_service, rest), LAMBDA qos : <<topic, qos>>))

ParseItem(kind, b) ==
  CASE kind = "subscription" -> msubscriptionrequest(b)
    [] kind = "unsubscription" -> mstring(b)
    [] kind = "ack" -> ParseEnum(MSubscriptionAck, b)

\* many1_count: items until one fails; what there was before it is kept.
ManyItems(kind, b) ==
  LET after[i \in 0..Len(b)] ==
        IF i = 0 THEN Ok(0, b)
        ELSE Then(after[i - 1], LAMBDA count, rest :
               LET item == ParseItem(kind, rest)
               IN  IF count = i - 1 /\ IsOk(item) THEN Ok(i, item.rest) ELSE Ok(count, rest))
  IN  Verify(after[Len(b)], LAMBDA count : count > 0)

\* The requests keep all of their input, the acks what was recognized of it.
mrequests(kind, b) ==
  MapOk(ManyItems(kind, b), LAMBDA count : [count |-> count, data |-> b])

msubscriptionacks(b) == MapOk(ManyItems("ack", b), LAMBDA count : SubSeq(b, 1, count))

-----------------------------------------------------------------------------
(***************************************************************************)
(* CONNECT.                                                                *)
(***************************************************************************)
MQTT == <<77, 81, 84, 84>>

Optional(set, r, b) == IF set THEN MapOk(r, LAMBDA v : <<v>>) ELSE Ok(<<>>, b)

mlastwill(flags, b) ==
  LET qos == (flags \div 8) % 4
  IN  Then(mstring(b), LAMBDA topic, rest :
        MapOk(Verify(mpayload(rest), LAMBDA payload : qos \in mquality_of_service),
              LAMBDA payload : [topic |-> topic, payload |-> payload, qos |-> qos,
                                retain |-> Bit(flags, 5) = 1]))

\* "MQTT", level 4, the flags and the keep-alive time.
ConnectHeader(b) ==
  Then(Verify(mstring(b), LAMBDA name : name = MQTT), LAMBDA name, level :
    Then(Verify(parse_u8(level), LAMBDA v : v = 4), LAMBDA v, rest :
      Then(Verify(parse_u8(rest), LAMBDA flags :
             /\ Bit(flags, 0) = 0
             /\ Bit(flags, 2) = 1 \/ (flags \div 8) % 4 = 0),
           LAMBDA flags, time :
             MapOk(parse_u16(time), LAMBDA keep_alive : <<flags, keep_alive>>))))

ConnectData(b) ==
  Then(ConnectHeader(b), LAMBDA header, rest :
    LET set(k) == Bit(header[1], k) = 1
    IN  Then(mstring(rest), LAMBDA client_id, r1 :
          Then(Optional(set(2), mlastwill(header[1], r1), r1), LAMBDA last_will, r2 :
            Then(Optional(set(7), mstring(r2), r2), LAMBDA username, r3 :
              MapOk(Optional(set(6), mpayload(r3), r3), LAMBDA password :
                [protocol_name |-> MQTT, protocol_level |-> 4,
                 clean_session |-> set(1), will |-> last_will, username |-> username,
                 password |-> password, keep_alive |-> header[2],
                 client_id |-> client_id])))))

\* The second of the two bits of the will's QoS is set for every QoS but 2.
ConnectFlags(c) ==
  LET will(P) == c.will # <<>> /\ P
  IN  Flag(c.username # <<>>, 7) + Flag(c.password # <<>>, 6)
      + Flag(will(c.will[1].retain), 5)
      + Flag(will(c.will[1].qos = 2), 4) + Flag(will(c.will[1].qos # 2), 3)
      + Flag(will(TRUE), 2) + Flag(c.clean_session, 1)

ConnectLength(c) ==
  10 + get_len(c.client_id)
  + (IF c.will = <<>> THEN 0 ELSE get_len(c.will[1].topic) + get_len(c.will[1].payload))
  + (IF c.username = <<>> THEN 0 ELSE get_len(c.username[1]))
  + (IF c.password = <<>> THEN 0 ELSE get_len(c.password[1]))

ConnectBytes(c) ==
  WriteString(c.protocol_name) \o <<c.protocol_level, ConnectFlags(c)>>
  \o write_u16(c.keep_alive) \o WriteString(c.client_id)
  \o (IF c.will = <<>> THEN <<>>
      ELSE WriteString(c.will[1].topic) \o WriteString(c.will[1].payload))
  \o (IF c.username = <<>> THEN <<>> ELSE WriteString(c.username[1]))
  \o (IF c.password = <<>> THEN <<>> ELSE WriteString(c.password[1]))

-----------------------------------------------------------------------------
\* The body as parser of its bytes, its announced length and its bytes.
ConnackData(b) ==
  Then(ParseEnum({0, 1}, b), LAMBDA session_present, rest :
    MapOk(ParseEnum(MConnectReturnCode, rest), LAMBDA code : <<session_present, code>>))

\* The payload is what remaining_length leaves.
PublishData(flags, b) ==
  Then(Verify(mstring(b), LAMBDA topic : ~(DupOf(flags) /\ QoSOf(flags) = 0)),
       LAMBDA topic, rest :
         Then(Optional(QoSOf(flags) # 0, parse_u16(rest), rest), LAMBDA id, payload :
           Ok(<<topic, id, payload>>, <<>>)))

\* An identifier and what follows it.
IdentifiedData(type, b) ==
  Then(parse_u16(b), LAMBDA id, rest :
    MapOk(CASE type = "Subscribe" -> mrequests("subscription", rest)
            [] type = "Unsubscribe" -> mrequests("unsubscription", rest)
            [] type = "Suback" -> msubscriptionacks(rest)
            [] OTHER -> Ok(<<>>, rest),
          LAMBDA more : <<id, more>>))

mpacketdata(kind, b) ==
  MapOk(CASE kind.type = "Connect" -> ConnectData(b)
          [] kind.type = "Connack" -> ConnackData(b)
          [] kind.type = "Publish" -> PublishData(kind.flags, b)
          [] kind.type \in {"Pingreq", "Pingresp", "Disconnect"} -> Ok(<<>>, b)
          [] OTHER -> IdentifiedData(kind.type, b),
        LAMBDA body : MPacket(kind.type, kind.flags, body))

\* Mutant: the input may be shorter than remaining_length.
MpacketLenient(b) ==
  Then(mfixedheader(b), LAMBDA header, rest : mpacketdata(header.kind, rest))

\* What mpacketdata leaves of the remaining_length bytes is dropped.
mpacket(b) ==
  Then(mfixedheader(b), LAMBDA header, rest :
    Then(take(header.remaining_length, rest), LAMBDA data, after :
      Then(mpacketdata(header.kind, data), LAMBDA p, unread : Ok(p, after))))

\* MSubscriptionAcks::get_len is 1 whatever their number.
RemainingLength(p) ==
  CASE p.type = "Connect" -> ConnectLength(p.body)
    [] p.type = "Publish" -> get_len(p.body[1]) + 2 * Len(p.body[2]) + Len(p.body[3])
    [] p.type = "Subscribe" -> 2 + Len(p.body[2].data)
    [] p.type = "Suback" -> 2 + 1
    [] p.type \in {"Pingreq", "Pingresp"} -> 0
    [] OTHER -> 2

Bytes(p) ==
  CASE p.type = "Connect" -> ConnectBytes(p.body)
    [] p.type = "Connack" -> p.body
    [] p.type = "Publish" ->
         WriteString(p.body[1])
         \o (IF p.body[2] = <<>> THEN <<>> ELSE write_u16(p.body[2][1])) \o p.body[3]
    [] p.type = "Subscribe" -> write_u16(p.body[1]) \o p.body[2].data
    [] p.type = "Suback" -> write_u16(p.body[1]) \o p.body[2]
    [] p.type \in {"Pingreq", "Pingresp"} -> <<>>
    [] OTHER -> write_u16(p.body[1])

\* todo!() in write_to.
Unwritable == {"Unsubscribe", "Unsuback", "Disconnect"}

\* Mutant: the first byte has no flags.
WriteToWithoutFlags(p) ==
  <<to_byte(p.type, FixedFlags(p.type))>>
    \o write_remaining_length(RemainingLength(p)) \o Bytes(p)

write_to(p) ==
  <<to_byte(p.type, p.flags)>> \o write_remaining_length(RemainingLength(p)) \o Bytes(p)

-----------------------------------------------------------------------------
(***************************************************************************)
(* What the fields of the structs hold.  The numbers, the enumerations and *)
(* the Options have it from their types; that a string has no control      *)
(* characters, that requests are of one item or more and that the flags go *)
(* together is what mpacket accepts.                                        *)
(***************************************************************************)
U16_MAX == 65535
U16 == 0..U16_MAX
Text(s) == s \in Seq(Byte) /\ IsUtf8[s] /\ ~control_characters(s)

MLastWill(w) ==
  /\ w = [topic |-> w.topic, payload |-> w.payload, qos |-> w.qos, retain |-> w.retain]
  /\ Text(w.topic) /\ w.payload \in Seq(Byte)
  /\ w.qos \in mquality_of_service /\ w.retain \in BOOLEAN

MConnect(c) ==
  /\ c = [protocol_name |-> MQTT, protocol_level |-> 4, clean_session |-> c.clean_session,
          will |-> c.will, username |-> c.username, password |-> c.password,
          keep_alive |-> c.keep_alive, client_id |-> c.client_id]
  /\ c.clean_session \in BOOLEAN /\ c.keep_alive \in U16
  /\ Text(c.protocol_name) /\ Text(c.client_id)
  /\ c.will = <<>> \/ (c.will = <<c.will[1]>> /\ MLastWill(c.will[1]))
  /\ c.username = <<>> \/ (c.username = <<c.username[1]>> /\ Text(c.username[1]))
  /\ c.password = <<>> \/ (c.password = <<c.password[1]>> /\ c.password[1] \in Seq(Byte))

MPublish(flags, body) ==
  /\ body = <<body[1], body[2], body[3]>>
  /\ flags \in 0..15 /\ QoSOf(flags) # 3 /\ ~(DupOf(flags) /\ QoSOf(flags) = 0)
  /\ Text(body[1]) /\ body[3] \in Seq(Byte)
  /\ IF QoSOf(flags) = 0 THEN body[2] = <<>>
     ELSE body[2] = <<body[2][1]>> /\ body[2][1] \in U16

MRequests(kind, r) ==
  /\ r = [count |-> r.count, data |-> r.data] /\ r.data \in Seq(Byte)
  /\ IsOk(ManyItems(kind, r.data)) /\ ManyItems(kind, r.data).value = r.count

MIdentified(type, body) ==
  /\ body = <<body[1], body[2]>> /\ body[1] \in U16
  /\ CASE type = "Subscribe" -> MRequests("subscription", body[2])
       [] type = "Unsubscribe" -> MRequests("unsubscription", body[2])
       [] type = "Suback" -> body[2] \in Seq(MSubscriptionAck) /\ body[2] # <<>>
       [] OTHER -> body[2] = <<>>

WellFormed(p) ==
  /\ p = MPacket(p.type, p.flags, p.body) /\ p.type \in DOMAIN MPacketKind
  /\ p.type # "Publish" => p.flags = FixedFlags(p.type)
  /\ CASE p.type = "Connect" -> MConnect(p.body)
       [] p.type = "Connack" ->
            /\ p.body = <<p.body[1], p.body[2]>>
            /\ p.body[1] \in {0, 1} /\ p.body[2] \in MConnectReturnCode
       [] p.type = "Publish" -> MPublish(p.flags, p.body)
       [] p.type \in {"Pingreq", "Pingresp", "Disconnect"} -> p.body = <<>>
       [] OTHER -> MIdentified(p.type, p.body)

\* A packet whose remaining length can be written at all.
Sendable(p) == WellFormed(p) /\ RemainingLength(p) <= VARIABLE_INTEGER_MAX

ASSUME PacketsAssumption == \A p \in Packets : Sendable(p)
ASSUME EditValuesAssumption == EditValues \subseteq Byte

-----------------------------------------------------------------------------
Init ==
  /\ stage = "given" /\ packet \in Packets
  /\ written = NoPacket /\ trailing = <<>> /\ buffer = <<>> /\ edits = 0

Write ==
  /\ stage \in {"given", "parsed"}
  /\ IF packet.type \in Unwritable
     THEN stage' = "panicked" /\ UNCHANGED <<buffer, written>>
     ELSE stage' = "written" /\ buffer' = write_to(packet) /\ written' = packet
  /\ UNCHANGED <<packet, trailing, edits>>

\* What another implementation sends instead.
Edit ==
  /\ stage = "written" /\ edits < MaxEdits
  /\ \E i \in DOMAIN buffer, v \in EditValues : buffer' = [buffer EXCEPT ![i] = v]
  /\ edits' = edits + 1 /\ written' = NoPacket
  /\ UNCHANGED <<stage, packet, trailing>>

Parse ==
  /\ stage = "written"
  /\ \E r \in {mpacket(buffer)} :
       /\ stage' = IF IsOk(r) THEN "parsed" ELSE "refused"
       /\ packet' = IF IsOk(r) THEN r.value ELSE NoPacket
       /\ trailing' = r.rest
  /\ UNCHANGED <<written, buffer, edits>>

Next == Write \/ Edit \/ Parse

Spec == Init /\ [][Next]_vars

-----------------------------------------------------------------------------
\* The packets whose round trip fails: a length of two bytes is read as one, a
\* body whose first byte is 128 or more loses it to the length, more than one
\* SUBACK code is announced as one, and a will of QoS 0 is written as QoS 1.
KnownDefect(p) ==
  \/ /\ p # NoPacket
     /\ RemainingLength(p) >= 128 \/ (Bytes(p) # <<>> /\ Bytes(p)[1] >= 128)
  \/ p.type = "Suback" /\ Len(p.body[2]) > 1
  \/ p.type = "Connect" /\ p.body.will # <<>> /\ p.body.will[1].qos = 0

\* What was written is parsed again, as itself and to its last byte, exactly when
\* it has none of these defects: packets that are sent, and packets that the
\* parser accepts from a peer and that are sent on, with unread bytes behind a
\* body, a retain flag without a will, or identifiers that are 0.
RoundTripUnlessDefect ==
  stage \in {"parsed", "refused"} /\ written # NoPacket =>
    (packet = written /\ trailing = <<>> <=> ~KnownDefect(written))

\* No proper prefix of such a packet is taken for a packet: a reader that has
\* not got all of it gets an error, never something shorter.
PrefixesAreRefused ==
  stage = "written" /\ written # NoPacket /\ ~KnownDefect(written) =>
    \A n \in 0..Len(buffer) - 1 : ~IsOk(mpacket(SubSeq(buffer, 1, n)))
=============================================================================
