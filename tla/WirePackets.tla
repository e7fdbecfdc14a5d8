----------------------------- MODULE WirePackets -----------------------------
(***************************************************************************)
(* The control packets of MQTT v5.  A packet is a record with its type,    *)
(* the flags of its fixed header (PUBLISH: dup, QoS and retain) and its    *)
(* body: the values of the struct's fields in the order of the wire.       *)
(*                                                                         *)
(* Every packet but CONNECT is given by its layout, the sequence of fields *)
(* that its parse, binary_size and write go through in turn.                *)
(***************************************************************************)
EXTENDS WireProperties

(***************************************************************************)
(* Reason codes, by name.                                                   *)
(***************************************************************************)
ReasonCode ==
  [GrantedQoS0 |-> 0, NormalDisconnection |-> 0, Success |-> 0, GrantedQoS1 |-> 1,
   GrantedQoS2 |-> 2, DisconnectWithWillMessage |-> 4, NoMatchingSubscribers |-> 16,
   NoSubscriptionExisted |-> 17, ContinueAuthentication |-> 24, ReAuthenticate |-> 25,
   UnspecifiedError |-> 128, MalformedPacket |-> 129, ProtocolError |-> 130,
   ImplementationSpecificError |-> 131, UnsupportedProtocolVersion |-> 132,
   ClientIdentifierNotValid |-> 133, BadUsernameOrPassword |-> 134,
   NotAuthorized |-> 135, ServerUnavailable |-> 136, ServerBusy |-> 137, Banned |-> 138,
   ServerShuttingDown |-> 139, BadAuthenticationMethod |-> 140,
   KeepAliveTimeout |-> 141, SessionTakenOver |-> 142, TopicFilterInvalid |-> 143,
   TopicNameInvalid |-> 144, PacketIdentifierInUse |-> 145,
   PacketIdentifierNotFound |-> 146, ReceiveMaximumExceeded |-> 147,
   TopicAliasInvalid |-> 148, PacketTooLarge |-> 149, MessageRateTooHigh |-> 150,
   QuotaExceeded |-> 151, AdministrativeAction |-> 152, PayloadFormatInvalid |-> 153,
   RetainNotSupported |-> 154, QoSNotSupported |-> 155, UseAnotherServer |-> 156,
   ServerMoved |-> 157, SharedSubscriptionsNotSupported |-> 158,
   ConnectionRateExceeded |-> 159, MaximumConnectTime |-> 160,
   SubscriptionIdentifiersNotSupported |-> 161, WildcardSubscriptionsNotSupported |-> 162]

\* make_combined_reason_code!: the codes of the named reasons.
Codes(names) == {ReasonCode[n] : n \in names}

ConnackReasonCode == Codes(
  {"Success", "UnspecifiedError", "MalformedPacket", "ProtocolError",
   "ImplementationSpecificError", "ClientIdentifierNotValid", "BadUsernameOrPassword",
   "NotAuthorized", "ServerUnavailable", "ServerBusy", "Banned",
   "BadAuthenticationMethod", "TopicNameInvalid", "PacketTooLarge", "QuotaExceeded",
   "PayloadFormatInvalid", "RetainNotSupported", "QoSNotSupported", "UseAnotherServer",
   "ServerMoved", "ConnectionRateExceeded"})
PubackReasonCode == Codes(
  {"ImplementationSpecificError", "NoMatchingSubscribers", "NotAuthorized",
   "PacketIdentifierInUse", "PayloadFormatInvalid", "QuotaExceeded", "Success",
   "TopicNameInvalid", "UnspecifiedError"})
PubrecReasonCode == Codes(
  {"ImplementationSpecificError", "NoMatchingSubscribers", "NotAuthorized",
   "PacketIdentifierInUse", "PacketIdentifierNotFound", "PayloadFormatInvalid",
   "QuotaExceeded", "Success", "TopicNameInvalid", "UnspecifiedError"})
PubrelReasonCode == Codes({"Success", "PacketIdentifierNotFound"})
PubcompReasonCode == Codes({"PacketIdentifierNotFound", "Success"})
SubackReasonCode == Codes(
  {"GrantedQoS0", "GrantedQoS1", "GrantedQoS2", "ImplementationSpecificError",
   "NotAuthorized", "PacketIdentifierInUse", "QuotaExceeded",
   "SharedSubscriptionsNotSupported", "SubscriptionIdentifiersNotSupported",
   "TopicFilterInvalid", "UnspecifiedError", "WildcardSubscriptionsNotSupported"})
UnsubackReasonCode == Codes(
  {"ImplementationSpecificError", "NoSubscriptionExisted", "NotAuthorized",
   "PacketIdentifierInUse", "Success", "TopicFilterInvalid", "UnspecifiedError"})
AuthReasonCode == Codes({"ContinueAuthentication", "ReAuthenticate", "Success"})
DisconnectReasonCode == Codes(
  {"AdministrativeAction", "ConnectionRateExceeded", "DisconnectWithWillMessage",
   "ImplementationSpecificError", "KeepAliveTimeout", "MalformedPacket",
   "MaximumConnectTime", "MessageRateTooHigh", "NormalDisconnection", "NotAuthorized",
   "PacketTooLarge", "PayloadFormatInvalid", "ProtocolError", "QoSNotSupported",
   "QuotaExceeded", "ReceiveMaximumExceeded", "RetainNotSupported", "ServerBusy",
   "ServerMoved", "ServerShuttingDown", "SessionTakenOver",
   "SharedSubscriptionsNotSupported", "SubscriptionIdentifiersNotSupported",
   "TopicAliasInvalid", "TopicFilterInvalid", "TopicNameInvalid", "UnspecifiedError",
   "UseAnotherServer", "WildcardSubscriptionsNotSupported"})

-----------------------------------------------------------------------------
(***************************************************************************)
(* Property lists, in the order of the structs.                             *)
(***************************************************************************)
ConnectProperties ==
  <<SessionExpiryInterval, ReceiveMaximum, MaximumPacketSize, TopicAliasMaximum,
    RequestResponseInformation, RequestProblemInformation, UserProperties,
    AuthenticationMethod, AuthenticationData>>
ConnectWillProperties ==
  <<WillDelayInterval, PayloadFormatIndicator, MessageExpiryInterval, ContentType,
    ResponseTopic, CorrelationData, UserProperties>>
ConnackProperties ==
  <<SessionExpiryInterval, ReceiveMaximum, MaximumQoS, RetainAvailable,
    MaximumPacketSize, AssignedClientIdentifier, TopicAliasMaximum, ReasonString,
    UserProperties, WildcardSubscriptionAvailable, SubscriptionIdentifiersAvailable,
    SharedSubscriptionAvailable, ServerKeepAlive, ResponseInformation, ServerReference,
    AuthenticationMethod, AuthenticationData>>
PublishProperties ==
  <<PayloadFormatIndicator, MessageExpiryInterval, TopicAlias, ResponseTopic,
    CorrelationData, UserProperties, SubscriptionIdentifier, ContentType>>
PubackProperties == <<ReasonString, UserProperties>>
PubrecProperties == <<ReasonString, UserProperties>>
PubrelProperties == <<ReasonString, UserProperties>>
PubcompProperties == <<ReasonString, UserProperties>>
SubscribeProperties == <<SubscriptionIdentifier, UserProperties>>
SubackProperties == <<ReasonString, UserProperties>>
UnsubscribeProperties == <<SubscriptionIdentifier, UserProperties>>
UnsubackProperties == <<ReasonString, UserProperties>>
DisconnectProperties ==
  <<SessionExpiryInterval, ReasonString, UserProperties, ServerReference>>
AuthProperties ==
  <<AuthenticationMethod, AuthenticationData, ReasonString, UserProperties>>

-----------------------------------------------------------------------------
(***************************************************************************)
(* Layouts.  A field has a kind, the argument of the kind and, where the   *)
(* code tests input.is_empty() first, a default for an empty input.        *)
(***************************************************************************)
Field(kind, arg) == [kind |-> kind, arg |-> arg, default |-> <<>>]
OrElse(field, v) == [field EXCEPT !.default = <<v>>]

PacketIdentifier == Field("nonzero", {})
Reason(codes) == Field("reason", codes)
Properties(list) == Field("properties", list)

\* PUBACK, PUBREC, PUBREL and PUBCOMP: reason and properties may be missing.
AckLayout(codes, list) ==
  <<PacketIdentifier, OrElse(Reason(codes), ReasonCode.Success),
    OrElse(Properties(list), NoProperties(list))>>

MConnack == <<Field("session_present", {}), Reason(ConnackReasonCode),
              Properties(ConnackProperties)>>
MPublish(qos) == <<Field("topic_name", {}), Field("identifier_for", qos),
                   Properties(PublishProperties), Field("payload", {})>>
MPuback == AckLayout(PubackReasonCode, PubackProperties)
MPubrec == AckLayout(PubrecReasonCode, PubrecProperties)
MPubrel == AckLayout(PubrelReasonCode, PubrelProperties)
MPubcomp == AckLayout(PubcompReasonCode, PubcompProperties)
MSubscribe == <<PacketIdentifier, Properties(SubscribeProperties),
                Field("subscriptions", {})>>
MSuback == <<PacketIdentifier, Properties(SubackProperties),
             Field("reasons", SubackReasonCode)>>
MUnsubscribe == <<PacketIdentifier, Properties(UnsubscribeProperties),
                  Field("unsubscriptions", {})>>
MUnsuback == <<PacketIdentifier, Properties(UnsubackProperties),
               Field("reasons", UnsubackReasonCode)>>
MPingreq == <<Field("eof", {})>>
MPingresp == <<Field("eof", {})>>
MDisconnect ==
  <<OrElse(Reason(DisconnectReasonCode), ReasonCode.NormalDisconnection),
    OrElse(Properties(DisconnectProperties), NoProperties(DisconnectProperties))>>
MAuth == <<Reason(AuthReasonCode), Properties(AuthProperties)>>

QoSOf(flags) == (flags \div 2) % 4

Layout(type, flags) ==
  CASE type = "Connack" -> MConnack
    [] type = "Publish" -> MPublish(QoSOf(flags))
    [] type = "Puback" -> MPuback
    [] type = "Pubrec" -> MPubrec
    [] type = "Pubrel" -> MPubrel
    [] type = "Pubcomp" -> MPubcomp
    [] type = "Subscribe" -> MSubscribe
    [] type = "Suback" -> MSuback
    [] type = "Unsubscribe" -> MUnsubscribe
    [] type = "Unsuback" -> MUnsuback
    [] type = "Pingreq" -> MPingreq
    [] type = "Pingresp" -> MPingresp
    [] type = "Disconnect" -> MDisconnect
    [] type = "Auth" -> MAuth

-----------------------------------------------------------------------------
(***************************************************************************)
(* Fields of particular packets.                                            *)
(***************************************************************************)
\* CONNACK: the flag is the highest bit, the other seven must be zero.
ParseSessionPresent(b) == MapOk(ParseEnum({0, 128}, b), LAMBDA u : u = 128)

Hash == 35
Plus == 43
Star == 42
sanity_check_topic_name(topic) == \A i \in DOMAIN topic : topic[i] \notin {Hash, Star}

ParseTopicName(b) == Verify(parse_string(b), sanity_check_topic_name)

\* PUBLISH: an identifier is read exactly when the QoS is not AtMostOnce.
ParseIdentifierFor(qos, b) ==
  IF qos = 0 THEN Ok(<<>>, b) ELSE MapOk(parse_u16_nonzero(b), LAMBDA id : <<id>>)

WriteIdentifierFor(qos, id) ==
  CASE id = <<>> -> <<>>
    [] id # <<>> /\ qos = 0 -> <<WriteInvariant>>
    [] OTHER -> write_u16(id[1])

\* SUBSCRIBE: <<retain_handling, retain_as_published, no_local, qos>>.
ParseSubscriptionOptions(b) ==
  MapOk(Verify(parse_u8(b), LAMBDA u : /\ u < 64 /\ u \div 16 <= 2
                                       /\ u % 4 \in QualityOfServiceCodes),
        LAMBDA u : <<u \div 16, Bit(u, 3) = 1, Bit(u, 2) = 1, u % 4>>)

WriteSubscriptionOptions(o) ==
  <<o[4] + Flag(o[3], 2) + Flag(o[2], 3) + 16 * o[1]>>

ParseSubscription(b) ==
  Then(parse_string(b), LAMBDA filter, rest :
         MapOk(ParseSubscriptionOptions(rest), LAMBDA options : <<filter, options>>))

\* repeat_till(min.., item, eof) over the three kinds of items.
ParseItem(field, b) ==
  CASE field.kind = "reasons" -> ParseEnum(field.arg, b)
    [] field.kind = "subscriptions" -> ParseSubscription(b)
    [] field.kind = "unsubscriptions" -> parse_string(b)

RepeatTillEof(field, min, b) ==
  LET items[s \in Seq(Byte)] ==
        IF s = <<>> THEN Ok(<<>>, <<>>)
        ELSE Then(ParseItem(field, s), LAMBDA first, rest :
               MapOk(items[rest], LAMBDA more : <<first>> \o more))
  IN  Verify(items[b], LAMBDA all : Len(all) >= min)

WriteItem(field, v) ==
  CASE field.kind = "reasons" -> <<v>>
    [] field.kind = "subscriptions" -> write_string(v[1]) \o WriteSubscriptionOptions(v[2])
    [] field.kind = "unsubscriptions" -> write_string(v)

\* Subscriptions and Unsubscriptions keep the bytes they were parsed from.
SizeItem(field, v) ==
  CASE field.kind = "reasons" -> 1
    [] field.kind = "subscriptions" -> string_binary_size(v[1]) + 1
    [] field.kind = "unsubscriptions" -> string_binary_size(v)

Repeated == {"reasons", "subscriptions", "unsubscriptions"}

-----------------------------------------------------------------------------
(***************************************************************************)
(* parse, binary_size and write of a layout.                                *)
(***************************************************************************)
ParseField(f, b) ==
  CASE f.default # <<>> /\ b = <<>> -> Ok(f.default[1], b)
    [] f.default = <<>> \/ b # <<>> ->
       CASE f.kind = "reason" -> ParseEnum(f.arg, b)
         [] f.kind = "properties" -> ParseProperties(f.arg, b)
         [] f.kind = "session_present" -> ParseSessionPresent(b)
         [] f.kind = "topic_name" -> ParseTopicName(b)
         [] f.kind = "identifier_for" -> ParseIdentifierFor(f.arg, b)
         [] f.kind = "payload" -> Ok(b, <<>>)
         [] f.kind = "eof" -> IF b = <<>> THEN Ok(<<>>, b) ELSE Err
         [] f.kind = "reasons" -> RepeatTillEof(f, 0, b)
         [] f.kind \in {"subscriptions", "unsubscriptions"} -> RepeatTillEof(f, 1, b)
         [] OTHER -> ParsePrimitive(f.kind, b)

SizeField(f, v) ==
  CASE f.kind \in {"reason", "session_present"} -> 1
    [] f.kind = "properties" -> SizeProperties(f.arg, v)
    [] f.kind = "topic_name" -> string_binary_size(v)
    [] f.kind = "identifier_for" -> 2 * Len(v)
    [] f.kind \in {"payload", "eof"} -> Len(v)
    [] f.kind \in Repeated -> FoldLeft(+, 0, [i \in DOMAIN v |-> SizeItem(f, v[i])])
    [] OTHER -> SizePrimitive(f.kind, v)

WriteField(f, v) ==
  CASE f.kind = "reason" -> <<v>>
    [] f.kind = "session_present" -> <<Flag(v, 7)>>
    [] f.kind = "properties" -> WriteProperties(f.arg, v)
    [] f.kind = "topic_name" -> write_string(v)
    [] f.kind = "identifier_for" -> WriteIdentifierFor(f.arg, v)
    [] f.kind \in {"payload", "eof"} -> v
    [] f.kind \in Repeated -> FlattenSeq([i \in DOMAIN v |-> WriteItem(f, v[i])])
    [] OTHER -> WritePrimitive(f.kind, v)

ParseNext(r, f) ==
  Then(r, LAMBDA vs, rest : MapOk(ParseField(f, rest), LAMBDA v : Append(vs, v)))

ParseAll(layout, b) == FoldLeft(ParseNext, Ok(<<>>, b), layout)

SizeAll(layout, vs) == FoldLeft(+, 0, [i \in DOMAIN layout |-> SizeField(layout[i], vs[i])])

WriteAll(layout, vs) == FlattenSeq([i \in DOMAIN layout |-> WriteField(layout[i], vs[i])])

-----------------------------------------------------------------------------
(***************************************************************************)
(* CONNECT: the flags byte says which fields of the payload are there.     *)
(* The body is a record; will, username and password are options.          *)
(***************************************************************************)
ProtocolName == <<77, 81, 84, 84>>
ProtocolLevelV5 == 5

Will == <<Properties(ConnectWillProperties), Field("string", {}), Field("binary", {})>>

ConnectHeader == <<Field("string", {}), Field("u8", {}), Field("u8", {}), Field("u16", {}),
                   Properties(ConnectProperties), Field("string", {})>>

\* The payload fields that the flags announce.
ConnectPayload(will, username, password) ==
  (IF will THEN Will ELSE <<>>)
    \o (IF username THEN <<Field("string", {})>> ELSE <<>>)
    \o (IF password THEN <<Field("binary", {})>> ELSE <<>>)

\* Will QoS and retain are read whether or not there is a will.
ConnectFlagsOk(flags) == Bit(flags, 0) = 0 /\ (flags \div 8) % 4 \in QualityOfServiceCodes

\* The CONNECT with the values h of the header and v of the payload.
ConnectOf(h, v) ==
  LET flags == h[3]
      will == Bit(flags, 2)
      user == Bit(flags, 7)
  IN  [clean_start |-> Bit(flags, 1) = 1, keep_alive |-> h[4], properties |-> h[5],
       client_identifier |-> h[6],
       will |-> IF will = 0 THEN <<>>
                ELSE <<[fields |-> SubSeq(v, 1, 3), qos |-> (flags \div 8) % 4,
                        retain |-> Bit(flags, 5) = 1]>>,
       username |-> SubSeq(v, 3 * will + 1, 3 * will + user),
       password |-> SubSeq(v, 3 * will + user + 1, Len(v))]

ConnectParse(b) ==
  Then(Verify(ParseAll(ConnectHeader, b),
              LAMBDA h : /\ h[1] = ProtocolName /\ h[2] = ProtocolLevelV5
                         /\ ConnectFlagsOk(h[3])),
       LAMBDA h, rest :
         MapOk(ParseAll(ConnectPayload(Bit(h[3], 2) = 1, Bit(h[3], 7) = 1, Bit(h[3], 6) = 1),
                        rest),
               LAMBDA v : ConnectOf(h, v)))

ConnectFlags(c) ==
  Flag(c.clean_start, 1) + Flag(c.username # <<>>, 7) + Flag(c.password # <<>>, 6)
    + (IF c.will = <<>> THEN 0 ELSE 4 + 8 * c.will[1].qos + Flag(c.will[1].retain, 5))

ConnectHeaderValues(c) == <<ProtocolName, ProtocolLevelV5, ConnectFlags(c), c.keep_alive,
                            c.properties, c.client_identifier>>

ConnectLayout(c) ==
  ConnectHeader \o ConnectPayload(c.will # <<>>, c.username # <<>>, c.password # <<>>)

ConnectValues(c) ==
  ConnectHeaderValues(c) \o (IF c.will = <<>> THEN <<>> ELSE c.will[1].fields)
    \o c.username \o c.password

-----------------------------------------------------------------------------
(***************************************************************************)
(* The fixed header and the whole packet.                                   *)
(***************************************************************************)
PacketTypes == <<"Connect", "Connack", "Publish", "Puback", "Pubrec", "Pubrel", "Pubcomp",
                 "Subscribe", "Suback", "Unsubscribe", "Unsuback", "Pingreq", "Pingresp",
                 "Disconnect", "Auth">>

FlagsAllowed(type, flags) ==
  CASE type = "Publish" -> QoSOf(flags) \in QualityOfServiceCodes
    [] type \in {"Pubrel", "Subscribe", "Unsubscribe"} -> flags = 2
    [] OTHER -> flags = 0

MFixedHeaderParse(b) ==
  MapOk(Verify(parse_u8(b), LAMBDA u : /\ u \div 16 # 0
                                       /\ FlagsAllowed(PacketTypes[u \div 16], u % 16)),
        LAMBDA u : [type |-> PacketTypes[u \div 16], flags |-> u % 16])

MFixedHeaderWrite(p) ==
  LET number == CHOOSE n \in DOMAIN PacketTypes : PacketTypes[n] = p.type
  IN  <<16 * number + p.flags>>

ParseBody(header, b) ==
  MapOk(IF header.type = "Connect" THEN ConnectParse(b)
        ELSE ParseAll(Layout(header.type, header.flags), b),
        LAMBDA body : [type |-> header.type, flags |-> header.flags, body |-> body])

\* Mutant: the body parser gets what there is of an incomplete packet.
MqttPacketParseLenient(b) ==
  Then(MFixedHeaderParse(b), LAMBDA header, rest :
    Then(parse_variable_u32(rest), LAMBDA len, after :
      ParseBody(header, SubSeq(after, 1, Min({len, Len(after)})))))

\* length_and_then runs the body parser on a slice of the announced length
\* and goes on after the slice, wherever in it the parser stopped.
MqttPacketParse(b) ==
  Then(MFixedHeaderParse(b), LAMBDA header, rest :
    Then(Then(parse_variable_u32(rest), take), LAMBDA slice, after :
      Then(ParseBody(header, slice), LAMBDA packet, unread : Ok(packet, after))))

parse_complete(b) == MqttPacketParse(b)

\* DISCONNECT: a normal one without properties is written as an empty body.
is_short_packet(p) ==
  /\ p.type = "Disconnect"
  /\ p.body = <<ReasonCode.NormalDisconnection, NoProperties(DisconnectProperties)>>

\* Mutant: the short form is forgotten in binary_size.
BodySizeWithoutShortForm(p) ==
  CASE p.type = "Connect" -> SizeAll(ConnectLayout(p.body), ConnectValues(p.body))
    [] OTHER -> SizeAll(Layout(p.type, p.flags), p.body)

BodySize(p) ==
  CASE is_short_packet(p) -> 0
    [] p.type = "Connect" -> SizeAll(ConnectLayout(p.body), ConnectValues(p.body))
    [] OTHER -> SizeAll(Layout(p.type, p.flags), p.body)

BodyWrite(p) ==
  CASE is_short_packet(p) -> <<>>
    [] p.type = "Connect" -> WriteAll(ConnectLayout(p.body), ConnectValues(p.body))
    [] OTHER -> WriteAll(Layout(p.type, p.flags), p.body)

MqttPacketSize(p) == 1 + WithLength(BodySize(p))

MqttPacketWrite(p) ==
  MFixedHeaderWrite(p) \o write_variable_u32(BodySize(p)) \o BodyWrite(p)
=============================================================================
