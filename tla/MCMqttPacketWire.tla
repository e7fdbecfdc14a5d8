-------------------------- MODULE MCMqttPacketWire --------------------------
EXTENDS MqttPacketWire

Short == <<97, 98>>                          \* "ab"
Accent == <<195, 169>>                       \* two bytes, one character
Long == [i \in 1..125 |-> 120]               \* carries a length over 127

Values(kind) ==
  CASE kind = "u8" -> {0, 255}
    [] kind = "u16" -> {0, 258}
    [] kind = "nonzero" -> {1, 65535}
    [] kind = "u32" -> {<<0, 1>>, <<65535, 65534>>}
    [] kind = "variable" -> {0, 127, 128, 16384, 2097152, VARIABLE_INTEGER_MAX}
    [] kind = "string" -> {<<>>, Accent, Long}
    [] kind = "binary" -> {<<255>>, Long}
    [] kind = "bool" -> BOOLEAN
    [] kind = "maximum_qos" -> {0, 1}

\* One user property, two of them, and two with another property between them, as
\* in the test check_iteration.
Pair(key, value) == write_string(key) \o write_string(value)
UserPropertySlices ==
  {Pair(Short, <<>>),
   Pair(Short, Accent) \o <<UserProperties>> \o Pair(Short, Short),
   Pair(Short, Accent) \o <<RetainAvailable, 1, UserProperties>> \o Pair(<<>>, Short)
     \o <<ContentType>> \o write_string(Short)}

PropertyValues(id) ==
  IF id = UserProperties THEN UserPropertySlices
  ELSE Values(PropertyKind(id))

\* No property, each property alone, and all of them at once.
PropertySamples(list) ==
  {NoProperties(list), [i \in DOMAIN list |-> <<CHOOSE v \in PropertyValues(list[i]) : TRUE>>]}
    \cup UNION {{[NoProperties(list) EXCEPT ![i] = <<v>>] : v \in PropertyValues(list[i])} :
                i \in DOMAIN list}

Options == {<<0, FALSE, TRUE, 2>>, <<2, TRUE, FALSE, 1>>}

Samples(f) ==
  CASE f.kind = "reason" -> {CHOOSE c \in f.arg : TRUE, CHOOSE c \in f.arg : \A d \in f.arg : d <= c}
    [] f.kind = "properties" -> PropertySamples(f.arg)
    [] f.kind = "session_present" -> BOOLEAN
    [] f.kind = "topic_name" -> {Short, Accent}
    [] f.kind = "identifier_for" -> IF f.arg = 0 THEN {<<>>} ELSE {<<1>>, <<256>>}
    [] f.kind = "payload" -> {<<>>, <<0, 255>>, Long}
    [] f.kind = "eof" -> {<<>>}
    [] f.kind = "reasons" -> {<<>>, <<135>>, <<135, 128>>}
    [] f.kind = "subscriptions" -> {<< <<Short, o>> >> : o \in Options}
                                     \cup {<< <<Short, o>>, <<Accent, o>> >> : o \in Options}
    [] f.kind = "unsubscriptions" -> {<<Short>>, <<Short, Accent>>}
    [] OTHER -> Values(f.kind)

RECURSIVE BodiesOf(_)
BodiesOf(layout) ==
  IF layout = <<>> THEN {<<>>}
  ELSE {<<v>> \o rest : v \in Samples(Head(layout)), rest \in BodiesOf(Tail(layout))}

PacketsOf(type, flags) ==
  {[type |-> type, flags |-> flags, body |-> b] : b \in BodiesOf(Layout(type, flags))}

Wills ==
  {<<>>} \cup {<<[fields |-> <<props, Short, <<255>> >>, qos |-> q, retain |-> q = 1]>> :
                 props \in PropertySamples(ConnectWillProperties), q \in {0, 1}}

Connects ==
  {[type |-> "Connect", flags |-> 0,
    body |-> [clean_start |-> clean, keep_alive |-> 258, properties |-> props,
              client_identifier |-> id, will |-> will, username |-> user,
              password |-> pw]] :
     clean \in BOOLEAN, props \in PropertySamples(ConnectProperties), id \in {<<>>, Short},
     will \in {<<>>}, user \in {<<>>, <<Accent>>}, pw \in {<<>>, << <<255>> >>}}
  \cup
  {[type |-> "Connect", flags |-> 0,
    body |-> [clean_start |-> TRUE, keep_alive |-> 0,
              properties |-> NoProperties(ConnectProperties),
              client_identifier |-> Short, will |-> will, username |-> user,
              password |-> pw]] :
     will \in Wills, user \in {<<>>, <<Accent>>}, pw \in {<<>>, << <<255>> >>}}

PublishTo(topic) ==
  [type |-> "Publish", flags |-> 0,
   body |-> <<topic, <<>>, NoProperties(PublishProperties), <<>> >>]

\* Any string can be given to CloudmqttClient::publish: "a*b", which is a valid topic
\* name, "a+b" and "a#b", which are not, and one too long for the wire.
TooLongText == [i \in 1..65536 |-> 120]
AnyTopic == {<<97, c, 98>> : c \in {Star, Plus, Hash}} \cup {TooLongText}

\* The longest binary value there is, and longer values in other places.
LimitPackets ==
  {[PublishTo(Short) EXCEPT !.body[3][5] = <<data>>] :
     data \in {SubSeq(TooLongText, 1, 65535), TooLongText}}
    \cup {[type |-> "Disconnect", flags |-> 0,
            body |-> <<0, [NoProperties(DisconnectProperties) EXCEPT ![2] = <<TooLongText>>]>>]}

AllPackets ==
  LimitPackets \cup {PublishTo(topic) : topic \in AnyTopic} \cup
  Connects
    \cup UNION {PacketsOf("Publish", f) : f \in {0, 3, 12}}
    \cup UNION {PacketsOf(t, 2) : t \in {"Pubrel", "Subscribe", "Unsubscribe"}}
    \cup UNION {PacketsOf(t, 0) : t \in {"Connack", "Puback", "Pubrec", "Pubcomp", "Suback",
                  "Unsuback", "Pingreq", "Pingresp", "Disconnect", "Auth"}}

-----------------------------------------------------------------------------
\* A PUBLISH with other properties between its user properties.
ScatteredProperties ==
  LET props == <<UserProperties>> \o write_string(Short) \o write_string(<<>>)
                 \o <<ContentType>> \o write_string(Accent)
                 \o <<UserProperties>> \o write_string(Short) \o write_string(Short)
                 \o <<PayloadFormatIndicator, 1>>
      body == write_string(Short) \o <<Len(props)>> \o props \o <<7>>
  IN  <<48, Len(body)>> \o body

\* A CONNECT with a will QoS but no will.
UnusedWillQoS == <<16, 15>> \o write_string(ProtocolName) \o <<5, 8, 0, 0, 0>> \o write_string(Short)

ForeignBytes ==
  {ScatteredProperties, UnusedWillQoS,
   <<192, 128, 0>>,                \* PINGREQ with a padded length
   <<64, 2, 0, 1>>, <<64, 3, 0, 1, 16>>,   \* PUBACK without properties
   <<224, 0>>, <<224, 1, 4>>,      \* DISCONNECT without properties
   <<240, 3, 0, 0, 9>>,            \* AUTH with a byte too many
   <<48, 6, 0, 3, 97, Plus, 98, 0>>,   \* PUBLISH to "a+b" and to "a#b"
   <<48, 6, 0, 3, 97, Hash, 98, 0>>}
=============================================================================
