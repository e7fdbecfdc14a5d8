--------------------------- MODULE WireProperties ---------------------------
(***************************************************************************)
(* The property lists of MQTT v5 packets.  A list is given by the sequence *)
(* of its properties in the order of the fields of the Rust struct; its    *)
(* value is a sequence of options (<<>> for None, <<v>> for Some(v)) in    *)
(* the same order.                                                          *)
(***************************************************************************)
EXTENDS WirePrimitives

PayloadFormatIndicator == 1
MessageExpiryInterval == 2
ContentType == 3
ResponseTopic == 8
CorrelationData == 9
SubscriptionIdentifier == 11
SessionExpiryInterval == 17
AssignedClientIdentifier == 18
ServerKeepAlive == 19
AuthenticationMethod == 21
AuthenticationData == 22
RequestProblemInformation == 23
WillDelayInterval == 24
RequestResponseInformation == 25
ResponseInformation == 26
ServerReference == 28
ReasonString == 31
ReceiveMaximum == 33
TopicAliasMaximum == 34
TopicAlias == 35
MaximumQoS == 36
RetainAvailable == 37
UserProperties == 38
MaximumPacketSize == 39
WildcardSubscriptionAvailable == 40
SubscriptionIdentifiersAvailable == 41
SharedSubscriptionAvailable == 42

\* parse with / write with / with size of the define_properties! table.
PropertyKind(id) ==
  CASE id \in {PayloadFormatIndicator, RequestProblemInformation,
               RequestResponseInformation, WildcardSubscriptionAvailable,
               SubscriptionIdentifiersAvailable, SharedSubscriptionAvailable} -> "u8"
    [] id \in {MessageExpiryInterval, SessionExpiryInterval, WillDelayInterval,
               MaximumPacketSize} -> "u32"
    [] id \in {ContentType, ResponseTopic, AssignedClientIdentifier,
               AuthenticationMethod, ResponseInformation, ServerReference,
               ReasonString} -> "string"
    [] id \in {CorrelationData, AuthenticationData} -> "binary"
    [] id = SubscriptionIdentifier -> "variable"
    [] id \in {ServerKeepAlive, TopicAliasMaximum} -> "u16"
    [] id \in {ReceiveMaximum, TopicAlias} -> "nonzero"
    [] id = MaximumQoS -> "maximum_qos"
    [] id = RetainAvailable -> "bool"

-----------------------------------------------------------------------------
\* MqttProperties::parse, without the identifier.  Of a user property, only that
\* it is a pair is looked at: its value is the whole slice that begins with it.
ParseProperty(id, b) ==
  IF id = UserProperties THEN Then(parse_string_pair(b), LAMBDA pair, rest : Ok(b, rest))
  ELSE ParsePrimitive(PropertyKind(id), b)

-----------------------------------------------------------------------------
(***************************************************************************)
(* User properties.  The struct keeps the slice from the first user        *)
(* property to the end of the property bytes, with whatever lies between   *)
(* one user property and the next; everything that looks at it (==,        *)
(* binary_size, write) goes through the iterator, which parses the slice   *)
(* again.                                                                  *)
(***************************************************************************)
AllProperties == {1, 2, 3, 8, 9, 11, 17, 18, 19, 21, 22, 23, 24, 25, 26, 28, 31} \cup 33..42

\* The enum Property: any property, whatever list the slice was found in.
PropertyParse(b) ==
  Then(Verify(parse_variable_u32(b), LAMBDA id : id \in AllProperties),
       LAMBDA id, rest : MapOk(ParseProperty(id, rest), LAMBDA v : [id |-> id, value |-> v]))

\* A pair and those after it; an Err is an expect that panics.
Yield(pair, others) ==
  IF IsOk(pair) /\ IsOk(others) THEN Ok(<<pair.value>> \o others.value, <<>>) ELSE Err

\* Mutant: the loop ends at a property that is not a user property.
FoundUntilOther(r, next) ==
  IF IsOk(r) /\ r.value.id = UserProperties
  THEN Yield(parse_string_pair(r.value.value), next[r.rest])
  ELSE Ok(<<>>, <<>>)

\* One turn of the iterator's loop: what it found, and what follows.
Found(r, next) ==
  IF ~IsOk(r) THEN Err
  ELSE IF r.value.id = UserProperties
  THEN Yield(parse_string_pair(r.value.value), next[r.rest])
  ELSE next[r.rest]

\* UserProperties::iter: the pairs it yields.
iter(slice) ==
  LET next[s \in Seq(Byte)] ==
        IF s = <<>> THEN Ok(<<>>, <<>>) ELSE Found(PropertyParse(s), next)
      first(pair) == Yield(pair, next[pair.rest])
  IN  first(parse_string_pair(slice))

\* The first identifier is written by the property list.
PairsWrite(pairs) ==
  FlattenSeq([i \in DOMAIN pairs |->
    (IF i = 1 THEN <<>> ELSE write_variable_u32(UserProperties))
      \o write_string(pairs[i][1]) \o write_string(pairs[i][2])])

UserPropertiesWrite(slice) == PairsWrite(iter(slice).value)

PairsSize(pairs) ==
  FoldLeft(+, 0, [i \in DOMAIN pairs |->
    (IF i = 1 THEN 0 ELSE variable_u32_binary_size(UserProperties))
      + string_pair_binary_size(pairs[i])])

UserPropertiesSize(slice) == PairsSize(iter(slice).value)

WriteProperty(id, v) ==
  IF id = UserProperties THEN UserPropertiesWrite(v) ELSE WritePrimitive(PropertyKind(id), v)

SizeProperty(id, v) ==
  IF id = UserProperties THEN UserPropertiesSize(v) ELSE SizePrimitive(PropertyKind(id), v)

-----------------------------------------------------------------------------
(***************************************************************************)
(* A property list (define_properties! of properties.rs).                   *)
(***************************************************************************)
NoProperties(list) == [i \in DOMAIN list |-> <<>>]

\* The loop over the property bytes: one entry per property read; an
\* identifier that is not in the list is an error.
PropertyEntries(list, bytes) ==
  LET entries[s \in Seq(Byte)] ==
        IF s = <<>> THEN Ok(<<>>, <<>>)
        ELSE Then(Verify(parse_variable_u32(s), LAMBDA id : id \in ToSet(list)),
               LAMBDA id, rest : Then(ParseProperty(id, rest),
                 LAMBDA v, more : MapOk(entries[more],
                   LAMBDA others : <<[id |-> id, value |-> v]>> \o others)))
  IN  entries[bytes]

\* Only user properties may repeat (ALLOW_REPEATING and use_slot).
NoSlotUsedTwice(entries) ==
  \A i, j \in DOMAIN entries :
    i # j /\ entries[i].id = entries[j].id => entries[i].id = UserProperties

\* The slot of one property after the loop (take_inner): the first that was read.
TakeInner(id, entries) ==
  LET used == SelectSeq(entries, LAMBDA e : e.id = id)
  IN  IF used = <<>> THEN <<>> ELSE <<used[1].value>>

ParseProperties(list, b) ==
  Then(Then(parse_variable_u32(b), take), LAMBDA bytes, rest :
    Then(Verify(PropertyEntries(list, bytes), NoSlotUsedTwice), LAMBDA entries, none :
      Ok([i \in DOMAIN list |-> TakeInner(list[i], entries)], rest)))

\* prop_size of binary_size and write: everything after the length.
PropSize(list, props) ==
  FoldLeft(+, 0, [i \in DOMAIN list |->
     IF props[i] = <<>> THEN 0
     ELSE variable_u32_binary_size(list[i]) + SizeProperty(list[i], props[i][1])])

\* A length and as many bytes.
WithLength(size) == variable_u32_binary_size(size) + size

SizeProperties(list, props) == WithLength(PropSize(list, props))

WriteProperties(list, props) ==
  write_variable_u32(PropSize(list, props))
    \o FlattenSeq([i \in DOMAIN list |->
         IF props[i] = <<>> THEN <<>>
         ELSE write_variable_u32(list[i]) \o WriteProperty(list[i], props[i][1])])
=============================================================================
