--------------------------- MODULE MqttPacketWire ---------------------------
(***************************************************************************)
(* The life of a packet between the two ends of a connection.              *)
(* MqttPacket::new writes a packet into a buffer and parses the buffer     *)
(* again; the bytes travel, and what arrives may be what some other        *)
(* implementation would have sent; the receiver parses it and hands it on  *)
(* with another MqttPacket::new (handle_action).                            *)
(***************************************************************************)
EXTENDS WirePackets

CONSTANTS Packets,      \* packets that are sent
          PeerBytes,    \* byte sequences that come from other implementations
          EditValues,   \* values that a changed byte may get
          MaxEdits,     \* bound on the edits of one packet
          MaxEdited     \* bound on the length of a packet that is edited or cut

VARIABLES stage,     \* "given", "made", "travelling", "received" or "refused"
          packet,    \* the packet given to MqttPacket::new
          received,  \* the packet that parse_complete returned
          buffer,    \* the bytes
          edits,     \* how often the bytes were changed
          panicked   \* an unwrap of MqttPacket::new failed

vars == <<stage, packet, received, buffer, edits, panicked>>

NoPacket == [type |-> "None", flags |-> 0, body |-> <<>>]

Init ==
  /\ panicked = FALSE /\ received = NoPacket /\ edits = 0
  /\ \/ stage = "given" /\ packet \in Packets /\ buffer = <<>>
     \/ stage = "travelling" /\ packet = NoPacket /\ buffer \in PeerBytes

\* MqttPacket::new: packet.write(..).unwrap(), then parse_complete(data).unwrap().
new(p) ==
  /\ packet' = p
  /\ buffer' = MqttPacketWrite(p)
  /\ \E r \in {IF Written(buffer') THEN parse_complete(buffer') ELSE Err} :
        /\ panicked' = ~IsOk(r)
        /\ received' = IF IsOk(r) THEN r.value ELSE NoPacket
  /\ stage' = "made"
  /\ UNCHANGED edits

\* A user publishes or subscribes.
Make == stage = "given" /\ new(packet)

\* handle_action hands on what was received.
HandOn == stage = "received" /\ new(received)

\* What another implementation might have sent instead: a byte changed or
\* left out, the packet cut short, or its body cut short to fit the length.
Edited(b) ==
  {ReplaceAt(b, i, v) : i \in DOMAIN b, v \in EditValues}
    \cup {SubSeq(b, 1, n) : n \in DOMAIN b \ {Len(b)}}
    \cup {RemoveAt(b, i) : i \in DOMAIN b}
    \cup {ReplaceAt(SubSeq(b, 1, n), 2, n - 2) : n \in 2..Len(b) - 1}

Send ==
  /\ stage = "made" /\ ~panicked /\ edits < MaxEdits /\ Len(buffer) <= MaxEdited
  /\ \E b \in Edited(buffer) : buffer' = b
  /\ stage' = "travelling" /\ edits' = edits + 1
  /\ UNCHANGED <<packet, received, panicked>>

\* The closure of decode: an Err ends the connection.
Receive ==
  /\ stage = "travelling"
  /\ \E r \in {parse_complete(buffer)} :
        /\ stage' = IF IsOk(r) THEN "received" ELSE "refused"
        /\ received' = IF IsOk(r) THEN r.value ELSE NoPacket
  /\ UNCHANGED <<packet, buffer, edits, panicked>>

Next == Make \/ Send \/ Receive \/ HandOn

Spec == Init /\ [][Next]_vars

-----------------------------------------------------------------------------
FieldsOf(p) == IF p.type = "Connect" THEN ConnectLayout(p.body) ELSE Layout(p.type, p.flags)
ValuesOf(p) == IF p.type = "Connect" THEN ConnectValues(p.body) ELSE p.body

\* The user properties that lie in a slice: what the packet says, not what the
\* iterator finds.
PairsIn(slice) ==
  LET all == PropertyEntries([id \in 1..42 |-> id], <<UserProperties>> \o slice).value
      users == SelectSeq(all, LAMBDA entry : entry.id = UserProperties)
  IN  [i \in DOMAIN users |-> parse_string_pair(users[i].value).value]

\* Two packets with the same values, and the same user properties in the same order.
SamePacket(p, q) ==
  LET compared(list, props) == [i \in DOMAIN list |->
        IF list[i] = UserProperties /\ props[i] # <<>> THEN <<PairsIn(props[i][1])>> ELSE props[i]]
      said(r) == [i \in DOMAIN FieldsOf(r) |->
        IF FieldsOf(r)[i].kind = "properties"
        THEN compared(FieldsOf(r)[i].arg, ValuesOf(r)[i]) ELSE ValuesOf(r)[i]]
  IN  p.type = q.type /\ p.flags = q.flags /\ said(p) = said(q)

\* A string or binary value whose length does not fit its two bytes.
TooLong(kind, v) == kind \in {"string", "binary", "topic_name"} /\ Len(v) > 65535

HasTooLong(p) ==
  \E i \in DOMAIN FieldsOf(p) :
    LET field == FieldsOf(p)[i]
        v == ValuesOf(p)[i]
    IN  \/ TooLong(field.kind, v)
        \/ /\ field.kind = "properties"
           /\ \E j \in DOMAIN field.arg :
                 /\ v[j] # <<>> /\ field.arg[j] # UserProperties
                 /\ TooLong(PropertyKind(field.arg[j]), v[j][1])

\* A publish that is written and that parse refuses: sanity_check_topic_name looks
\* for the wildcard '#', and for '*', which is none, instead of '+'.
NotParsedAgain(p) == p.type = "Publish" /\ {Hash, Star} \cap ToSet(p.body[1]) # {}

\* MqttPacket::new returns the packet it was given, and its unwraps fail for two
\* kinds of packets only: one with a string or binary value of more than 65535
\* bytes, which write refuses, and a publish with a '#' or a '*' in its topic name.
\* Both can be what a program gives to CloudmqttClient::publish; nothing that the
\* parser accepts from a peer is (short acknowledgements, scattered user
\* properties, unused flags), which handle_action wraps with the same function.
NewKeepsPacket ==
  stage = "made" => /\ panicked <=> NotParsedAgain(packet) \/ HasTooLong(packet)
                    /\ ~panicked => SamePacket(received, packet)

\* binary_size announces exactly the bytes that write produces, as the
\* debug_assert_eq! of encode demands and as the length in the fixed header,
\* which is computed from it, relies on.
SizeIsExact == stage = "made" /\ Written(buffer) => Len(buffer) = MqttPacketSize(packet)

\* No proper prefix of a packet is a packet: a receiver that parses too early
\* gets an error, never a shorter packet.
PrefixesAreRefused ==
  stage = "made" /\ edits = 0 /\ Len(buffer) <= MaxEdited =>
    \A n \in 0..Len(buffer) - 1 : ~IsOk(parse_complete(SubSeq(buffer, 1, n)))
=============================================================================
