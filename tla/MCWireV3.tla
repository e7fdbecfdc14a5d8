------------------------------ MODULE MCWireV3 ------------------------------
EXTENDS WireV3

A == <<97>>
E == <<195, 169>>

Connect(will, username, password) ==
  MPacket("Connect", 0,
    [protocol_name |-> MQTT, protocol_level |-> 4, clean_session |-> TRUE, will |-> will,
     username |-> username, password |-> password, keep_alive |-> 258, client_id |-> E])
Will(qos, retain) ==
  <<[topic |-> A, payload |-> <<0, 255>>, qos |-> qos, retain |-> retain]>>
Requests(topic) == [count |-> 2, data |-> <<0, 1>> \o topic \o <<2, 0, 0, 1>>]
Publish(flags, id) == MPacket("Publish", flags, <<E, id, <<7, 0>>>>)

\* One or more of each packet that can be written.
MCPackets ==
  {Connect(<<>>, u, p) : u, p \in {<<>>, <<A>>}}
    \cup {Connect(Will(q, r), <<A>>, <<A>>) : q \in 1..2, r \in BOOLEAN}
    \cup {MPacket("Connack", 0, <<s, c>>) : s \in 0..1, c \in {0, 5}}
    \cup {Publish(f, <<>>) : f \in {0, 1}} \cup {Publish(f, <<513>>) : f \in {2, 3, 4, 12}}
    \cup {MPacket(t, FixedFlags(t), <<513, <<>>>>) : t \in {"Puback", "Pubrec", "Pubrel", "Pubcomp"}}
    \cup {MPacket("Subscribe", 2, <<1, Requests(A)>>)}
    \cup {MPacket("Suback", 0, <<1, <<c>>>>) : c \in MSubscriptionAck}
    \cup {MPacket(t, 0, <<>>) : t \in {"Pingreq", "Pingresp"}}

\* Packets with each of the defects: lengths of two bytes, a body that
\* starts with a byte of 128 or more, two acks, a will of QoS 0.
MCDefects ==
  {MPacket("Publish", 0, <<A, <<>>, [i \in 1..n |-> 0]>>) : n \in {124, 125, 300}}
    \cup {MPacket(t, FixedFlags(t), <<32768, <<>>>>) : t \in {"Puback", "Pubrel"}}
    \cup {MPacket("Suback", 0, <<1, <<1, 2>>>>), Connect(Will(0, FALSE), <<>>, <<>>)}
MCAllPackets == MCPackets \cup MCDefects
=============================================================================
