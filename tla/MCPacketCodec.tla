---------------------------- MODULE MCPacketCodec ----------------------------
EXTENDS PacketCodec

\* A PINGREQ, a PUBACK whose identifier looks like a first byte, a PUBLISH
\* whose length takes two bytes, and a packet without a type.
MCMessages ==
  {[header |-> 192, body |-> <<>>], [header |-> 64, body |-> <<192, 0>>],
   [header |-> 48, body |-> [i \in 1..128 |-> 192]], [header |-> NoType, body |-> <<>>]}
=============================================================================
