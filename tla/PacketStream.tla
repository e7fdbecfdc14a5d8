---------------------------- MODULE PacketStream ----------------------------
(***************************************************************************)
(* What a connection promises to its two ends: the packets that are sent   *)
(* arrive whole, in order and once.  A connection that breaks loses a      *)
(* suffix of them.  A packet that breaks the rules of the wire ends the    *)
(* connection instead of being received.                                    *)
(***************************************************************************)
EXTENDS Sequences, Naturals

CONSTANTS Packets, MaxPackets, Malformed(_)

VARIABLES sent,       \* the packets sent so far
          received,   \* the packets received so far
          end         \* "open", "closed", "broken" (by the network), "failed", "finished"

vars == <<sent, received, end>>

Init == sent = <<>> /\ received = <<>> /\ end = "open"

Send(p) ==
  /\ end = "open" /\ Len(sent) < MaxPackets
  /\ sent' = Append(sent, p)
  /\ UNCHANGED <<received, end>>

Waiting == Len(received) < Len(sent)
NextPacket == sent[Len(received) + 1]

Deliver ==
  /\ end \in {"open", "closed", "broken"}
  /\ Waiting /\ ~Malformed(NextPacket)
  /\ received' = Append(received, NextPacket)
  /\ UNCHANGED <<sent, end>>

Close == end = "open" /\ end' = "closed" /\ UNCHANGED <<sent, received>>
Break == end = "open" /\ end' = "broken" /\ UNCHANGED <<sent, received>>

\* The receiver gives up: only on a malformed packet, or after a break.
Fail ==
  /\ \/ end \in {"open", "closed", "broken"} /\ Waiting /\ Malformed(NextPacket)
     \/ end = "broken" /\ Waiting
  /\ end' = "failed"
  /\ UNCHANGED <<sent, received>>

\* The receiver sees the end of the stream, between two packets.
Finish ==
  /\ (end = "closed" /\ ~Waiting) \/ end = "broken"
  /\ end' = "finished"
  /\ UNCHANGED <<sent, received>>

Receive == Deliver \/ Fail \/ Finish

Next == (\E p \in Packets : Send(p)) \/ Close \/ Break \/ Receive

\* What was sent is received, or the receiver learns that it was not.
Spec == Init /\ [][Next]_vars /\ WF_vars(Receive)
=============================================================================
