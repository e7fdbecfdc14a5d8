------------------------ MODULE ClientSessionProofs ------------------------
(***************************************************************************)
(* Proofs about ClientSession, for every width of the store, any messages, *)
(* identifiers, times and keep-alives, and any number of faults:           *)
(* SessionInv and what it gives first, then delivery in both directions.   *)
(***************************************************************************)
EXTENDS ClientSession, MqttClientFSMProofs, FiniteSetTheorems, SequenceTheorems

-----------------------------------------------------------------------------
(***************************************************************************)
(* Queues.  Invariants speak about the packets in a queue and how many     *)
(* there are of a kind, never about positions.                             *)
(***************************************************************************)
Packets(queue) == {queue[i] : i \in DOMAIN queue}

\* The indices of the matching packets are finitely many.
LEMMA MatchingFinite ==
    ASSUME NEW S, NEW q \in Seq(S), NEW type, NEW id
    PROVE  /\ IsFiniteSet({i \in DOMAIN q : Matches(q[i], type, id)})
           /\ Count(q, type, id) \in Nat
<1> DEFINE M == {i \in DOMAIN q : Matches(q[i], type, id)}
<1>1. DOMAIN q = 1 .. Len(q) /\ Len(q) \in Nat
    BY LenProperties
<1>2. IsFiniteSet(1 .. Len(q))
    BY <1>1, FS_Interval
<1>3. M \in SUBSET (1 .. Len(q))
    BY <1>1
<1>4. IsFiniteSet(M)
    BY <1>2, <1>3, FS_Subset
<1> QED BY <1>4, FS_CardinalityType DEF Count

\* No packet matches exactly when the count is zero.
LEMMA CountZero ==
    ASSUME NEW S, NEW q \in Seq(S), NEW type, NEW id
    PROVE  Count(q, type, id) = 0 <=> \A p \in Packets(q) : ~Matches(p, type, id)
<1> DEFINE M == {i \in DOMAIN q : Matches(q[i], type, id)}
<1>0. IsFiniteSet(M)
    BY MatchingFinite, Zenon
<1>1. Count(q, type, id) = 0 <=> M = {}
    BY <1>0, FS_EmptySet DEF Count
<1>2. M = {} <=> \A p \in Packets(q) : ~Matches(p, type, id)
    BY DEF Packets
<1> QED BY <1>1, <1>2

\* An empty queue has no packets.
LEMMA EmptyQueue ==
    ASSUME NEW type, NEW id
    PROVE  Packets(<<>>) = {} /\ Count(<<>>, type, id) = 0
<1>1. DOMAIN <<>> = {}
    OBVIOUS
<1>2. {i \in DOMAIN <<>> : Matches(<<>>[i], type, id)} = {}
    BY <1>1
<1> QED BY <1>1, <1>2, FS_EmptySet DEF Packets, Count

\* Sending adds one packet.
LEMMA AppendPackets ==
    ASSUME NEW S, NEW q \in Seq(S), NEW p \in S
    PROVE  /\ Append(q, p) \in Seq(S) /\ Append(q, p) # <<>>
           /\ Packets(Append(q, p)) = Packets(q) \cup {p}
           /\ Head(Append(q, p)) = IF q = <<>> THEN p ELSE Head(q)
<1> DEFINE r == Append(q, p)
<1>1. /\ r \in Seq(S) /\ r # <<>> /\ Len(r) = Len(q) + 1
      /\ \A i \in 1 .. Len(q) : r[i] = q[i]
      /\ r[Len(q) + 1] = p
    BY AppendProperties
<1>2. DOMAIN q = 1 .. Len(q) /\ DOMAIN r = 1 .. Len(q) + 1 /\ Len(q) \in Nat
    BY <1>1, LenProperties
<1>3. DOMAIN r = DOMAIN q \cup {Len(q) + 1}
    BY <1>2
<1>4. Packets(r) = Packets(q) \cup {p}
    BY <1>1, <1>2, <1>3 DEF Packets
<1> QED BY <1>1, <1>4, HeadTailAppend

\* ... and counts for its kind alone.
LEMMA AppendCount ==
    ASSUME NEW S, NEW q \in Seq(S), NEW p \in S, NEW type, NEW id
    PROVE  Count(Append(q, p), type, id) =
               Count(q, type, id) + (IF Matches(p, type, id) THEN 1 ELSE 0)
<1> DEFINE r == Append(q, p)
           M == {i \in DOMAIN q : Matches(q[i], type, id)}
           N == {i \in DOMAIN r : Matches(r[i], type, id)}
<1>0. Count(q, type, id) = Cardinality(M) /\ Count(r, type, id) = Cardinality(N)
    BY Zenon DEF Count
<1>1. /\ r \in Seq(S) /\ Len(r) = Len(q) + 1
      /\ \A i \in 1 .. Len(q) : r[i] = q[i]
      /\ r[Len(q) + 1] = p
    BY AppendProperties
<1>2. DOMAIN q = 1 .. Len(q) /\ DOMAIN r = 1 .. Len(q) + 1 /\ Len(q) \in Nat
    BY <1>1, LenProperties
<1>3. IsFiniteSet(M) /\ Cardinality(M) \in Nat
    BY MatchingFinite, Zenon DEF Count
<1>3a. Len(q) + 1 \notin M
    BY <1>2
<1>4. CASE Matches(p, type, id)
  <2>1. N = M \cup {Len(q) + 1}
      BY <1>1, <1>2, <1>4
  <2> HIDE DEF M, N
  <2>2. Cardinality(N) = Cardinality(M) + 1
      BY <1>3, <1>3a, <2>1, FS_AddElement
  <2> QED BY <1>0, <1>4, <2>2
<1>5. CASE ~Matches(p, type, id)
  <2>1. N = M
      BY <1>1, <1>2, <1>5
  <2> HIDE DEF M, N
  <2> QED BY <1>0, <1>3, <1>5, <2>1
<1> QED BY <1>4, <1>5

\* Receiving takes the first packet away.
LEMMA TailPackets ==
    ASSUME NEW S, NEW q \in Seq(S), q # <<>>
    PROVE  /\ Tail(q) \in Seq(S)
           /\ Packets(Tail(q)) \subseteq Packets(q)
           /\ Head(q) \in Packets(q) /\ Head(q) \in S
<1>1. /\ Head(q) \in S /\ Tail(q) \in Seq(S) /\ Len(Tail(q)) = Len(q) - 1
      /\ \A i \in 1 .. Len(Tail(q)) : Tail(q)[i] = q[i + 1]
    BY HeadTailProperties
<1>2. /\ DOMAIN q = 1 .. Len(q) /\ DOMAIN Tail(q) = 1 .. Len(q) - 1
      /\ Len(q) \in Nat \ {0} /\ Head(q) = q[1]
    BY <1>1, LenProperties, EmptySeq
<1>3. \A i \in DOMAIN Tail(q) : i + 1 \in DOMAIN q
    BY <1>2
<1> QED BY <1>1, <1>2, <1>3 DEF Packets

\* ... and counts for its kind alone.
LEMMA TailCount ==
    ASSUME NEW S, NEW q \in Seq(S), q # <<>>, NEW type, NEW id
    PROVE  Count(q, type, id) =
               Count(Tail(q), type, id) + (IF Matches(Head(q), type, id) THEN 1 ELSE 0)
<1> DEFINE r == Tail(q)
           M == {i \in DOMAIN q : Matches(q[i], type, id)}
           N == {i \in DOMAIN r : Matches(r[i], type, id)}
           shift == [i \in N |-> i + 1]
<1>0. Count(q, type, id) = Cardinality(M) /\ Count(r, type, id) = Cardinality(N)
    BY Zenon DEF Count
<1>1. /\ r \in Seq(S) /\ Len(r) = Len(q) - 1
      /\ \A i \in 1 .. Len(r) : r[i] = q[i + 1]
    BY HeadTailProperties
<1>2. /\ DOMAIN q = 1 .. Len(q) /\ DOMAIN r = 1 .. Len(q) - 1
      /\ Len(q) \in Nat \ {0} /\ Head(q) = q[1]
    BY <1>1, LenProperties, EmptySeq
<1>3. IsFiniteSet(M) /\ IsFiniteSet(N) /\ Cardinality(M) \in Nat /\ Cardinality(N) \in Nat
    BY <1>1, MatchingFinite, Zenon DEF Count
<1>4. shift \in Bijection(N, M \ {1})
  <2>1. \A i \in N : i + 1 \in M \ {1}
      BY <1>1, <1>2
  <2>2. \A j \in M \ {1} : j - 1 \in N /\ j = (j - 1) + 1
      BY <1>1, <1>2
  <2>3. \A i, j \in N : i + 1 = j + 1 => i = j
      BY <1>2
  <2>4. shift \in [N -> M \ {1}]
      BY <2>1
  <2>5. \A j \in M \ {1} : \E i \in N : shift[i] = j
      BY <2>2
  <2>6. \A i, j \in N : shift[i] = shift[j] => i = j
      BY <2>3
  <2> QED BY <2>4, <2>5, <2>6 DEF Bijection, Injection, Surjection, IsInjective
<1>4a. 1 \in M <=> Matches(Head(q), type, id)
    BY <1>2
<1> HIDE DEF M, N, shift
<1>5. Cardinality(M \ {1}) = Cardinality(N)
    BY <1>3, <1>4, FS_Bijection, Zenon DEF ExistsBijection
<1>6. Cardinality(M \ {1}) = IF 1 \in M THEN Cardinality(M) - 1 ELSE Cardinality(M)
    BY <1>3, FS_RemoveElement
<1> QED BY <1>0, <1>3, <1>4a, <1>5, <1>6

-----------------------------------------------------------------------------
(***************************************************************************)
(* The inductive invariant, by parts.                                      *)
(***************************************************************************)
Slots == 1 .. USIZE_BITS

\* What the two queues hold.
StoredPublishes ==
    [type : {"Publish"}, quality_of_service : {"AtLeastOnce"},
     packet_identifier : Slots, message : ClientMessages]
ServerPublishes ==
    [type : {"Publish"}, quality_of_service : {"AtLeastOnce"},
     packet_identifier : ServerIdentifiers, message : ServerMessages]
SessionConnacks ==
    [type : {"Connack"}, reason_code : {"Success"},
     server_keep_alive : KeepAlives \cup {None},
     assigned_client_identifier : ClientIdentifiers \cup {None}]
Requests ==
    ConnectPackets \cup StoredPublishes
    \cup [type : {"Subscribe"}, packet_identifier : Slots]
    \cup [type : {"Puback"}, packet_identifier : ServerIdentifiers]
    \cup [type : {"Pingreq", "Disconnect"}]
Answers ==
    SessionConnacks \cup ServerPublishes
    \cup [type : {"Puback", "Suback"}, packet_identifier : Slots]
    \cup [type : {"Pingresp", "Disconnect"}]

SessionTypeOK ==
    /\ now \in Instants /\ polled \in BOOLEAN /\ sent_at \in Instants
    /\ transport \in {"up", "down"}
    /\ to_server \in Seq(Requests) /\ to_client \in Seq(Answers)
    /\ saved_identifier \in ClientIdentifiers \cup {EmptyIdentifier}
    /\ stored \in [Slots -> ClientMessages \cup {None}]
    /\ resend \subseteq Slots
    /\ published \subseteq ClientMessages
    /\ server_online \in BOOLEAN
    /\ server_inflight \in [ServerIdentifiers -> ServerMessages \cup {None}]
    /\ server_resend \subseteq {id \in ServerIdentifiers : server_inflight[id] # None}

\* The caller presents the identity the machine has seen, so that the
\* assertions of handle_connect hold.
SavedIdentity ==
    client_id_hash # None =>
        saved_identifier # EmptyIdentifier /\ client_id_hash = FxHash[saved_identifier]

\* Without a connection nothing reaches the client; while the machine waits
\* for the CONNACK the CONNECT is on its way, or the CONNACK is the first
\* packet that will arrive, or nothing will; afterwards neither is left.
Handshake ==
    /\ IsDisconnected => transport = "down" /\ to_client = <<>>
    /\ ~IsConnected => resend = {}
    /\ IsConnecting =>
          \/ /\ \E packet \in ConnectPackets : to_server = <<packet>>
             /\ to_client = <<>> /\ transport = "up" /\ ~server_online
          \/ /\ to_server = <<>> /\ to_client # <<>> /\ server_online
             /\ Head(to_client) \in SessionConnacks
             /\ \A packet \in Packets(Tail(to_client)) : packet.type \in {"Publish", "Disconnect"}
          \/ to_server = <<>> /\ to_client = <<>> /\ transport = "down" /\ ~server_online
    /\ ~IsConnecting => /\ Count(to_server, "Connect", None) = 0
                       /\ Count(to_client, "Connack", None) = 0

\* What a publisher or disconnecter relies on while it borrows the machine.
Borrower ==
    /\ handle.kind = "Publisher" /\ handle.state = "Store" =>
          /\ IsConnected /\ InUse # Slots
          /\ handle.packet.quality_of_service = "AtLeastOnce"
          /\ handle.packet.message \in ClientMessages \ published
    /\ handle.kind = "Publisher" /\ handle.state = "Send" =>
          /\ IsConnected /\ handle.packet \in StoredPublishes
          /\ handle.packet.packet_identifier \notin resend
          /\ OnTheWay("Publish", "Puback", handle.packet.packet_identifier) = 0
          /\ stored[handle.packet.packet_identifier] = handle.packet.message
    /\ handle.kind = "Disconnecter" /\ handle.state # "Done" => IsConnected

\* A publish waits to be sent again only if it is kept and not on its way.
Resend ==
    \A id \in resend : stored[id] # None /\ OnTheWay("Publish", "Puback", id) = 0

SessionInv ==
    /\ Inv /\ SessionTypeOK
    /\ NoPanic
    /\ CallerAgreesWithMachine
    /\ WireAgreesWithMachine
    /\ PingAgreesWithMachine
    /\ SavedIdentity /\ Handshake /\ Borrower /\ Resend

-----------------------------------------------------------------------------
(***************************************************************************)
(* The session uses the machine as MqttClientFSM allows, so that what is   *)
(* proved there for every caller and server holds in the session.          *)
(***************************************************************************)
\* The packets of the session are packets of the machine.
LEMMA SessionPackets ==
    /\ Slots \subseteq PacketIdentifiers
    /\ Answers \subseteq IncomingPackets
    /\ Requests \subseteq OutgoingPackets
<1>1. Slots \subseteq PacketIdentifiers
    BY UsizeBitsAssumption DEF Slots, PacketIdentifiers
<1>2. ClientMessages \subseteq Messages /\ ServerMessages \subseteq Messages
    BY SessionAssumption
<1>3. Answers \subseteq IncomingPackets
    BY <1>1, <1>2
       DEF Answers, SessionConnacks, ServerPublishes, IncomingPackets, Connacks,
           IncomingPublishes, QualityOfService
<1>4. Requests \subseteq OutgoingPackets
    BY <1>1, <1>2
       DEF Requests, StoredPublishes, OutgoingPackets, QualityOfService
<1> QED BY <1>1, <1>3, <1>4

\* Every step of the session is a call of the machine or none.
LEMMA SessionStepIsMachineStep ==
    SessionTypeOK /\ [SessionNext]_sessionVars => [Next]_vars
<1> SUFFICES ASSUME SessionTypeOK, [SessionNext]_sessionVars PROVE [Next]_vars
    OBVIOUS
<1>0. now \in Instants
    BY DEF SessionTypeOK
<1>1. CASE ClientConnect
  <2>1. \A ka \in KeepAlives : ConnectPacket(saved_identifier, ka) \in ConnectPackets
      BY DEF SessionTypeOK, ConnectPackets, ConnectPacket
  <2> QED BY <1>0, <1>1, <2>1 DEF ClientConnect, Next
<1>2. CASE ClientPublish
  <2>1. \A m \in ClientMessages : PublishPacket("AtLeastOnce", None, m) \in NewPublishes
      BY SessionAssumption DEF PublishPacket, NewPublishes, QualityOfService
  <2> QED BY <1>2, <2>1 DEF ClientPublish, Next
<1>3. CASE ClientStore \/ ClientSend \/ ClientSubscribe
    BY <1>0, <1>3 DEF ClientStore, ClientSend, ClientSubscribe, Next
<1>4. CASE \E id \in ServerIdentifiers : ClientAcknowledge(id) \/ ClientForgetsAck(id)
    BY <1>0, <1>4 DEF ClientAcknowledge, ClientForgetsAck, Next
<1>5. CASE ClientDisconnect \/ ClientDisconnectPacket \/ ClientDisconnectConnection
           \/ ClientDropHandle
    BY <1>5 DEF ClientDisconnect, ClientDisconnectPacket, ClientDisconnectConnection,
                ClientDropHandle, Next
<1>6. CASE ClientConsume
  <2>1. Head(to_client) \in IncomingPackets
      BY <1>6, TailPackets, SessionPackets DEF ClientConsume, SessionTypeOK
  <2> QED BY <1>0, <1>6, <2>1 DEF ClientConsume, Next
<1>7. CASE ClientNoticesLoss \/ ClientRun
    BY <1>0, <1>7 DEF ClientNoticesLoss, ClientRun, Next
<1>8. CASE \/ Tick \/ TransportBreaks \/ ServerReceive \/ ServerPublish \/ ServerDisconnect
           \/ (\E id \in DOMAIN stored : ClientResend(id))
           \/ (\E id \in ServerIdentifiers : ServerResend(id))
    BY <1>8 DEF Tick, TransportBreaks, ServerReceive, ServerPublish, ServerDisconnect,
                ClientResend, ServerResend
<1>9. CASE UNCHANGED sessionVars
    BY <1>9 DEF sessionVars
<1> QED BY <1>1, <1>2, <1>3, <1>4, <1>5, <1>6, <1>7, <1>8, <1>9 DEF SessionNext, ClientStep

-----------------------------------------------------------------------------
(***************************************************************************)
(* Steps by what they do to the queues.                                    *)
(***************************************************************************)
\* A step that touches nothing but times, bounds, acknowledgements and what
\* the server and the application have.
LEMMA QuietStep ==
    ASSUME SessionInv, Inv', NoPanic', SessionTypeOK',
           UNCHANGED <<client_pis, connection_state, client_id_hash,
                       transport, to_server, to_client, saved_identifier,
                       stored, resend, published, server_online>>,
           UNCHANGED handle \/ Borrower'
    PROVE  SessionInv'
<1>1. InUse' = InUse /\ InUseForPublish' = InUseForPublish
    BY DEF InUse, InUseForPublish
<1>2. \A r, a, id : (OnTheWay(r, a, id))' = OnTheWay(r, a, id)
    BY DEF OnTheWay
<1>3. (IsConnected' <=> IsConnected) /\ (IsConnecting' <=> IsConnecting)
      /\ (IsDisconnected' <=> IsDisconnected)
    BY DEF IsConnected, IsConnecting, IsDisconnected
<1>4. CallerAgreesWithMachine'
    BY <1>1 DEF SessionInv, CallerAgreesWithMachine, NoPanic
<1>5. WireAgreesWithMachine'
    BY <1>1, <1>2, <1>3 DEF SessionInv, WireAgreesWithMachine
<1>6. PingAgreesWithMachine'
    BY <1>2, <1>3 DEF SessionInv, PingAgreesWithMachine
<1>7. SavedIdentity'
    BY DEF SessionInv, SavedIdentity
<1>8. Handshake'
    BY <1>3 DEF SessionInv, Handshake
<1>9. Borrower' /\ Resend'
    BY <1>1, <1>2, <1>3 DEF SessionInv, Borrower, Resend
<1> QED BY <1>4, <1>5, <1>6, <1>7, <1>8, <1>9 DEF SessionInv

\* How many packets are on their way is a number.
LEMMA OnTheWayNat ==
    ASSUME SessionTypeOK
    PROVE  \A r, a, id : /\ Count(to_server, r, id) \in Nat
                         /\ Count(to_client, a, id) \in Nat
                         /\ OnTheWay(r, a, id) \in Nat
                         /\ OnTheWay(r, a, id) = Count(to_server, r, id) + Count(to_client, a, id)
<1> SUFFICES ASSUME NEW r, NEW a, NEW id
             PROVE  /\ Count(to_server, r, id) \in Nat
                    /\ Count(to_client, a, id) \in Nat
                    /\ OnTheWay(r, a, id) \in Nat
                    /\ OnTheWay(r, a, id) = Count(to_server, r, id) + Count(to_client, a, id)
    OBVIOUS
<1>1. Count(to_server, r, id) \in Nat
    BY MatchingFinite, Zenon DEF SessionTypeOK
<1>2. Count(to_client, a, id) \in Nat
    BY MatchingFinite, Zenon DEF SessionTypeOK
<1> QED BY <1>1, <1>2 DEF OnTheWay

\* The client writes a packet: one more is on its way, if the stream is up.
LEMMA ClientWrites ==
    ASSUME SessionTypeOK, NEW p \in Requests,
           to_server' = IF transport = "up" THEN Append(to_server, p) ELSE to_server,
           UNCHANGED to_client
    PROVE  /\ to_server' \in Seq(Requests)
           /\ Packets(to_server') \subseteq Packets(to_server) \cup {p}
           /\ \A r, id : Count(to_server', r, id) = Count(to_server, r, id) +
                            (IF transport = "up" /\ Matches(p, r, id) THEN 1 ELSE 0)
           /\ \A r, a, id : (OnTheWay(r, a, id))' = OnTheWay(r, a, id) +
                                (IF transport = "up" /\ Matches(p, r, id) THEN 1 ELSE 0)
<1>1. CASE transport = "up"
  <2>1. to_server' \in Seq(Requests) /\ Packets(to_server') = Packets(to_server) \cup {p}
      BY <1>1, AppendPackets DEF SessionTypeOK
  <2>2. ASSUME NEW r, NEW id
        PROVE  Count(to_server', r, id) = Count(to_server, r, id) +
                   (IF Matches(p, r, id) THEN 1 ELSE 0)
      BY <1>1, AppendCount, ZenonT(60) DEF SessionTypeOK
  <2>3. ASSUME NEW r, NEW a, NEW id
        PROVE  (OnTheWay(r, a, id))' = OnTheWay(r, a, id) +
                   (IF Matches(p, r, id) THEN 1 ELSE 0)
    <3>1. /\ (OnTheWay(r, a, id))' = Count(to_server', r, id) + Count(to_client, a, id)
          /\ OnTheWay(r, a, id) = Count(to_server, r, id) + Count(to_client, a, id)
        BY DEF OnTheWay
    <3> QED BY <2>2, <3>1, OnTheWayNat
  <2> QED BY <1>1, <2>1, <2>2, <2>3
<1>2. CASE transport # "up"
  <2>1. \A r, a, id : (OnTheWay(r, a, id))' = OnTheWay(r, a, id)
      BY <1>2 DEF OnTheWay
  <2> QED BY <1>2, <2>1, OnTheWayNat DEF SessionTypeOK
<1> QED BY <1>1, <1>2

\* The server reads a packet: one less is on its way.
LEMMA ServerReads ==
    ASSUME SessionTypeOK, to_server # <<>>, to_server' = Tail(to_server)
    PROVE  /\ to_server' \in Seq(Requests)
           /\ Head(to_server) \in Requests /\ Head(to_server) \in Packets(to_server)
           /\ Packets(to_server') \subseteq Packets(to_server)
           /\ \A r, id : /\ Count(to_server', r, id) \in Nat
                         /\ Count(to_server, r, id) = Count(to_server', r, id) +
                               (IF Matches(Head(to_server), r, id) THEN 1 ELSE 0)
<1>1. /\ to_server' \in Seq(Requests)
      /\ Head(to_server) \in Requests /\ Head(to_server) \in Packets(to_server)
      /\ Packets(to_server') \subseteq Packets(to_server)
    BY TailPackets, Zenon DEF SessionTypeOK
<1>2. ASSUME NEW r, NEW id
      PROVE  /\ Count(to_server', r, id) \in Nat
             /\ Count(to_server, r, id) = Count(to_server', r, id) +
                   (IF Matches(Head(to_server), r, id) THEN 1 ELSE 0)
  <2>1. Count(to_server', r, id) \in Nat
      BY <1>1, MatchingFinite, Zenon
  <2> QED BY <2>1, TailCount, Zenon DEF SessionTypeOK
<1> QED BY <1>1, <1>2

\* The server writes a packet: one more is on its way, if the stream is up.
LEMMA ServerWrites ==
    ASSUME SessionTypeOK, NEW p \in Answers, Reply(p)
    PROVE  /\ to_client' \in Seq(Answers)
           /\ Packets(to_client') \subseteq Packets(to_client) \cup {p}
           /\ \A a, id : Count(to_client', a, id) = Count(to_client, a, id) +
                            (IF transport = "up" /\ Matches(p, a, id) THEN 1 ELSE 0)
<1>1. CASE transport = "up"
  <2>1. to_client' = Append(to_client, p)
      BY <1>1 DEF Reply
  <2>2. to_client' \in Seq(Answers) /\ Packets(to_client') = Packets(to_client) \cup {p}
      BY <2>1, AppendPackets DEF SessionTypeOK
  <2>3. ASSUME NEW a, NEW id
        PROVE  Count(to_client', a, id) = Count(to_client, a, id) +
                   (IF Matches(p, a, id) THEN 1 ELSE 0)
      BY <2>1, AppendCount, ZenonT(60) DEF SessionTypeOK
  <2> QED BY <1>1, <2>2, <2>3
<1>2. CASE transport # "up"
  <2>1. to_client' = to_client
      BY <1>2 DEF Reply
  <2> QED BY <1>2, <2>1, OnTheWayNat DEF SessionTypeOK
<1> QED BY <1>1, <1>2

\* The client reads a packet: one less is on its way.
LEMMA ClientReads ==
    ASSUME SessionTypeOK, to_client # <<>>, to_client' = Tail(to_client)
    PROVE  /\ to_client' \in Seq(Answers)
           /\ Head(to_client) \in Answers /\ Head(to_client) \in Packets(to_client)
           /\ Packets(to_client') \subseteq Packets(to_client)
           /\ \A a, id : /\ Count(to_client', a, id) \in Nat
                         /\ Count(to_client, a, id) = Count(to_client', a, id) +
                               (IF Matches(Head(to_client), a, id) THEN 1 ELSE 0)
<1>1. /\ to_client' \in Seq(Answers)
      /\ Head(to_client) \in Answers /\ Head(to_client) \in Packets(to_client)
      /\ Packets(to_client') \subseteq Packets(to_client)
    BY TailPackets, Zenon DEF SessionTypeOK
<1>2. ASSUME NEW a, NEW id
      PROVE  /\ Count(to_client', a, id) \in Nat
             /\ Count(to_client, a, id) = Count(to_client', a, id) +
                   (IF Matches(Head(to_client), a, id) THEN 1 ELSE 0)
  <2>1. Count(to_client', a, id) \in Nat
      BY <1>1, MatchingFinite, Zenon
  <2> QED BY <2>1, TailCount, Zenon DEF SessionTypeOK
<1> QED BY <1>1, <1>2

\* An emptied queue is a queue in which nothing is on its way.
LEMMA QueueCleared ==
    /\ <<>> \in Seq(Requests) /\ <<>> \in Seq(Answers)
    /\ Packets(<<>>) = {} /\ \A type, id : Count(<<>>, type, id) = 0
BY EmptyQueue

\* The facts about the machine that the session relies on.
LEMMA MachineFacts ==
    ASSUME Inv
    PROVE  /\ TypeOK /\ StoreOK
           /\ connection_state \in ConnectionStates /\ handle \in Handles
           /\ InUse \subseteq Slots /\ InUseForPublish \subseteq InUse
BY InUseInRange DEF Inv, TypeOK, StoreOK, Slots

\* A connected machine writes a packet of no kind that the server answers
\* with a CONNACK or a PINGRESP.
LEMMA WriteStep ==
    ASSUME SessionInv, SessionTypeOK', Inv', IsConnected, IsConnected',
           connection_state'.ping_state = connection_state.ping_state,
           NEW p \in Requests, p.type \notin {"Connect", "Pingreq"},
           to_server' = IF transport = "up" THEN Append(to_server, p) ELSE to_server,
           UNCHANGED <<to_client, transport, server_online, saved_identifier, client_id_hash>>
    PROVE  SavedIdentity' /\ Handshake' /\ PingAgreesWithMachine'
<1>0. SessionTypeOK /\ Inv
    BY DEF SessionInv
<1>1. SavedIdentity'
    BY DEF SessionInv, SavedIdentity
<1>2. ~Matches(p, "Connect", None) /\ ~Matches(p, "Pingreq", None)
    BY DEF Matches
<1>3. /\ Count(to_server', "Connect", None) = Count(to_server, "Connect", None)
      /\ (OnTheWay("Pingreq", "Pingresp", None))' = OnTheWay("Pingreq", "Pingresp", None)
  <2>1. /\ \A r, id : Count(to_server', r, id) = Count(to_server, r, id) +
                         (IF transport = "up" /\ Matches(p, r, id) THEN 1 ELSE 0)
        /\ \A r, a, id : (OnTheWay(r, a, id))' = OnTheWay(r, a, id) +
                             (IF transport = "up" /\ Matches(p, r, id) THEN 1 ELSE 0)
      BY <1>0, ClientWrites, Zenon
  <2>2. /\ Count(to_server', "Connect", None) = Count(to_server, "Connect", None) + 0
        /\ (OnTheWay("Pingreq", "Pingresp", None))' = OnTheWay("Pingreq", "Pingresp", None) + 0
      BY <1>2, <2>1, Zenon
  <2>3. Count(to_server, "Connect", None) \in Nat /\ OnTheWay("Pingreq", "Pingresp", None) \in Nat
      BY <1>0, OnTheWayNat, Zenon
  <2> QED BY <2>2, <2>3
<1>4. /\ ~IsConnecting /\ ~IsConnecting' /\ ~IsDisconnected'
    BY DEF IsConnected, IsConnecting, IsDisconnected
<1>5. Handshake'
    BY <1>3, <1>4 DEF SessionInv, Handshake
<1>6. PingAgreesWithMachine'
    BY <1>3 DEF SessionInv, PingAgreesWithMachine
<1> QED BY <1>1, <1>5, <1>6

\* The connection ends and nothing borrows the machine any more.
LEMMA ConnectionEnds ==
    ASSUME SessionInv, Inv', NoPanic', SessionTypeOK',
           connection_state' = Disconnected,
           InUseForPublish' = InUseForPublish,
           Count(to_server, "Connect", None) = 0,
           to_client' = <<>>, transport' = "down", resend' = {},
           handle' \in {NoHandle, Disconnecter("Done")},
           UNCHANGED <<to_server, stored, client_id_hash, saved_identifier>>
    PROVE  SessionInv'
<1>0. SessionTypeOK
    BY DEF SessionInv
<1>1. ~IsConnected' /\ ~IsConnecting' /\ IsDisconnected'
    BY DEF Disconnected, IsConnected, IsConnecting, IsDisconnected
<1>2. CallerAgreesWithMachine'
    BY DEF SessionInv, CallerAgreesWithMachine, NoPanic
<1>3. WireAgreesWithMachine' /\ Resend'
    BY <1>1 DEF WireAgreesWithMachine, Resend
<1>4. PingAgreesWithMachine'
  <2>1. OnTheWay("Pingreq", "Pingresp", None) <= 1
      BY DEF SessionInv, PingAgreesWithMachine
  <2>2. (OnTheWay("Pingreq", "Pingresp", None))' = Count(to_server, "Pingreq", None) + 0
      BY QueueCleared DEF OnTheWay
  <2>3. (OnTheWay("Pingreq", "Pingresp", None))' <= 1
      BY <1>0, <2>1, <2>2, OnTheWayNat
  <2> QED BY <1>1, <2>3 DEF PingAgreesWithMachine
<1>5. SavedIdentity'
    BY DEF SessionInv, SavedIdentity
<1>6. Handshake'
    BY <1>1, QueueCleared DEF Handshake
<1>7. Borrower'
    BY DEF Borrower, NoHandle, Disconnecter
<1> QED BY <1>2, <1>3, <1>4, <1>5, <1>6, <1>7 DEF SessionInv

-----------------------------------------------------------------------------
(***************************************************************************)
(* One lemma per action of the caller.                                     *)
(***************************************************************************)
\* A queue with one packet.
LEMMA SingleQueue ==
    ASSUME NEW p \in Requests
    PROVE  /\ <<p>> \in Seq(Requests)
           /\ \A type, id : Count(<<p>>, type, id) = IF Matches(p, type, id) THEN 1 ELSE 0
<1>1. <<p>> = Append(<<>>, p) /\ <<p>> \in Seq(Requests) /\ <<>> \in Seq(Requests)
    OBVIOUS
<1>2. ASSUME NEW type, NEW id
      PROVE  Count(<<p>>, type, id) = IF Matches(p, type, id) THEN 1 ELSE 0
  <2>1. Count(<<>>, type, id) = 0
      BY QueueCleared
  <2>2. ASSUME NEW q \in Seq(Requests)
        PROVE  Count(Append(q, p), type, id) =
                   Count(q, type, id) + (IF Matches(p, type, id) THEN 1 ELSE 0)
      BY AppendCount, ZenonT(60)
  <2>3. Count(Append(<<>>, p), type, id) =
            Count(<<>>, type, id) + (IF Matches(p, type, id) THEN 1 ELSE 0)
      BY <1>1, <2>2, Zenon
  <2> QED BY <1>1, <2>1, <2>3
<1> QED BY <1>1, <1>2

\* The CONNECT presents the known identity: handle_connect does not panic.
LEMMA ClientConnectInv == SessionInv /\ Inv' /\ ClientConnect => SessionInv'
<1> SUFFICES ASSUME SessionInv, Inv', ClientConnect PROVE SessionInv'
    OBVIOUS
<1>0. SessionTypeOK /\ Inv /\ Idle /\ IsDisconnected /\ connection_state = Disconnected
    BY MachineFacts, ConnectionStateShape DEF SessionInv, ClientConnect, handle_connect
<1>1. PICK ka \in KeepAlives :
          /\ handle_connect(now, ConnectPacket(saved_identifier, ka))
          /\ to_server' = <<ConnectPacket(saved_identifier, ka)>>
    BY DEF ClientConnect
<1> DEFINE p == ConnectPacket(saved_identifier, ka)
           hash == IF saved_identifier = EmptyIdentifier THEN None ELSE FxHash[saved_identifier]
<1>2. /\ p \in ConnectPackets /\ p \in Requests
      /\ p.client_identifier = saved_identifier /\ p.type = "Connect"
    BY <1>0 DEF SessionTypeOK, ConnectPackets, ConnectPacket, Requests
<1>3. SameIdentity(hash)
    BY DEF SameIdentity, SessionInv, SavedIdentity
<1>4. /\ client_id_hash' = hash /\ connection_state' = ConnectingWithoutAuth(now)
      /\ panic' = NotPanicked
      /\ UNCHANGED <<client_pis, handle>>
    BY <1>0, <1>1, <1>2, <1>3 DEF handle_connect, Returns
<1>5. /\ transport' = "up" /\ to_client' = <<>> /\ to_server' = <<p>>
      /\ server_online' = FALSE /\ sent_at' = now /\ polled' = FALSE
      /\ UNCHANGED <<now, saved_identifier, stored, resend, published,
                     server_inflight, server_resend>>
    BY <1>1 DEF ClientConnect, caller
<1>6. ~IsConnected' /\ IsConnecting' /\ ~IsDisconnected' /\ resend = {} /\ ~IsConnected
    BY <1>0, <1>4
       DEF ConnectingWithoutAuth, Disconnected, IsConnected, IsConnecting, IsDisconnected,
           SessionInv, Handshake
<1>7. SessionTypeOK'
    BY <1>0, <1>2, <1>5, SingleQueue, QueueCleared DEF SessionTypeOK
<1>8. NoPanic' /\ CallerAgreesWithMachine'
    BY <1>4, <1>5
       DEF SessionInv, NoPanic, CallerAgreesWithMachine, InUseForPublish
<1>9. WireAgreesWithMachine' /\ Resend'
    BY <1>5, <1>6 DEF WireAgreesWithMachine, Resend
<1>10. PingAgreesWithMachine'
  <2>1. ~Matches(p, "Pingreq", None)
      BY <1>2 DEF Matches
  <2>2. (OnTheWay("Pingreq", "Pingresp", None))' = 0 + 0
      BY <1>2, <1>5, <2>1, SingleQueue, QueueCleared, Zenon DEF OnTheWay
  <2> QED BY <1>6, <2>2 DEF PingAgreesWithMachine
<1>11. SavedIdentity'
    BY <1>4, <1>5 DEF SavedIdentity
<1>12. Handshake'
    BY <1>2, <1>5, <1>6 DEF Handshake
<1>13. Borrower'
    BY <1>0, <1>4 DEF Borrower, Idle, NoHandle
<1> QED BY <1>7, <1>8, <1>9, <1>10, <1>11, <1>12, <1>13 DEF SessionInv

\* The store is full exactly when every slot is in use.
LEMMA FreeIdentifier == Inv /\ HasFreeIdentifier => InUse # Slots
<1> SUFFICES ASSUME InUse = Slots PROVE ~(Cardinality(InUse) < USIZE_BITS)
    BY DEF HasFreeIdentifier
<1>1. Cardinality(Slots) = USIZE_BITS
    BY UsizeBitsAssumption, FS_Interval DEF Slots
<1> QED BY <1>1, UsizeBitsAssumption

\* A call that sends nothing leaves the wire alone.
LEMMA TransmitNothing ==
    ASSUME Transmit, action'.do # "SendPacket"
    PROVE  UNCHANGED <<to_server, to_client, transport, now, sent_at>> /\ polled' = FALSE
BY DEF Transmit

\* publish is called with an identifier to spare.
LEMMA ClientPublishInv == SessionInv /\ Inv' /\ ClientPublish => SessionInv'
<1> SUFFICES ASSUME SessionInv, Inv', ClientPublish PROVE SessionInv'
    OBVIOUS
<1>0. SessionTypeOK /\ Inv /\ IsConnected
    BY DEF SessionInv, ClientPublish
<1>1. PICK m \in ClientMessages \ published : publish(PublishPacket("AtLeastOnce", None, m))
    BY DEF ClientPublish
<1> DEFINE p == PublishPacket("AtLeastOnce", None, m)
<1>2. p.quality_of_service = "AtLeastOnce" /\ p.message = m
    BY DEF PublishPacket
<1>3. /\ handle' = Publisher("Store", p)
      /\ action' = NoAction /\ panic' = NotPanicked
      /\ UNCHANGED <<client_id_hash, connection_state, client_pis>>
    BY <1>1, <1>2 DEF publish, Returns, data
<1>4. /\ UNCHANGED <<to_server, to_client, transport, now, sent_at>> /\ polled' = FALSE
      /\ UNCHANGED <<saved_identifier, stored, resend, published, server_online,
                     server_inflight, server_resend>>
    BY <1>3, TransmitNothing DEF ClientPublish, caller, server, NoAction
<1>5. SessionTypeOK' /\ NoPanic'
    BY <1>0, <1>3, <1>4 DEF SessionTypeOK, NoPanic
<1>6. InUse' # Slots /\ IsConnected'
    BY <1>0, <1>3, FreeIdentifier DEF ClientPublish, InUse, IsConnected
<1>7. Borrower'
    BY <1>2, <1>3, <1>4, <1>6 DEF Borrower, Publisher
<1> QED BY <1>3, <1>4, <1>5, <1>7, QuietStep

\* publish stores the packet under an identifier that was free: nothing of it
\* is kept, waits to be sent again or is on its way.
LEMMA ClientStoreInv == SessionInv /\ Inv' /\ ClientStore => SessionInv'
<1> SUFFICES ASSUME SessionInv, Inv', ClientStore PROVE SessionInv'
    OBVIOUS
<1>0. /\ SessionTypeOK /\ Inv /\ StoreOK /\ handle \in Handles
      /\ handle.kind = "Publisher" /\ handle.state = "Store" /\ panic = NotPanicked
    BY MachineFacts DEF SessionInv, ClientStore, PublisherStore
<1>1. /\ IsConnected /\ InUse # Slots
      /\ handle.packet.quality_of_service = "AtLeastOnce"
      /\ handle.packet.message \in ClientMessages \ published
    BY <1>0 DEF SessionInv, Borrower
<1>2. PICK id \in PacketIdentifiers \cup {None} :
        /\ GetNextFree("Publish", id)
        /\ \/ id = None /\ Panics("publish") /\ UNCHANGED handle
           \/ /\ id # None
              /\ handle' = Publisher("Send", [handle.packet EXCEPT !.packet_identifier = id])
              /\ Returns(StorePacket(id))
    BY DEF ClientStore, PublisherStore
<1>3. id # None
    BY <1>0, <1>1, <1>2, GetNextFreeNone DEF PacketIdentifierUsage, Slots
<1>4. /\ id \notin InUse /\ InUse' = InUse \cup {id}
      /\ InUseForPublish' = InUseForPublish \cup {id}
    BY <1>0, <1>2, <1>3, GetNextFreeSome DEF PacketIdentifierUsage
<1>5. id \in Slots /\ id \in Int /\ id \notin InUseForPublish
  <2>1. id \in Slots
      BY <1>2, <1>3, UsizeBitsAssumption DEF GetNextFree, IsNextFree, BitIndices, Slots
  <2> QED BY <1>0, <1>4, <2>1, InUseInRange DEF Slots
<1> DEFINE p == [handle.packet EXCEPT !.packet_identifier = id]
<1>6. handle.packet \in NewPublishes
    BY <1>0, PublisherPacket
<1>7. p \in StoredPublishes /\ p.packet_identifier = id /\ p.message = handle.packet.message
    BY <1>1, <1>5, <1>6 DEF NewPublishes, StoredPublishes
<1>8. /\ handle' = Publisher("Send", p) /\ panic' = NotPanicked
      /\ action' = StorePacket(id) /\ action'.do = "StorePacket" /\ action'.id = id
      /\ action' # NoAction
      /\ UNCHANGED <<client_id_hash, connection_state>>
    BY <1>2, <1>3 DEF Returns, StorePacket, NoAction, ClientStore, PublisherStore, data
<1>9. /\ UNCHANGED <<to_server, to_client, transport, now, sent_at>> /\ polled' = FALSE
      /\ UNCHANGED <<server_online, server_inflight, server_resend>>
    BY <1>8, TransmitNothing DEF ClientStore, server
<1>10. /\ stored' = [stored EXCEPT ![id] = handle.packet.message]
       /\ published' = published \cup {handle.packet.message}
       /\ UNCHANGED <<saved_identifier, resend>>
    BY <1>8 DEF ClientStore
<1>11. handle.packet.message # None
    BY <1>1, SessionAssumption
<1>12. SessionTypeOK'
    BY <1>0, <1>1, <1>5, <1>9, <1>10 DEF SessionTypeOK
<1>13. {i \in DOMAIN stored : stored[i] # None} = InUseForPublish
    BY <1>0 DEF SessionInv, CallerAgreesWithMachine
<1>14. CallerAgreesWithMachine'
    BY <1>0, <1>4, <1>5, <1>10, <1>11, <1>13 DEF CallerAgreesWithMachine, SessionTypeOK
<1>15. id \notin resend /\ OnTheWay("Publish", "Puback", id) = 0
       /\ OnTheWay("Subscribe", "Suback", id) = 0
  <2>1. id \notin resend
      BY <1>0, <1>5, <1>13 DEF SessionInv, Resend, SessionTypeOK
  <2>2. /\ OnTheWay("Publish", "Puback", id) \in Nat
        /\ OnTheWay("Subscribe", "Suback", id) \in Nat
      BY <1>0, OnTheWayNat, Zenon
  <2>3. /\ OnTheWay("Publish", "Puback", id) <= 1
        /\ OnTheWay("Subscribe", "Suback", id) <= 1
        /\ OnTheWay("Publish", "Puback", id) # 1
        /\ OnTheWay("Subscribe", "Suback", id) # 1
      BY <1>1, <1>4, <1>5 DEF SessionInv, WireAgreesWithMachine, Slots
  <2> QED BY <2>1, <2>2, <2>3
<1>16. /\ \A r, a, i : (OnTheWay(r, a, i))' = OnTheWay(r, a, i)
       /\ (IsConnected' <=> IsConnected) /\ (IsConnecting' <=> IsConnecting)
       /\ (IsDisconnected' <=> IsDisconnected)
    BY <1>8, <1>9 DEF OnTheWay, IsConnected, IsConnecting, IsDisconnected
<1>17. WireAgreesWithMachine'
    BY <1>1, <1>4, <1>5, <1>15, <1>16 DEF SessionInv, WireAgreesWithMachine
<1>18. PingAgreesWithMachine'
    BY <1>8, <1>9, <1>16 DEF SessionInv, PingAgreesWithMachine
<1>19. SavedIdentity' /\ Handshake'
    BY <1>8, <1>9, <1>10, <1>16 DEF SessionInv, SavedIdentity, Handshake
<1>20. Borrower'
  <2>1. handle'.kind = "Publisher" /\ handle'.state = "Send" /\ handle'.packet = p
      BY <1>8 DEF Publisher
  <2>2. stored'[id] = p.message
      BY <1>0, <1>5, <1>7, <1>10 DEF SessionTypeOK
  <2>3. IsConnected' /\ id \notin resend' /\ (OnTheWay("Publish", "Puback", id))' = 0
      BY <1>1, <1>10, <1>15, <1>16
  <2> QED BY <1>7, <2>1, <2>2, <2>3 DEF Borrower
<1>21. Resend'
    BY <1>0, <1>10, <1>15, <1>16 DEF SessionInv, Resend, SessionTypeOK
<1> QED BY <1>8, <1>12, <1>14, <1>17, <1>18, <1>19, <1>20, <1>21 DEF SessionInv, NoPanic

\* A connected machine that is asked to send does so.
LEMMA ConnectedSends ==
    ASSUME IsConnected, NEW t, NEW packet, NEW site, NEW expects,
           inner_run_PublishPacket(t, packet, site, expects)
    PROVE  /\ connection_state' = Connected(t, connection_state.ping_state)
           /\ IsConnected' /\ connection_state'.ping_state = connection_state.ping_state
           /\ connection_state'.last_time_sent = t
           /\ action' = SendPacket(packet) /\ panic' = NotPanicked
           /\ action'.do = "SendPacket" /\ action'.packet = packet
<1>1. /\ connection_state' = Connected(t, connection_state.ping_state)
      /\ Returns(SendPacket(packet))
    BY DEF inner_run_PublishPacket, IsConnected, IsConnecting, IsDisconnected
<1> QED BY <1>1 DEF Connected, IsConnected, Returns, SendPacket

\* The caller performs a SendPacket.
LEMMA TransmitPacket ==
    ASSUME Transmit, NEW packet, action'.do = "SendPacket", action'.packet = packet
    PROVE  /\ to_server' = IF transport = "up" THEN Append(to_server, packet) ELSE to_server
           /\ sent_at' = now /\ polled' = FALSE
           /\ UNCHANGED <<now, transport, to_client>>
BY DEF Transmit

\* What the write of a packet means for the identifier of a slot.
LEMMA WriteForSlot ==
    ASSUME SessionTypeOK, NEW p \in Requests, NEW id \in Slots,
           to_server' = IF transport = "up" THEN Append(to_server, p) ELSE to_server,
           UNCHANGED to_client
    PROVE  /\ (OnTheWay("Publish", "Puback", id))' =
                  IF transport = "up" /\ p.type = "Publish" /\ p.packet_identifier = id
                  THEN OnTheWay("Publish", "Puback", id) + 1
                  ELSE OnTheWay("Publish", "Puback", id)
           /\ (OnTheWay("Subscribe", "Suback", id))' =
                  IF transport = "up" /\ p.type = "Subscribe" /\ p.packet_identifier = id
                  THEN OnTheWay("Subscribe", "Suback", id) + 1
                  ELSE OnTheWay("Subscribe", "Suback", id)
           /\ OnTheWay("Publish", "Puback", id) \in Nat
           /\ OnTheWay("Subscribe", "Suback", id) \in Nat
<1>1. id # None
    BY NoneAssumption DEF Slots
<1>2. /\ OnTheWay("Publish", "Puback", id) \in Nat
      /\ OnTheWay("Subscribe", "Suback", id) \in Nat
    BY OnTheWayNat, Zenon
<1>3. \A r, a, i : (OnTheWay(r, a, i))' = OnTheWay(r, a, i) +
                     (IF transport = "up" /\ Matches(p, r, i) THEN 1 ELSE 0)
    BY ClientWrites, Zenon
<1>4. /\ (OnTheWay("Publish", "Puback", id))' = OnTheWay("Publish", "Puback", id) +
            (IF transport = "up" /\ Matches(p, "Publish", id) THEN 1 ELSE 0)
      /\ (OnTheWay("Subscribe", "Suback", id))' = OnTheWay("Subscribe", "Suback", id) +
            (IF transport = "up" /\ Matches(p, "Subscribe", id) THEN 1 ELSE 0)
    BY <1>3, Zenon
<1> QED BY <1>1, <1>2, <1>4 DEF Matches

\* A packet without an identifier of the store is written.
LEMMA WritePlain ==
    ASSUME SessionInv, SessionTypeOK', Inv', NoPanic', Borrower', IsConnected, IsConnected',
           connection_state'.ping_state = connection_state.ping_state,
           NEW p \in Requests, p.type \in {"Puback", "Disconnect"},
           to_server' = IF transport = "up" THEN Append(to_server, p) ELSE to_server,
           UNCHANGED <<to_client, transport, server_online, saved_identifier, client_id_hash,
                       client_pis, stored, resend>>
    PROVE  SessionInv'
<1>0. SessionTypeOK
    BY DEF SessionInv
<1>1. SavedIdentity' /\ Handshake' /\ PingAgreesWithMachine'
    BY WriteStep
<1>2. InUse' = InUse /\ InUseForPublish' = InUseForPublish
    BY DEF InUse, InUseForPublish
<1>3. ASSUME NEW id \in Slots
      PROVE  /\ (OnTheWay("Publish", "Puback", id))' = OnTheWay("Publish", "Puback", id)
             /\ (OnTheWay("Subscribe", "Suback", id))' = OnTheWay("Subscribe", "Suback", id)
    BY <1>0, WriteForSlot
<1>4. CallerAgreesWithMachine'
    BY <1>2 DEF SessionInv, CallerAgreesWithMachine, NoPanic
<1>5. WireAgreesWithMachine'
    BY <1>2, <1>3 DEF SessionInv, WireAgreesWithMachine, Slots
<1>6. Resend'
    BY <1>0, <1>3 DEF SessionInv, Resend, SessionTypeOK
<1> QED BY <1>1, <1>4, <1>5, <1>6 DEF SessionInv

\* A publish that the caller keeps is written, now or on a later connection:
\* it was not on its way.
LEMMA WritePublish ==
    ASSUME SessionInv, SessionTypeOK', Inv', NoPanic', Borrower', IsConnected, IsConnected',
           connection_state'.ping_state = connection_state.ping_state,
           NEW p \in StoredPublishes,
           stored[p.packet_identifier] # None,
           OnTheWay("Publish", "Puback", p.packet_identifier) = 0,
           to_server' = IF transport = "up" THEN Append(to_server, p) ELSE to_server,
           UNCHANGED <<to_client, transport, server_online, saved_identifier, client_id_hash,
                       client_pis, stored>>,
           resend' = resend \ {p.packet_identifier}
    PROVE  SessionInv'
<1>0. SessionTypeOK /\ p \in Requests /\ p.type = "Publish" /\ p.packet_identifier \in Slots
    BY DEF SessionInv, Requests, StoredPublishes
<1>1. SavedIdentity' /\ Handshake' /\ PingAgreesWithMachine'
    BY <1>0, WriteStep
<1>2. InUse' = InUse /\ InUseForPublish' = InUseForPublish
    BY DEF InUse, InUseForPublish
<1>3. p.packet_identifier \in InUseForPublish
    BY <1>0 DEF SessionInv, CallerAgreesWithMachine, NoPanic, SessionTypeOK
<1>4. ASSUME NEW id \in Slots
      PROVE  /\ (OnTheWay("Publish", "Puback", id))' =
                    IF transport = "up" /\ id = p.packet_identifier THEN 1
                    ELSE OnTheWay("Publish", "Puback", id)
             /\ (OnTheWay("Subscribe", "Suback", id))' = OnTheWay("Subscribe", "Suback", id)
    BY <1>0, WriteForSlot
<1>5. CallerAgreesWithMachine'
    BY <1>2 DEF SessionInv, CallerAgreesWithMachine, NoPanic
<1>6. WireAgreesWithMachine'
  <2> SUFFICES ASSUME NEW id \in Slots
               PROVE  (/\ OnTheWay("Publish", "Puback", id) <= 1
                       /\ OnTheWay("Subscribe", "Suback", id) <= 1
                       /\ OnTheWay("Publish", "Puback", id) = 1 => id \in InUseForPublish
                       /\ OnTheWay("Subscribe", "Suback", id) = 1 => id \in InUse \ InUseForPublish)'
      BY DEF WireAgreesWithMachine, Slots
  <2>1. /\ OnTheWay("Publish", "Puback", id) <= 1
        /\ OnTheWay("Subscribe", "Suback", id) <= 1
        /\ OnTheWay("Publish", "Puback", id) = 1 => id \in InUseForPublish
        /\ OnTheWay("Subscribe", "Suback", id) = 1 => id \in InUse \ InUseForPublish
      BY DEF SessionInv, WireAgreesWithMachine, Slots
  <2> QED BY <1>2, <1>3, <1>4, <2>1
<1>7. Resend'
    BY <1>0, <1>4 DEF SessionInv, Resend, SessionTypeOK
<1> QED BY <1>1, <1>5, <1>6, <1>7 DEF SessionInv

\* PublisherSend writes the stored publish.
LEMMA ClientSendInv == SessionInv /\ Inv' /\ ClientSend => SessionInv'
<1> SUFFICES ASSUME SessionInv, Inv', ClientSend PROVE SessionInv'
    OBVIOUS
<1> DEFINE p == handle.packet
<1>0. /\ SessionTypeOK /\ Inv
      /\ handle.kind = "Publisher" /\ handle.state = "Send"
    BY DEF SessionInv, ClientSend, PublisherSend
<1>1. /\ IsConnected /\ p \in StoredPublishes /\ p.packet_identifier \notin resend
      /\ OnTheWay("Publish", "Puback", p.packet_identifier) = 0
      /\ stored[p.packet_identifier] = p.message
    BY <1>0 DEF SessionInv, Borrower
<1>2. p.message # None /\ p \in Requests
    BY <1>1, SessionAssumption DEF StoredPublishes, Requests
<1>3. /\ inner_run_PublishPacket(now, p, "publish", FALSE)
      /\ handle' = Publisher("Done", None)
      /\ UNCHANGED <<client_id_hash, client_pis>>
    BY DEF ClientSend, PublisherSend
<1>4. /\ IsConnected' /\ connection_state'.ping_state = connection_state.ping_state
      /\ action'.do = "SendPacket" /\ action'.packet = p /\ panic' = NotPanicked
    BY <1>1, <1>3, ConnectedSends
<1>5. /\ to_server' = IF transport = "up" THEN Append(to_server, p) ELSE to_server
      /\ sent_at' = now /\ polled' = FALSE
      /\ UNCHANGED <<now, transport, to_client>>
    BY <1>4, TransmitPacket DEF ClientSend
<1>6. UNCHANGED <<saved_identifier, stored, resend, published, server_online,
                  server_inflight, server_resend>>
    BY DEF ClientSend, caller, server
<1>7. to_server' \in Seq(Requests)
    BY <1>0, <1>2, <1>5, ClientWrites, Zenon
<1>8. SessionTypeOK' /\ NoPanic'
    BY <1>0, <1>4, <1>5, <1>6, <1>7 DEF SessionTypeOK, NoPanic
<1>9. Borrower'
    BY <1>3 DEF Borrower, Publisher
<1>10. resend' = resend \ {p.packet_identifier}
    BY <1>1, <1>6
<1> QED BY <1>1, <1>2, <1>3, <1>4, <1>5, <1>6, <1>8, <1>9, <1>10, WritePublish

\* A publish of an earlier connection is written again.
LEMMA ClientResendInv ==
    ASSUME SessionInv, Inv', NEW id \in DOMAIN stored, ClientResend(id)
    PROVE  SessionInv'
<1> DEFINE p == PublishPacket("AtLeastOnce", id, stored[id])
<1>0. /\ SessionTypeOK /\ Inv /\ IsConnected /\ handle = NoHandle /\ panic = NotPanicked
      /\ id \in resend /\ id \in Slots
    BY DEF SessionInv, ClientResend, Idle, SessionTypeOK
<1>1. stored[id] # None /\ OnTheWay("Publish", "Puback", id) = 0
    BY <1>0 DEF SessionInv, Resend
<1>2. p \in StoredPublishes /\ p.packet_identifier = id /\ p \in Requests
    BY <1>0, <1>1 DEF SessionTypeOK, PublishPacket, StoredPublishes, Requests
<1>3. /\ to_server' = IF transport = "up" THEN Append(to_server, p) ELSE to_server
      /\ resend' = resend \ {id}
      /\ UNCHANGED <<client_pis, connection_state, handle, panic, client_id_hash>>
      /\ UNCHANGED <<now, polled, sent_at, transport, to_client, saved_identifier, stored,
                     published, server_online, server_inflight, server_resend>>
    BY DEF ClientResend, vars, data, clock, server
<1>4. to_server' \in Seq(Requests)
    BY <1>0, <1>2, <1>3, ClientWrites, Zenon
<1>5. SessionTypeOK' /\ NoPanic'
    BY <1>0, <1>3, <1>4 DEF SessionTypeOK, NoPanic
<1>6. Borrower' /\ IsConnected'
    BY <1>0, <1>3 DEF Borrower, NoHandle, IsConnected
<1> QED BY <1>0, <1>1, <1>2, <1>3, <1>5, <1>6, WritePublish

\* subscribe takes an identifier that was free and not on its way.
LEMMA ClientSubscribeInv == SessionInv /\ Inv' /\ ClientSubscribe => SessionInv'
<1> SUFFICES ASSUME SessionInv, Inv', ClientSubscribe PROVE SessionInv'
    OBVIOUS
<1>0. /\ SessionTypeOK /\ Inv /\ StoreOK /\ IsConnected /\ handle = NoHandle
      /\ InUse # Slots /\ panic = NotPanicked
    BY MachineFacts, FreeIdentifier DEF SessionInv, ClientSubscribe, subscribe, Idle
<1>1. PICK id \in PacketIdentifiers \cup {None} :
          /\ GetNextFree("NonPublish", id)
          /\ \/ id = None
             \/ /\ id # None
                /\ inner_run_PublishPacket(now, SubscribePacket(id), "subscribe", TRUE)
    BY DEF ClientSubscribe, subscribe
<1>2. id # None
    BY <1>0, <1>1, GetNextFreeNone DEF PacketIdentifierUsage, Slots
<1>3. /\ id \notin InUse /\ InUse' = InUse \cup {id}
      /\ InUseForPublish' = InUseForPublish
    BY <1>0, <1>1, <1>2, GetNextFreeSome DEF PacketIdentifierUsage
<1>4. id \in Slots /\ id \notin InUseForPublish
  <2>1. id \in Slots
      BY <1>1, <1>2, UsizeBitsAssumption DEF GetNextFree, IsNextFree, BitIndices, Slots
  <2> QED BY <1>0, <1>3, <2>1, InUseInRange
<1> DEFINE p == SubscribePacket(id)
<1>5. p \in Requests /\ p.type = "Subscribe" /\ p.packet_identifier = id
    BY <1>4 DEF SubscribePacket, Requests
<1>6. /\ IsConnected' /\ connection_state'.ping_state = connection_state.ping_state
      /\ action'.do = "SendPacket" /\ action'.packet = p /\ panic' = NotPanicked
    BY <1>0, <1>1, <1>2, ConnectedSends
<1>7. /\ to_server' = IF transport = "up" THEN Append(to_server, p) ELSE to_server
      /\ sent_at' = now /\ polled' = FALSE
      /\ UNCHANGED <<now, transport, to_client>>
    BY <1>6, TransmitPacket DEF ClientSubscribe
<1>8. /\ UNCHANGED <<saved_identifier, stored, resend, published, server_online,
                     server_inflight, server_resend>>
      /\ UNCHANGED <<client_id_hash, handle>>
    BY DEF ClientSubscribe, subscribe, caller, server
<1>9. to_server' \in Seq(Requests)
    BY <1>0, <1>5, <1>7, ClientWrites, Zenon
<1>10. SessionTypeOK' /\ NoPanic' /\ Borrower'
    BY <1>0, <1>6, <1>7, <1>8, <1>9 DEF SessionTypeOK, NoPanic, Borrower, NoHandle
<1>11. SavedIdentity' /\ Handshake' /\ PingAgreesWithMachine'
    BY <1>0, <1>5, <1>6, <1>7, <1>8, <1>10, WriteStep
<1>12. ASSUME NEW i \in Slots
       PROVE  /\ (OnTheWay("Publish", "Puback", i))' = OnTheWay("Publish", "Puback", i)
              /\ (OnTheWay("Subscribe", "Suback", i))' =
                     IF transport = "up" /\ i = id THEN OnTheWay("Subscribe", "Suback", i) + 1
                     ELSE OnTheWay("Subscribe", "Suback", i)
              /\ OnTheWay("Publish", "Puback", i) \in Nat
              /\ OnTheWay("Subscribe", "Suback", i) \in Nat
    BY <1>0, <1>5, <1>7, WriteForSlot
<1>13. CallerAgreesWithMachine'
    BY <1>3, <1>8 DEF SessionInv, CallerAgreesWithMachine, NoPanic
<1>14. WireAgreesWithMachine'
  <2> SUFFICES ASSUME NEW i \in Slots
               PROVE  (/\ OnTheWay("Publish", "Puback", i) <= 1
                       /\ OnTheWay("Subscribe", "Suback", i) <= 1
                       /\ OnTheWay("Publish", "Puback", i) = 1 => i \in InUseForPublish
                       /\ OnTheWay("Subscribe", "Suback", i) = 1 => i \in InUse \ InUseForPublish)'
      BY DEF WireAgreesWithMachine, Slots
  <2>1. /\ OnTheWay("Publish", "Puback", i) <= 1
        /\ OnTheWay("Subscribe", "Suback", i) <= 1
        /\ OnTheWay("Publish", "Puback", i) = 1 => i \in InUseForPublish
        /\ OnTheWay("Subscribe", "Suback", i) = 1 => i \in InUse \ InUseForPublish
      BY <1>0 DEF SessionInv, WireAgreesWithMachine, Slots
  <2> QED BY <1>3, <1>4, <1>12, <2>1
<1>15. Resend'
    BY <1>0, <1>8, <1>12 DEF SessionInv, Resend, SessionTypeOK
<1> QED BY <1>10, <1>11, <1>13, <1>14, <1>15 DEF SessionInv

\* The PUBACK of the client carries an identifier of the server.
LEMMA ClientAcknowledgeInv ==
    ASSUME SessionInv, Inv', NEW id \in ServerIdentifiers, ClientAcknowledge(id)
    PROVE  SessionInv'
<1> DEFINE p == PubackPacket(id)
<1>0. /\ SessionTypeOK /\ Inv /\ IsConnected /\ handle = NoHandle
      /\ p \in Requests /\ p.type = "Puback"
    BY DEF SessionInv, ClientAcknowledge, acknowledge, Idle, PubackPacket, Requests
<1>1. /\ inner_run_PublishPacket(now, p, "acknowledge", TRUE)
      /\ UNCHANGED <<client_id_hash, client_pis, handle>>
    BY DEF ClientAcknowledge, acknowledge
<1>2. /\ IsConnected' /\ connection_state'.ping_state = connection_state.ping_state
      /\ action'.do = "SendPacket" /\ action'.packet = p /\ panic' = NotPanicked
    BY <1>0, <1>1, ConnectedSends
<1>3. /\ to_server' = IF transport = "up" THEN Append(to_server, p) ELSE to_server
      /\ sent_at' = now /\ polled' = FALSE
      /\ UNCHANGED <<now, transport, to_client>>
    BY <1>2, TransmitPacket DEF ClientAcknowledge
<1>4. UNCHANGED <<saved_identifier, stored, resend, published, server_online,
                  server_inflight, server_resend>>
    BY DEF ClientAcknowledge, caller, server
<1>5. to_server' \in Seq(Requests)
    BY <1>0, <1>3, ClientWrites, Zenon
<1>6. SessionTypeOK' /\ NoPanic' /\ Borrower'
    BY <1>0, <1>1, <1>2, <1>3, <1>4, <1>5 DEF SessionTypeOK, NoPanic, Borrower, NoHandle
<1> QED BY <1>0, <1>1, <1>2, <1>3, <1>4, <1>6, WritePlain

\* The DISCONNECT is written.
LEMMA ClientDisconnectPacketInv == SessionInv /\ Inv' /\ ClientDisconnectPacket => SessionInv'
<1> SUFFICES ASSUME SessionInv, Inv', ClientDisconnectPacket PROVE SessionInv'
    OBVIOUS
<1> DEFINE p == DisconnectPacket
<1>0. /\ SessionTypeOK /\ Inv /\ handle = Disconnecter("DisconnectPacket")
      /\ p \in Requests /\ p.type = "Disconnect"
    BY DEF SessionInv, ClientDisconnectPacket, DisconnecterPacket, DisconnectPacket, Requests
<1>1. IsConnected
    BY <1>0 DEF SessionInv, Borrower, Disconnecter
<1>2. /\ handle' = Disconnecter("DisconnectConnection") /\ panic' = NotPanicked
      /\ action'.do = "SendPacket" /\ action'.packet = p
      /\ UNCHANGED <<client_id_hash, connection_state, client_pis>>
    BY DEF ClientDisconnectPacket, DisconnecterPacket, Returns, SendPacket, data
<1>3. /\ to_server' = IF transport = "up" THEN Append(to_server, p) ELSE to_server
      /\ sent_at' = now /\ polled' = FALSE
      /\ UNCHANGED <<now, transport, to_client>>
    BY <1>2, TransmitPacket DEF ClientDisconnectPacket
<1>4. UNCHANGED <<saved_identifier, stored, resend, published, server_online,
                  server_inflight, server_resend>>
    BY DEF ClientDisconnectPacket, caller, server
<1>5. to_server' \in Seq(Requests)
    BY <1>0, <1>3, ClientWrites, Zenon
<1>6. SessionTypeOK' /\ NoPanic' /\ Borrower' /\ IsConnected'
    BY <1>0, <1>1, <1>2, <1>3, <1>4, <1>5
       DEF SessionTypeOK, NoPanic, Borrower, Disconnecter, IsConnected
<1> QED BY <1>0, <1>1, <1>2, <1>3, <1>4, <1>6, WritePlain

\* Borrowing the machine, ending a borrow, giving up an acknowledgement and
\* the passing of time send nothing.
LEMMA ClientQuietInv ==
    ASSUME SessionInv, Inv',
           \/ ClientDisconnect \/ ClientDropHandle \/ Tick
           \/ \E id \in ServerIdentifiers : ClientForgetsAck(id)
    PROVE  SessionInv'
<1>0. SessionTypeOK /\ Inv /\ panic = NotPanicked
    BY DEF SessionInv, NoPanic
<1>1. CASE ClientDisconnect
  <2>1. /\ IsConnected /\ handle' = Disconnecter("DisconnectPacket")
        /\ action' = NoAction /\ panic' = NotPanicked
        /\ UNCHANGED <<client_id_hash, connection_state, client_pis>>
      BY <1>1 DEF ClientDisconnect, disconnect, Returns, data
  <2>2. /\ UNCHANGED <<to_server, to_client, transport, now, sent_at>> /\ polled' = FALSE
        /\ UNCHANGED <<saved_identifier, stored, resend, published, server_online,
                       server_inflight, server_resend>>
      BY <1>1, <2>1, TransmitNothing DEF ClientDisconnect, caller, server, NoAction
  <2>3. SessionTypeOK' /\ NoPanic' /\ Borrower'
      BY <1>0, <2>1, <2>2
         DEF SessionTypeOK, NoPanic, Borrower, Disconnecter, IsConnected
  <2> QED BY <2>1, <2>2, <2>3, QuietStep
<1>2. CASE ClientDropHandle
  <2>1. /\ handle' = NoHandle /\ panic' = NotPanicked
        /\ UNCHANGED <<client_id_hash, connection_state, client_pis>>
        /\ UNCHANGED <<now, polled, sent_at, transport, to_server, to_client,
                       saved_identifier, stored, resend, published, server_online,
                       server_inflight, server_resend>>
      BY <1>2 DEF ClientDropHandle, DropHandle, Returns, data, clock, wire, caller, server
  <2>2. SessionTypeOK' /\ NoPanic' /\ Borrower'
      BY <1>0, <2>1 DEF SessionTypeOK, NoPanic, Borrower, NoHandle
  <2> QED BY <2>1, <2>2, QuietStep
<1>3. CASE Tick
  <2>1. /\ now' \in Instants /\ polled' = FALSE
        /\ UNCHANGED <<client_id_hash, connection_state, client_pis, handle, panic>>
        /\ UNCHANGED <<sent_at, transport, to_server, to_client,
                       saved_identifier, stored, resend, published, server_online,
                       server_inflight, server_resend>>
      BY <1>3 DEF Tick, vars, data, wire, caller, server
  <2>2. SessionTypeOK' /\ NoPanic'
      BY <1>0, <2>1 DEF SessionTypeOK, NoPanic
  <2> QED BY <2>1, <2>2, QuietStep
<1>4. CASE \E id \in ServerIdentifiers : ClientForgetsAck(id)
  <2>1. /\ panic' = NotPanicked
        /\ UNCHANGED <<client_id_hash, connection_state, client_pis, handle>>
        /\ UNCHANGED <<now, polled, sent_at, transport, to_server, to_client,
                       saved_identifier, stored, resend, published, server_online,
                       server_inflight, server_resend>>
      BY <1>4 DEF ClientForgetsAck, DropAcknowledgeAction, Returns, data, clock, wire,
                  caller, server
  <2>2. SessionTypeOK' /\ NoPanic'
      BY <1>0, <2>1 DEF SessionTypeOK, NoPanic
  <2> QED BY <2>1, <2>2, QuietStep
<1> QED BY <1>1, <1>2, <1>3, <1>4

\* The disconnecter ends the connection.
LEMMA ClientDisconnectConnectionInv ==
    SessionInv /\ Inv' /\ ClientDisconnectConnection => SessionInv'
<1> SUFFICES ASSUME SessionInv, Inv', ClientDisconnectConnection PROVE SessionInv'
    OBVIOUS
<1>0. /\ SessionTypeOK /\ Inv /\ StoreOK /\ handle = Disconnecter("DisconnectConnection")
      /\ reset_connection
    BY MachineFacts DEF SessionInv, ClientDisconnectConnection, DisconnecterConnection
<1>1. IsConnected /\ ~IsConnecting
    BY <1>0 DEF SessionInv, Borrower, Disconnecter, IsConnected, IsConnecting
<1>2. /\ connection_state' = Disconnected /\ InUseForPublish' = InUseForPublish
    BY <1>0, ResetConnection
<1>3. /\ handle' = Disconnecter("Done") /\ panic' = NotPanicked
      /\ transport' = "down" /\ to_client' = <<>> /\ resend' = {}
      /\ UNCHANGED <<client_id_hash, now, polled, sent_at, to_server, saved_identifier,
                     stored, published, server_online, server_inflight, server_resend>>
    BY DEF ClientDisconnectConnection, DisconnecterConnection, Returns, data, clock, server
<1>4. SessionTypeOK' /\ NoPanic'
    BY <1>0, <1>3, QueueCleared DEF SessionTypeOK, NoPanic
<1>5. Count(to_server, "Connect", None) = 0
    BY <1>1 DEF SessionInv, Handshake
<1> QED BY <1>2, <1>3, <1>4, <1>5, ConnectionEnds

\* The caller notices that the connection is lost.  A CONNECT that was not
\* answered is lost with it.
LEMMA ClientNoticesLossInv == SessionInv /\ Inv' /\ ClientNoticesLoss => SessionInv'
<1> SUFFICES ASSUME SessionInv, Inv', ClientNoticesLoss PROVE SessionInv'
    OBVIOUS
<1>0. /\ SessionTypeOK /\ Inv /\ StoreOK /\ handle = NoHandle
      /\ reset_connection /\ transport = "down"
    BY MachineFacts DEF SessionInv, ClientNoticesLoss, connection_lost, Idle
<1>2. /\ connection_state' = Disconnected /\ InUseForPublish' = InUseForPublish
    BY <1>0, ResetConnection
<1>3. /\ handle' = NoHandle /\ panic' = NotPanicked
      /\ transport' = "down" /\ to_client' = <<>> /\ resend' = {} /\ polled' = FALSE
      /\ UNCHANGED <<client_id_hash, now, sent_at, to_server, saved_identifier,
                     stored, published, server_online, server_inflight, server_resend>>
    BY <1>0 DEF ClientNoticesLoss, connection_lost, Returns, server
<1>4. SessionTypeOK' /\ NoPanic'
    BY <1>0, <1>3, QueueCleared DEF SessionTypeOK, NoPanic
<1>5. Count(to_server, "Connect", None) = 0
  <2>1. IsConnecting => to_server = <<>>
      BY <1>0 DEF SessionInv, Handshake
  <2>2. Count(<<>>, "Connect", None) = 0
      BY QueueCleared
  <2> QED BY <2>1, <2>2 DEF SessionInv, Handshake
<1> QED BY <1>2, <1>3, <1>4, <1>5, ConnectionEnds

\* run sends a PINGREQ only when no ping is on its way.
LEMMA ClientRunInv == SessionInv /\ Inv' /\ ClientRun => SessionInv'
<1> SUFFICES ASSUME SessionInv, Inv', ClientRun PROVE SessionInv'
    OBVIOUS
<1>0. SessionTypeOK /\ Inv /\ handle = NoHandle /\ handle' = NoHandle
      /\ panic' = NotPanicked /\ UNCHANGED <<client_id_hash, client_pis>>
    BY DEF SessionInv, ClientRun, run, Idle, Returns
<1>1. /\ UNCHANGED <<now, transport, to_client, saved_identifier, stored, resend, published,
                     server_online, server_inflight, server_resend>>
      /\ polled' = TRUE
    BY DEF ClientRun, caller, server
<1>2. CASE ~PingDue(now)
  <2>1. action' = NoAction /\ UNCHANGED connection_state
      BY <1>2 DEF ClientRun, run, Returns
  <2>2. UNCHANGED <<to_server, sent_at>>
      BY <2>1 DEF ClientRun
  <2>3. SessionTypeOK' /\ NoPanic'
      BY <1>0, <1>1, <2>2 DEF SessionTypeOK, NoPanic
  <2> QED BY <1>0, <1>1, <2>1, <2>2, <2>3, QuietStep
<1>3. CASE PingDue(now)
  <2> DEFINE p == PingreqPacket
  <2>0. p \in Requests /\ p.type = "Pingreq" /\ ~Matches(p, "Connect", None)
        /\ Matches(p, "Pingreq", None)
      BY DEF PingreqPacket, Requests, Matches
  <2>1. /\ IsConnected /\ connection_state.ping_state = "WaitingForElapsed"
        /\ connection_state' = Connected(now, "WaitingForPingresp")
        /\ action' = SendPacket(p)
      BY <1>3 DEF ClientRun, run, Returns, PingDue
  <2>2. /\ IsConnected' /\ connection_state'.ping_state = "WaitingForPingresp"
        /\ action' # NoAction /\ action'.packet = p
      BY <2>1 DEF Connected, IsConnected, SendPacket, NoAction
  <2>3. /\ to_server' = IF transport = "up" THEN Append(to_server, p) ELSE to_server
        /\ sent_at' = now
      BY <2>2 DEF ClientRun
  <2>4. to_server' \in Seq(Requests)
      BY <1>0, <1>1, <2>0, <2>3, ClientWrites, Zenon
  <2>5. SessionTypeOK' /\ NoPanic' /\ Borrower'
      BY <1>0, <1>1, <2>3, <2>4 DEF SessionTypeOK, NoPanic, Borrower, NoHandle
  <2>6. SavedIdentity'
      BY <1>0, <1>1 DEF SessionInv, SavedIdentity
  <2>7. InUse' = InUse /\ InUseForPublish' = InUseForPublish
      BY <1>0 DEF InUse, InUseForPublish
  <2>8. ASSUME NEW id \in Slots
        PROVE  /\ (OnTheWay("Publish", "Puback", id))' = OnTheWay("Publish", "Puback", id)
               /\ (OnTheWay("Subscribe", "Suback", id))' = OnTheWay("Subscribe", "Suback", id)
      BY <1>0, <1>1, <2>0, <2>3, WriteForSlot
  <2>9. /\ Count(to_server', "Connect", None) = Count(to_server, "Connect", None) + 0
        /\ (OnTheWay("Pingreq", "Pingresp", None))' = OnTheWay("Pingreq", "Pingresp", None) +
              (IF transport = "up" THEN 1 ELSE 0)
    <3>1. /\ \A r, id : Count(to_server', r, id) = Count(to_server, r, id) +
                           (IF transport = "up" /\ Matches(p, r, id) THEN 1 ELSE 0)
          /\ \A r, a, id : (OnTheWay(r, a, id))' = OnTheWay(r, a, id) +
                               (IF transport = "up" /\ Matches(p, r, id) THEN 1 ELSE 0)
        BY <1>0, <1>1, <2>0, <2>3, ClientWrites, Zenon
    <3>2. (OnTheWay("Pingreq", "Pingresp", None))' = OnTheWay("Pingreq", "Pingresp", None) +
              (IF transport = "up" /\ Matches(p, "Pingreq", None) THEN 1 ELSE 0)
        BY <3>1, Zenon
    <3>3. Count(to_server', "Connect", None) = Count(to_server, "Connect", None) + 0
        BY <2>0, <3>1, Zenon
    <3> QED BY <2>0, <3>2, <3>3
  <2>10. OnTheWay("Pingreq", "Pingresp", None) \in Nat
      BY <1>0, OnTheWayNat, Zenon
  <2>11. OnTheWay("Pingreq", "Pingresp", None) = 0
      BY <2>1, <2>10 DEF SessionInv, PingAgreesWithMachine
  <2>12. PingAgreesWithMachine'
      BY <1>1, <2>2, <2>9, <2>11 DEF PingAgreesWithMachine
  <2>13. Handshake'
    <3>1. ~IsConnecting /\ ~IsConnecting' /\ ~IsDisconnected'
        BY <2>1, <2>2 DEF IsConnected, IsConnecting, IsDisconnected
    <3>2. Count(to_server, "Connect", None) = 0 /\ Count(to_client, "Connack", None) = 0
        BY <3>1 DEF SessionInv, Handshake
    <3> QED BY <1>1, <2>2, <2>9, <3>1, <3>2 DEF Handshake
  <2>14. CallerAgreesWithMachine'
      BY <1>1, <2>7 DEF SessionInv, CallerAgreesWithMachine, NoPanic
  <2>15. WireAgreesWithMachine'
      BY <2>1, <2>7, <2>8 DEF SessionInv, WireAgreesWithMachine, Slots
  <2>16. Resend'
      BY <1>0, <1>1, <2>8 DEF SessionInv, Resend, SessionTypeOK
  <2> QED BY <2>5, <2>6, <2>12, <2>13, <2>14, <2>15, <2>16 DEF SessionInv
<1> QED BY <1>2, <1>3

-----------------------------------------------------------------------------
(***************************************************************************)
(* The network and the server.                                             *)
(***************************************************************************)
\* A step of the network or the server puts nothing on the way that was not
\* asked for, and as long as the stream is up it loses no ping.
LEMMA NetworkStep ==
    ASSUME SessionInv, Inv', SessionTypeOK', Handshake',
           UNCHANGED <<client_pis, connection_state, handle, panic, client_id_hash,
                       saved_identifier, stored, resend, published>>,
           \A id \in Slots :
              /\ (OnTheWay("Publish", "Puback", id))' \in 0 .. OnTheWay("Publish", "Puback", id)
              /\ (OnTheWay("Subscribe", "Suback", id))' \in 0 .. OnTheWay("Subscribe", "Suback", id),
           (OnTheWay("Pingreq", "Pingresp", None))' \in 0 .. OnTheWay("Pingreq", "Pingresp", None),
           transport' = "up" =>
              /\ transport = "up"
              /\ (OnTheWay("Pingreq", "Pingresp", None))' = OnTheWay("Pingreq", "Pingresp", None)
    PROVE  SessionInv'
<1>0. SessionTypeOK
    BY DEF SessionInv
<1>1. InUse' = InUse /\ InUseForPublish' = InUseForPublish /\ (IsConnected' <=> IsConnected)
    BY DEF InUse, InUseForPublish, IsConnected
<1>2. NoPanic' /\ CallerAgreesWithMachine' /\ SavedIdentity'
    BY <1>1 DEF SessionInv, CallerAgreesWithMachine, NoPanic, SavedIdentity
<1>3. \A id \in Slots : /\ OnTheWay("Publish", "Puback", id) \in Nat
                        /\ OnTheWay("Subscribe", "Suback", id) \in Nat
    BY <1>0, OnTheWayNat, Zenon
<1>4. OnTheWay("Pingreq", "Pingresp", None) \in Nat
    BY <1>0, OnTheWayNat, Zenon
<1>5. WireAgreesWithMachine'
  <2> SUFFICES ASSUME IsConnected, NEW id \in Slots
               PROVE  (/\ OnTheWay("Publish", "Puback", id) <= 1
                       /\ OnTheWay("Subscribe", "Suback", id) <= 1
                       /\ OnTheWay("Publish", "Puback", id) = 1 => id \in InUseForPublish
                       /\ OnTheWay("Subscribe", "Suback", id) = 1 => id \in InUse \ InUseForPublish)'
      BY <1>1 DEF WireAgreesWithMachine, Slots
  <2>1. /\ OnTheWay("Publish", "Puback", id) <= 1
        /\ OnTheWay("Subscribe", "Suback", id) <= 1
        /\ OnTheWay("Publish", "Puback", id) = 1 => id \in InUseForPublish
        /\ OnTheWay("Subscribe", "Suback", id) = 1 => id \in InUse \ InUseForPublish
      BY DEF SessionInv, WireAgreesWithMachine, Slots
  <2> QED BY <1>1, <1>3, <2>1
<1>6. PingAgreesWithMachine'
    BY <1>1, <1>4 DEF SessionInv, PingAgreesWithMachine
<1>7. Borrower'
  <2>1. CASE handle.kind = "Publisher" /\ handle.state = "Send"
    <3>1. /\ handle.packet.packet_identifier \in Slots
          /\ OnTheWay("Publish", "Puback", handle.packet.packet_identifier) = 0
        BY <2>1 DEF SessionInv, Borrower, StoredPublishes
    <3>2. (OnTheWay("Publish", "Puback", handle.packet.packet_identifier))' = 0
        BY <3>1
    <3> QED BY <1>1, <2>1, <3>2 DEF SessionInv, Borrower
  <2>2. CASE ~(handle.kind = "Publisher" /\ handle.state = "Send")
      BY <1>1, <2>2 DEF SessionInv, Borrower
  <2> QED BY <2>1, <2>2
<1>8. Resend'
  <2> SUFFICES ASSUME NEW id \in resend
               PROVE  stored[id] # None /\ (OnTheWay("Publish", "Puback", id))' = 0
      BY DEF Resend
  <2>1. id \in Slots /\ stored[id] # None /\ OnTheWay("Publish", "Puback", id) = 0
      BY <1>0 DEF SessionInv, Resend, SessionTypeOK
  <2> QED BY <2>1
<1> QED BY <1>2, <1>5, <1>6, <1>7, <1>8 DEF SessionInv

\* The packets written to a broken stream are lost.
LEMMA ToServerCleared ==
    ASSUME SessionTypeOK, to_server' = <<>>, NEW r, NEW a, NEW id,
           Count(to_client', a, id) = Count(to_client, a, id)
    PROVE  (OnTheWay(r, a, id))' \in 0 .. OnTheWay(r, a, id)
<1>1. (OnTheWay(r, a, id))' = 0 + Count(to_client, a, id)
    BY QueueCleared DEF OnTheWay
<1>2. /\ Count(to_server, r, id) \in Nat /\ Count(to_client, a, id) \in Nat
      /\ OnTheWay(r, a, id) = Count(to_server, r, id) + Count(to_client, a, id)
    BY OnTheWayNat, Zenon
<1> QED BY <1>1, <1>2

\* The stream breaks.
LEMMA TransportBreaksInv == SessionInv /\ Inv' /\ TransportBreaks => SessionInv'
<1> SUFFICES ASSUME SessionInv, Inv', TransportBreaks PROVE SessionInv'
    OBVIOUS
<1>0. /\ SessionTypeOK /\ transport' = "down" /\ to_server' = <<>>
      /\ UNCHANGED <<client_pis, connection_state, handle, panic, client_id_hash>>
      /\ UNCHANGED <<now, polled, sent_at, to_client, saved_identifier, stored, resend,
                     published, server_online, server_inflight, server_resend>>
    BY DEF SessionInv, TransportBreaks, vars, data, clock, caller, server
<1>1. SessionTypeOK'
    BY <1>0, QueueCleared DEF SessionTypeOK
<1>2. Handshake'
    BY <1>0, QueueCleared
       DEF SessionInv, Handshake, IsConnected, IsConnecting, IsDisconnected
<1>3. \A r, a, id : (OnTheWay(r, a, id))' \in 0 .. OnTheWay(r, a, id)
    BY <1>0, ToServerCleared, Zenon
<1>4. /\ \A id \in Slots :
            /\ (OnTheWay("Publish", "Puback", id))' \in 0 .. OnTheWay("Publish", "Puback", id)
            /\ (OnTheWay("Subscribe", "Suback", id))' \in 0 .. OnTheWay("Subscribe", "Suback", id)
      /\ (OnTheWay("Pingreq", "Pingresp", None))' \in 0 .. OnTheWay("Pingreq", "Pingresp", None)
    BY <1>3, Zenon
<1> QED BY <1>0, <1>1, <1>2, <1>4, NetworkStep

\* What is written to a client that waits for the CONNACK comes after it.
LEMMA AfterConnack ==
    ASSUME SessionTypeOK, NEW p \in Answers, p.type \in {"Publish", "Disconnect"},
           to_client # <<>>, Head(to_client) \in SessionConnacks,
           \A packet \in Packets(Tail(to_client)) : packet.type \in {"Publish", "Disconnect"},
           to_client' = Append(to_client, p)
    PROVE  /\ to_client' # <<>> /\ Head(to_client') \in SessionConnacks
           /\ \A packet \in Packets(Tail(to_client')) : packet.type \in {"Publish", "Disconnect"}
<1>1. to_client \in Seq(Answers) /\ Tail(to_client) \in Seq(Answers)
    BY TailPackets DEF SessionTypeOK
<1>2. /\ Head(to_client') = Head(to_client) /\ Tail(to_client') = Append(Tail(to_client), p)
      /\ to_client' # <<>>
    BY <1>1, HeadTailAppend, AppendProperties
<1>3. ASSUME NEW q \in Seq(Answers) PROVE Packets(Append(q, p)) = Packets(q) \cup {p}
    BY AppendPackets
<1>4. Packets(Append(Tail(to_client), p)) = Packets(Tail(to_client)) \cup {p}
    BY <1>1, <1>3
<1> QED BY <1>2, <1>4

\* The server publishes, sends a publish again, or says goodbye.
LEMMA ServerSpeaksInv ==
    ASSUME SessionInv, Inv', NEW p \in Answers, p.type \in {"Publish", "Disconnect"},
           transport = "up", server_online, server_online' = server_online,
           to_client' = Append(to_client, p),
           \/ UNCHANGED <<to_server, transport>>
           \/ to_server' = <<>> /\ transport' = "down",
           SessionTypeOK',
           UNCHANGED <<client_pis, connection_state, handle, panic, client_id_hash,
                       saved_identifier, stored, resend, published>>
    PROVE  SessionInv'
<1>0. SessionTypeOK
    BY DEF SessionInv
<1>1. /\ (IsConnected' <=> IsConnected) /\ (IsConnecting' <=> IsConnecting)
      /\ (IsDisconnected' <=> IsDisconnected)
    BY DEF IsConnected, IsConnecting, IsDisconnected
<1>2. \A a, id : Count(to_client', a, id) = Count(to_client, a, id) +
                    (IF transport = "up" /\ Matches(p, a, id) THEN 1 ELSE 0)
    BY <1>0, ServerWrites, Zenon DEF Reply
<1>3. \A a \in {"Connack", "Puback", "Suback", "Pingresp"} : \A id :
          Count(to_client', a, id) = Count(to_client, a, id)
  <2> SUFFICES ASSUME NEW a \in {"Connack", "Puback", "Suback", "Pingresp"}, NEW id
               PROVE  Count(to_client', a, id) = Count(to_client, a, id)
      OBVIOUS
  <2>1. ~Matches(p, a, id)
      BY DEF Matches
  <2>2. Count(to_client', a, id) = Count(to_client, a, id) + 0
      BY <1>2, <2>1, Zenon
  <2>3. Count(to_client, a, id) \in Nat
      BY <1>0, OnTheWayNat, Zenon
  <2> QED BY <2>2, <2>3
<1>4. Handshake'
  <2>1. CASE IsConnecting
    <3>1. /\ to_server = <<>> /\ to_client # <<>> /\ Head(to_client) \in SessionConnacks
          /\ \A packet \in Packets(Tail(to_client)) : packet.type \in {"Publish", "Disconnect"}
          /\ ~IsDisconnected /\ resend = {}
        BY <2>1 DEF SessionInv, Handshake, IsConnecting, IsDisconnected, IsConnected
    <3>2. /\ to_client' # <<>> /\ Head(to_client') \in SessionConnacks
          /\ \A packet \in Packets(Tail(to_client')) : packet.type \in {"Publish", "Disconnect"}
        BY <1>0, <3>1, AfterConnack
    <3> QED BY <1>1, <2>1, <3>1, <3>2 DEF Handshake
  <2>2. CASE ~IsConnecting
    <3>1. /\ ~IsDisconnected /\ (~IsConnected => resend = {})
          /\ Count(to_server, "Connect", None) = 0 /\ Count(to_client, "Connack", None) = 0
        BY <2>2 DEF SessionInv, Handshake
    <3>2. Count(to_server', "Connect", None) = 0
        BY <3>1, QueueCleared
    <3>3. Count(to_client', "Connack", None) = 0
        BY <1>3, <3>1
    <3> QED BY <1>1, <2>2, <3>1, <3>2, <3>3 DEF Handshake
  <2> QED BY <2>1, <2>2
<1>5. ASSUME NEW r, NEW a \in {"Connack", "Puback", "Suback", "Pingresp"}, NEW id
      PROVE  /\ (OnTheWay(r, a, id))' \in 0 .. OnTheWay(r, a, id)
             /\ transport' = "up" => (OnTheWay(r, a, id))' = OnTheWay(r, a, id)
  <2>1. Count(to_client', a, id) = Count(to_client, a, id)
      BY <1>3
  <2>2. CASE to_server' = <<>> /\ transport' = "down"
      BY <1>0, <2>1, <2>2, ToServerCleared, Zenon
  <2>3. CASE UNCHANGED to_server
    <3>1. (OnTheWay(r, a, id))' = OnTheWay(r, a, id) /\ OnTheWay(r, a, id) \in Nat
        BY <1>0, <2>1, <2>3, OnTheWayNat DEF OnTheWay
    <3> QED BY <3>1
  <2> QED BY <2>2, <2>3
<1> QED BY <1>4, <1>5, NetworkStep

\* A publish of the server waits for the client, on this connection or the next.
LEMMA ServerPublishInv == SessionInv /\ Inv' /\ ServerPublish => SessionInv'
<1> SUFFICES ASSUME SessionInv, Inv', ServerPublish PROVE SessionInv'
    OBVIOUS
<1>0. /\ SessionTypeOK /\ transport = "up" /\ server_online
      /\ UNCHANGED <<client_pis, connection_state, handle, panic, client_id_hash>>
      /\ UNCHANGED <<now, polled, sent_at, transport, to_server, saved_identifier, stored,
                     resend, published, server_online, server_resend>>
    BY DEF SessionInv, ServerPublish, vars, data, clock, caller
<1>1. PICK id \in ServerIdentifiers, m \in ServerMessages \ server_published :
          /\ server_inflight[id] = None
          /\ server_inflight' = [server_inflight EXCEPT ![id] = m]
          /\ Reply(PublishPacket("AtLeastOnce", id, m))
    BY DEF ServerPublish
<1> DEFINE p == PublishPacket("AtLeastOnce", id, m)
<1>2. p \in Answers /\ p.type = "Publish"
    BY DEF PublishPacket, Answers, ServerPublishes
<1>3. to_client' = Append(to_client, p)
    BY <1>0, <1>1 DEF Reply
<1>4. to_client' \in Seq(Answers)
    BY <1>0, <1>1, <1>2, ServerWrites
<1>5. /\ server_inflight' \in [ServerIdentifiers -> ServerMessages \cup {None}]
      /\ m # None
    BY <1>0, <1>1, SessionAssumption DEF SessionTypeOK
<1>6. SessionTypeOK'
    BY <1>0, <1>1, <1>4, <1>5 DEF SessionTypeOK
<1> QED BY <1>0, <1>2, <1>3, <1>6, ServerSpeaksInv

\* The server sends again what was not acknowledged.
LEMMA ServerResendInv ==
    ASSUME SessionInv, Inv', NEW id \in ServerIdentifiers, ServerResend(id)
    PROVE  SessionInv'
<1>0. /\ SessionTypeOK /\ transport = "up" /\ server_online /\ id \in server_resend
      /\ UNCHANGED <<client_pis, connection_state, handle, panic, client_id_hash>>
      /\ UNCHANGED <<now, polled, sent_at, transport, to_server, saved_identifier, stored,
                     resend, published, server_online, server_inflight>>
      /\ server_resend' = server_resend \ {id}
    BY DEF SessionInv, ServerResend, vars, data, clock, caller
<1> DEFINE p == PublishPacket("AtLeastOnce", id, server_inflight[id])
<1>1. server_inflight[id] \in ServerMessages
    BY <1>0 DEF SessionTypeOK
<1>2. p \in Answers /\ p.type = "Publish"
    BY <1>1 DEF PublishPacket, Answers, ServerPublishes
<1>3. Reply(p) /\ to_client' = Append(to_client, p)
    BY <1>0 DEF ServerResend, Reply
<1>4. to_client' \in Seq(Answers)
    BY <1>0, <1>2, <1>3, ServerWrites
<1>5. SessionTypeOK'
    BY <1>0, <1>4 DEF SessionTypeOK
<1> QED BY <1>0, <1>2, <1>3, <1>5, ServerSpeaksInv

\* The server says goodbye and closes the stream.
LEMMA ServerDisconnectInv == SessionInv /\ Inv' /\ ServerDisconnect => SessionInv'
<1> SUFFICES ASSUME SessionInv, Inv', ServerDisconnect PROVE SessionInv'
    OBVIOUS
<1>0. /\ SessionTypeOK /\ transport = "up" /\ server_online
      /\ to_client' = Append(to_client, DisconnectPacket)
      /\ transport' = "down" /\ to_server' = <<>>
      /\ UNCHANGED <<client_pis, connection_state, handle, panic, client_id_hash>>
      /\ UNCHANGED <<now, polled, sent_at, saved_identifier, stored,
                     resend, published, server_online, server_inflight, server_resend>>
    BY DEF SessionInv, ServerDisconnect, vars, data, clock, caller, server
<1>1. DisconnectPacket \in Answers /\ DisconnectPacket.type = "Disconnect"
    BY DEF DisconnectPacket, Answers
<1>2. to_client' \in Seq(Answers)
    BY <1>0, <1>1, AppendPackets DEF SessionTypeOK
<1>3. SessionTypeOK'
    BY <1>0, <1>2, QueueCleared DEF SessionTypeOK
<1> QED BY <1>0, <1>1, <1>3, ServerSpeaksInv

-----------------------------------------------------------------------------
(***************************************************************************)
(* The server reads a packet and answers it.                               *)
(***************************************************************************)
\* What the two ends of a step of ServerReceive add up to.
LEMMA ServerAnswers ==
    ASSUME SessionTypeOK, to_server # <<>>, to_server' = Tail(to_server),
           NEW p \in Answers, Reply(p), NEW r, NEW a, NEW id,
           Matches(Head(to_server), r, id) <=> Matches(p, a, id)
    PROVE  /\ (OnTheWay(r, a, id))' \in 0 .. OnTheWay(r, a, id)
           /\ transport = "up" => (OnTheWay(r, a, id))' = OnTheWay(r, a, id)
<1>1. /\ Count(to_server', r, id) \in Nat
      /\ Count(to_server, r, id) = Count(to_server', r, id) +
            (IF Matches(Head(to_server), r, id) THEN 1 ELSE 0)
    BY ServerReads, Zenon
<1>2. Count(to_client', a, id) = Count(to_client, a, id) +
          (IF transport = "up" /\ Matches(p, a, id) THEN 1 ELSE 0)
    BY ServerWrites, Zenon
<1>3. Count(to_client, a, id) \in Nat
    BY OnTheWayNat, Zenon
<1>4. (OnTheWay(r, a, id))' = Count(to_server', r, id) + Count(to_client', a, id)
    BY DEF OnTheWay
<1>5. OnTheWay(r, a, id) = Count(to_server, r, id) + Count(to_client, a, id)
    BY DEF OnTheWay
<1> QED BY <1>1, <1>2, <1>3, <1>4, <1>5

\* The same when the server does not answer.
LEMMA ServerIsSilent ==
    ASSUME SessionTypeOK, to_server # <<>>, to_server' = Tail(to_server),
           UNCHANGED to_client, NEW r, NEW a, NEW id,
           ~Matches(Head(to_server), r, id)
    PROVE  /\ (OnTheWay(r, a, id))' = OnTheWay(r, a, id)
           /\ (OnTheWay(r, a, id))' \in 0 .. OnTheWay(r, a, id)
<1>1. /\ Count(to_server', r, id) \in Nat
      /\ Count(to_server, r, id) = Count(to_server', r, id) + 0
    BY ServerReads, Zenon
<1>2. Count(to_client, a, id) \in Nat
    BY OnTheWayNat, Zenon
<1>3. (OnTheWay(r, a, id))' = Count(to_server', r, id) + Count(to_client, a, id)
    BY DEF OnTheWay
<1>4. OnTheWay(r, a, id) = Count(to_server, r, id) + Count(to_client, a, id)
    BY DEF OnTheWay
<1> QED BY <1>1, <1>2, <1>3, <1>4

\* After the handshake the server reads no CONNECT and writes no CONNACK.
LEMMA NoHandshakePackets ==
    ASSUME SessionTypeOK, to_server # <<>>, to_server' = Tail(to_server),
           \/ UNCHANGED to_client
           \/ \E p \in Answers : p.type # "Connack" /\ Reply(p),
           transport' \in {transport, "down"},
           ~IsConnecting, Handshake,
           UNCHANGED <<connection_state, resend, server_online>>
    PROVE  Handshake' /\ Head(to_server).type # "Connect"
<1>1. Count(to_server, "Connect", None) = 0 /\ Count(to_client, "Connack", None) = 0
    BY DEF Handshake
<1>2. /\ Count(to_server', "Connect", None) \in Nat
      /\ Count(to_server, "Connect", None) = Count(to_server', "Connect", None) +
            (IF Matches(Head(to_server), "Connect", None) THEN 1 ELSE 0)
    BY ServerReads, Zenon
<1>3. Count(to_server', "Connect", None) = 0 /\ ~Matches(Head(to_server), "Connect", None)
    BY <1>1, <1>2
<1>4. Count(to_client', "Connack", None) = 0
  <2>1. ASSUME NEW p \in Answers, p.type # "Connack", Reply(p)
        PROVE  Count(to_client', "Connack", None) = 0
    <3>1. ~Matches(p, "Connack", None)
        BY <2>1 DEF Matches
    <3>2. \A a, id : Count(to_client', a, id) = Count(to_client, a, id) +
                        (IF transport = "up" /\ Matches(p, a, id) THEN 1 ELSE 0)
        BY <2>1, ServerWrites
    <3>3. Count(to_client', "Connack", None) = Count(to_client, "Connack", None) + 0
        BY <3>1, <3>2, Zenon
    <3> QED BY <1>1, <3>3
  <2> QED BY <1>1, <2>1
<1>5. IsDisconnected => to_client' = to_client /\ transport' = transport
    BY DEF Handshake, Reply
<1>6. Head(to_server).type # "Connect"
    BY <1>3 DEF Matches
<1> QED BY <1>1, <1>3, <1>4, <1>5, <1>6
        DEF Handshake, IsConnected, IsConnecting, IsDisconnected

\* The server answers a packet with the packet that answers it.
LEMMA ServerAnswersInv ==
    ASSUME SessionInv, Inv', SessionTypeOK', Handshake',
           to_server # <<>>, to_server' = Tail(to_server),
           NEW p \in Answers, Reply(p),
           \A id : /\ Matches(Head(to_server), "Publish", id) <=> Matches(p, "Puback", id)
                   /\ Matches(Head(to_server), "Subscribe", id) <=> Matches(p, "Suback", id)
                   /\ Matches(Head(to_server), "Pingreq", None) <=> Matches(p, "Pingresp", None),
           UNCHANGED <<transport, client_pis, connection_state, handle, panic,
                       client_id_hash, saved_identifier, stored, resend, published>>
    PROVE  SessionInv'
<1>0. SessionTypeOK
    BY DEF SessionInv
<1>1. ASSUME NEW id
      PROVE  (OnTheWay("Publish", "Puback", id))' \in 0 .. OnTheWay("Publish", "Puback", id)
    BY <1>0, ServerAnswers, Zenon
<1>2. ASSUME NEW id
      PROVE  (OnTheWay("Subscribe", "Suback", id))' \in 0 .. OnTheWay("Subscribe", "Suback", id)
    BY <1>0, ServerAnswers, Zenon
<1>3. /\ (OnTheWay("Pingreq", "Pingresp", None))' \in 0 .. OnTheWay("Pingreq", "Pingresp", None)
      /\ transport = "up" =>
            (OnTheWay("Pingreq", "Pingresp", None))' = OnTheWay("Pingreq", "Pingresp", None)
    BY <1>0, ServerAnswers, Zenon
<1> QED BY <1>1, <1>2, <1>3, NetworkStep

\* The server reads a packet that wants no answer.
LEMMA ServerIsSilentInv ==
    ASSUME SessionInv, Inv', SessionTypeOK', Handshake',
           to_server # <<>>, to_server' = Tail(to_server),
           Head(to_server).type \notin {"Publish", "Subscribe", "Pingreq"},
           transport' \in {transport, "down"},
           UNCHANGED <<to_client, client_pis, connection_state, handle, panic,
                       client_id_hash, saved_identifier, stored, resend, published>>
    PROVE  SessionInv'
<1>0. SessionTypeOK
    BY DEF SessionInv
<1>1. \A id : /\ ~Matches(Head(to_server), "Publish", id)
              /\ ~Matches(Head(to_server), "Subscribe", id)
              /\ ~Matches(Head(to_server), "Pingreq", id)
    BY DEF Matches
<1>2. ASSUME NEW id
      PROVE  (OnTheWay("Publish", "Puback", id))' \in 0 .. OnTheWay("Publish", "Puback", id)
    BY <1>0, <1>1, ServerIsSilent, Zenon
<1>3. ASSUME NEW id
      PROVE  (OnTheWay("Subscribe", "Suback", id))' \in 0 .. OnTheWay("Subscribe", "Suback", id)
    BY <1>0, <1>1, ServerIsSilent, Zenon
<1>4. /\ (OnTheWay("Pingreq", "Pingresp", None))' \in 0 .. OnTheWay("Pingreq", "Pingresp", None)
      /\ (OnTheWay("Pingreq", "Pingresp", None))' = OnTheWay("Pingreq", "Pingresp", None)
    BY <1>0, <1>1, ServerIsSilent, Zenon
<1> QED BY <1>2, <1>3, <1>4, NetworkStep

\* The CONNACK is the first packet of the server on a connection.
LEMMA ServerAcceptsInv ==
    ASSUME SessionInv, Inv', ServerReceive, IsConnecting
    PROVE  SessionInv'
<1>0. /\ SessionTypeOK /\ to_server # <<>> /\ to_server' = Tail(to_server)
      /\ UNCHANGED <<client_pis, connection_state, handle, panic, client_id_hash,
                     now, polled, sent_at, saved_identifier, stored, resend, published>>
    BY DEF SessionInv, ServerReceive, vars, data, clock, caller
<1>1. PICK c \in ConnectPackets : to_server = <<c>>
    BY <1>0 DEF SessionInv, Handshake
<1>2. to_client = <<>> /\ transport = "up" /\ ~server_online
    BY <1>0 DEF SessionInv, Handshake
<1>3. Head(to_server) = c /\ Tail(to_server) = <<>> /\ c.type = "Connect"
    BY <1>1 DEF ConnectPackets
<1>4. PICK ka \in KeepAlives \cup {None},
           id \in IF c.client_identifier = EmptyIdentifier THEN ClientIdentifiers ELSE {None} :
          Reply([type |-> "Connack", reason_code |-> "Success",
                 server_keep_alive |-> ka, assigned_client_identifier |-> id])
    BY <1>3 DEF ServerReceive
<1> DEFINE p == [type |-> "Connack", reason_code |-> "Success",
                 server_keep_alive |-> ka, assigned_client_identifier |-> id]
<1>5. p \in SessionConnacks /\ p \in Answers /\ p.type = "Connack"
    BY <1>4 DEF SessionConnacks, Answers
<1>6. /\ server_online' = TRUE /\ transport' = transport /\ server_inflight' = server_inflight
      /\ server_resend' = {i \in DOMAIN server_inflight : server_inflight[i] # None}
    BY <1>3 DEF ServerReceive
<1>7. Reply(p) /\ to_client' = <<p>>
    BY <1>2, <1>4 DEF Reply
<1>8. to_client' # <<>> /\ Head(to_client') = p /\ Packets(Tail(to_client')) = {}
    BY <1>7, QueueCleared
<1>9. SessionTypeOK'
  <2> HIDE DEF p
  <2>1. to_server' \in Seq(Requests)
      BY <1>0, <1>3, QueueCleared
  <2>2. to_client' \in Seq(Answers)
      BY <1>0, <1>5, <1>7, ServerWrites
  <2> QED BY <1>0, <1>6, <2>1, <2>2 DEF SessionTypeOK
<1>10. Handshake'
    BY <1>0, <1>3, <1>5, <1>6, <1>8
       DEF SessionInv, Handshake, IsConnected, IsConnecting, IsDisconnected
<1>11. \A i : /\ Matches(Head(to_server), "Publish", i) <=> Matches(p, "Puback", i)
              /\ Matches(Head(to_server), "Subscribe", i) <=> Matches(p, "Suback", i)
              /\ Matches(Head(to_server), "Pingreq", None) <=> Matches(p, "Pingresp", None)
    BY <1>3, <1>5 DEF Matches
<1> HIDE DEF p
<1> QED BY <1>0, <1>5, <1>6, <1>7, <1>9, <1>10, <1>11, ServerAnswersInv

\* The server answers publishes, subscriptions and pings of the connection.
LEMMA ServerReceiveInv == SessionInv /\ Inv' /\ ServerReceive => SessionInv'
<1> SUFFICES ASSUME SessionInv, Inv', ServerReceive, ~IsConnecting PROVE SessionInv'
    BY ServerAcceptsInv
<1> DEFINE h == Head(to_server)
<1>0. /\ SessionTypeOK /\ Handshake /\ to_server # <<>> /\ to_server' = Tail(to_server)
      /\ UNCHANGED <<client_pis, connection_state, handle, panic, client_id_hash,
                     now, polled, sent_at, saved_identifier, stored, resend, published>>
    BY DEF SessionInv, ServerReceive, vars, data, clock, caller
<1>1. to_server' \in Seq(Requests) /\ h \in Requests /\ h \in Packets(to_server)
    BY <1>0, ServerReads, Zenon
<1>2. h.type # "Connect"
  <2>1. Count(to_server, "Connect", None) = 0 /\ to_server \in Seq(Requests)
      BY <1>0 DEF Handshake, SessionTypeOK
  <2>2. ~Matches(h, "Connect", None)
      BY <1>1, <2>1, CountZero, Zenon
  <2> QED BY <2>2 DEF Matches
<1> HIDE DEF h
<1>3. CASE h.type = "Publish"
  <2> DEFINE p == PubackPacket(h.packet_identifier)
  <2>1. h.packet_identifier \in Slots
      BY <1>1, <1>3 DEF Requests, ConnectPackets, StoredPublishes
  <2>2. p \in Answers /\ p.type = "Puback" /\ p.packet_identifier = h.packet_identifier
      BY <2>1 DEF Answers, PubackPacket
  <2>3. Reply(p) /\ UNCHANGED <<transport, server_online, server_inflight, server_resend>>
      BY <1>3 DEF ServerReceive, h
  <2> HIDE DEF p
  <2>4. to_client' \in Seq(Answers)
      BY <1>0, <2>2, <2>3, ServerWrites
  <2>5. SessionTypeOK' /\ Handshake'
      BY <1>0, <1>1, <2>2, <2>3, <2>4, NoHandshakePackets DEF SessionTypeOK
  <2>6. \A i : /\ Matches(h, "Publish", i) <=> Matches(p, "Puback", i)
               /\ Matches(h, "Subscribe", i) <=> Matches(p, "Suback", i)
               /\ Matches(h, "Pingreq", None) <=> Matches(p, "Pingresp", None)
      BY <1>3, <2>2 DEF Matches
  <2> QED BY <1>0, <2>2, <2>3, <2>5, <2>6, ServerAnswersInv DEF h
<1>4. CASE h.type = "Subscribe"
  <2> DEFINE p == [type |-> "Suback", packet_identifier |-> h.packet_identifier]
  <2>1. h.packet_identifier \in Slots
      BY <1>1, <1>4 DEF Requests, ConnectPackets, StoredPublishes
  <2>2. p \in Answers /\ p.type = "Suback" /\ p.packet_identifier = h.packet_identifier
      BY <2>1 DEF Answers
  <2>3. Reply(p) /\ UNCHANGED <<transport, server_online, server_inflight, server_resend>>
      BY <1>4 DEF ServerReceive, h
  <2> HIDE DEF p
  <2>4. to_client' \in Seq(Answers)
      BY <1>0, <2>2, <2>3, ServerWrites
  <2>5. SessionTypeOK' /\ Handshake'
      BY <1>0, <1>1, <2>2, <2>3, <2>4, NoHandshakePackets DEF SessionTypeOK
  <2>6. \A i : /\ Matches(h, "Publish", i) <=> Matches(p, "Puback", i)
               /\ Matches(h, "Subscribe", i) <=> Matches(p, "Suback", i)
               /\ Matches(h, "Pingreq", None) <=> Matches(p, "Pingresp", None)
      BY <1>4, <2>2 DEF Matches
  <2> QED BY <1>0, <2>2, <2>3, <2>5, <2>6, ServerAnswersInv DEF h
<1>5. CASE h.type = "Pingreq"
  <2> DEFINE p == [type |-> "Pingresp"]
  <2>2. p \in Answers /\ p.type = "Pingresp"
      BY DEF Answers
  <2>3. Reply(p) /\ UNCHANGED <<transport, server_online, server_inflight, server_resend>>
      BY <1>5 DEF ServerReceive, h
  <2>6. \A i : /\ Matches(h, "Publish", i) <=> Matches(p, "Puback", i)
               /\ Matches(h, "Subscribe", i) <=> Matches(p, "Suback", i)
               /\ Matches(h, "Pingreq", None) <=> Matches(p, "Pingresp", None)
      BY <1>5 DEF Matches
  <2> HIDE DEF p
  <2>4. to_client' \in Seq(Answers)
      BY <1>0, <2>2, <2>3, ServerWrites
  <2>5. SessionTypeOK' /\ Handshake'
      BY <1>0, <1>1, <2>2, <2>3, <2>4, NoHandshakePackets DEF SessionTypeOK
  <2> QED BY <1>0, <2>2, <2>3, <2>5, <2>6, ServerAnswersInv DEF h
<1>6. CASE h.type = "Puback"
  <2>1. h.packet_identifier \in ServerIdentifiers
      BY <1>1, <1>6 DEF Requests, ConnectPackets, StoredPublishes
  <2>2. /\ UNCHANGED <<transport, to_client, server_online>>
        /\ server_inflight' = [server_inflight EXCEPT ![h.packet_identifier] = None]
        /\ server_resend' = server_resend \ {h.packet_identifier}
      BY <1>6 DEF ServerReceive, h
  <2>3. SessionTypeOK'
      BY <1>0, <1>1, <2>1, <2>2 DEF SessionTypeOK
  <2>4. Handshake'
      BY <1>0, <2>2, NoHandshakePackets
  <2> QED BY <1>0, <1>6, <2>2, <2>3, <2>4, ServerIsSilentInv DEF h
<1>7. CASE h.type = "Disconnect"
  <2>1. /\ UNCHANGED <<to_client, server_online, server_inflight, server_resend>>
        /\ transport' = "down"
      BY <1>7 DEF ServerReceive, h
  <2>2. SessionTypeOK'
      BY <1>0, <1>1, <2>1 DEF SessionTypeOK
  <2>3. Handshake'
      BY <1>0, <2>1, NoHandshakePackets
  <2> QED BY <1>0, <1>7, <2>1, <2>2, <2>3, ServerIsSilentInv DEF h
<1> QED BY <1>2, <1>3, <1>4, <1>5, <1>6, <1>7 DEF ServerReceive, h

-----------------------------------------------------------------------------
(***************************************************************************)
(* The caller hands a packet to the machine.                               *)
(***************************************************************************)
\* What ClientConsume does whatever the packet is.
LEMMA ConsumeFrame ==
    ASSUME SessionInv, ClientConsume
    PROVE  /\ SessionTypeOK /\ Inv /\ StoreOK /\ to_client # <<>> /\ consume(now, Head(to_client))
           /\ panic = NotPanicked /\ handle = NoHandle /\ handle' = NoHandle
           /\ Head(to_client) \in Answers /\ Head(to_client) \in Packets(to_client)
           /\ Tail(to_client) \in Seq(Answers)
           /\ IsConnecting \/ IsConnected
           /\ polled' = FALSE
           /\ UNCHANGED <<now, sent_at, to_server, published, server_online,
                          server_inflight, server_resend>>
<1>0. /\ SessionTypeOK /\ Inv /\ StoreOK /\ to_client # <<>> /\ consume(now, Head(to_client))
      /\ polled' = FALSE
      /\ UNCHANGED <<now, sent_at, to_server, published, server_online,
                     server_inflight, server_resend>>
    BY MachineFacts DEF SessionInv, ClientConsume, server
<1>1. panic = NotPanicked /\ handle = NoHandle /\ handle' = NoHandle
    BY <1>0 DEF consume, Idle
<1>2. /\ Head(to_client) \in Answers /\ Head(to_client) \in Packets(to_client)
      /\ Tail(to_client) \in Seq(Answers)
    BY <1>0, TailPackets DEF SessionTypeOK
<1>3. IsConnecting \/ IsConnected
    BY <1>0, MachineFacts, ConnectionStateShape DEF SessionInv, Handshake
<1> QED BY <1>0, <1>1, <1>2, <1>3

\* The CONNACK is accepted: everything that was kept is to be sent again, and
\* nothing of an earlier connection is on its way.
LEMMA ConsumeConnackInv ==
    ASSUME SessionInv, Inv', ClientConsume, IsConnecting
    PROVE  SessionInv'
<1> DEFINE h == Head(to_client)
<1>0. /\ SessionTypeOK /\ Inv /\ to_client # <<>> /\ consume(now, h)
      /\ panic = NotPanicked /\ handle' = NoHandle /\ Tail(to_client) \in Seq(Answers)
      /\ polled' = FALSE
      /\ UNCHANGED <<now, sent_at, to_server, published, server_online,
                     server_inflight, server_resend>>
    BY ConsumeFrame
<1>1. /\ to_server = <<>> /\ h \in SessionConnacks
      /\ \A packet \in Packets(Tail(to_client)) : packet.type \in {"Publish", "Disconnect"}
    BY <1>0 DEF SessionInv, Handshake
<1>2. /\ h.type = "Connack" /\ h.reason_code = "Success"
      /\ h.assigned_client_identifier \in ClientIdentifiers \cup {None}
    BY <1>1 DEF SessionConnacks
<1>3. ConsumeConnecting(now, h)
    BY <1>0 DEF consume, IsConnecting, IsConnected, IsDisconnected
<1> HIDE DEF h
<1>4. /\ connection_state' = Connected(connection_state.connect_sent, "WaitingForElapsed")
      /\ client_pis' = client_pis /\ panic' = NotPanicked
      /\ \/ /\ h.assigned_client_identifier \in ClientIdentifiers
            /\ client_id_hash' = FxHash[h.assigned_client_identifier]
            /\ action' = SaveClientIdentifier(h.assigned_client_identifier)
         \/ client_id_hash' = client_id_hash /\ action' = NoAction
    BY <1>2, <1>3 DEF ConsumeConnecting, Returns
<1>5. /\ \/ /\ h.assigned_client_identifier \in ClientIdentifiers
            /\ client_id_hash' = FxHash[h.assigned_client_identifier]
            /\ action'.do = "SaveClientIdentifier"
            /\ action'.client_identifier = h.assigned_client_identifier
         \/ client_id_hash' = client_id_hash /\ action'.do = "None"
    BY <1>4 DEF SaveClientIdentifier, NoAction
<1>6. /\ to_client' = Tail(to_client) /\ transport' = transport /\ stored' = stored
      /\ resend' = {id \in DOMAIN stored : stored[id] # None}
    BY <1>5 DEF ClientConsume
<1>7. \/ /\ h.assigned_client_identifier \in ClientIdentifiers
         /\ client_id_hash' = FxHash[h.assigned_client_identifier]
         /\ saved_identifier' = h.assigned_client_identifier
      \/ client_id_hash' = client_id_hash /\ saved_identifier' = saved_identifier
    BY <1>5 DEF ClientConsume
<1>8. SessionTypeOK' /\ NoPanic'
    BY <1>0, <1>4, <1>6, <1>7 DEF SessionTypeOK, NoPanic
<1>9. SavedIdentity'
    BY <1>7, IdentifiersAssumption DEF SessionInv, SavedIdentity
<1>10. /\ IsConnected' /\ ~IsConnecting' /\ ~IsDisconnected'
       /\ connection_state'.ping_state = "WaitingForElapsed"
    BY <1>4 DEF Connected, IsConnected, IsConnecting, IsDisconnected
<1>11. ASSUME NEW a \in {"Connack", "Puback", "Suback", "Pingresp"}, NEW id
       PROVE  Count(to_client', a, id) = 0
  <2>1. \A packet \in Packets(to_client') : ~Matches(packet, a, id)
      BY <1>1, <1>6 DEF Matches
  <2> QED BY <1>0, <1>6, <2>1, CountZero, Zenon
<1>12. ASSUME NEW r, NEW a \in {"Connack", "Puback", "Suback", "Pingresp"}, NEW id
       PROVE  (OnTheWay(r, a, id))' = 0
  <2>1. Count(to_server', r, id) = 0
      BY <1>0, <1>1, QueueCleared
  <2>2. Count(to_client', a, id) = 0
      BY <1>11
  <2> QED BY <2>1, <2>2 DEF OnTheWay
<1>13. CallerAgreesWithMachine'
    BY <1>0, <1>4, <1>6 DEF SessionInv, CallerAgreesWithMachine, InUseForPublish
<1>14. WireAgreesWithMachine'
    BY <1>12 DEF WireAgreesWithMachine
<1>15. PingAgreesWithMachine'
    BY <1>10, <1>12 DEF PingAgreesWithMachine
<1>16. Handshake'
  <2>1. Count(to_server', "Connect", None) = 0
      BY <1>0, <1>1, QueueCleared
  <2> QED BY <1>10, <1>11, <2>1 DEF Handshake
<1>17. Borrower'
    BY <1>0 DEF Borrower, NoHandle
<1>18. Resend'
    BY <1>6, <1>12 DEF Resend
<1> QED BY <1>8, <1>9, <1>13, <1>14, <1>15, <1>16, <1>17, <1>18 DEF SessionInv

\* A connected machine reads a packet: what it answers is off the wire.
LEMMA ConnectedReads ==
    ASSUME SessionInv, to_client # <<>>, to_client' = Tail(to_client),
           IsConnected, IsConnected',
           UNCHANGED <<to_server, transport, server_online>>
    PROVE  /\ Handshake' /\ Head(to_client).type # "Connack"
           /\ \A r, a, id : /\ (OnTheWay(r, a, id))' \in Nat
                            /\ OnTheWay(r, a, id) = (OnTheWay(r, a, id))' +
                                  (IF Matches(Head(to_client), a, id) THEN 1 ELSE 0)
<1>0. SessionTypeOK
    BY DEF SessionInv
<1>1. ~IsConnecting /\ ~IsConnecting' /\ ~IsDisconnected'
    BY DEF IsConnected, IsConnecting, IsDisconnected
<1>2. \A a, id : /\ Count(to_client', a, id) \in Nat
                 /\ Count(to_client, a, id) = Count(to_client', a, id) +
                       (IF Matches(Head(to_client), a, id) THEN 1 ELSE 0)
    BY <1>0, ClientReads, Zenon
<1>3. ASSUME NEW r, NEW a, NEW id
      PROVE  /\ (OnTheWay(r, a, id))' \in Nat
             /\ OnTheWay(r, a, id) = (OnTheWay(r, a, id))' +
                   (IF Matches(Head(to_client), a, id) THEN 1 ELSE 0)
  <2>1. /\ Count(to_client', a, id) \in Nat
        /\ Count(to_client, a, id) = Count(to_client', a, id) +
              (IF Matches(Head(to_client), a, id) THEN 1 ELSE 0)
      BY <1>2, Zenon
  <2>2. Count(to_server, r, id) \in Nat
      BY <1>0, OnTheWayNat, Zenon
  <2>3. /\ (OnTheWay(r, a, id))' = Count(to_server, r, id) + Count(to_client', a, id)
        /\ OnTheWay(r, a, id) = Count(to_server, r, id) + Count(to_client, a, id)
      BY DEF OnTheWay
  <2> QED BY <2>1, <2>2, <2>3
<1>4. Count(to_server, "Connect", None) = 0 /\ Count(to_client, "Connack", None) = 0
    BY <1>1 DEF SessionInv, Handshake
<1>5. /\ Count(to_client', "Connack", None) \in Nat
      /\ Count(to_client, "Connack", None) = Count(to_client', "Connack", None) +
            (IF Matches(Head(to_client), "Connack", None) THEN 1 ELSE 0)
    BY <1>2, Zenon
<1>6. Count(to_client', "Connack", None) = 0 /\ ~Matches(Head(to_client), "Connack", None)
    BY <1>4, <1>5
<1>7. Head(to_client).type # "Connack"
    BY <1>6 DEF Matches
<1>8. Handshake'
    BY <1>1, <1>4, <1>6 DEF Handshake
<1> QED BY <1>3, <1>7, <1>8

\* A publish of the server is handed to the application.
LEMMA ConsumePublishInv ==
    ASSUME SessionInv, Inv', ClientConsume, IsConnected,
           Head(to_client).type = "Publish"
    PROVE  SessionInv'
<1> DEFINE h == Head(to_client)
<1>0. /\ SessionTypeOK /\ Inv /\ to_client # <<>> /\ consume(now, h) /\ h \in Answers
      /\ panic = NotPanicked /\ handle = NoHandle /\ handle' = NoHandle
      /\ Tail(to_client) \in Seq(Answers) /\ polled' = FALSE
      /\ UNCHANGED <<now, sent_at, to_server, published, server_online,
                     server_inflight, server_resend>>
    BY ConsumeFrame
<1>1. h.quality_of_service = "AtLeastOnce" /\ h.packet_identifier # None
    BY <1>0, SessionAssumption DEF Answers, SessionConnacks, ServerPublishes
<1>2. ConsumePublish(now, h)
    BY <1>0 DEF consume, ConsumeConnected, ConsumeAck, ConsumePingresp, ConsumeDisconnect,
                IsConnecting, IsConnected, IsDisconnected
<1> HIDE DEF h
<1>3. /\ action'.do = "AcknowledgeNeeded" /\ panic' = NotPanicked
      /\ UNCHANGED <<client_id_hash, connection_state, client_pis>>
    BY <1>1, <1>2 DEF ConsumePublish, Returns, AcknowledgeNeeded
<1>4. /\ to_client' = Tail(to_client)
      /\ UNCHANGED <<stored, saved_identifier, resend, transport>>
    BY <1>3 DEF ClientConsume, IsConnected, IsConnecting
<1>5. SessionTypeOK' /\ IsConnected'
    BY <1>0, <1>3, <1>4 DEF SessionTypeOK, IsConnected
<1>6. /\ Handshake'
      /\ \A r, a, id : /\ (OnTheWay(r, a, id))' \in Nat
                       /\ OnTheWay(r, a, id) = (OnTheWay(r, a, id))' +
                             (IF Matches(h, a, id) THEN 1 ELSE 0)
    BY <1>0, <1>4, <1>5, ConnectedReads, Zenon DEF h
<1>7. \A a \in {"Puback", "Suback", "Pingresp"} : \A id : ~Matches(h, a, id)
    BY DEF Matches, h
<1>8. ASSUME NEW r, NEW a \in {"Puback", "Suback", "Pingresp"}, NEW id
      PROVE  /\ (OnTheWay(r, a, id))' \in 0 .. OnTheWay(r, a, id)
             /\ (OnTheWay(r, a, id))' = OnTheWay(r, a, id)
  <2>1. (OnTheWay(r, a, id))' \in Nat /\ OnTheWay(r, a, id) = (OnTheWay(r, a, id))' + 0
      BY <1>6, <1>7, Zenon
  <2> QED BY <2>1
<1> QED BY <1>0, <1>3, <1>4, <1>5, <1>6, <1>8, NetworkStep

\* An acknowledgement names an identifier that is in use for what it
\* acknowledges: the assertion of handle_connected holds, and the identifier
\* is free, forgotten and off the wire afterwards.
LEMMA ConsumeAckSessionInv ==
    ASSUME SessionInv, Inv', ClientConsume, IsConnected,
           Head(to_client).type \in {"Puback", "Suback"}
    PROVE  SessionInv'
<1> DEFINE h == Head(to_client)
           id == h.packet_identifier
<1>0. /\ SessionTypeOK /\ Inv /\ StoreOK /\ to_client # <<>> /\ consume(now, h) /\ h \in Answers
      /\ panic = NotPanicked /\ handle = NoHandle /\ handle' = NoHandle
      /\ Tail(to_client) \in Seq(Answers) /\ polled' = FALSE
      /\ UNCHANGED <<now, sent_at, to_server, published, server_online,
                     server_inflight, server_resend>>
    BY ConsumeFrame
<1>1. id \in Slots /\ id \in PacketIdentifiers /\ id # None
    BY <1>0, SessionPackets, NoneAssumption
       DEF Answers, SessionConnacks, ServerPublishes, Slots
<1>2. ConsumeAck(now, h)
    BY <1>0 DEF consume, ConsumeConnected, ConsumePublish, ConsumePingresp, ConsumeDisconnect,
                IsConnecting, IsConnected, IsDisconnected
<1>3. h.type \in {"Puback", "Suback"}
    OBVIOUS
<1> HIDE DEF h
<1>4. /\ \A i : Matches(h, "Puback", i) <=> h.type = "Puback" /\ (i # None => id = i)
      /\ \A i : Matches(h, "Suback", i) <=> h.type = "Suback" /\ (i # None => id = i)
      /\ ~Matches(h, "Pingresp", None)
    BY <1>3 DEF Matches
<1>5. ASSUME NEW i \in Slots
      PROVE  /\ OnTheWay("Publish", "Puback", i) <= 1
             /\ OnTheWay("Subscribe", "Suback", i) <= 1
             /\ OnTheWay("Publish", "Puback", i) = 1 => i \in InUseForPublish
             /\ OnTheWay("Subscribe", "Suback", i) = 1 => i \in InUse \ InUseForPublish
    BY <1>0 DEF SessionInv, WireAgreesWithMachine, Slots
<1>6. /\ \A a, i : /\ Count(Tail(to_client), a, i) \in Nat
                   /\ Count(to_client, a, i) = Count(Tail(to_client), a, i) +
                         (IF Matches(h, a, i) THEN 1 ELSE 0)
  <2> SUFFICES ASSUME NEW a, NEW i
               PROVE  /\ Count(Tail(to_client), a, i) \in Nat
                      /\ Count(to_client, a, i) = Count(Tail(to_client), a, i) +
                            (IF Matches(h, a, i) THEN 1 ELSE 0)
      OBVIOUS
  <2>1. Count(Tail(to_client), a, i) \in Nat
      BY <1>0, MatchingFinite, Zenon
  <2> QED BY <1>0, <2>1, TailCount, Zenon DEF SessionTypeOK, h
<1>7. /\ h.type = "Puback" => OnTheWay("Publish", "Puback", id) = 1
      /\ h.type = "Suback" => OnTheWay("Subscribe", "Suback", id) = 1
  <2>1. CASE h.type = "Puback"
    <3>1. Count(to_client, "Puback", id) = Count(Tail(to_client), "Puback", id) + 1
          /\ Count(Tail(to_client), "Puback", id) \in Nat
        BY <1>4, <1>6, <2>1, Zenon
    <3>2. /\ Count(to_server, "Publish", id) \in Nat
          /\ OnTheWay("Publish", "Puback", id) =
                Count(to_server, "Publish", id) + Count(to_client, "Puback", id)
        BY <1>0, OnTheWayNat, Zenon
    <3> QED BY <1>1, <1>5, <2>1, <3>1, <3>2
  <2>2. CASE h.type = "Suback"
    <3>1. Count(to_client, "Suback", id) = Count(Tail(to_client), "Suback", id) + 1
          /\ Count(Tail(to_client), "Suback", id) \in Nat
        BY <1>4, <1>6, <2>2, Zenon
    <3>2. /\ Count(to_server, "Subscribe", id) \in Nat
          /\ OnTheWay("Subscribe", "Suback", id) =
                Count(to_server, "Subscribe", id) + Count(to_client, "Suback", id)
        BY <1>0, OnTheWayNat, Zenon
    <3> QED BY <1>1, <1>5, <2>2, <3>1, <3>2
  <2> QED BY <1>3, <2>1, <2>2
<1>8. /\ id \in InUse
      /\ h.type = "Puback" => id \in InUseForPublish
      /\ h.type = "Suback" => id \notin InUseForPublish
    BY <1>0, <1>1, <1>3, <1>5, <1>7, MachineFacts
<1>9. Contains(id)
  <2>1. PICK bit \in client_pis.slots : id = bit + 1
      BY <1>8 DEF InUse
  <2>2. bit \in 0 .. USIZE_BITS - 1
      BY <1>0 DEF StoreOK, StoreType, BitIndices
  <2>3. id - 1 = bit /\ bit < USIZE_BITS
      BY <2>1, <2>2, UsizeBitsAssumption
  <2> QED BY <2>3 DEF Contains
<1>10. /\ Release(id) /\ panic' = NotPanicked
       /\ action' = IF h.type = "Puback" THEN ReleasePacket(id) ELSE NoAction
       /\ UNCHANGED <<client_id_hash, connection_state>>
    BY <1>2, <1>9 DEF ConsumeAck, Returns
<1>11. InUse' = InUse \ {id} /\ InUseForPublish' = InUseForPublish \ {id}
    BY <1>0, <1>1, <1>10, ReleaseFrees
<1>12. /\ h.type = "Puback" => action'.do = "ReleasePacket" /\ action'.id = id
       /\ h.type = "Suback" => action'.do = "None"
    BY <1>10 DEF ReleasePacket, NoAction
<1>13. /\ to_client' = Tail(to_client)
       /\ UNCHANGED <<saved_identifier, resend, transport>>
       /\ stored' = IF h.type = "Puback" THEN [stored EXCEPT ![id] = None] ELSE stored
    BY <1>3, <1>12 DEF ClientConsume, IsConnected, IsConnecting
<1>14. SessionTypeOK' /\ NoPanic' /\ IsConnected'
    BY <1>0, <1>1, <1>10, <1>13 DEF SessionTypeOK, NoPanic, IsConnected
<1>15. /\ Handshake'
       /\ \A r, a, i : /\ (OnTheWay(r, a, i))' \in Nat
                       /\ OnTheWay(r, a, i) = (OnTheWay(r, a, i))' +
                             (IF Matches(h, a, i) THEN 1 ELSE 0)
    BY <1>0, <1>13, <1>14, ConnectedReads, Zenon DEF h
<1>16. ASSUME NEW i \in Slots
       PROVE  /\ (OnTheWay("Publish", "Puback", i))' \in Nat
              /\ (OnTheWay("Subscribe", "Suback", i))' \in Nat
              /\ OnTheWay("Publish", "Puback", i) = (OnTheWay("Publish", "Puback", i))' +
                    (IF h.type = "Puback" /\ id = i THEN 1 ELSE 0)
              /\ OnTheWay("Subscribe", "Suback", i) = (OnTheWay("Subscribe", "Suback", i))' +
                    (IF h.type = "Suback" /\ id = i THEN 1 ELSE 0)
  <2>1. i # None
      BY NoneAssumption DEF Slots
  <2>2. /\ Matches(h, "Puback", i) <=> h.type = "Puback" /\ id = i
        /\ Matches(h, "Suback", i) <=> h.type = "Suback" /\ id = i
      BY <1>4, <2>1, Zenon
  <2>3. /\ (OnTheWay("Publish", "Puback", i))' \in Nat
        /\ (OnTheWay("Subscribe", "Suback", i))' \in Nat
        /\ OnTheWay("Publish", "Puback", i) = (OnTheWay("Publish", "Puback", i))' +
              (IF Matches(h, "Puback", i) THEN 1 ELSE 0)
        /\ OnTheWay("Subscribe", "Suback", i) = (OnTheWay("Subscribe", "Suback", i))' +
              (IF Matches(h, "Suback", i) THEN 1 ELSE 0)
      BY <1>15, Zenon
  <2> QED BY <2>2, <2>3
<1>17. (OnTheWay("Pingreq", "Pingresp", None))' = OnTheWay("Pingreq", "Pingresp", None)
  <2>1. /\ (OnTheWay("Pingreq", "Pingresp", None))' \in Nat
        /\ OnTheWay("Pingreq", "Pingresp", None) = (OnTheWay("Pingreq", "Pingresp", None))' + 0
      BY <1>4, <1>15, Zenon
  <2> QED BY <2>1
<1> HIDE DEF id
<1>18. CallerAgreesWithMachine'
  <2>1. {i \in DOMAIN stored : stored[i] # None} = InUseForPublish
      BY <1>0 DEF SessionInv, CallerAgreesWithMachine
  <2> QED BY <1>0, <1>1, <1>3, <1>8, <1>11, <1>13, <2>1 DEF CallerAgreesWithMachine, SessionTypeOK
<1>19. WireAgreesWithMachine'
  <2> SUFFICES ASSUME NEW i \in Slots
               PROVE  (/\ OnTheWay("Publish", "Puback", i) <= 1
                       /\ OnTheWay("Subscribe", "Suback", i) <= 1
                       /\ OnTheWay("Publish", "Puback", i) = 1 => i \in InUseForPublish
                       /\ OnTheWay("Subscribe", "Suback", i) = 1 => i \in InUse \ InUseForPublish)'
      BY DEF WireAgreesWithMachine, Slots
  <2>1. CASE i = id
      BY <1>3, <1>5, <1>7, <1>8, <1>16, <2>1
  <2>2. CASE i # id
      BY <1>5, <1>11, <1>16, <2>2
  <2> QED BY <2>1, <2>2
<1>20. PingAgreesWithMachine'
    BY <1>10, <1>13, <1>17 DEF SessionInv, PingAgreesWithMachine, IsConnected
<1>21. SavedIdentity' /\ Borrower'
    BY <1>0, <1>10, <1>13 DEF SessionInv, SavedIdentity, Borrower, NoHandle
<1>22. Resend'
  <2> SUFFICES ASSUME NEW i \in resend
               PROVE  stored'[i] # None /\ (OnTheWay("Publish", "Puback", i))' = 0
      BY <1>13 DEF Resend
  <2>1. i \in Slots /\ stored[i] # None /\ OnTheWay("Publish", "Puback", i) = 0
      BY <1>0 DEF SessionInv, Resend, SessionTypeOK
  <2>2. (OnTheWay("Publish", "Puback", i))' = 0 /\ (h.type = "Puback" => i # id)
      BY <1>7, <1>16, <2>1
  <2> QED BY <1>0, <1>1, <1>13, <2>1, <2>2 DEF SessionTypeOK
<1> QED BY <1>14, <1>15, <1>18, <1>19, <1>20, <1>21, <1>22 DEF SessionInv

\* A PINGRESP comes only while the machine waits for one.
LEMMA ConsumePingrespInv ==
    ASSUME SessionInv, Inv', ClientConsume, IsConnected,
           Head(to_client).type = "Pingresp"
    PROVE  SessionInv'
<1> DEFINE h == Head(to_client)
<1>0. /\ SessionTypeOK /\ Inv /\ to_client # <<>> /\ consume(now, h)
      /\ panic = NotPanicked /\ handle = NoHandle /\ handle' = NoHandle
      /\ Tail(to_client) \in Seq(Answers) /\ polled' = FALSE
      /\ UNCHANGED <<now, sent_at, to_server, published, server_online,
                     server_inflight, server_resend>>
    BY ConsumeFrame
<1>1. ConsumePingresp(now, h)
    BY <1>0 DEF consume, ConsumeConnected, ConsumePublish, ConsumeAck, ConsumeDisconnect,
                IsConnecting, IsConnected, IsDisconnected
<1>2. /\ Matches(h, "Pingresp", None)
      /\ \A i : ~Matches(h, "Puback", i) /\ ~Matches(h, "Suback", i)
    BY DEF Matches
<1> HIDE DEF h
<1>3. OnTheWay("Pingreq", "Pingresp", None) = 1
  <2>1. /\ Count(Tail(to_client), "Pingresp", None) \in Nat
      BY <1>0, MatchingFinite, Zenon
  <2>2. Count(to_client, "Pingresp", None) = Count(Tail(to_client), "Pingresp", None) + 1
      BY <1>0, <1>2, TailCount, Zenon DEF SessionTypeOK, h
  <2>3. /\ Count(to_server, "Pingreq", None) \in Nat
        /\ OnTheWay("Pingreq", "Pingresp", None) =
              Count(to_server, "Pingreq", None) + Count(to_client, "Pingresp", None)
      BY <1>0, OnTheWayNat, Zenon
  <2>4. OnTheWay("Pingreq", "Pingresp", None) <= 1
      BY DEF SessionInv, PingAgreesWithMachine
  <2> QED BY <2>1, <2>2, <2>3, <2>4
<1>4. connection_state.ping_state = "WaitingForPingresp"
    BY <1>3 DEF SessionInv, PingAgreesWithMachine
<1>5. /\ connection_state' = Connected(connection_state.last_time_sent, "WaitingForElapsed")
      /\ action' = NoAction /\ panic' = NotPanicked
      /\ UNCHANGED <<client_id_hash, client_pis>>
    BY <1>1, <1>4 DEF ConsumePingresp, Returns
<1>6. IsConnected' /\ connection_state'.ping_state = "WaitingForElapsed" /\ action'.do = "None"
    BY <1>5 DEF Connected, IsConnected, NoAction
<1>7. /\ to_client' = Tail(to_client)
      /\ UNCHANGED <<stored, saved_identifier, resend, transport>>
    BY <1>6 DEF ClientConsume, IsConnected, IsConnecting
<1>8. SessionTypeOK' /\ NoPanic' /\ Borrower' /\ SavedIdentity'
    BY <1>0, <1>5, <1>7
       DEF SessionTypeOK, NoPanic, Borrower, NoHandle, SessionInv, SavedIdentity
<1>9. /\ Handshake'
      /\ \A r, a, i : /\ (OnTheWay(r, a, i))' \in Nat
                      /\ OnTheWay(r, a, i) = (OnTheWay(r, a, i))' +
                            (IF Matches(h, a, i) THEN 1 ELSE 0)
    BY <1>0, <1>6, <1>7, ConnectedReads, Zenon DEF h
<1>10. (OnTheWay("Pingreq", "Pingresp", None))' = 0
  <2>1. /\ (OnTheWay("Pingreq", "Pingresp", None))' \in Nat
        /\ OnTheWay("Pingreq", "Pingresp", None) = (OnTheWay("Pingreq", "Pingresp", None))' + 1
      BY <1>2, <1>9, Zenon
  <2> QED BY <1>3, <2>1
<1>11. PingAgreesWithMachine'
    BY <1>6, <1>10 DEF PingAgreesWithMachine
<1>12. ASSUME NEW i
       PROVE  /\ (OnTheWay("Publish", "Puback", i))' = OnTheWay("Publish", "Puback", i)
              /\ (OnTheWay("Subscribe", "Suback", i))' = OnTheWay("Subscribe", "Suback", i)
  <2>1. /\ (OnTheWay("Publish", "Puback", i))' \in Nat
        /\ OnTheWay("Publish", "Puback", i) = (OnTheWay("Publish", "Puback", i))' + 0
        /\ (OnTheWay("Subscribe", "Suback", i))' \in Nat
        /\ OnTheWay("Subscribe", "Suback", i) = (OnTheWay("Subscribe", "Suback", i))' + 0
      BY <1>2, <1>9, Zenon
  <2> QED BY <2>1
<1>13. InUse' = InUse /\ InUseForPublish' = InUseForPublish
    BY <1>5 DEF InUse, InUseForPublish
<1>14. CallerAgreesWithMachine'
    BY <1>0, <1>7, <1>13 DEF SessionInv, CallerAgreesWithMachine
<1>15. WireAgreesWithMachine' /\ Resend'
    BY <1>7, <1>12, <1>13 DEF SessionInv, WireAgreesWithMachine, Resend
<1> QED BY <1>8, <1>9, <1>11, <1>14, <1>15 DEF SessionInv

\* The server has said goodbye.
LEMMA ConsumeDisconnectInv ==
    ASSUME SessionInv, Inv', ClientConsume, IsConnected,
           Head(to_client).type = "Disconnect"
    PROVE  SessionInv'
<1> DEFINE h == Head(to_client)
<1>0. /\ SessionTypeOK /\ Inv /\ StoreOK /\ to_client # <<>> /\ consume(now, h)
      /\ panic = NotPanicked /\ handle = NoHandle /\ handle' = NoHandle
      /\ polled' = FALSE
      /\ UNCHANGED <<now, sent_at, to_server, published, server_online,
                     server_inflight, server_resend>>
    BY ConsumeFrame
<1>1. ConsumeDisconnect(now, h)
    BY <1>0 DEF consume, ConsumeConnected, ConsumePublish, ConsumeAck, ConsumePingresp,
                IsConnecting, IsConnected, IsDisconnected
<1>2. /\ reset_connection /\ panic' = NotPanicked /\ action'.do = "Disconnect"
      /\ UNCHANGED client_id_hash
    BY <1>1 DEF ConsumeDisconnect, Returns, DisconnectAction
<1>3. connection_state' = Disconnected /\ InUseForPublish' = InUseForPublish
    BY <1>0, <1>2, ResetConnection
<1>4. /\ to_client' = <<>> /\ transport' = "down" /\ resend' = {}
      /\ UNCHANGED <<stored, saved_identifier>>
    BY <1>2 DEF ClientConsume, IsConnected, IsConnecting
<1>5. SessionTypeOK' /\ NoPanic'
    BY <1>0, <1>2, <1>4, QueueCleared DEF SessionTypeOK, NoPanic
<1>6. Count(to_server, "Connect", None) = 0
    BY DEF SessionInv, Handshake, IsConnected, IsConnecting
<1> QED BY <1>0, <1>2, <1>3, <1>4, <1>5, <1>6, ConnectionEnds

\* Whatever the packet is, the machine expects it.
LEMMA ClientConsumeInv == SessionInv /\ Inv' /\ ClientConsume => SessionInv'
<1> SUFFICES ASSUME SessionInv, Inv', ClientConsume, IsConnected PROVE SessionInv'
    BY ConsumeFrame, ConsumeConnackInv
<1>0. /\ SessionTypeOK /\ Head(to_client) \in Answers /\ Head(to_client) \in Packets(to_client)
    BY ConsumeFrame
<1>1. Head(to_client).type # "Connack"
  <2>1. Count(to_client, "Connack", None) = 0 /\ to_client \in Seq(Answers)
      BY <1>0 DEF SessionInv, Handshake, IsConnected, IsConnecting, SessionTypeOK
  <2>2. ~Matches(Head(to_client), "Connack", None)
      BY <1>0, <2>1, CountZero, Zenon
  <2> QED BY <2>2 DEF Matches
<1>2. Head(to_client).type \in {"Publish", "Puback", "Suback", "Pingresp", "Disconnect"}
    BY <1>0, <1>1 DEF Answers, SessionConnacks, ServerPublishes
<1> QED BY <1>2, ConsumePublishInv, ConsumeAckSessionInv, ConsumePingrespInv, ConsumeDisconnectInv

-----------------------------------------------------------------------------
(***************************************************************************)
(* The invariant holds in every state of the session.                      *)
(***************************************************************************)
\* A session that has not begun.
LEMMA SessionInvInit == SessionInit => SessionInv
<1> SUFFICES ASSUME SessionInit PROVE SessionInv
    OBVIOUS
<1>0. /\ Inv /\ Init /\ InUse = {} /\ InUseForPublish = {}
    BY InvInit, EmptyStoreOK DEF SessionInit, Init
<1>1. /\ IsDisconnected /\ ~IsConnected /\ ~IsConnecting
      /\ client_id_hash = None /\ handle = NoHandle /\ panic = NotPanicked
    BY <1>0 DEF Init, Disconnected, IsConnected, IsConnecting, IsDisconnected
<1>2. SessionTypeOK
    BY SessionAssumption, QueueCleared DEF SessionInit, SessionTypeOK, Slots
<1>3. NoPanic /\ CallerAgreesWithMachine /\ WireAgreesWithMachine
    BY <1>0, <1>1
       DEF NoPanic, CallerAgreesWithMachine, WireAgreesWithMachine, SessionInit
<1>4. PingAgreesWithMachine
  <2>1. OnTheWay("Pingreq", "Pingresp", None) = 0
      BY QueueCleared DEF SessionInit, OnTheWay
  <2> QED BY <1>1, <2>1 DEF PingAgreesWithMachine
<1>5. SavedIdentity /\ Borrower /\ Resend
    BY <1>1 DEF SavedIdentity, Borrower, NoHandle, Resend, SessionInit
<1>6. Handshake
    BY <1>1, QueueCleared DEF Handshake, SessionInit
<1> QED BY <1>0, <1>2, <1>3, <1>4, <1>5, <1>6 DEF SessionInv

\* Every step of the caller, the network and the server.
LEMMA SessionInvStep == SessionInv /\ [SessionNext]_sessionVars => SessionInv'
<1> SUFFICES ASSUME SessionInv, [SessionNext]_sessionVars PROVE SessionInv'
    OBVIOUS
<1>0. Inv'
    BY SessionStepIsMachineStep, InvStep DEF SessionInv
<1>1. CASE ClientStep
    BY <1>0, <1>1, ClientConnectInv, ClientStoreInv, ClientSendInv, ClientDisconnectPacketInv,
       ClientDisconnectConnectionInv, ClientQuietInv, ClientConsumeInv, ClientNoticesLossInv
       DEF ClientStep
<1>2. CASE ClientPublish \/ ClientSubscribe \/ ClientDisconnect
    BY <1>0, <1>2, ClientPublishInv, ClientSubscribeInv, ClientQuietInv
<1>3. CASE \E id \in DOMAIN stored : ClientResend(id)
    BY <1>0, <1>3, ClientResendInv
<1>4. CASE \E id \in ServerIdentifiers : ClientAcknowledge(id) \/ ClientForgetsAck(id)
    BY <1>0, <1>4, ClientAcknowledgeInv, ClientQuietInv
<1>5. CASE ClientRun \/ Tick
    BY <1>0, <1>5, ClientRunInv, ClientQuietInv
<1>6. CASE TransportBreaks \/ ServerReceive \/ ServerPublish \/ ServerDisconnect
    BY <1>0, <1>6, TransportBreaksInv, ServerReceiveInv, ServerPublishInv, ServerDisconnectInv
<1>7. CASE \E id \in ServerIdentifiers : ServerResend(id)
    BY <1>0, <1>7, ServerResendInv
<1>8. CASE UNCHANGED sessionVars
  <2>1. /\ UNCHANGED <<client_pis, connection_state, client_id_hash, handle, panic>>
        /\ UNCHANGED <<now, polled, sent_at, transport, to_server, to_client, saved_identifier,
                       stored, resend, published, server_online, server_inflight, server_resend>>
      BY <1>8 DEF sessionVars, vars, data, clock, wire, caller, server
  <2>2. SessionTypeOK' /\ NoPanic'
      BY <2>1 DEF SessionInv, SessionTypeOK, NoPanic
  <2> QED BY <1>0, <2>1, <2>2, QuietStep
<1> QED BY <1>1, <1>2, <1>3, <1>4, <1>5, <1>6, <1>7, <1>8 DEF SessionNext

\* A session is a use of the machine: whatever MqttClientFSM guarantees under
\* every caller and every server, it guarantees in the session.
THEOREM SessionUsesMachine == SessionSafety => Spec
<1>1. SessionInit => Init
    BY DEF SessionInit
<1>2. SessionInv => SessionTypeOK
    BY DEF SessionInv
<1> QED BY <1>1, <1>2, SessionInvInit, SessionInvStep, SessionStepIsMachineStep, PTL
        DEF SessionSafety, Spec

\* No caller and no server that follow the rules make the machine panic, on
\* however many connections and wherever they break: no assertion of
\* handle_connect, handle_connecting_without_auth or handle_connected fails,
\* the identifier store is never exhausted and no todo!() is reached.
THEOREM SessionNeverPanics == SessionSafety => []NoPanic
<1>1. SessionInv => NoPanic
    BY DEF SessionInv
<1> QED BY <1>1, SessionInvInit, SessionInvStep, PTL DEF SessionSafety

\* The caller keeps exactly the publishes whose identifiers are allocated.
THEOREM SessionCallerAgrees == SessionSafety => []CallerAgreesWithMachine
<1>1. SessionInv => CallerAgreesWithMachine
    BY DEF SessionInv
<1> QED BY <1>1, SessionInvInit, SessionInvStep, PTL DEF SessionSafety

\* An identifier is on the wire at most once and for the purpose it is
\* allocated for, so that no acknowledgement releases something else.
THEOREM SessionWireAgrees == SessionSafety => []WireAgreesWithMachine
<1>1. SessionInv => WireAgreesWithMachine
    BY DEF SessionInv
<1> QED BY <1>1, SessionInvInit, SessionInvStep, PTL DEF SessionSafety

\* At most one ping is outstanding, and the machine waits for its answer
\* exactly while that can come.
THEOREM SessionPingAgrees == SessionSafety => []PingAgreesWithMachine
<1>1. SessionInv => PingAgreesWithMachine
    BY DEF SessionInv
<1> QED BY <1>1, SessionInvInit, SessionInvStep, PTL DEF SessionSafety

-----------------------------------------------------------------------------
(***************************************************************************)
(* The keep-alive.  The machine measures silence from last_time_sent, the  *)
(* caller from when it last wrote a packet: the machine must never believe *)
(* that something was sent later than it was.                              *)
(***************************************************************************)
TimeInv ==
    /\ sent_at <= now
    /\ IsConnecting => connection_state.connect_sent <= sent_at
    /\ IsConnected => connection_state.last_time_sent <= sent_at
    /\ KeepAliveIsKept

\* The times are numbers.
LEMMA TimesAreNumbers ==
    ASSUME SessionInv
    PROVE  /\ now \in Nat /\ sent_at \in Nat /\ keep_alive \in Nat
           /\ IsConnecting => connection_state.connect_sent \in Nat
           /\ IsConnected => /\ connection_state.last_time_sent \in Nat
                             /\ connection_state.ping_state \in PingStates
<1>1. now \in Nat /\ sent_at \in Nat /\ keep_alive \in Nat
    BY InstantsAssumption DEF SessionInv, SessionTypeOK, Inv, TypeOK
<1>2. connection_state \in ConnectionStates
    BY MachineFacts DEF SessionInv
<1> QED BY <1>1, <1>2, ConnectionStateShape, InstantsAssumption

\* A call after which the caller has to poll again, and that makes the machine
\* believe only in packets that were sent.
LEMMA UnpolledStep ==
    ASSUME SessionInv, TimeInv, polled' = FALSE, now' = now,
           \/ connection_state' = connection_state /\ sent_at' \in {sent_at, now}
           \/ connection_state' = Disconnected /\ sent_at' \in {sent_at, now}
           \/ connection_state' = ConnectingWithoutAuth(now) /\ sent_at' = now
           \/ \E ping : connection_state' = Connected(now, ping) /\ sent_at' = now
           \/ IsConnecting /\ sent_at' = sent_at
              /\ \E ping : connection_state' = Connected(connection_state.connect_sent, ping)
           \/ IsConnected /\ sent_at' = sent_at
              /\ \E ping : connection_state' = Connected(connection_state.last_time_sent, ping)
    PROVE  TimeInv'
<1>0. /\ now \in Nat /\ sent_at \in Nat /\ sent_at <= now
      /\ IsConnecting => /\ connection_state.connect_sent \in Nat
                         /\ connection_state.connect_sent <= sent_at
      /\ IsConnected => /\ connection_state.last_time_sent \in Nat
                        /\ connection_state.last_time_sent <= sent_at
    BY TimesAreNumbers DEF TimeInv
<1>1. KeepAliveIsKept' /\ sent_at' <= now'
    BY <1>0 DEF KeepAliveIsKept
<1>2. /\ IsConnecting' => connection_state'.connect_sent <= sent_at'
      /\ IsConnected' => connection_state'.last_time_sent <= sent_at'
  <2>1. CASE connection_state' = connection_state /\ sent_at' \in {sent_at, now}
      BY <1>0, <2>1 DEF IsConnected, IsConnecting
  <2>2. CASE connection_state' = Disconnected
      BY <2>2 DEF IsConnected, IsConnecting, Disconnected
  <2>3. CASE connection_state' = ConnectingWithoutAuth(now) /\ sent_at' = now
      BY <1>0, <2>3 DEF IsConnected, IsConnecting, ConnectingWithoutAuth
  <2>4. CASE \E ping : connection_state' = Connected(now, ping) /\ sent_at' = now
      BY <1>0, <2>4 DEF IsConnected, IsConnecting, Connected
  <2>5. CASE IsConnecting /\ sent_at' = sent_at
             /\ \E ping : connection_state' = Connected(connection_state.connect_sent, ping)
      BY <1>0, <2>5 DEF IsConnected, IsConnecting, Connected
  <2>6. CASE IsConnected /\ sent_at' = sent_at
             /\ \E ping : connection_state' = Connected(connection_state.last_time_sent, ping)
      BY <1>0, <2>6 DEF IsConnected, IsConnecting, Connected
  <2> QED BY <2>1, <2>2, <2>3, <2>4, <2>5, <2>6
<1> QED BY <1>1, <1>2 DEF TimeInv

\* A connected machine that is asked to send a packet notes the time.
LEMMA SentNow ==
    ASSUME NEW packet, NEW site, NEW expects, IsConnected, Transmit,
           inner_run_PublishPacket(now, packet, site, expects)
    PROVE  /\ connection_state' = Connected(now, connection_state.ping_state)
           /\ sent_at' = now /\ now' = now /\ polled' = FALSE
<1>1. /\ connection_state' = Connected(now, connection_state.ping_state)
      /\ action' = SendPacket(packet)
    BY DEF inner_run_PublishPacket, IsConnected, IsConnecting, IsDisconnected, Returns
<1> QED BY <1>1 DEF Transmit, SendPacket

\* Every step of the session keeps the times in order.
LEMMA TimeInvStep ==
    ASSUME SessionInv, SessionInv', TimeInv, [SessionNext]_sessionVars
    PROVE  TimeInv'
<1>1. CASE ClientConnect
  <2>1. connection_state = Disconnected
      BY <1>1, MachineFacts, ConnectionStateShape DEF ClientConnect, SessionInv
  <2>2. connection_state' \in {connection_state, ConnectingWithoutAuth(now)}
      BY <1>1 DEF ClientConnect, handle_connect
  <2> QED BY <1>1, <2>1, <2>2, UnpolledStep DEF ClientConnect
<1>2. CASE \/ ClientPublish \/ ClientStore \/ ClientDisconnect \/ ClientDisconnectPacket
  <2>1. UNCHANGED connection_state /\ Transmit
      BY <1>2 DEF ClientPublish, publish, ClientStore, PublisherStore, ClientDisconnect,
                  disconnect, ClientDisconnectPacket, DisconnecterPacket
  <2> QED BY <2>1, UnpolledStep DEF Transmit
<1>3. CASE ClientSend
  <2>1. IsConnected
      BY <1>3 DEF ClientSend, PublisherSend, SessionInv, Borrower
  <2>2. Transmit /\ inner_run_PublishPacket(now, handle.packet, "publish", FALSE)
      BY <1>3 DEF ClientSend, PublisherSend
  <2> QED BY <2>1, <2>2, SentNow, UnpolledStep
<1>4. CASE ClientSubscribe
  <2>1. PICK id :
            \/ Panics("subscribe") /\ UNCHANGED <<last_time_run, connection_state>>
            \/ inner_run_PublishPacket(now, SubscribePacket(id), "subscribe", TRUE)
      BY <1>4 DEF ClientSubscribe, subscribe
  <2>2. IsConnected /\ Transmit
      BY <1>4 DEF ClientSubscribe
  <2>3. CASE UNCHANGED connection_state
      BY <2>2, <2>3, UnpolledStep DEF Transmit
  <2> QED BY <2>1, <2>2, <2>3, SentNow, UnpolledStep
<1>5. CASE \E id \in ServerIdentifiers : ClientAcknowledge(id)
  <2>1. PICK id \in ServerIdentifiers : ClientAcknowledge(id)
      BY <1>5
  <2>2. /\ IsConnected /\ Transmit
        /\ inner_run_PublishPacket(now, PubackPacket(id), "acknowledge", TRUE)
      BY <2>1 DEF ClientAcknowledge, acknowledge
  <2> QED BY <2>2, SentNow, UnpolledStep
<1>6. CASE ClientConsume
  <2>1. now' = now /\ sent_at' = sent_at /\ polled' = FALSE
      BY <1>6 DEF ClientConsume
  <2>2. \/ connection_state' = connection_state \/ connection_state' = Disconnected
        \/ IsConnecting /\ connection_state' =
                             Connected(connection_state.connect_sent, "WaitingForElapsed")
        \/ IsConnected /\ connection_state' =
                             Connected(connection_state.last_time_sent, "WaitingForElapsed")
      BY <1>6 DEF ClientConsume, consume, ConsumeConnecting, ConsumeConnected, ConsumePublish,
                  ConsumeAck, ConsumePingresp, ConsumeDisconnect, reset_connection, data
  <2> QED BY <2>1, <2>2, UnpolledStep
<1>7. CASE ClientNoticesLoss
  <2>1. connection_state' = Disconnected
      BY <1>7 DEF ClientNoticesLoss, connection_lost, reset_connection
  <2> QED BY <1>7, <2>1, UnpolledStep DEF ClientNoticesLoss
<1>8. CASE ClientDisconnectConnection
  <2>1. connection_state' = Disconnected /\ UNCHANGED <<now, sent_at>>
      BY <1>8 DEF ClientDisconnectConnection, DisconnecterConnection, reset_connection, clock
  <2>2. ~IsConnected' /\ ~IsConnecting'
      BY <2>1 DEF Disconnected, IsConnected, IsConnecting
  <2> QED BY <2>1, <2>2 DEF TimeInv, KeepAliveIsKept
<1>9. CASE ClientRun
  <2>0. now \in Nat /\ sent_at \in Nat /\ keep_alive \in Nat /\ sent_at <= now
        /\ now' = now /\ keep_alive' = keep_alive
      BY <1>9, TimesAreNumbers DEF TimeInv, ClientRun, run
  <2>1. CASE PingDue(now)
    <3>1. /\ connection_state' = Connected(now, "WaitingForPingresp")
          /\ action' = SendPacket(PingreqPacket)
        BY <1>9, <2>1 DEF ClientRun, run, Returns
    <3>2. sent_at' = now
        BY <1>9, <3>1 DEF ClientRun, SendPacket, NoAction
    <3>3. /\ IsConnected' /\ ~IsConnecting' /\ connection_state'.last_time_sent = now
          /\ connection_state'.ping_state = "WaitingForPingresp"
        BY <3>1 DEF Connected, IsConnected, IsConnecting
    <3> QED BY <2>0, <3>2, <3>3 DEF TimeInv, KeepAliveIsKept
  <2>2. CASE ~PingDue(now)
    <3>1. UNCHANGED connection_state /\ action' = NoAction
        BY <1>9, <2>2 DEF ClientRun, run, Returns
    <3>2. sent_at' = sent_at
        BY <1>9, <3>1 DEF ClientRun
    <3>3. KeepAliveIsKept'
      <4> SUFFICES ASSUME IsConnected, keep_alive > 0,
                          connection_state.ping_state # "WaitingForPingresp"
                   PROVE  now - sent_at < keep_alive
          BY <2>0, <3>1, <3>2 DEF KeepAliveIsKept, IsConnected
      <4>1. /\ connection_state.last_time_sent \in Nat
            /\ connection_state.last_time_sent <= sent_at
            /\ connection_state.ping_state = "WaitingForElapsed"
          BY TimesAreNumbers DEF TimeInv, PingStates
      <4>2. elapsed_seconds(connection_state.last_time_sent, now) < keep_alive
          BY <2>0, <2>2, <4>1 DEF PingDue, elapsed_seconds
      <4> QED BY <2>0, <4>1, <4>2 DEF elapsed_seconds
    <3> QED BY <2>0, <3>1, <3>2, <3>3 DEF TimeInv, IsConnected, IsConnecting
  <2> QED BY <2>1, <2>2
<1>10. CASE Tick
  <2>1. now' = now + 1 /\ polled' = FALSE /\ UNCHANGED <<connection_state, sent_at>>
      BY <1>10 DEF Tick, vars
  <2> QED BY <2>1, TimesAreNumbers DEF TimeInv, KeepAliveIsKept, IsConnected, IsConnecting
<1>11. CASE \/ (\E id \in DOMAIN stored : ClientResend(id))
            \/ (\E id \in ServerIdentifiers : ClientForgetsAck(id) \/ ServerResend(id))
            \/ ClientDropHandle \/ TransportBreaks \/ ServerReceive \/ ServerPublish
            \/ ServerDisconnect \/ UNCHANGED sessionVars
  <2>1. UNCHANGED <<connection_state, keep_alive, now, polled, sent_at>>
      BY <1>11 DEF ClientResend, ClientForgetsAck, DropAcknowledgeAction, ServerResend,
                   ClientDropHandle, DropHandle, TransportBreaks, ServerReceive, ServerPublish,
                   ServerDisconnect, sessionVars, vars, data, clock
  <2> QED BY <2>1 DEF TimeInv, KeepAliveIsKept, IsConnected, IsConnecting
<1> QED BY <1>1, <1>2, <1>3, <1>4, <1>5, <1>6, <1>7, <1>8, <1>9, <1>10, <1>11
        DEF SessionNext, ClientStep

\* A caller that polls the machine is never silent for the keep-alive time
\* without a PINGREQ on its way, whichever keep-alive is in force.
THEOREM SessionKeepsAlive == SessionSafety => []KeepAliveIsKept
<1>1. SessionInit => TimeInv
    BY DEF SessionInit, Init, TimeInv, KeepAliveIsKept, IsConnected, IsConnecting, Disconnected
<1>2. TimeInv => KeepAliveIsKept
    BY DEF TimeInv
<1> QED BY <1>1, <1>2, SessionInvInit, SessionInvStep, TimeInvStep, PTL DEF SessionSafety

-----------------------------------------------------------------------------
(***************************************************************************)
(* Delivery: in both directions every step of the session is a step of     *)
(* AtLeastOnce or none.  The proofs rest on SessionInv.                    *)
(***************************************************************************)

\* A queue holds packets of its kind.
LEMMA PacketsInQueue ==
    ASSUME NEW S, NEW q \in Seq(S)
    PROVE  Packets(q) \subseteq S
<1>1. DOMAIN q = 1 .. Len(q) /\ \A i \in 1 .. Len(q) : q[i] \in S
    BY LenProperties, ElementOfSeq
<1> QED BY <1>1 DEF Packets

\* Whatever is written to a queue is the only new packet in it.
LEMMA WrittenPacket ==
    ASSUME NEW S, NEW q \in Seq(S), NEW p
    PROVE  Packets(Append(q, p)) = Packets(q) \cup {p}
<1>1. q \in Seq(S \cup {p})
    OBVIOUS
<1>2. p \in S \cup {p}
    OBVIOUS
<1> QED BY <1>1, <1>2, AppendPackets

\* What the caller's Transmit writes.
LEMMA TransmitWrites ==
    ASSUME SessionTypeOK, Transmit
    PROVE  /\ Packets(to_server') \subseteq Packets(to_server) \cup
                 (IF action'.do = "SendPacket" THEN {action'.packet} ELSE {})
           /\ UNCHANGED <<to_client, transport>>
<1>1. Packets(Append(to_server, action'.packet)) = Packets(to_server) \cup {action'.packet}
    BY WrittenPacket DEF SessionTypeOK
<1> QED BY <1>1 DEF Transmit

\* What the server's Reply writes.
LEMMA ReplyWrites ==
    ASSUME SessionTypeOK, NEW p, Reply(p)
    PROVE  Packets(to_client') \subseteq Packets(to_client) \cup {p}
<1>1. Packets(Append(to_client, p)) = Packets(to_client) \cup {p}
    BY WrittenPacket DEF SessionTypeOK
<1> QED BY <1>1 DEF Reply

\* A publish or its acknowledgement is on its way only while the publish is kept.
LEMMA OnTheWayIsStored ==
    SessionInv /\ IsConnected =>
        /\ \A packet \in Packets(to_server) : packet.type = "Publish" =>
              packet.packet_identifier \in Slots /\ stored[packet.packet_identifier] # None
        /\ \A packet \in Packets(to_client) : packet.type = "Puback" =>
              packet.packet_identifier \in Slots /\ stored[packet.packet_identifier] # None
<1> SUFFICES ASSUME SessionInv, IsConnected
             PROVE  /\ \A packet \in Packets(to_server) : packet.type = "Publish" =>
                          /\ packet.packet_identifier \in Slots
                          /\ stored[packet.packet_identifier] # None
                    /\ \A packet \in Packets(to_client) : packet.type = "Puback" =>
                          /\ packet.packet_identifier \in Slots
                          /\ stored[packet.packet_identifier] # None
    OBVIOUS
<1>0. SessionTypeOK /\ to_server \in Seq(Requests) /\ to_client \in Seq(Answers)
    BY DEF SessionInv, SessionTypeOK
<1>1. \A id \in Slots : OnTheWay("Publish", "Puback", id) # 0 => stored[id] # None
  <2> SUFFICES ASSUME NEW id \in Slots, OnTheWay("Publish", "Puback", id) # 0
               PROVE  stored[id] # None
      OBVIOUS
  <2>1. OnTheWay("Publish", "Puback", id) \in Nat
      BY <1>0, OnTheWayNat, Zenon
  <2>2. id \in InUseForPublish
      BY <2>1 DEF SessionInv, WireAgreesWithMachine, Slots
  <2> QED BY <2>2 DEF SessionInv, CallerAgreesWithMachine, NoPanic
<1>2. ASSUME NEW packet \in Packets(to_server), packet.type = "Publish"
      PROVE  packet.packet_identifier \in Slots /\ stored[packet.packet_identifier] # None
  <2> DEFINE id == packet.packet_identifier
  <2>1. id \in Slots
      BY <1>0, <1>2, PacketsInQueue DEF Requests, ConnectPackets, StoredPublishes
  <2>2. Matches(packet, "Publish", id)
      BY <1>2 DEF Matches
  <2> HIDE DEF id
  <2>3. Count(to_server, "Publish", id) # 0
      BY <1>0, <2>2, CountZero, Zenon
  <2>4. /\ Count(to_server, "Publish", id) \in Nat /\ Count(to_client, "Puback", id) \in Nat
        /\ OnTheWay("Publish", "Puback", id) =
              Count(to_server, "Publish", id) + Count(to_client, "Puback", id)
      BY <1>0, OnTheWayNat, Zenon
  <2> QED BY <1>1, <2>1, <2>3, <2>4 DEF id
<1>3. ASSUME NEW packet \in Packets(to_client), packet.type = "Puback"
      PROVE  packet.packet_identifier \in Slots /\ stored[packet.packet_identifier] # None
  <2> DEFINE id == packet.packet_identifier
  <2>1. id \in Slots
      BY <1>0, <1>3, PacketsInQueue DEF Answers, SessionConnacks, ServerPublishes
  <2>2. Matches(packet, "Puback", id)
      BY <1>3 DEF Matches
  <2> HIDE DEF id
  <2>3. Count(to_client, "Puback", id) # 0
      BY <1>0, <2>2, CountZero, Zenon
  <2>4. /\ Count(to_server, "Publish", id) \in Nat /\ Count(to_client, "Puback", id) \in Nat
        /\ OnTheWay("Publish", "Puback", id) =
              Count(to_server, "Publish", id) + Count(to_client, "Puback", id)
      BY <1>0, OnTheWayNat, Zenon
  <2> QED BY <1>1, <2>1, <2>3, <2>4 DEF id
<1> QED BY <1>2, <1>3

\* The same in the next state.
LEMMA OnTheWayIsStoredNext ==
    SessionInv' /\ IsConnected' =>
        /\ \A packet \in Packets(to_server') : packet.type = "Publish" =>
              packet.packet_identifier \in Slots /\ stored'[packet.packet_identifier] # None
        /\ \A packet \in Packets(to_client') : packet.type = "Puback" =>
              packet.packet_identifier \in Slots /\ stored'[packet.packet_identifier] # None
<1>1. (SessionInv /\ IsConnected =>
        /\ \A packet \in Packets(to_server) : packet.type = "Publish" =>
              packet.packet_identifier \in Slots /\ stored[packet.packet_identifier] # None
        /\ \A packet \in Packets(to_client) : packet.type = "Puback" =>
              packet.packet_identifier \in Slots /\ stored[packet.packet_identifier] # None)'
    BY OnTheWayIsStored, PTL
<1> QED BY <1>1 DEF Packets, Slots

-----------------------------------------------------------------------------
\* What reading a packet comes to, in a session.
LEMMA ConsumeOutcome ==
    ASSUME SessionInv, SessionInv', ClientConsume
    PROVE  LET h == Head(to_client)
           IN  /\ h \in Answers /\ to_client # <<>>
               /\ Packets(to_client') \subseteq Packets(to_client) /\ h \in Packets(to_client)
               /\ UNCHANGED <<to_server, published, server_online, server_inflight,
                              server_resend, server_published, server_received>>
               /\ \/ /\ IsConnecting /\ h.type = "Connack" /\ to_server = <<>>
                     /\ \A packet \in Packets(to_client') : packet.type # "Puback"
                     /\ to_client' = Tail(to_client)
                     /\ UNCHANGED <<stored, acks, app_received>>
                  \/ /\ IsConnected /\ IsConnected' /\ h \in ServerPublishes
                     /\ acks' = [acks EXCEPT ![h.packet_identifier] = @ + 1]
                     /\ app_received' = app_received \cup {h.message}
                     /\ to_client' = Tail(to_client)
                     /\ UNCHANGED stored
                  \/ /\ IsConnected /\ IsConnected' /\ h.type = "Puback"
                     /\ h.packet_identifier \in Slots
                     /\ stored' = [stored EXCEPT ![h.packet_identifier] = None]
                     /\ to_client' = Tail(to_client)
                     /\ UNCHANGED <<acks, app_received>>
                  \/ /\ IsConnected /\ IsConnected' /\ h.type \in {"Suback", "Pingresp"}
                     /\ to_client' = Tail(to_client)
                     /\ UNCHANGED <<stored, acks, app_received>>
                  \/ /\ IsConnected /\ IsDisconnected' /\ ~IsConnected' /\ h.type = "Disconnect"
                     /\ to_client' = <<>>
                     /\ UNCHANGED <<stored, acks, app_received>>
<1> DEFINE h == Head(to_client)
<1>0. /\ SessionTypeOK /\ Inv /\ to_client # <<>> /\ consume(now, h) /\ h \in Answers
      /\ h \in Packets(to_client) /\ (IsConnecting \/ IsConnected)
      /\ panic' = NotPanicked
      /\ UNCHANGED <<to_server, published, server_online, server_inflight,
                     server_resend, server_published, server_received>>
    BY ConsumeFrame DEF ClientConsume, server, SessionInv, NoPanic
<1>1. to_client' \in {Tail(to_client), <<>>} /\ Packets(to_client') \subseteq Packets(to_client)
  <2>1. to_client' \in {Tail(to_client), <<>>}
      BY DEF ClientConsume
  <2>2. Packets(Tail(to_client)) \subseteq Packets(to_client) /\ Packets(<<>>) = {}
      BY <1>0, TailPackets, QueueCleared DEF SessionTypeOK
  <2> QED BY <2>1, <2>2
<1>2. CASE IsConnecting
  <2>1. /\ h \in SessionConnacks /\ to_server = <<>>
        /\ \A packet \in Packets(Tail(to_client)) : packet.type \in {"Publish", "Disconnect"}
      BY <1>0, <1>2 DEF SessionInv, Handshake
  <2>2. ConsumeConnecting(now, h)
      BY <1>0, <1>2 DEF consume, IsConnecting, IsConnected, IsDisconnected
  <2>3. h.type = "Connack"
      BY <2>1 DEF SessionConnacks
  <2>4. action'.do \in {"SaveClientIdentifier", "None"} /\ UNCHANGED acks
      BY <1>0, <2>2
         DEF ConsumeConnecting, Returns, Panics, NotPanicked, SaveClientIdentifier, NoAction
  <2>5. to_client' = Tail(to_client) /\ UNCHANGED <<stored, app_received>>
      BY <2>4 DEF ClientConsume
  <2> QED BY <1>0, <1>1, <1>2, <2>1, <2>3, <2>4, <2>5
<1>3. CASE IsConnected
  <2>0. ConsumeConnected(now, h) /\ ~IsConnecting
      BY <1>0, <1>3 DEF consume, IsConnecting, IsConnected, IsDisconnected
  <2>1. CASE ConsumePublish(now, h)
    <3>1. h \in ServerPublishes
        BY <1>0, <2>1 DEF ConsumePublish, Answers, SessionConnacks
    <3>2. h.quality_of_service = "AtLeastOnce" /\ h.packet_identifier # None
        BY <3>1, SessionAssumption DEF ServerPublishes
    <3>3. /\ action' = AcknowledgeNeeded(h) /\ UNCHANGED connection_state
          /\ acks' = [acks EXCEPT ![h.packet_identifier] = @ + 1]
        BY <2>1, <3>2 DEF ConsumePublish, Returns
    <3>4. action'.do = "AcknowledgeNeeded" /\ action'.packet = h
        BY <3>3 DEF AcknowledgeNeeded
    <3>5. /\ to_client' = Tail(to_client) /\ UNCHANGED stored
          /\ app_received' = app_received \cup {h.message}
        BY <3>4 DEF ClientConsume
    <3> QED BY <1>0, <1>1, <1>3, <3>1, <3>3, <3>5 DEF IsConnected
  <2>2. CASE ConsumeAck(now, h)
    <3>1. h.type \in {"Puback", "Suback"} /\ h.packet_identifier \in Slots
        BY <1>0, <2>2 DEF ConsumeAck, Answers, SessionConnacks, ServerPublishes
    <3>2. /\ action' = IF h.type = "Puback" THEN ReleasePacket(h.packet_identifier) ELSE NoAction
          /\ UNCHANGED <<connection_state, acks>>
        BY <1>0, <2>2 DEF ConsumeAck, Returns, Panics, NotPanicked
    <3>3. CASE h.type = "Puback"
      <4>1. action'.do = "ReleasePacket" /\ action'.id = h.packet_identifier
          BY <3>2, <3>3 DEF ReleasePacket
      <4>2. /\ to_client' = Tail(to_client) /\ UNCHANGED app_received
            /\ stored' = [stored EXCEPT ![h.packet_identifier] = None]
          BY <4>1 DEF ClientConsume
      <4> QED BY <1>0, <1>1, <1>3, <3>1, <3>2, <3>3, <4>2 DEF IsConnected
    <3>4. CASE h.type = "Suback"
      <4>1. action'.do = "None"
          BY <3>2, <3>4 DEF NoAction
      <4>2. to_client' = Tail(to_client) /\ UNCHANGED <<app_received, stored>>
          BY <4>1 DEF ClientConsume
      <4> QED BY <1>0, <1>1, <1>3, <3>2, <3>4, <4>2 DEF IsConnected
    <3> QED BY <3>1, <3>3, <3>4
  <2>3. CASE ConsumePingresp(now, h)
    <3>1. /\ h.type = "Pingresp" /\ action'.do = "None" /\ UNCHANGED acks
          /\ connection_state' = Connected(connection_state.last_time_sent, "WaitingForElapsed")
        BY <1>0, <2>3 DEF ConsumePingresp, Returns, Panics, NotPanicked, NoAction
    <3>2. to_client' = Tail(to_client) /\ UNCHANGED <<app_received, stored>> /\ IsConnected'
        BY <3>1 DEF ClientConsume, Connected, IsConnected
    <3> QED BY <1>0, <1>1, <1>3, <3>1, <3>2
  <2>4. CASE ConsumeDisconnect(now, h)
    <3>1. /\ h.type = "Disconnect" /\ action'.do = "Disconnect" /\ UNCHANGED acks
          /\ connection_state' = Disconnected
        BY <2>4 DEF ConsumeDisconnect, Returns, DisconnectAction, reset_connection
    <3>2. /\ to_client' = <<>> /\ UNCHANGED <<app_received, stored>>
          /\ ~IsConnected' /\ IsDisconnected'
        BY <3>1 DEF ClientConsume, Disconnected, IsConnected, IsDisconnected
    <3> QED BY <1>0, <1>1, <1>3, <3>1, <3>2
  <2> QED BY <1>0, <2>0, <2>1, <2>2, <2>3, <2>4 DEF ConsumeConnected, Panics, NotPanicked
<1> QED BY <1>0, <1>2, <1>3

-----------------------------------------------------------------------------
(***************************************************************************)
(* From the client to the server.                                          *)
(*                                                                         *)
(* A stored publish is forgotten when a PUBACK releases its identifier.    *)
(* That is right because on a connection the packet under an identifier is *)
(* the publish stored under it, and a PUBACK is only on its way when the   *)
(* server has that publish.                                                *)
(***************************************************************************)
UpInv ==
    /\ server_received \subseteq published
    /\ \A id \in Slots : stored[id] # None => stored[id] \in published
    /\ \A i, j \in Slots : stored[i] # None /\ stored[i] = stored[j] => i = j
    /\ \A packet \in Packets(to_server) :
          packet.type = "Publish" => packet.message \in published
    /\ IsConnected =>
          /\ \A packet \in Packets(to_server) : packet.type = "Publish" =>
                stored[packet.packet_identifier] = packet.message
          /\ \A packet \in Packets(to_client) : packet.type = "Puback" =>
                stored[packet.packet_identifier] \in server_received
    /\ published \subseteq server_received \cup Pending(stored)

\* A step that writes no publish to the server but stored ones, and no PUBACK
\* to the client.
LEMMA UpFrame ==
    ASSUME UpInv, UNCHANGED <<stored, published, server_received>>,
           \A packet \in Packets(to_server') : packet.type = "Publish" =>
              \/ packet \in Packets(to_server)
              \/ /\ packet.packet_identifier \in Slots /\ packet.message # None
                 /\ stored[packet.packet_identifier] = packet.message,
           IsConnected' =>
              /\ IsConnected
              /\ \A packet \in Packets(to_client') :
                    packet.type = "Puback" => packet \in Packets(to_client)
    PROVE  UpInv' /\ UNCHANGED ClientToServer!vars
<1>1. UNCHANGED ClientToServer!vars
    BY DEF ClientToServer!vars
<1>2. \A packet \in Packets(to_server') :
          packet.type = "Publish" => packet.message \in published'
    BY DEF UpInv
<1>3. IsConnected' =>
          /\ \A packet \in Packets(to_server') : packet.type = "Publish" =>
                stored'[packet.packet_identifier] = packet.message
          /\ \A packet \in Packets(to_client') : packet.type = "Puback" =>
                stored'[packet.packet_identifier] \in server_received'
    BY DEF UpInv
<1>4. Pending(stored') = Pending(stored)
    OBVIOUS
<1> QED BY <1>1, <1>2, <1>3, <1>4 DEF UpInv

\* publish stores a new message under a free identifier: it is accepted.
LEMMA UpStore ==
    ASSUME SessionInv, SessionInv', UpInv, ClientStore
    PROVE  UpInv' /\ [ClientToServer!Next]_(ClientToServer!vars)
<1>0. /\ SessionTypeOK /\ Inv /\ StoreOK /\ IsConnected
      /\ handle.packet.message \in ClientMessages \ published
      /\ UNCHANGED <<connection_state, server_received>> /\ Transmit
      /\ panic' = NotPanicked /\ panic = NotPanicked
    BY MachineFacts
       DEF SessionInv, Borrower, ClientStore, PublisherStore, server, NoPanic
<1> DEFINE m == handle.packet.message
<1>1. PICK id \in PacketIdentifiers \cup {None} :
        /\ GetNextFree("Publish", id)
        /\ \/ id = None /\ Panics("publish") /\ UNCHANGED handle
           \/ /\ id # None
              /\ Returns(StorePacket(id))
    BY DEF ClientStore, PublisherStore
<1>2. id # None /\ action' = StorePacket(id)
    BY <1>0, <1>1 DEF Panics, NotPanicked, Returns
<1>3. action' # NoAction /\ action'.id = id /\ action'.do = "StorePacket"
    BY <1>2 DEF StorePacket, NoAction
<1>4. /\ stored' = [stored EXCEPT ![id] = m] /\ published' = published \cup {m}
    BY <1>3 DEF ClientStore
<1>5. UNCHANGED <<to_server, to_client>>
    BY <1>0, <1>3, TransmitNothing
<1>6. id \in Slots /\ id \notin InUse
  <2>1. id \in Slots
      BY <1>1, <1>2, UsizeBitsAssumption DEF GetNextFree, IsNextFree, BitIndices, Slots
  <2>2. id \notin InUse
      BY <1>0, <1>1, <1>2, GetNextFreeSome DEF PacketIdentifierUsage
  <2> QED BY <2>1, <2>2
<1>7. stored[id] = None
  <2>1. id \notin InUseForPublish
      BY <1>0, <1>6, MachineFacts
  <2> QED BY <1>0, <1>6, <2>1 DEF SessionInv, CallerAgreesWithMachine, SessionTypeOK
<1>8. m # None /\ m \notin published /\ m \in ClientMessages
    BY <1>0, SessionAssumption
<1> HIDE DEF m
<1>9. /\ \A i \in Slots : i # id => stored'[i] = stored[i]
      /\ stored'[id] = m /\ DOMAIN stored = Slots /\ DOMAIN stored' = Slots
    BY <1>0, <1>4, <1>6 DEF SessionTypeOK
<1>10. Pending(stored') = Pending(stored) \cup {m}
    BY <1>6, <1>7, <1>8, <1>9 DEF Pending
<1>11. UpInv'
  <2>1. /\ server_received' \subseteq published'
        /\ \A i \in Slots : stored'[i] # None => stored'[i] \in published'
        /\ \A packet \in Packets(to_server') :
              packet.type = "Publish" => packet.message \in published'
        /\ published' \subseteq server_received' \cup Pending(stored')
      BY <1>0, <1>4, <1>5, <1>9, <1>10 DEF UpInv
  <2>2. \A i, j \in Slots : stored'[i] # None /\ stored'[i] = stored'[j] => i = j
      BY <1>6, <1>8, <1>9 DEF UpInv
  <2>3. /\ \A packet \in Packets(to_server) : packet.type = "Publish" =>
              packet.packet_identifier \in Slots /\ packet.packet_identifier # id
        /\ \A packet \in Packets(to_client) : packet.type = "Puback" =>
              packet.packet_identifier \in Slots /\ packet.packet_identifier # id
      BY <1>0, <1>7, OnTheWayIsStored
  <2>4. /\ \A packet \in Packets(to_server') : packet.type = "Publish" =>
              stored'[packet.packet_identifier] = packet.message
        /\ \A packet \in Packets(to_client') : packet.type = "Puback" =>
              stored'[packet.packet_identifier] \in server_received'
      BY <1>0, <1>5, <1>9, <2>3 DEF UpInv
  <2> QED BY <2>1, <2>2, <2>4 DEF UpInv
<1>12. ClientToServer!Accept(m)
    BY <1>0, <1>4, <1>8, <1>10 DEF ClientToServer!Accept
<1> QED BY <1>8, <1>11, <1>12 DEF ClientToServer!Next

\* A PUBACK releases a publish that the server has.
LEMMA UpConsume ==
    ASSUME SessionInv, SessionInv', UpInv, ClientConsume
    PROVE  UpInv' /\ [ClientToServer!Next]_(ClientToServer!vars)
<1> DEFINE h == Head(to_client)
           id == h.packet_identifier
<1>0. /\ SessionTypeOK /\ h \in Packets(to_client)
      /\ Packets(to_client') \subseteq Packets(to_client)
      /\ UNCHANGED <<to_server, published, server_received>>
    BY ConsumeOutcome DEF SessionInv
<1>1. CASE IsConnecting /\ to_server = <<>> /\ UNCHANGED stored
           /\ \A packet \in Packets(to_client') : packet.type # "Puback"
  <2>1. Packets(to_server') = {}
      BY <1>0, <1>1, QueueCleared
  <2>2. Pending(stored') = Pending(stored)
      BY <1>1
  <2>3. UpInv'
      BY <1>0, <1>1, <2>1, <2>2 DEF UpInv
  <2> QED BY <1>0, <1>1, <2>3 DEF ClientToServer!vars
<1>2. CASE (IsConnected' => IsConnected) /\ UNCHANGED stored
    BY <1>0, <1>2, UpFrame
<1>3. CASE /\ IsConnected /\ IsConnected' /\ h.type = "Puback" /\ id \in Slots
           /\ stored' = [stored EXCEPT ![id] = None]
  <2> DEFINE m == stored[id]
  <2>1. m \in server_received /\ m # None /\ m \in published
      BY <1>0, <1>3, OnTheWayIsStored DEF UpInv
  <2>2. m \in ClientMessages
      BY <1>0, <1>3, <2>1 DEF SessionTypeOK
  <2> HIDE DEF m, id, h
  <2>3. /\ \A i \in Slots : i # id => stored'[i] = stored[i]
        /\ stored'[id] = None /\ stored[id] = m /\ DOMAIN stored = Slots /\ DOMAIN stored' = Slots
      BY <1>0, <1>3 DEF SessionTypeOK, m
  <2>4. \A i \in Slots : stored[i] = m => i = id
      BY <1>3, <2>1, <2>3 DEF UpInv
  <2>5. Pending(stored') = Pending(stored) \ {m}
      BY <1>3, <2>1, <2>3, <2>4 DEF Pending
  <2>6. /\ server_received' \subseteq published'
        /\ \A i \in Slots : stored'[i] # None => stored'[i] \in published'
        /\ \A i, j \in Slots : stored'[i] # None /\ stored'[i] = stored'[j] => i = j
        /\ \A packet \in Packets(to_server') :
              packet.type = "Publish" => packet.message \in published'
        /\ published' \subseteq server_received' \cup Pending(stored')
      BY <1>0, <2>1, <2>3, <2>5 DEF UpInv
  <2>7. /\ \A packet \in Packets(to_server') : packet.type = "Publish" =>
              packet.packet_identifier \in Slots /\ packet.packet_identifier # id
        /\ \A packet \in Packets(to_client') : packet.type = "Puback" =>
              packet.packet_identifier \in Slots /\ packet.packet_identifier # id
      BY <1>3, <2>3, OnTheWayIsStoredNext
  <2>8. /\ \A packet \in Packets(to_server') : packet.type = "Publish" =>
              stored'[packet.packet_identifier] = packet.message
        /\ \A packet \in Packets(to_client') : packet.type = "Puback" =>
              stored'[packet.packet_identifier] \in server_received'
      BY <1>0, <1>3, <2>3, <2>7 DEF UpInv
  <2>9. UpInv'
      BY <2>6, <2>8 DEF UpInv
  <2>10. ClientToServer!Release(m)
      BY <1>0, <2>1, <2>5 DEF ClientToServer!Release
  <2> QED BY <2>2, <2>9, <2>10 DEF ClientToServer!Next
<1> QED BY <1>1, <1>2, <1>3, ConsumeOutcome

\* The server receives a publish and answers with its PUBACK.
LEMMA UpServerReceive ==
    ASSUME SessionInv, SessionInv', UpInv, ServerReceive
    PROVE  UpInv' /\ [ClientToServer!Next]_(ClientToServer!vars)
<1> DEFINE h == Head(to_server)
<1>0. /\ SessionTypeOK /\ to_server # <<>> /\ to_server' = Tail(to_server)
      /\ UNCHANGED <<connection_state, stored, published>>
    BY DEF SessionInv, ServerReceive, vars, caller
<1>1. /\ h \in Requests /\ h \in Packets(to_server)
      /\ Packets(to_server') \subseteq Packets(to_server)
    BY <1>0, ServerReads, Zenon
<1>2. CASE h.type = "Publish"
  <2> DEFINE m == h.message
             p == PubackPacket(h.packet_identifier)
  <2>1. server_received' = server_received \cup {m} /\ Reply(p)
      BY <1>2 DEF ServerReceive
  <2>2. m \in published /\ m \in ClientMessages
      BY <1>0, <1>1, <1>2 DEF UpInv, SessionTypeOK
  <2>3. IsConnected => stored[h.packet_identifier] = m
      BY <1>1, <1>2 DEF UpInv
  <2>4. Packets(to_client') \subseteq Packets(to_client) \cup {p}
        /\ p.packet_identifier = h.packet_identifier
      BY <1>0, <2>1, ReplyWrites DEF PubackPacket
  <2> HIDE DEF m, p, h
  <2>5. /\ server_received' \subseteq published'
        /\ \A i \in Slots : stored'[i] # None => stored'[i] \in published'
        /\ \A i, j \in Slots : stored'[i] # None /\ stored'[i] = stored'[j] => i = j
        /\ \A packet \in Packets(to_server') :
              packet.type = "Publish" => packet.message \in published'
      BY <1>0, <1>1, <2>1, <2>2 DEF UpInv
  <2>6. Pending(stored') = Pending(stored)
      BY <1>0
  <2>7. published' \subseteq server_received' \cup Pending(stored')
      BY <1>0, <2>1, <2>6 DEF UpInv
  <2>8. IsConnected' =>
          /\ \A packet \in Packets(to_server') : packet.type = "Publish" =>
                stored'[packet.packet_identifier] = packet.message
          /\ \A packet \in Packets(to_client') : packet.type = "Puback" =>
                stored'[packet.packet_identifier] \in server_received'
      BY <1>0, <1>1, <2>1, <2>3, <2>4 DEF UpInv, IsConnected
  <2>9. UpInv'
      BY <2>5, <2>7, <2>8 DEF UpInv
  <2>10. ClientToServer!Receive(m)
      BY <1>0, <2>1, <2>2, <2>6 DEF ClientToServer!Receive
  <2> QED BY <2>2, <2>9, <2>10 DEF ClientToServer!Next
<1>3. CASE h.type # "Publish"
  <2>1. UNCHANGED server_received
      BY <1>3 DEF ServerReceive
  <2>2. \/ UNCHANGED to_client
        \/ \E p : p.type # "Puback" /\ Reply(p)
      BY <1>3 DEF ServerReceive
  <2>3. \A packet \in Packets(to_client') :
            packet.type = "Puback" => packet \in Packets(to_client)
      BY <1>0, <2>2, ReplyWrites
  <2> QED BY <1>0, <1>1, <2>1, <2>3, UpFrame DEF IsConnected
<1> QED BY <1>2, <1>3

\* Every other step leaves the promise alone.
LEMMA UpStep ==
    ASSUME SessionInv, SessionInv', UpInv, [SessionNext]_sessionVars
    PROVE  UpInv' /\ [ClientToServer!Next]_(ClientToServer!vars)
<1>0. SessionTypeOK
    BY DEF SessionInv
<1>1. CASE ClientConnect
  <2>1. PICK ka \in KeepAlives :
            /\ handle_connect(now, ConnectPacket(saved_identifier, ka))
            /\ to_server' = <<ConnectPacket(saved_identifier, ka)>>
      BY <1>1 DEF ClientConnect
  <2>2. Packets(<<ConnectPacket(saved_identifier, ka)>>) = {ConnectPacket(saved_identifier, ka)}
      BY DEF Packets
  <2>3. \A packet \in Packets(to_server') : packet.type # "Publish"
      BY <2>1, <2>2 DEF ConnectPacket
  <2>4. ~IsConnected'
      BY <1>1, <2>1 DEF ClientConnect, handle_connect, IsConnected, IsDisconnected,
                        ConnectingWithoutAuth
  <2>5. UNCHANGED <<stored, published, server_received>>
      BY <1>1 DEF ClientConnect, caller
  <2> QED BY <2>3, <2>4, <2>5, UpFrame
<1>2. CASE \/ ClientPublish \/ ClientSubscribe \/ ClientDisconnect \/ ClientDisconnectPacket
           \/ \E id \in ServerIdentifiers : ClientAcknowledge(id)
  <2>1. Transmit /\ UNCHANGED <<stored, published, server_received>>
      BY <1>2 DEF ClientPublish, ClientSubscribe, ClientDisconnect, ClientDisconnectPacket,
                  ClientAcknowledge, caller, server
  <2>2. action'.do = "SendPacket" => action'.packet.type # "Publish"
      BY <1>2 DEF ClientPublish, ClientSubscribe, ClientDisconnect, ClientDisconnectPacket,
                  ClientAcknowledge, publish, subscribe, disconnect, DisconnecterPacket,
                  acknowledge, inner_run_PublishPacket, Returns, Panics, NoAction, SendPacket,
                  SubscribePacket, PubackPacket, DisconnectPacket
  <2>3. IsConnected' => IsConnected
      BY <1>2 DEF ClientPublish, ClientSubscribe, ClientDisconnect, ClientDisconnectPacket,
                  ClientAcknowledge, publish, subscribe, disconnect, DisconnecterPacket,
                  acknowledge, inner_run_PublishPacket, IsConnected
  <2> QED BY <1>0, <2>1, <2>2, <2>3, TransmitWrites, UpFrame
<1>3. CASE ClientStore
    BY <1>3, UpStore
<1>4. CASE ClientSend
  <2>1. /\ IsConnected /\ handle.packet \in StoredPublishes
        /\ stored[handle.packet.packet_identifier] = handle.packet.message
      BY <1>4 DEF SessionInv, Borrower, ClientSend, PublisherSend
  <2>2. handle.packet.packet_identifier \in Slots /\ handle.packet.message # None
      BY <2>1, SessionAssumption DEF StoredPublishes
  <2>3. action'.do = "SendPacket" => action'.packet = handle.packet
      BY <1>4 DEF ClientSend, PublisherSend, inner_run_PublishPacket, Returns, Panics,
                  NoAction, SendPacket
  <2>4. Transmit /\ UNCHANGED <<stored, published, server_received>>
      BY <1>4 DEF ClientSend, caller, server
  <2> QED BY <1>0, <2>1, <2>2, <2>3, <2>4, TransmitWrites, UpFrame
<1>5. CASE \E id \in DOMAIN stored : ClientResend(id)
  <2>1. PICK id \in DOMAIN stored : ClientResend(id)
      BY <1>5
  <2> DEFINE p == PublishPacket("AtLeastOnce", id, stored[id])
  <2>2. id \in Slots /\ stored[id] # None
      BY <1>0, <2>1 DEF ClientResend, SessionInv, Resend, SessionTypeOK
  <2>3. p.packet_identifier = id /\ p.message = stored[id]
      BY DEF PublishPacket
  <2>4. /\ to_server' = IF transport = "up" THEN Append(to_server, p) ELSE to_server
        /\ UNCHANGED <<stored, published, server_received, to_client, connection_state>>
      BY <2>1 DEF ClientResend, server, vars
  <2> HIDE DEF p
  <2>5. Packets(Append(to_server, p)) = Packets(to_server) \cup {p}
      BY <1>0, WrittenPacket DEF SessionTypeOK
  <2>6. Packets(to_server') \subseteq Packets(to_server) \cup {p}
      BY <2>4, <2>5
  <2> QED BY <2>2, <2>3, <2>4, <2>6, UpFrame DEF IsConnected
<1>6. CASE ClientConsume
    BY <1>6, UpConsume
<1>7. CASE ClientNoticesLoss \/ ClientDisconnectConnection
  <2>1. /\ connection_state' = Disconnected
        /\ UNCHANGED <<to_server, stored, published, server_received>>
      BY <1>7 DEF ClientNoticesLoss, connection_lost, ClientDisconnectConnection,
                  DisconnecterConnection, reset_connection, server
  <2>2. ~IsConnected'
      BY <2>1 DEF Disconnected, IsConnected
  <2> QED BY <2>1, <2>2, UpFrame
<1>8. CASE ClientRun
  <2>1. /\ UNCHANGED <<to_client, stored, published, server_received>>
        /\ IsConnected' => IsConnected
        /\ action' # NoAction => action' = SendPacket(PingreqPacket)
      BY <1>8 DEF ClientRun, run, PingDue, IsConnected, Returns, caller, server
  <2>2. to_server' = to_server \/ to_server' = Append(to_server, PingreqPacket)
      BY <1>8, <2>1 DEF ClientRun, SendPacket
  <2>3. Packets(Append(to_server, PingreqPacket)) = Packets(to_server) \cup {PingreqPacket}
      BY <1>0, WrittenPacket DEF SessionTypeOK
  <2>4. PingreqPacket.type # "Publish"
      BY DEF PingreqPacket
  <2>5. \A packet \in Packets(to_server') :
            packet.type = "Publish" => packet \in Packets(to_server)
      BY <2>2, <2>3, <2>4
  <2> QED BY <2>1, <2>5, UpFrame
<1>9. CASE ServerReceive
    BY <1>9, UpServerReceive
<1>10. CASE \/ TransportBreaks \/ ServerPublish \/ ServerDisconnect
            \/ \E id \in ServerIdentifiers : ServerResend(id)
  <2>1. UNCHANGED <<connection_state, stored, published, server_received>>
      BY <1>10 DEF TransportBreaks, ServerPublish, ServerDisconnect, ServerResend,
                   vars, caller, server
  <2>2. to_server' \in {to_server, <<>>}
      BY <1>10 DEF TransportBreaks, ServerPublish, ServerDisconnect, ServerResend
  <2>3. \/ UNCHANGED to_client
        \/ \E p : p.type # "Puback" /\ (Reply(p) \/ to_client' = Append(to_client, p))
      BY <1>10 DEF TransportBreaks, ServerPublish, ServerDisconnect, ServerResend,
                   PublishPacket, DisconnectPacket
  <2>4. ASSUME NEW p, p.type # "Puback", Reply(p) \/ to_client' = Append(to_client, p)
        PROVE  Packets(to_client') \subseteq Packets(to_client) \cup {p}
    <3>1. Packets(Append(to_client, p)) = Packets(to_client) \cup {p}
        BY <1>0, WrittenPacket DEF SessionTypeOK
    <3> QED BY <1>0, <2>4, <3>1, ReplyWrites
  <2>5. \A packet \in Packets(to_client') :
            packet.type = "Puback" => packet \in Packets(to_client)
      BY <2>3, <2>4
  <2>6. Packets(to_server') \subseteq Packets(to_server)
      BY <2>2, QueueCleared
  <2> QED BY <2>1, <2>5, <2>6, UpFrame DEF IsConnected
<1>11. CASE \/ ClientDropHandle \/ Tick \/ UNCHANGED sessionVars
            \/ \E id \in ServerIdentifiers : ClientForgetsAck(id)
  <2>1. UNCHANGED <<connection_state, to_server, to_client, stored, published, server_received>>
      BY <1>11 DEF ClientDropHandle, DropHandle, Tick, ClientForgetsAck, DropAcknowledgeAction,
                   sessionVars, vars, wire, caller, server
  <2> QED BY <2>1, UpFrame DEF IsConnected
<1> QED BY <1>1, <1>2, <1>3, <1>4, <1>5, <1>6, <1>7, <1>8, <1>9, <1>10, <1>11
        DEF SessionNext, ClientStep

\* A publish at QoS 1 is released by the machine only after the server has
\* it, over any number of connections: the safety half of
\* PublishesAreDelivered.
THEOREM ReleasedOnlyAfterReceipt == SessionSafety => ClientToServer!Safety
<1>1. SessionInit => UpInv /\ ClientToServer!Init
  <2> SUFFICES ASSUME SessionInit PROVE UpInv /\ ClientToServer!Init
      OBVIOUS
  <2>1. /\ published = {} /\ server_received = {} /\ ~IsConnected
        /\ \A id \in Slots : stored[id] = None
        /\ Packets(to_server) = {}
      BY QueueCleared DEF SessionInit, Init, Disconnected, IsConnected, Slots
  <2> QED BY <2>1 DEF UpInv, ClientToServer!Init
<1> QED BY <1>1, SessionInvInit, SessionInvStep, UpStep, PTL
        DEF SessionSafety, ClientToServer!Safety

-----------------------------------------------------------------------------
(***************************************************************************)
(* From the server to the client.                                          *)
(*                                                                         *)
(* The server forgets a publish when a PUBACK with its identifier arrives. *)
(* That is right because at any time an identifier of the server is at     *)
(* most once on its way to the application and back: in a publish, in an   *)
(* AcknowledgeAction the caller holds, or in a PUBACK.  A caller that      *)
(* keeps an AcknowledgeAction over a reconnect breaks this (the server     *)
(* sends the publish again), hence the assumption on KeepsStaleAcks.       *)
(***************************************************************************)
Deliveries(id) ==
    Count(to_client, "Publish", id) + acks[id] + Count(to_server, "Puback", id)

DownInv ==
    /\ app_received \subseteq server_published
    /\ server_published \subseteq app_received \cup Pending(server_inflight)
    /\ \A id \in ServerIdentifiers :
          server_inflight[id] # None => server_inflight[id] \in server_published
    /\ \A i, j \in ServerIdentifiers :
          server_inflight[i] # None /\ server_inflight[i] = server_inflight[j] => i = j
    /\ IsConnecting => \A id \in ServerIdentifiers : acks[id] = 0
    /\ \A id \in ServerIdentifiers :
          /\ Deliveries(id) <= 1
          /\ Deliveries(id) = 1 => server_inflight[id] # None
          /\ id \in server_resend /\ server_online => Deliveries(id) = 0
          /\ acks[id] = 1 \/ Count(to_server, "Puback", id) = 1 =>
                server_inflight[id] \in app_received
    /\ \A packet \in Packets(to_client) :
          packet.type = "Publish" => server_inflight[packet.packet_identifier] = packet.message

\* What Deliveries adds up are numbers.
LEMMA DeliveriesNat ==
    ASSUME SessionInv, NEW id \in ServerIdentifiers
    PROVE  /\ Count(to_client, "Publish", id) \in Nat
           /\ acks[id] \in Nat
           /\ Count(to_server, "Puback", id) \in Nat
<1>0. SessionTypeOK /\ TypeOK
    BY MachineFacts DEF SessionInv
<1>1. Count(to_client, "Publish", id) \in Nat /\ Count(to_server, "Puback", id) \in Nat
    BY <1>0, OnTheWayNat, Zenon
<1>2. acks[id] \in Nat
    BY <1>0, InstantsAssumption DEF TypeOK
<1> QED BY <1>1, <1>2

\* Whatever is written to a queue counts for its kind alone.
LEMMA WrittenCount ==
    ASSUME NEW S, NEW q \in Seq(S), NEW p, NEW type, NEW id
    PROVE  Count(Append(q, p), type, id) =
               Count(q, type, id) + (IF Matches(p, type, id) THEN 1 ELSE 0)
<1>1. q \in Seq(S \cup {p}) /\ p \in S \cup {p}
    OBVIOUS
<1> QED BY <1>1, AppendCount, ZenonT(60)

\* Writing a packet that is no PUBACK to the server.
LEMMA NoPubackWritten ==
    ASSUME SessionInv, NEW p, p.type # "Puback",
           to_server' \in {to_server, Append(to_server, p)},
           NEW id
    PROVE  Count(to_server', "Puback", id) \in 0 .. Count(to_server, "Puback", id)
<1>0. SessionTypeOK /\ to_server \in Seq(Requests)
    BY DEF SessionInv, SessionTypeOK
<1>1. Count(to_server, "Puback", id) \in Nat
    BY <1>0, OnTheWayNat, Zenon
<1>2. ~Matches(p, "Puback", id)
    BY DEF Matches
<1>3. Count(Append(to_server, p), "Puback", id) = Count(to_server, "Puback", id) + 0
    BY <1>0, <1>2, WrittenCount, ZenonT(60)
<1>4. Count(Append(to_server, p), "Puback", id) = Count(to_server, "Puback", id)
    BY <1>1, <1>3
<1>5. Count(to_server', "Puback", id) = Count(to_server, "Puback", id)
    BY <1>4, Zenon
<1> QED BY <1>1, <1>5

\* Writing a packet that is no publish to the client.
LEMMA NoPublishWritten ==
    ASSUME SessionInv, NEW p, p.type # "Publish",
           to_client' \in {to_client, Append(to_client, p)}
    PROVE  /\ \A id : Count(to_client', "Publish", id) \in 0 .. Count(to_client, "Publish", id)
           /\ \A packet \in Packets(to_client') :
                 packet.type = "Publish" => packet \in Packets(to_client)
<1>0. SessionTypeOK /\ to_client \in Seq(Answers)
    BY DEF SessionInv, SessionTypeOK
<1>1. ASSUME NEW id
      PROVE  Count(to_client', "Publish", id) \in 0 .. Count(to_client, "Publish", id)
  <2>1. Count(to_client, "Publish", id) \in Nat
      BY <1>0, OnTheWayNat, Zenon
  <2>2. ~Matches(p, "Publish", id)
      BY DEF Matches
  <2>3. Count(Append(to_client, p), "Publish", id) = Count(to_client, "Publish", id) + 0
      BY <1>0, <2>2, WrittenCount, ZenonT(60)
  <2>4. Count(Append(to_client, p), "Publish", id) = Count(to_client, "Publish", id)
      BY <2>1, <2>3
  <2>5. Count(to_client', "Publish", id) = Count(to_client, "Publish", id)
      BY <2>4, Zenon
  <2> QED BY <2>1, <2>5
<1>2. Packets(Append(to_client, p)) = Packets(to_client) \cup {p}
    BY <1>0, WrittenPacket
<1> QED BY <1>1, <1>2

\* A queue that does not change.
LEMMA QueueKept ==
    ASSUME SessionInv, NEW id
    PROVE  /\ Count(to_client, "Publish", id) \in 0 .. Count(to_client, "Publish", id)
           /\ Count(to_server, "Puback", id) \in 0 .. Count(to_server, "Puback", id)
           /\ 0 \in 0 .. Count(to_client, "Publish", id)
           /\ 0 \in 0 .. Count(to_server, "Puback", id)
<1>1. SessionTypeOK
    BY DEF SessionInv
<1>2. Count(to_client, "Publish", id) \in Nat /\ Count(to_server, "Puback", id) \in Nat
    BY <1>1, OnTheWayNat, Zenon
<1> QED BY <1>2

\* A step that puts nothing on the way to the application or back.
LEMMA DownFrame ==
    ASSUME SessionInv, DownInv,
           UNCHANGED <<app_received, server_published, server_inflight>>,
           server_online' => \/ server_online /\ server_resend' = server_resend
                             \/ \A id \in ServerIdentifiers : Deliveries(id) = 0,
           IsConnecting' => IsConnecting \/ \A id \in ServerIdentifiers : acks[id] = 0,
           \A id \in ServerIdentifiers :
              /\ Count(to_client', "Publish", id) \in 0 .. Count(to_client, "Publish", id)
              /\ acks'[id] \in 0 .. acks[id]
              /\ Count(to_server', "Puback", id) \in 0 .. Count(to_server, "Puback", id),
           \A packet \in Packets(to_client') :
              packet.type = "Publish" => packet \in Packets(to_client)
    PROVE  DownInv' /\ UNCHANGED ServerToClient!vars
<1>1. UNCHANGED ServerToClient!vars
    BY DEF ServerToClient!vars
<1>2. Pending(server_inflight') = Pending(server_inflight)
    OBVIOUS
<1>3. /\ app_received' \subseteq server_published'
      /\ server_published' \subseteq app_received' \cup Pending(server_inflight')
      /\ \A id \in ServerIdentifiers :
            server_inflight'[id] # None => server_inflight'[id] \in server_published'
      /\ \A i, j \in ServerIdentifiers :
            server_inflight'[i] # None /\ server_inflight'[i] = server_inflight'[j] => i = j
      /\ \A packet \in Packets(to_client') :
            packet.type = "Publish" => server_inflight'[packet.packet_identifier] = packet.message
    BY <1>2 DEF DownInv
<1>4. IsConnecting' => \A id \in ServerIdentifiers : acks'[id] = 0
    BY DEF DownInv
<1>5. ASSUME NEW id \in ServerIdentifiers
      PROVE  (/\ Deliveries(id) <= 1
              /\ Deliveries(id) = 1 => server_inflight[id] # None
              /\ id \in server_resend /\ server_online => Deliveries(id) = 0
              /\ acks[id] = 1 \/ Count(to_server, "Puback", id) = 1 =>
                    server_inflight[id] \in app_received)'
  <2> DEFINE a == Count(to_client, "Publish", id)
             b == acks[id]
             c == Count(to_server, "Puback", id)
             a2 == Count(to_client', "Publish", id)
             b2 == acks'[id]
             c2 == Count(to_server', "Puback", id)
  <2>1. /\ a \in Nat /\ b \in Nat /\ c \in Nat
        /\ a2 \in 0 .. a /\ b2 \in 0 .. b /\ c2 \in 0 .. c
      BY DeliveriesNat
  <2>2. /\ Deliveries(id) = a + b + c /\ Deliveries(id)' = a2 + b2 + c2
      BY DEF Deliveries
  <2>3. /\ Deliveries(id) <= 1
        /\ Deliveries(id) = 1 => server_inflight[id] # None
        /\ id \in server_resend /\ server_online => Deliveries(id) = 0
        /\ b = 1 \/ c = 1 => server_inflight[id] \in app_received
      BY DEF DownInv
  <2> HIDE DEF a, b, c, a2, b2, c2
  <2>4. /\ Deliveries(id)' <= 1
        /\ Deliveries(id)' = 1 => Deliveries(id) = 1
        /\ Deliveries(id) = 0 => Deliveries(id)' = 0
        /\ b2 = 1 => b = 1
        /\ c2 = 1 => c = 1
      BY <2>1, <2>2, <2>3
  <2> QED BY <2>3, <2>4 DEF a, b, c, a2, b2, c2
<1> QED BY <1>1, <1>3, <1>4, <1>5 DEF DownInv

\* The client reads a packet.
LEMMA ReadPublishes ==
    ASSUME SessionInv, to_client # <<>>, to_client' = Tail(to_client)
    PROVE  \A id \in ServerIdentifiers :
              /\ Count(to_client', "Publish", id) \in Nat
              /\ Count(to_client, "Publish", id) = Count(to_client', "Publish", id) +
                    (IF /\ Head(to_client).type = "Publish"
                        /\ Head(to_client).packet_identifier = id THEN 1 ELSE 0)
              /\ Count(to_client', "Publish", id) \in 0 .. Count(to_client, "Publish", id)
<1> SUFFICES ASSUME NEW id \in ServerIdentifiers
             PROVE  /\ Count(to_client', "Publish", id) \in Nat
                    /\ Count(to_client, "Publish", id) = Count(to_client', "Publish", id) +
                          (IF /\ Head(to_client).type = "Publish"
                              /\ Head(to_client).packet_identifier = id THEN 1 ELSE 0)
                    /\ Count(to_client', "Publish", id) \in 0 .. Count(to_client, "Publish", id)
    OBVIOUS
<1>1. /\ Count(to_client', "Publish", id) \in Nat
      /\ Count(to_client, "Publish", id) = Count(to_client', "Publish", id) +
            (IF Matches(Head(to_client), "Publish", id) THEN 1 ELSE 0)
    BY ClientReads, Zenon DEF SessionInv
<1>2. Matches(Head(to_client), "Publish", id) <=>
          Head(to_client).type = "Publish" /\ Head(to_client).packet_identifier = id
    BY SessionAssumption DEF Matches
<1> QED BY <1>1, <1>2

\* A publish is handed to the application, with an AcknowledgeAction.
LEMMA DownReceive ==
    ASSUME SessionInv, DownInv, to_client # <<>>, to_client' = Tail(to_client),
           IsConnected', Head(to_client) \in ServerPublishes,
           Head(to_client) \in Packets(to_client),
           Packets(to_client') \subseteq Packets(to_client),
           acks' = [acks EXCEPT ![Head(to_client).packet_identifier] = @ + 1],
           app_received' = app_received \cup {Head(to_client).message},
           UNCHANGED <<to_server, server_online, server_inflight, server_resend,
                       server_published>>
    PROVE  DownInv' /\ ServerToClient!Next
<1> DEFINE h == Head(to_client)
           id == h.packet_identifier
           m == h.message
<1>0. TypeOK /\ id \in ServerIdentifiers /\ m \in ServerMessages /\ h.type = "Publish"
    BY MachineFacts DEF SessionInv, ServerPublishes
<1>1. m # None /\ server_inflight[id] = m /\ m \in server_published
    BY <1>0, SessionAssumption DEF DownInv
<1> HIDE DEF h, id, m
<1>2. Pending(server_inflight') = Pending(server_inflight)
    OBVIOUS
<1>3. /\ app_received' \subseteq server_published'
      /\ server_published' \subseteq app_received' \cup Pending(server_inflight')
      /\ \A i \in ServerIdentifiers :
            server_inflight'[i] # None => server_inflight'[i] \in server_published'
      /\ \A i, j \in ServerIdentifiers :
            server_inflight'[i] # None /\ server_inflight'[i] = server_inflight'[j] => i = j
      /\ \A packet \in Packets(to_client') :
            packet.type = "Publish" => server_inflight'[packet.packet_identifier] = packet.message
    BY <1>1, <1>2 DEF DownInv, h, m
<1>4. ~IsConnecting'
    BY DEF IsConnected, IsConnecting
<1>5. ASSUME NEW i \in ServerIdentifiers
      PROVE  (/\ Deliveries(i) <= 1
              /\ Deliveries(i) = 1 => server_inflight[i] # None
              /\ i \in server_resend /\ server_online => Deliveries(i) = 0
              /\ acks[i] = 1 \/ Count(to_server, "Puback", i) = 1 =>
                    server_inflight[i] \in app_received)'
  <2> DEFINE a == Count(to_client, "Publish", i)
             b == acks[i]
             c == Count(to_server, "Puback", i)
             a2 == Count(to_client', "Publish", i)
             b2 == acks'[i]
             one == IF i = id THEN 1 ELSE 0
  <2>1. a \in Nat /\ b \in Nat /\ c \in Nat
      BY DeliveriesNat
  <2>2. a2 \in Nat /\ a = a2 + one
    <3>1. /\ Count(to_client', "Publish", i) \in Nat
          /\ Count(to_client, "Publish", i) = Count(to_client', "Publish", i) +
                (IF h.type = "Publish" /\ h.packet_identifier = i THEN 1 ELSE 0)
        BY ReadPublishes, Zenon DEF h
    <3>2. (h.type = "Publish" /\ h.packet_identifier = i) <=> i = id
        BY <1>0 DEF id
    <3> QED BY <3>1, <3>2
  <2>3. b2 = b + one
      BY <1>0, <2>1 DEF TypeOK, h, id
  <2>4. Deliveries(i) = a + b + c /\ Deliveries(i)' = a2 + b2 + c
      BY DEF Deliveries
  <2>5. /\ Deliveries(i) <= 1
        /\ Deliveries(i) = 1 => server_inflight[i] # None
        /\ i \in server_resend /\ server_online => Deliveries(i) = 0
        /\ b = 1 \/ c = 1 => server_inflight[i] \in app_received
      BY DEF DownInv
  <2>6. i = id => server_inflight'[i] \in app_received'
      BY <1>1 DEF m, h
  <2> HIDE DEF a, b, c, a2, b2
  <2>7. Deliveries(i)' = Deliveries(i) /\ (i # id => b2 = b)
      BY <2>1, <2>2, <2>3, <2>4
  <2>8. Count(to_server', "Puback", i) = c
      BY DEF c
  <2> HIDE DEF one
  <2> QED BY <2>5, <2>6, <2>7, <2>8 DEF b, b2
<1>6. DownInv'
    BY <1>3, <1>4, <1>5 DEF DownInv
<1>7. ServerToClient!Receive(m)
    BY <1>1 DEF ServerToClient!Receive, m, h
<1> QED BY <1>0, <1>6, <1>7 DEF ServerToClient!Next

\* The packets the client reads.
LEMMA DownConsume ==
    ASSUME SessionInv, SessionInv', DownInv, ClientConsume
    PROVE  DownInv' /\ [ServerToClient!Next]_(ServerToClient!vars)
<1> DEFINE h == Head(to_client)
<1>0. /\ to_client # <<>> /\ h \in Packets(to_client)
      /\ Packets(to_client') \subseteq Packets(to_client)
      /\ UNCHANGED <<to_server, server_online, server_inflight, server_resend,
                     server_published>>
    BY ConsumeOutcome
<1>1. CASE /\ IsConnected' /\ h \in ServerPublishes
           /\ acks' = [acks EXCEPT ![h.packet_identifier] = @ + 1]
           /\ app_received' = app_received \cup {h.message}
           /\ to_client' = Tail(to_client)
    BY <1>0, <1>1, DownReceive
<1>2. CASE /\ UNCHANGED <<acks, app_received>> /\ to_client' \in {Tail(to_client), <<>>}
           /\ IsConnecting' => IsConnecting
  <2>1. ASSUME NEW id \in ServerIdentifiers
        PROVE  /\ Count(to_client', "Publish", id) \in 0 .. Count(to_client, "Publish", id)
               /\ acks'[id] \in 0 .. acks[id]
               /\ Count(to_server', "Puback", id) \in 0 .. Count(to_server, "Puback", id)
    <3>1. to_client' = Tail(to_client) =>
              Count(to_client', "Publish", id) \in 0 .. Count(to_client, "Publish", id)
        BY <1>0, ReadPublishes
    <3>2. to_client' = <<>> => Count(to_client', "Publish", id) = 0
        BY QueueCleared
    <3>3. acks'[id] \in 0 .. acks[id]
        BY <1>2, DeliveriesNat
    <3> QED BY <1>0, <1>2, <3>1, <3>2, <3>3, QueueKept
  <2> QED BY <1>0, <1>2, <2>1, DownFrame
<1>3. (IsConnected' => ~IsConnecting') /\ (IsDisconnected' => ~IsConnecting')
    BY DEF IsConnected, IsDisconnected, IsConnecting
<1> QED BY <1>1, <1>2, <1>3, ConsumeOutcome

\* acknowledge turns the AcknowledgeAction into a PUBACK.
LEMMA DownAcknowledge ==
    ASSUME SessionInv, DownInv, NEW id \in ServerIdentifiers, ClientAcknowledge(id)
    PROVE  DownInv' /\ UNCHANGED ServerToClient!vars
<1>0. /\ SessionTypeOK /\ TypeOK /\ IsConnected
      /\ UNCHANGED <<app_received, server_online, server_inflight, server_resend,
                     server_published>>
      /\ acks[id] > 0 /\ acks' = [acks EXCEPT ![id] = @ - 1]
      /\ inner_run_PublishPacket(now, PubackPacket(id), "acknowledge", TRUE) /\ Transmit
    BY MachineFacts
       DEF SessionInv, ClientAcknowledge, acknowledge, caller, server
<1> DEFINE p == PubackPacket(id)
<1>1. /\ IsConnected' /\ action'.do = "SendPacket" /\ action'.packet = p
    BY <1>0, ConnectedSends
<1>2. /\ to_server' = IF transport = "up" THEN Append(to_server, p) ELSE to_server
      /\ UNCHANGED to_client
    BY <1>0, <1>1, TransmitPacket
<1>3. ~IsConnecting' /\ Pending(server_inflight') = Pending(server_inflight)
    BY <1>0, <1>1 DEF IsConnected, IsConnecting
<1>4. \A i \in ServerIdentifiers : Matches(p, "Puback", i) <=> i = id
    BY SessionAssumption DEF Matches, PubackPacket
<1> HIDE DEF p
<1>5. ASSUME NEW i \in ServerIdentifiers
      PROVE  (/\ Deliveries(i) <= 1
              /\ Deliveries(i) = 1 => server_inflight[i] # None
              /\ i \in server_resend /\ server_online => Deliveries(i) = 0
              /\ acks[i] = 1 \/ Count(to_server, "Puback", i) = 1 =>
                    server_inflight[i] \in app_received)'
  <2> DEFINE a == Count(to_client, "Publish", i)
             b == acks[i]
             c == Count(to_server, "Puback", i)
             b2 == acks'[i]
             c2 == Count(to_server', "Puback", i)
             one == IF i = id THEN 1 ELSE 0
  <2>1. a \in Nat /\ b \in Nat /\ c \in Nat
      BY DeliveriesNat
  <2>2. b = b2 + one /\ b2 \in Nat
      BY <1>0, <2>1 DEF TypeOK
  <2>3. c2 \in Nat /\ c2 <= c + one /\ c <= c2 /\ (i # id => c2 = c)
    <3>1. Count(Append(to_server, p), "Puback", i) =
              Count(to_server, "Puback", i) + (IF Matches(p, "Puback", i) THEN 1 ELSE 0)
        BY <1>0, WrittenCount, ZenonT(60) DEF SessionTypeOK
    <3>2. Count(Append(to_server, p), "Puback", i) = c + one
        BY <1>4, <3>1
    <3>3. c2 = c \/ c2 = c + one
        BY <1>2, <3>2, Zenon
    <3> QED BY <2>1, <3>3
  <2>4. Deliveries(i) = a + b + c /\ Deliveries(i)' = a + b2 + c2
      BY <1>2 DEF Deliveries
  <2>5. /\ Deliveries(i) <= 1
        /\ Deliveries(i) = 1 => server_inflight[i] # None
        /\ i \in server_resend /\ server_online => Deliveries(i) = 0
        /\ b = 1 \/ c = 1 => server_inflight[i] \in app_received
      BY DEF DownInv
  <2> HIDE DEF a, b, c, b2, c2
  <2>6. /\ Deliveries(i)' <= 1
        /\ Deliveries(i)' = 1 => Deliveries(i) = 1
        /\ Deliveries(i) = 0 => Deliveries(i)' = 0
        /\ (b2 = 1 \/ c2 = 1) => (b = 1 \/ c = 1)
      BY <2>1, <2>2, <2>3, <2>4, <2>5
  <2> HIDE DEF one
  <2> QED BY <1>0, <2>5, <2>6 DEF b2, c2
<1>6. DownInv'
    BY <1>0, <1>2, <1>3, <1>5 DEF DownInv
<1>7. UNCHANGED ServerToClient!vars
    BY <1>0 DEF ServerToClient!vars
<1> QED BY <1>6, <1>7

\* What the server writes counts among the publishes on their way.
LEMMA WrittenPublish ==
    ASSUME SessionTypeOK, NEW p, NEW id
    PROVE  Count(Append(to_client, p), "Publish", id) =
               Count(to_client, "Publish", id) + (IF Matches(p, "Publish", id) THEN 1 ELSE 0)
<1>1. to_client \in Seq(Answers)
    BY DEF SessionTypeOK
<1> QED BY <1>1, WrittenCount, ZenonT(60)

\* The server writes a publish that was not on its way.
LEMMA DownServerSends ==
    ASSUME SessionInv, DownInv, NEW id \in ServerIdentifiers, NEW m,
           to_client' = Append(to_client, PublishPacket("AtLeastOnce", id, m)),
           server_inflight'[id] = m, m # None, Deliveries(id) = 0,
           \A i \in ServerIdentifiers \ {id} : server_inflight'[i] = server_inflight[i],
           server_resend' \subseteq server_resend \ {id},
           UNCHANGED <<acks, to_server, app_received, server_online, connection_state>>
    PROVE  /\ \A i \in ServerIdentifiers :
                 (/\ Deliveries(i) <= 1
                  /\ Deliveries(i) = 1 => server_inflight[i] # None
                  /\ i \in server_resend /\ server_online => Deliveries(i) = 0
                  /\ acks[i] = 1 \/ Count(to_server, "Puback", i) = 1 =>
                        server_inflight[i] \in app_received)'
           /\ \A packet \in Packets(to_client') : packet.type = "Publish" =>
                 server_inflight'[packet.packet_identifier] = packet.message
           /\ IsConnecting' => \A i \in ServerIdentifiers : acks'[i] = 0
<1> DEFINE p == PublishPacket("AtLeastOnce", id, m)
<1>0. SessionTypeOK /\ to_client \in Seq(Answers)
    BY DEF SessionInv, SessionTypeOK
<1>1. /\ p.packet_identifier = id /\ p.message = m
      /\ \A i \in ServerIdentifiers : Matches(p, "Publish", i) <=> i = id
    BY SessionAssumption DEF Matches, PublishPacket
<1> HIDE DEF p
<1>2. ASSUME NEW i \in ServerIdentifiers
      PROVE  (/\ Deliveries(i) <= 1
              /\ Deliveries(i) = 1 => server_inflight[i] # None
              /\ i \in server_resend /\ server_online => Deliveries(i) = 0
              /\ acks[i] = 1 \/ Count(to_server, "Puback", i) = 1 =>
                    server_inflight[i] \in app_received)'
  <2> DEFINE a == Count(to_client, "Publish", i)
             b == acks[i]
             c == Count(to_server, "Puback", i)
             a2 == Count(to_client', "Publish", i)
  <2>1. a \in Nat /\ b \in Nat /\ c \in Nat
      BY DeliveriesNat
  <2>2. a2 = a + (IF i = id THEN 1 ELSE 0)
    <3>1. Count(Append(to_client, p), "Publish", i) =
              Count(to_client, "Publish", i) + (IF Matches(p, "Publish", i) THEN 1 ELSE 0)
        BY <1>0, WrittenPublish
    <3> QED BY <1>1, <3>1 DEF p
  <2>3. Deliveries(i) = a + b + c /\ Deliveries(i)' = a2 + b + c
      BY DEF Deliveries
  <2>4. /\ Deliveries(i) <= 1
        /\ Deliveries(i) = 1 => server_inflight[i] # None
        /\ i \in server_resend /\ server_online => Deliveries(i) = 0
        /\ b = 1 \/ c = 1 => server_inflight[i] \in app_received
      BY DEF DownInv
  <2> HIDE DEF a, b, c, a2
  <2>5. CASE i = id
    <3>1. Deliveries(i)' = 1 /\ b = 0 /\ c = 0
        BY <2>1, <2>2, <2>3, <2>5
    <3> QED BY <2>5, <3>1 DEF b, c
  <2>6. CASE i # id
    <3>1. Deliveries(i)' = Deliveries(i) /\ server_inflight'[i] = server_inflight[i]
        BY <2>1, <2>2, <2>3, <2>6
    <3> QED BY <2>4, <2>6, <3>1 DEF b, c
  <2> QED BY <2>5, <2>6
<1>3. \A packet \in Packets(to_client') : packet.type = "Publish" =>
          server_inflight'[packet.packet_identifier] = packet.message
  <2>1. Packets(to_client') = Packets(to_client) \cup {p}
      BY <1>0, WrittenPacket DEF p
  <2>2. ASSUME NEW packet \in Packets(to_client), packet.type = "Publish"
        PROVE  server_inflight'[packet.packet_identifier] = packet.message
    <3> DEFINE i == packet.packet_identifier
    <3>1. i \in ServerIdentifiers
        BY <1>0, <2>2, PacketsInQueue DEF Answers, SessionConnacks, ServerPublishes
    <3>2. Matches(packet, "Publish", i)
        BY <2>2 DEF Matches
    <3>3. server_inflight[i] = packet.message
        BY <2>2 DEF DownInv
    <3> HIDE DEF i
    <3>4. Count(to_client, "Publish", i) # 0
        BY <1>0, <3>2, CountZero, Zenon
    <3>5. i # id
        BY <3>1, <3>4, DeliveriesNat DEF Deliveries
    <3> QED BY <3>1, <3>3, <3>5 DEF i
  <2> QED BY <1>1, <2>1, <2>2
<1>4. IsConnecting' => \A i \in ServerIdentifiers : acks'[i] = 0
    BY DEF DownInv, IsConnecting
<1> QED BY <1>2, <1>3, <1>4

\* The server publishes a message for the first time: it is accepted.
LEMMA DownServerPublish ==
    ASSUME SessionInv, DownInv, ServerPublish
    PROVE  DownInv' /\ ServerToClient!Next
<1>0. /\ SessionTypeOK /\ transport = "up"
      /\ UNCHANGED <<acks, to_server, app_received, server_online, server_resend,
                     connection_state>>
    BY DEF SessionInv, ServerPublish, vars, caller
<1>1. PICK id \in ServerIdentifiers, m \in ServerMessages \ server_published :
          /\ server_inflight[id] = None
          /\ server_inflight' = [server_inflight EXCEPT ![id] = m]
          /\ server_published' = server_published \cup {m}
          /\ Reply(PublishPacket("AtLeastOnce", id, m))
    BY DEF ServerPublish
<1>2. /\ to_client' = Append(to_client, PublishPacket("AtLeastOnce", id, m))
      /\ m # None
    BY <1>0, <1>1, SessionAssumption DEF Reply
<1>3. /\ server_inflight'[id] = m /\ DOMAIN server_inflight = ServerIdentifiers
      /\ DOMAIN server_inflight' = ServerIdentifiers
      /\ \A i \in ServerIdentifiers \ {id} : server_inflight'[i] = server_inflight[i]
    BY <1>0, <1>1 DEF SessionTypeOK
<1>4. Deliveries(id) = 0
  <2>1. Deliveries(id) <= 1 /\ Deliveries(id) # 1
      BY <1>1 DEF DownInv
  <2> QED BY <2>1, DeliveriesNat DEF Deliveries
<1>5. server_resend' \subseteq server_resend \ {id}
    BY <1>0, <1>1 DEF SessionTypeOK
<1>6. Pending(server_inflight') = Pending(server_inflight) \cup {m}
    BY <1>1, <1>2, <1>3 DEF Pending
<1>7. /\ app_received' \subseteq server_published'
      /\ server_published' \subseteq app_received' \cup Pending(server_inflight')
      /\ \A i \in ServerIdentifiers :
            server_inflight'[i] # None => server_inflight'[i] \in server_published'
      /\ \A i, j \in ServerIdentifiers :
            server_inflight'[i] # None /\ server_inflight'[i] = server_inflight'[j] => i = j
  <2>1. /\ app_received \subseteq server_published
        /\ server_published \subseteq app_received \cup Pending(server_inflight)
        /\ \A i \in ServerIdentifiers :
              server_inflight[i] # None => server_inflight[i] \in server_published
        /\ \A i, j \in ServerIdentifiers :
              server_inflight[i] # None /\ server_inflight[i] = server_inflight[j] => i = j
      BY DEF DownInv
  <2>2. app_received' \subseteq server_published'
      BY <1>0, <1>1, <2>1
  <2>3. server_published' \subseteq app_received' \cup Pending(server_inflight')
      BY <1>0, <1>1, <1>6, <2>1
  <2>4. \A i \in ServerIdentifiers :
            server_inflight'[i] # None => server_inflight'[i] \in server_published'
      BY <1>1, <1>3, <2>1
  <2>5. \A i \in ServerIdentifiers \ {id} : server_inflight'[i] # m
      BY <1>1, <1>2, <1>3, <2>1
  <2>6. \A i, j \in ServerIdentifiers :
            server_inflight'[i] # None /\ server_inflight'[i] = server_inflight'[j] => i = j
      BY <1>3, <2>1, <2>5
  <2> QED BY <2>2, <2>3, <2>4, <2>6
<1>8. /\ \A i \in ServerIdentifiers :
            (/\ Deliveries(i) <= 1
             /\ Deliveries(i) = 1 => server_inflight[i] # None
             /\ i \in server_resend /\ server_online => Deliveries(i) = 0
             /\ acks[i] = 1 \/ Count(to_server, "Puback", i) = 1 =>
                   server_inflight[i] \in app_received)'
      /\ \A packet \in Packets(to_client') : packet.type = "Publish" =>
            server_inflight'[packet.packet_identifier] = packet.message
      /\ IsConnecting' => \A i \in ServerIdentifiers : acks'[i] = 0
    BY <1>0, <1>2, <1>3, <1>4, <1>5, DownServerSends
<1>9. DownInv'
    BY <1>7, <1>8 DEF DownInv
<1>10. ServerToClient!Accept(m)
    BY <1>0, <1>1, <1>6 DEF ServerToClient!Accept
<1> QED BY <1>1, <1>9, <1>10 DEF ServerToClient!Next

\* The server sends a publish again on a new connection.
LEMMA DownServerResend ==
    ASSUME SessionInv, DownInv, NEW id \in ServerIdentifiers, ServerResend(id)
    PROVE  DownInv' /\ UNCHANGED ServerToClient!vars
<1>0. /\ SessionTypeOK /\ transport = "up" /\ server_online /\ id \in server_resend
      /\ server_resend' = server_resend \ {id}
      /\ UNCHANGED <<acks, to_server, app_received, server_online, server_inflight,
                     server_published, connection_state>>
    BY DEF SessionInv, ServerResend, vars, caller
<1>1. /\ to_client' = Append(to_client, PublishPacket("AtLeastOnce", id, server_inflight[id]))
      /\ server_inflight[id] # None /\ Deliveries(id) = 0
    BY <1>0 DEF ServerResend, Reply, SessionTypeOK, DownInv
<1>2. /\ \A i \in ServerIdentifiers :
            (/\ Deliveries(i) <= 1
             /\ Deliveries(i) = 1 => server_inflight[i] # None
             /\ i \in server_resend /\ server_online => Deliveries(i) = 0
             /\ acks[i] = 1 \/ Count(to_server, "Puback", i) = 1 =>
                   server_inflight[i] \in app_received)'
      /\ \A packet \in Packets(to_client') : packet.type = "Publish" =>
            server_inflight'[packet.packet_identifier] = packet.message
      /\ IsConnecting' => \A i \in ServerIdentifiers : acks'[i] = 0
    BY <1>0, <1>1, DownServerSends
<1>3. Pending(server_inflight') = Pending(server_inflight)
    BY <1>0
<1>4. DownInv'
    BY <1>0, <1>2, <1>3 DEF DownInv
<1> QED BY <1>0, <1>4 DEF ServerToClient!vars

\* The server reads a packet: what it wants no answer for is off the wire.
LEMMA ReadPubacks ==
    ASSUME SessionInv, to_server # <<>>, to_server' = Tail(to_server)
    PROVE  \A id \in ServerIdentifiers :
              /\ Count(to_server', "Puback", id) \in Nat
              /\ Count(to_server, "Puback", id) = Count(to_server', "Puback", id) +
                    (IF /\ Head(to_server).type = "Puback"
                        /\ Head(to_server).packet_identifier = id THEN 1 ELSE 0)
              /\ Count(to_server', "Puback", id) \in 0 .. Count(to_server, "Puback", id)
<1> SUFFICES ASSUME NEW id \in ServerIdentifiers
             PROVE  /\ Count(to_server', "Puback", id) \in Nat
                    /\ Count(to_server, "Puback", id) = Count(to_server', "Puback", id) +
                          (IF /\ Head(to_server).type = "Puback"
                              /\ Head(to_server).packet_identifier = id THEN 1 ELSE 0)
                    /\ Count(to_server', "Puback", id) \in 0 .. Count(to_server, "Puback", id)
    OBVIOUS
<1>1. /\ Count(to_server', "Puback", id) \in Nat
      /\ Count(to_server, "Puback", id) = Count(to_server', "Puback", id) +
            (IF Matches(Head(to_server), "Puback", id) THEN 1 ELSE 0)
    BY ServerReads, Zenon DEF SessionInv
<1>2. Matches(Head(to_server), "Puback", id) <=>
          Head(to_server).type = "Puback" /\ Head(to_server).packet_identifier = id
    BY SessionAssumption DEF Matches
<1> QED BY <1>1, <1>2

\* A PUBACK arrives: the server forgets a publish that the application has.
LEMMA DownRelease ==
    ASSUME SessionInv, DownInv, ServerReceive, Head(to_server).type = "Puback"
    PROVE  DownInv' /\ ServerToClient!Next
<1> PICK h, id, m : h = Head(to_server) /\ id = h.packet_identifier /\ m = server_inflight[id]
    OBVIOUS
<1>0. /\ SessionTypeOK /\ to_server # <<>> /\ to_server' = Tail(to_server)
      /\ UNCHANGED <<acks, to_client, app_received, server_online, server_published,
                     connection_state>>
      /\ server_inflight' = [server_inflight EXCEPT ![id] = None]
      /\ server_resend' = server_resend \ {id}
    BY DEF SessionInv, ServerReceive, vars, caller
<1>1. h \in Requests
    BY <1>0, ServerReads, Zenon
<1>2. id \in ServerIdentifiers
    BY <1>1 DEF Requests, ConnectPackets, StoredPublishes
<1>3. /\ \A i \in ServerIdentifiers :
            /\ Count(to_server', "Puback", i) \in Nat
            /\ Count(to_server, "Puback", i) = Count(to_server', "Puback", i) +
                  (IF i = id THEN 1 ELSE 0)
  <2> SUFFICES ASSUME NEW i \in ServerIdentifiers
               PROVE  /\ Count(to_server', "Puback", i) \in Nat
                      /\ Count(to_server, "Puback", i) = Count(to_server', "Puback", i) +
                            (IF i = id THEN 1 ELSE 0)
      OBVIOUS
  <2>1. /\ Count(to_server', "Puback", i) \in Nat
        /\ Count(to_server, "Puback", i) = Count(to_server', "Puback", i) +
              (IF h.type = "Puback" /\ id = i THEN 1 ELSE 0)
      BY <1>0, ReadPubacks, Zenon
  <2> QED BY <2>1
<1>4. /\ Deliveries(id) = 1 /\ Count(to_server, "Puback", id) = 1
      /\ Count(to_client, "Publish", id) = 0 /\ Deliveries(id)' = 0 /\ acks[id] = 0
  <2>1. Deliveries(id) <= 1
      BY <1>2 DEF DownInv
  <2>2. /\ Count(to_server', "Puback", id) \in Nat
        /\ Count(to_server, "Puback", id) = Count(to_server', "Puback", id) + 1
      BY <1>2, <1>3
  <2>3. /\ Deliveries(id) =
              Count(to_client, "Publish", id) + acks[id] + Count(to_server, "Puback", id)
        /\ Deliveries(id)' =
              Count(to_client, "Publish", id) + acks[id] + Count(to_server', "Puback", id)
      BY <1>0 DEF Deliveries
  <2>4. Count(to_client, "Publish", id) \in Nat /\ acks[id] \in Nat
      BY <1>2, DeliveriesNat
  <2> QED BY <2>1, <2>2, <2>3, <2>4
<1>5. m # None /\ m \in app_received /\ m \in ServerMessages
    BY <1>0, <1>2, <1>4 DEF DownInv, SessionTypeOK
<1>6. /\ server_inflight'[id] = None /\ DOMAIN server_inflight = ServerIdentifiers
      /\ DOMAIN server_inflight' = ServerIdentifiers
      /\ \A i \in ServerIdentifiers \ {id} : server_inflight'[i] = server_inflight[i]
      /\ server_inflight[id] = m
    BY <1>0, <1>2 DEF SessionTypeOK
<1>7. \A i \in ServerIdentifiers : server_inflight[i] = m => i = id
    BY <1>2, <1>5, <1>6 DEF DownInv
<1>8. Pending(server_inflight') = Pending(server_inflight) \ {m}
    BY <1>2, <1>5, <1>6, <1>7 DEF Pending
<1>9. /\ app_received' \subseteq server_published'
      /\ server_published' \subseteq app_received' \cup Pending(server_inflight')
      /\ \A i \in ServerIdentifiers :
            server_inflight'[i] # None => server_inflight'[i] \in server_published'
      /\ \A i, j \in ServerIdentifiers :
            server_inflight'[i] # None /\ server_inflight'[i] = server_inflight'[j] => i = j
      /\ IsConnecting' => \A i \in ServerIdentifiers : acks'[i] = 0
    BY <1>0, <1>5, <1>6, <1>8 DEF DownInv, IsConnecting
<1>10. ASSUME NEW i \in ServerIdentifiers
       PROVE  (/\ Deliveries(i) <= 1
               /\ Deliveries(i) = 1 => server_inflight[i] # None
               /\ i \in server_resend /\ server_online => Deliveries(i) = 0
               /\ acks[i] = 1 \/ Count(to_server, "Puback", i) = 1 =>
                     server_inflight[i] \in app_received)'
  <2>1. CASE i = id
    <3>1. Count(to_server', "Puback", i) = 0
        BY <1>2, <1>3, <1>4, <2>1
    <3> QED BY <1>0, <1>4, <2>1, <3>1
  <2>2. CASE i # id
    <3>1. Count(to_server', "Puback", i) = Count(to_server, "Puback", i)
        BY <1>3, <2>2
    <3>2. Deliveries(i)' = Deliveries(i)
        BY <1>0, <3>1 DEF Deliveries
    <3> QED BY <1>0, <1>6, <2>2, <3>1, <3>2 DEF DownInv
  <2> QED BY <2>1, <2>2
<1>11. \A packet \in Packets(to_client') : packet.type = "Publish" =>
           server_inflight'[packet.packet_identifier] = packet.message
  <2> SUFFICES ASSUME NEW packet \in Packets(to_client), packet.type = "Publish"
               PROVE  server_inflight'[packet.packet_identifier] = packet.message
      BY <1>0
  <2>1. to_client \in Seq(Answers)
      BY <1>0 DEF SessionTypeOK
  <2>2. packet.packet_identifier \in ServerIdentifiers
      BY <2>1, PacketsInQueue DEF Answers, SessionConnacks, ServerPublishes
  <2>3. ~Matches(packet, "Publish", id)
      BY <1>4, <2>1, CountZero, Zenon
  <2>4. packet.packet_identifier # id
      BY <2>3 DEF Matches
  <2> QED BY <1>6, <2>2, <2>4 DEF DownInv
<1>12. DownInv'
    BY <1>9, <1>10, <1>11 DEF DownInv
<1>13. m \in server_published
    BY <1>5 DEF DownInv
<1>14. ServerToClient!Release(m)
    BY <1>0, <1>5, <1>8, <1>13 DEF ServerToClient!Release
<1> QED BY <1>5, <1>12, <1>14 DEF ServerToClient!Next

\* The other packets the server reads.  Its CONNACK opens a connection on
\* which nothing of an earlier one is left.
LEMMA DownServerReceive ==
    ASSUME SessionInv, DownInv, ServerReceive
    PROVE  DownInv' /\ [ServerToClient!Next]_(ServerToClient!vars)
<1> SUFFICES ASSUME Head(to_server).type # "Puback"
             PROVE  DownInv' /\ UNCHANGED ServerToClient!vars
    BY DownRelease
<1> DEFINE h == Head(to_server)
<1>0. /\ SessionTypeOK /\ TypeOK /\ to_server # <<>> /\ to_server' = Tail(to_server)
      /\ UNCHANGED <<acks, app_received, server_inflight, server_published, connection_state>>
    BY MachineFacts DEF SessionInv, ServerReceive, vars, caller
<1>1. PICK p : p.type # "Publish" /\ to_client' \in {to_client, Append(to_client, p)}
  <2>1. \/ UNCHANGED to_client
        \/ \E p : p.type # "Publish" /\ Reply(p)
      BY DEF ServerReceive, PubackPacket
  <2>2. DisconnectPacket.type # "Publish"
      BY DEF DisconnectPacket
  <2> QED BY <2>1, <2>2 DEF Reply
<1>2. ASSUME NEW id \in ServerIdentifiers
      PROVE  /\ Count(to_client', "Publish", id) \in 0 .. Count(to_client, "Publish", id)
             /\ acks'[id] \in 0 .. acks[id]
             /\ Count(to_server', "Puback", id) \in 0 .. Count(to_server, "Puback", id)
  <2>1. Count(to_client', "Publish", id) \in 0 .. Count(to_client, "Publish", id)
      BY <1>1, NoPublishWritten
  <2>2. acks'[id] \in 0 .. acks[id]
      BY <1>0, DeliveriesNat
  <2> QED BY <1>0, <2>1, <2>2, ReadPubacks
<1>3. \A packet \in Packets(to_client') :
          packet.type = "Publish" => packet \in Packets(to_client)
    BY <1>1, NoPublishWritten
<1>4. server_online' => \/ server_online /\ server_resend' = server_resend
                        \/ \A id \in ServerIdentifiers : Deliveries(id) = 0
  <2>1. CASE h.type = "Connect"
    <3>1. h \in Packets(to_server) /\ to_server \in Seq(Requests)
        BY <1>0, ServerReads, Zenon DEF SessionTypeOK
    <3>2. Matches(h, "Connect", None)
        BY <2>1 DEF Matches
    <3>3. Count(to_server, "Connect", None) # 0
        BY <3>1, <3>2, CountZero, Zenon
    <3>4. IsConnecting
        BY <3>3 DEF SessionInv, Handshake
    <3>5. PICK c \in ConnectPackets : to_server = <<c>>
        BY <1>0, <3>4 DEF SessionInv, Handshake
    <3>6. to_client = <<>>
        BY <1>0, <3>4 DEF SessionInv, Handshake
    <3>7. c \in Requests /\ \A id : ~Matches(c, "Puback", id)
        BY DEF ConnectPackets, Requests, Matches
    <3>8. ASSUME NEW id \in ServerIdentifiers PROVE Deliveries(id) = 0
      <4>1. Count(to_server, "Puback", id) = 0
          BY <3>5, <3>7, SingleQueue, Zenon
      <4>2. Count(to_client, "Publish", id) = 0
          BY <3>6, QueueCleared, Zenon
      <4>3. acks[id] = 0
          BY <3>4 DEF DownInv
      <4> QED BY <4>1, <4>2, <4>3 DEF Deliveries
    <3> QED BY <3>8
  <2>2. CASE h.type # "Connect"
      BY <2>2 DEF ServerReceive
  <2> QED BY <2>1, <2>2
<1> QED BY <1>0, <1>2, <1>3, <1>4, DownFrame DEF IsConnecting

\* The caller writes a packet that is no PUBACK.
LEMMA DownWrites ==
    ASSUME SessionInv, DownInv, NEW p, p.type # "Puback",
           to_server' \in {to_server, Append(to_server, p)},
           UNCHANGED <<to_client, acks, app_received, server_online, server_inflight,
                       server_resend, server_published>>,
           IsConnecting' => IsConnecting
    PROVE  DownInv' /\ UNCHANGED ServerToClient!vars
<1>1. ASSUME NEW id \in ServerIdentifiers
      PROVE  /\ Count(to_client', "Publish", id) \in 0 .. Count(to_client, "Publish", id)
             /\ acks'[id] \in 0 .. acks[id]
             /\ Count(to_server', "Puback", id) \in 0 .. Count(to_server, "Puback", id)
  <2>1. Count(to_server', "Puback", id) \in 0 .. Count(to_server, "Puback", id)
      BY NoPubackWritten
  <2>2. acks'[id] \in 0 .. acks[id]
      BY DeliveriesNat
  <2> QED BY <2>1, <2>2, QueueKept
<1> QED BY <1>1, DownFrame

\* A step of the stream or of the caller's bookkeeping: packets and
\* AcknowledgeActions are lost, none is added.
LEMMA DownLoses ==
    ASSUME SessionInv, DownInv,
           to_server' \in {to_server, <<>>}, to_client' \in {to_client, <<>>},
           \A id \in ServerIdentifiers : acks'[id] \in 0 .. acks[id],
           UNCHANGED <<app_received, server_online, server_inflight, server_resend,
                       server_published>>,
           IsConnecting' => IsConnecting
    PROVE  DownInv' /\ UNCHANGED ServerToClient!vars
<1>1. ASSUME NEW id \in ServerIdentifiers
      PROVE  /\ Count(to_client', "Publish", id) \in 0 .. Count(to_client, "Publish", id)
             /\ acks'[id] \in 0 .. acks[id]
             /\ Count(to_server', "Puback", id) \in 0 .. Count(to_server, "Puback", id)
  <2>1. to_client' = <<>> => Count(to_client', "Publish", id) = 0
      BY QueueCleared
  <2>2. to_server' = <<>> => Count(to_server', "Puback", id) = 0
      BY QueueCleared
  <2> QED BY <2>1, <2>2, QueueKept
<1>2. Packets(to_client') \subseteq Packets(to_client)
    BY QueueCleared
<1> QED BY <1>1, <1>2, DownFrame

\* A new connection: nothing of the earlier one is left.
LEMMA DownConnect ==
    ASSUME ~KeepsStaleAcks, SessionInv, SessionInv', DownInv, ClientConnect
    PROVE  DownInv' /\ UNCHANGED ServerToClient!vars
<1>1. PICK p \in Requests : p.type = "Connect" /\ to_server' = <<p>>
  <2>1. PICK p : p.type = "Connect" /\ to_server' = <<p>>
      BY DEF ClientConnect, ConnectPacket
  <2>2. to_server' \in Seq(Requests)
      BY DEF SessionInv, SessionTypeOK
  <2>3. p \in Requests
      BY <2>1, <2>2
  <2> QED BY <2>1, <2>3
<1>2. /\ to_client' = <<>> /\ ~server_online' /\ UNCHANGED acks
      /\ \A id \in ServerIdentifiers : acks[id] = 0
      /\ UNCHANGED <<app_received, server_inflight, server_published>>
    BY DEF ClientConnect, handle_connect, caller
<1>3. ASSUME NEW id \in ServerIdentifiers
      PROVE  /\ Count(to_client', "Publish", id) \in 0 .. Count(to_client, "Publish", id)
             /\ acks'[id] \in 0 .. acks[id]
             /\ Count(to_server', "Puback", id) \in 0 .. Count(to_server, "Puback", id)
  <2>1. Count(to_client', "Publish", id) = 0
      BY <1>2, QueueCleared
  <2>2. ~Matches(p, "Puback", id)
      BY <1>1 DEF Matches
  <2>3. Count(<<p>>, "Puback", id) = 0
      BY <2>2, SingleQueue, Zenon
  <2>4. acks'[id] \in 0 .. acks[id]
      BY <1>2
  <2> QED BY <1>1, <2>1, <2>3, <2>4, QueueKept
<1>4. Packets(to_client') = {}
    BY <1>2, QueueCleared
<1> QED BY <1>2, <1>3, <1>4, DownFrame

\* A call that may send a packet sends that one, and opens no connection.
LEMMA InnerRunSends ==
    ASSUME NEW t, NEW packet, NEW site, NEW expects,
           inner_run_PublishPacket(t, packet, site, expects)
    PROVE  /\ IsConnecting' => IsConnecting
           /\ action'.do = "SendPacket" => action'.packet = packet
<1>1. CASE Panics(site) \/ Returns(NoAction)
    BY <1>1 DEF inner_run_PublishPacket, Panics, Returns, NoAction, SendPacket, IsConnecting,
                IsConnected, Connected
<1>2. CASE Returns(SendPacket(packet)) /\ IsConnected
    BY <1>2, ConnectedSends DEF IsConnected, IsConnecting
<1> QED BY <1>1, <1>2 DEF inner_run_PublishPacket

\* No step leaves DownInv, and every step moves a message as AtLeastOnce
\* allows or not at all.
LEMMA DownStep ==
    ASSUME ~KeepsStaleAcks, SessionInv, SessionInv', DownInv, [SessionNext]_sessionVars
    PROVE  DownInv' /\ [ServerToClient!Next]_(ServerToClient!vars)
<1>0. SessionTypeOK /\ TypeOK
    BY MachineFacts DEF SessionInv
<1>1. CASE ClientConnect
    BY <1>1, DownConnect
<1>2. CASE \/ ClientPublish \/ ClientStore \/ ClientSend \/ ClientSubscribe
           \/ ClientDisconnect \/ ClientDisconnectPacket
  <2>1. /\ Transmit
        /\ UNCHANGED <<acks, app_received, server_online, server_inflight, server_resend,
                       server_published>>
      BY <1>2 DEF ClientPublish, ClientStore, ClientSend, ClientSubscribe, ClientDisconnect,
                  ClientDisconnectPacket, publish, PublisherStore, PublisherSend, subscribe,
                  disconnect, DisconnecterPacket, inner_run_PublishPacket, caller, server
  <2>2. /\ IsConnecting' => IsConnecting
        /\ action'.do = "SendPacket" => action'.packet.type # "Puback"
    <3>1. CASE ClientPublish \/ ClientStore \/ ClientDisconnect \/ ClientDisconnectPacket
      <4>1. UNCHANGED connection_state
          BY <3>1 DEF ClientPublish, publish, ClientStore, PublisherStore, ClientDisconnect,
                      disconnect, ClientDisconnectPacket, DisconnecterPacket
      <4>2. \/ action' = NoAction \/ action' = SendPacket(DisconnectPacket)
            \/ \E id : action' = StorePacket(id)
          BY <3>1 DEF ClientPublish, publish, ClientStore, PublisherStore, ClientDisconnect,
                      disconnect, ClientDisconnectPacket, DisconnecterPacket, Returns, Panics
      <4>3. action'.do = "SendPacket" => action'.packet.type # "Puback"
          BY <4>2 DEF NoAction, SendPacket, StorePacket, DisconnectPacket
      <4> QED BY <4>1, <4>3 DEF IsConnecting
    <3>2. CASE ClientSend
      <4>1. inner_run_PublishPacket(now, handle.packet, "publish", FALSE)
          BY <3>2 DEF ClientSend, PublisherSend
      <4>2. handle.packet \in StoredPublishes
          BY <3>2 DEF SessionInv, Borrower, ClientSend, PublisherSend
      <4>3. handle.packet.type # "Puback"
          BY <4>2 DEF StoredPublishes
      <4> QED BY <4>1, <4>3, InnerRunSends
    <3>3. CASE ClientSubscribe
      <4>1. PICK id : \/ Panics("subscribe") /\ UNCHANGED connection_state
                      \/ inner_run_PublishPacket(now, SubscribePacket(id), "subscribe", TRUE)
          BY <3>3 DEF ClientSubscribe, subscribe
      <4>2. SubscribePacket(id).type # "Puback"
          BY DEF SubscribePacket
      <4>3. CASE Panics("subscribe") /\ UNCHANGED connection_state
          BY <4>3 DEF Panics, NoAction, IsConnecting
      <4>4. CASE inner_run_PublishPacket(now, SubscribePacket(id), "subscribe", TRUE)
          BY <4>2, <4>4, InnerRunSends
      <4> QED BY <4>1, <4>3, <4>4
    <3> QED BY <1>2, <3>1, <3>2, <3>3
  <2>4. PICK p : p.type # "Puback" /\ to_server' \in {to_server, Append(to_server, p)}
    <3>1. PingreqPacket.type # "Puback"
        BY DEF PingreqPacket
    <3> QED BY <2>1, <2>2, <3>1 DEF Transmit
  <2>5. UNCHANGED to_client
      BY <2>1 DEF Transmit
  <2> QED BY <2>1, <2>2, <2>4, <2>5, DownWrites
<1>3. CASE \E id \in DOMAIN stored : ClientResend(id)
  <2>1. PICK id \in DOMAIN stored : ClientResend(id)
      BY <1>3
  <2> DEFINE p == PublishPacket("AtLeastOnce", id, stored[id])
  <2>2. p.type # "Puback"
      BY DEF PublishPacket
  <2>3. /\ to_server' \in {to_server, Append(to_server, p)}
        /\ UNCHANGED <<to_client, acks, app_received, server_online, server_inflight,
                       server_resend, server_published, connection_state>>
      BY <2>1 DEF ClientResend, server, vars
  <2> HIDE DEF p
  <2> QED BY <2>2, <2>3, DownWrites DEF IsConnecting
<1>4. CASE ClientRun
  <2>1. /\ UNCHANGED <<to_client, acks, app_received, server_online, server_inflight,
                       server_resend, server_published>>
        /\ action' # NoAction => action' = SendPacket(PingreqPacket)
        /\ connection_state' \in {connection_state, Connected(now, "WaitingForPingresp")}
      BY <1>4 DEF ClientRun, run, Returns, caller, server
  <2>2. to_server' \in {to_server, Append(to_server, PingreqPacket)}
      BY <1>4, <2>1 DEF ClientRun, SendPacket
  <2>3. PingreqPacket.type # "Puback"
      BY DEF PingreqPacket
  <2>4. IsConnecting' => IsConnecting
      BY <2>1 DEF IsConnecting, Connected
  <2> QED BY <2>1, <2>2, <2>3, <2>4, DownWrites
<1>5. CASE \E id \in ServerIdentifiers : ClientAcknowledge(id)
    BY <1>5, DownAcknowledge
<1>6. CASE ClientConsume
    BY <1>6, DownConsume
<1>7. CASE \/ ClientNoticesLoss \/ ClientDisconnectConnection \/ ClientDropHandle \/ Tick
           \/ TransportBreaks \/ UNCHANGED sessionVars
           \/ \E id \in ServerIdentifiers : ClientForgetsAck(id)
  <2>1. /\ to_server' \in {to_server, <<>>} /\ to_client' \in {to_client, <<>>}
        /\ UNCHANGED <<app_received, server_online, server_inflight, server_resend,
                       server_published>>
      BY <1>7 DEF ClientNoticesLoss, ClientDisconnectConnection, ClientDropHandle, Tick,
                  TransportBreaks, ClientForgetsAck, sessionVars, wire, caller, server
  <2>2. connection_state' \in {connection_state, Disconnected}
      BY <1>7 DEF ClientNoticesLoss, connection_lost, ClientDisconnectConnection,
                  DisconnecterConnection, reset_connection, ClientDropHandle, DropHandle, Tick,
                  TransportBreaks, ClientForgetsAck, DropAcknowledgeAction, sessionVars, vars
  <2>3. IsConnecting' => IsConnecting
      BY <2>2 DEF IsConnecting, Disconnected
  <2>4. ASSUME NEW i \in ServerIdentifiers
        PROVE  acks'[i] \in 0 .. acks[i]
    <3>1. acks[i] \in Nat
        BY DeliveriesNat
    <3>2. CASE \E id \in ServerIdentifiers : ClientForgetsAck(id)
      <4>1. PICK id \in ServerIdentifiers : ClientForgetsAck(id)
          BY <3>2
      <4>2. acks[id] > 0 /\ acks' = [acks EXCEPT ![id] = @ - 1] /\ DOMAIN acks = ServerIdentifiers
          BY <1>0, <4>1 DEF ClientForgetsAck, DropAcknowledgeAction, TypeOK
      <4> QED BY <3>1, <4>2
    <3>3. CASE ~(\E id \in ServerIdentifiers : ClientForgetsAck(id))
      <4>1. UNCHANGED acks
          BY <1>7, <3>3
             DEF ClientNoticesLoss, connection_lost, ClientDisconnectConnection,
                 DisconnecterConnection, reset_connection, ClientDropHandle, DropHandle, Tick,
                 TransportBreaks, sessionVars, vars
      <4> QED BY <3>1, <4>1
    <3> QED BY <3>2, <3>3
  <2> QED BY <2>1, <2>3, <2>4, DownLoses
<1>8. CASE ServerDisconnect
  <2>1. /\ to_client' = Append(to_client, DisconnectPacket) /\ to_server' = <<>>
        /\ UNCHANGED <<acks, app_received, server_online, server_inflight, server_resend,
                       server_published, connection_state>>
      BY <1>8 DEF ServerDisconnect, vars, caller, server
  <2>2. DisconnectPacket.type # "Publish"
      BY DEF DisconnectPacket
  <2>3. /\ \A id : Count(to_client', "Publish", id) \in 0 .. Count(to_client, "Publish", id)
        /\ \A packet \in Packets(to_client') :
              packet.type = "Publish" => packet \in Packets(to_client)
      BY <2>1, <2>2, NoPublishWritten
  <2>4. ASSUME NEW id \in ServerIdentifiers
        PROVE  /\ Count(to_client', "Publish", id) \in 0 .. Count(to_client, "Publish", id)
               /\ acks'[id] \in 0 .. acks[id]
               /\ Count(to_server', "Puback", id) \in 0 .. Count(to_server, "Puback", id)
    <3>1. Count(to_client', "Publish", id) \in 0 .. Count(to_client, "Publish", id)
        BY <2>3, Zenon
    <3>2. Count(to_server', "Puback", id) = 0
        BY <2>1, QueueCleared
    <3>3. acks'[id] \in 0 .. acks[id]
        BY <2>1, DeliveriesNat
    <3> QED BY <3>1, <3>2, <3>3, QueueKept
  <2> QED BY <2>1, <2>3, <2>4, DownFrame DEF IsConnecting
<1>9. CASE ServerReceive
    BY <1>9, DownServerReceive
<1>10. CASE ServerPublish
    BY <1>10, DownServerPublish
<1>11. CASE \E id \in ServerIdentifiers : ServerResend(id)
    BY <1>11, DownServerResend
<1> QED BY <1>1, <1>2, <1>3, <1>4, <1>5, <1>6, <1>7, <1>8, <1>9, <1>10, <1>11
        DEF SessionNext, ClientStep

\* The server counts a publish at QoS 1 as received only after the
\* application has it, over any number of connections, if the caller drops
\* the AcknowledgeActions of a connection that is gone.  The machine does
\* not see to that itself: the run session_stale_acks shows what happens
\* when they are kept.
THEOREM ForgottenOnlyAfterReceipt ==
    ASSUME ~KeepsStaleAcks
    PROVE  SessionSafety => ServerForgetsOnlyReceived
<1>1. SessionInit => DownInv /\ ServerToClient!Init
  <2> SUFFICES ASSUME SessionInit PROVE DownInv /\ ServerToClient!Init
      OBVIOUS
  <2>1. /\ app_received = {} /\ server_published = {} /\ ~IsConnecting /\ ~server_online
        /\ \A id \in ServerIdentifiers : server_inflight[id] = None /\ acks[id] = 0
        /\ to_server = <<>> /\ to_client = <<>>
      BY DEF SessionInit, Init, Disconnected, IsConnecting
  <2>2. Packets(to_client) = {}
      BY <2>1, QueueCleared
  <2>3. ASSUME NEW id \in ServerIdentifiers
        PROVE  Count(to_server, "Puback", id) = 0 /\ Count(to_client, "Publish", id) = 0
      BY <2>1, QueueCleared
  <2>4. \A id \in ServerIdentifiers : Deliveries(id) = 0
      BY <2>1, <2>3 DEF Deliveries
  <2> QED BY <2>1, <2>2, <2>3, <2>4 DEF DownInv, ServerToClient!Init
<1>2. SessionInv /\ SessionInv' /\ DownInv /\ [SessionNext]_sessionVars =>
          DownInv' /\ [ServerToClient!Next]_(ServerToClient!vars)
    BY DownStep
<1> QED BY <1>1, <1>2, SessionInvInit, SessionInvStep, PTL
        DEF SessionSafety, ServerForgetsOnlyReceived, ServerToClient!Safety
=============================================================================
