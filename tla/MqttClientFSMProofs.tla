------------------------ MODULE MqttClientFSMProofs ------------------------
(***************************************************************************)
(* Proofs about MqttClientFSM for every width of the store, every set of   *)
(* times, identifiers and messages, every caller and every server.         *)
(***************************************************************************)
EXTENDS MqttClientFSM, UsizeStoreRefinement

(***************************************************************************)
(* The inductive invariant.  Neither of the two safety invariants is       *)
(* inductive without NoStaleUsage: a stale is_publish bit would turn the   *)
(* slot of a SUBSCRIBE into one that reset_connection keeps.               *)
(***************************************************************************)
Inv ==
    /\ TypeOK
    /\ NoStaleUsage
    /\ NonPublishSlotsNeedConnection
    /\ PublisherOwnsIdentifier

\* A new machine satisfies the invariant.
LEMMA InvInit == Init => Inv
<1> SUFFICES ASSUME Init PROVE Inv
    OBVIOUS
<1>1. StoreOK /\ InUse = {} /\ InUseForPublish = {}
    BY EmptyStoreOK DEF Init
<1>2. TypeOK
    BY <1>1, InstantsAssumption
       DEF Init, TypeOK, StoreOK, ConnectionStates, Handles, NoHandle, Disconnected
<1> QED BY <1>1, <1>2
        DEF Inv, Init, StoreOK, NonPublishSlotsNeedConnection,
            PublisherOwnsIdentifier, NoHandle

\* The connection states are told apart by their tag.
LEMMA ConnectionStateShape ==
    ASSUME connection_state \in ConnectionStates
    PROVE  /\ IsDisconnected => connection_state = Disconnected
           /\ IsConnecting => connection_state.connect_sent \in Instants
           /\ IsConnected => /\ connection_state.last_time_sent \in Instants
                             /\ connection_state.ping_state \in PingStates
           /\ IsDisconnected \/ IsConnecting \/ IsConnected
           /\ ~(IsConnected /\ IsConnecting) /\ ~(IsConnected /\ IsDisconnected)
BY DEF ConnectionStates, Disconnected, IsConnected, IsConnecting, IsDisconnected

\* The states the machine is put into are connection states.
LEMMA NewConnectionStates ==
    ASSUME NEW t \in Instants, NEW ping \in PingStates
    PROVE  /\ Connected(t, ping) \in ConnectionStates
           /\ ConnectingWithoutAuth(t) \in ConnectionStates
           /\ Disconnected \in ConnectionStates
           /\ Connected(t, ping).state = "Connected"
           /\ ConnectingWithoutAuth(t).state = "ConnectingWithoutAuth"
           /\ Disconnected.state = "Disconnected"
BY DEF ConnectionStates, Connected, ConnectingWithoutAuth, Disconnected

\* reset_connection leaves no identifier but those of publishes.
LEMMA ResetConnection ==
    ASSUME StoreOK, reset_connection
    PROVE  /\ StoreOK'
           /\ InUse' = InUseForPublish /\ InUseForPublish' = InUseForPublish
           /\ connection_state' = Disconnected
           /\ Disconnected \in ConnectionStates
BY ReleaseNonPublishSlotsFrees DEF reset_connection, ConnectionStates

\* A step that touches neither the store nor the borrower, and does not end
\* a connection, only has to keep the types.
LEMMA Frame ==
    ASSUME Inv, TypeOK',
           UNCHANGED <<client_pis, handle>>,
           panic' = NotPanicked /\ ~IsConnected' => panic = NotPanicked /\ ~IsConnected
    PROVE  Inv'
<1>1. NoStaleUsage' /\ InUse' = InUse /\ InUseForPublish' = InUseForPublish
    BY DEF Inv, NoStaleUsage, InUse, InUseForPublish
<1> QED BY <1>1
        DEF Inv, NonPublishSlotsNeedConnection, PublisherOwnsIdentifier

\* A step that ends the connection and has no publisher at work.
LEMMA ResetFrame ==
    ASSUME Inv, TypeOK', reset_connection, handle'.kind # "Publisher"
    PROVE  Inv'
<1>1. StoreOK
    BY DEF Inv, TypeOK, StoreOK
<1>2. StoreOK' /\ InUse' = InUseForPublish'
    BY <1>1, ResetConnection
<1> QED BY <1>2
        DEF Inv, StoreOK, NonPublishSlotsNeedConnection, PublisherOwnsIdentifier

-----------------------------------------------------------------------------
\* handle_connect keeps the invariant.
LEMMA HandleConnectInv ==
    ASSUME Inv, NEW t \in Instants, NEW connect \in ConnectPackets,
           handle_connect(t, connect)
    PROVE  Inv'
<1>1. /\ connect.keep_alive \in KeepAlives
      /\ (IF connect.client_identifier = EmptyIdentifier THEN None
          ELSE FxHash[connect.client_identifier]) \in Nat \cup {None}
    BY IdentifiersAssumption DEF ConnectPackets
<1>2. SendPacket(connect) \in ExpectedActions
    BY DEF ExpectedActions, SendPacket, OutgoingPackets
<1>3. TypeOK'
    BY <1>1, <1>2
       DEF handle_connect, Returns, Panics, PanicSites, NotPanicked, Inv, TypeOK,
           ConnectionStates, ConnectingWithoutAuth
<1>4. panic' = NotPanicked => panic = NotPanicked /\ ~IsConnected
    BY ConnectionStateShape
       DEF handle_connect, Idle, Panics, NotPanicked, Inv, TypeOK
<1> QED BY <1>3, <1>4, Frame DEF handle_connect

\* Being asked to send a packet keeps the types and does not connect or
\* disconnect the machine; when it panics, nothing but the time has changed.
LEMMA SendKeepsTypes ==
    ASSUME TypeOK, NEW t \in Instants, NEW packet \in OutgoingPackets,
           NEW site \in PanicSites, NEW expects \in BOOLEAN,
           inner_run_PublishPacket(t, packet, site, expects)
    PROVE  /\ last_time_run' \in Instants \cup {0}
           /\ connection_state' \in ConnectionStates
           /\ action' \in ExpectedActions \cup {NoAction}
           /\ panic' \in PanicSites \cup {NotPanicked}
           /\ IsConnected' <=> IsConnected
           /\ expects /\ panic' = NotPanicked =>
                 IsConnected /\ action' = SendPacket(packet)
           /\ action' # NoAction => action' = SendPacket(packet)
<1>1. SendPacket(packet) \in ExpectedActions
    BY DEF ExpectedActions, SendPacket
<1>2. connection_state \in ConnectionStates
    BY DEF TypeOK
<1>3. CASE IsDisconnected
    BY <1>2, <1>3, ConnectionStateShape
       DEF inner_run_PublishPacket, IsDisconnected, IsConnecting, IsConnected,
           Returns, Panics, PanicSites, NotPanicked
<1>4. CASE IsConnecting
    BY <1>2, <1>4, ConnectionStateShape
       DEF inner_run_PublishPacket, IsDisconnected, IsConnecting, IsConnected,
           Returns, Panics, PanicSites, NotPanicked, TypeOK
<1>5. CASE IsConnected
  <2>1. connection_state' = Connected(t, connection_state.ping_state)
        /\ last_time_run' = t /\ Returns(SendPacket(packet))
      BY <1>5 DEF inner_run_PublishPacket, IsDisconnected, IsConnecting, IsConnected
  <2>2. connection_state' \in ConnectionStates /\ IsConnected'
      BY <2>1, <1>2, <1>5, ConnectionStateShape, NewConnectionStates DEF IsConnected
  <2> QED BY <1>1, <1>5, <2>1, <2>2 DEF Returns
<1> QED BY <1>2, <1>3, <1>4, <1>5, ConnectionStateShape

\* publish keeps the invariant.
LEMMA PublishInv ==
    ASSUME Inv, NEW packet \in NewPublishes, publish(packet)
    PROVE  Inv'
<1>1. UNCHANGED <<data, connection_state, client_pis, acks>> /\ Returns(NoAction)
      /\ panic = NotPanicked
      /\ handle' = Publisher(IF packet.quality_of_service = "AtMostOnce"
                             THEN "Send" ELSE "Store", packet)
    BY DEF publish, Idle
<1>2. handle' \in Handles
    BY <1>1 DEF Handles, Publisher
<1>3. TypeOK'
    BY <1>1, <1>2 DEF Inv, TypeOK, data, Returns
<1>4. NoStaleUsage' /\ InUse' = InUse /\ InUseForPublish' = InUseForPublish
    BY <1>1 DEF Inv, NoStaleUsage, InUse, InUseForPublish
<1>5. PublisherOwnsIdentifier'
    BY <1>1 DEF PublisherOwnsIdentifier, Publisher
<1>6. NonPublishSlotsNeedConnection'
    BY <1>1, <1>4 DEF Inv, NonPublishSlotsNeedConnection, IsConnected
<1> QED BY <1>3, <1>4, <1>5, <1>6 DEF Inv

\* The two kinds of packet a publisher holds.
LEMMA PublisherPacket ==
    ASSUME handle \in Handles, handle.kind = "Publisher"
    PROVE  /\ handle.state = "Store" =>
                 /\ handle.packet \in NewPublishes
                 /\ handle.packet.quality_of_service # "AtMostOnce"
           /\ handle.state = "Send" => handle.packet \in OutgoingPackets
BY DEF Handles, NoHandle, NewPublishes, OutgoingPackets

\* MqttClientPublisher::run keeps the invariant when it stores ...
LEMMA PublisherStoreInv == Inv /\ PublisherStore => Inv'
<1> SUFFICES ASSUME Inv, PublisherStore PROVE Inv'
    OBVIOUS
<1> PICK id \in PacketIdentifiers \cup {None} :
        /\ GetNextFree("Publish", id)
        /\ \/ id = None /\ Panics("publish") /\ UNCHANGED handle
           \/ /\ id # None
              /\ handle' = Publisher("Send", [handle.packet EXCEPT !.packet_identifier = id])
              /\ Returns(StorePacket(id))
    BY DEF PublisherStore
<1>0. StoreOK /\ "Publish" \in PacketIdentifierUsage
    BY DEF Inv, TypeOK, StoreOK, PacketIdentifierUsage
<1>1. CASE id = None
  <2>1. UNCHANGED <<data, connection_state, client_pis, acks, handle>> /\ Panics("publish")
      BY <1>0, <1>1, GetNextFreeNone DEF PublisherStore
  <2>2. TypeOK'
      BY <2>1 DEF Inv, TypeOK, data, Panics, PanicSites
  <2> QED BY <2>1, <2>2, Frame DEF Panics, NotPanicked
<1>2. CASE id \in PacketIdentifiers /\ id # None
  <2>1. /\ StoreOK' /\ InUse' = InUse \cup {id}
        /\ InUseForPublish' = InUseForPublish \cup {id}
      BY <1>0, <1>2, GetNextFreeSome
  <2>2. handle.packet \in NewPublishes /\ handle.packet.quality_of_service # "AtMostOnce"
      BY PublisherPacket DEF Inv, TypeOK, PublisherStore
  <2> DEFINE packet == [handle.packet EXCEPT !.packet_identifier = id]
  <2>3. /\ packet.quality_of_service = handle.packet.quality_of_service
        /\ packet.packet_identifier = id
        /\ packet \in [type : {"Publish"}, packet_identifier : PacketIdentifiers,
                       quality_of_service : QualityOfService \ {"AtMostOnce"},
                       message : Messages]
      BY <1>2, <2>2 DEF NewPublishes
  <2>4. handle' = Publisher("Send", packet) /\ Returns(StorePacket(id))
      BY <1>2
  <2>5. handle' \in Handles
      BY <2>3, <2>4 DEF Handles, Publisher
  <2>6. StorePacket(id) \in ExpectedActions
      BY <1>2 DEF ExpectedActions, StorePacket
  <2>7. TypeOK'
      BY <2>1, <2>4, <2>5, <2>6
         DEF Inv, TypeOK, StoreOK, data, PublisherStore, Returns
  <2>8. PublisherOwnsIdentifier'
      BY <2>1, <2>3, <2>4 DEF PublisherOwnsIdentifier, Publisher
  <2>9. NonPublishSlotsNeedConnection'
      BY <2>1 DEF Inv, NonPublishSlotsNeedConnection, PublisherStore, IsConnected
  <2> QED BY <2>1, <2>7, <2>8, <2>9 DEF Inv, StoreOK
<1> QED BY <1>1, <1>2

\* ... and when it sends.
LEMMA PublisherSendInv ==
    ASSUME Inv, NEW t \in Instants, PublisherSend(t)
    PROVE  Inv'
<1>1. /\ handle.packet \in OutgoingPackets
      /\ TypeOK /\ panic = NotPanicked
      /\ UNCHANGED <<keep_alive, client_id_hash, client_pis, acks>>
      /\ handle' = Publisher("Done", None)
    BY PublisherPacket DEF Inv, TypeOK, PublisherSend
<1>2. /\ last_time_run' \in Instants \cup {0}
      /\ connection_state' \in ConnectionStates
      /\ action' \in ExpectedActions \cup {NoAction}
      /\ panic' \in PanicSites \cup {NotPanicked}
      /\ IsConnected' <=> IsConnected
    BY <1>1, SendKeepsTypes DEF PublisherSend, PanicSites
<1>3. handle' \in Handles /\ handle'.state = "Done"
    BY <1>1 DEF Handles, Publisher
<1>4. TypeOK'
    BY <1>1, <1>2, <1>3 DEF TypeOK
<1>5. NoStaleUsage' /\ InUse' = InUse /\ InUseForPublish' = InUseForPublish
    BY <1>1 DEF Inv, NoStaleUsage, InUse, InUseForPublish
<1> QED BY <1>1, <1>2, <1>3, <1>4, <1>5
        DEF Inv, NonPublishSlotsNeedConnection, PublisherOwnsIdentifier

\* subscribe keeps the invariant: its identifier is lost only in a panic.
LEMMA SubscribeInv ==
    ASSUME Inv, NEW t \in Instants, subscribe(t)
    PROVE  Inv'
<1> PICK id \in PacketIdentifiers \cup {None} :
        /\ GetNextFree("NonPublish", id)
        /\ \/ /\ id = None
              /\ Panics("subscribe")
              /\ UNCHANGED <<last_time_run, connection_state>>
           \/ /\ id # None
              /\ inner_run_PublishPacket(t, SubscribePacket(id), "subscribe", TRUE)
    BY DEF subscribe
<1>0. /\ StoreOK /\ TypeOK /\ "NonPublish" \in PacketIdentifierUsage
      /\ UNCHANGED <<keep_alive, client_id_hash, handle, acks>> /\ handle = NoHandle
    BY DEF Inv, TypeOK, StoreOK, PacketIdentifierUsage, subscribe, Idle
<1>1. CASE id = None
  <2>1. UNCHANGED <<last_time_run, connection_state, client_pis>> /\ Panics("subscribe")
      BY <1>0, <1>1, GetNextFreeNone
  <2>2. TypeOK'
      BY <1>0, <2>1 DEF TypeOK, Panics, PanicSites
  <2> QED BY <1>0, <2>1, <2>2, Frame DEF Panics, NotPanicked
<1>2. CASE id \in PacketIdentifiers /\ id # None
  <2>1. StoreOK'
      BY <1>0, <1>2, GetNextFreeSome
  <2>2. SubscribePacket(id) \in OutgoingPackets
      BY <1>2 DEF OutgoingPackets, SubscribePacket
  <2>3. /\ last_time_run' \in Instants \cup {0}
        /\ connection_state' \in ConnectionStates
        /\ action' \in ExpectedActions \cup {NoAction}
        /\ panic' \in PanicSites \cup {NotPanicked}
        /\ IsConnected' <=> IsConnected
        /\ panic' = NotPanicked => IsConnected
      BY <1>0, <1>2, <2>2, SendKeepsTypes DEF PanicSites
  <2>4. TypeOK'
      BY <1>0, <2>1, <2>3 DEF TypeOK, StoreOK
  <2> QED BY <1>0, <2>1, <2>3, <2>4
          DEF Inv, StoreOK, NonPublishSlotsNeedConnection, PublisherOwnsIdentifier, NoHandle
<1> QED BY <1>1, <1>2

\* acknowledge keeps the invariant.
LEMMA AcknowledgeInv ==
    ASSUME Inv, NEW t \in Instants, NEW id \in ServerIdentifiers, acknowledge(t, id)
    PROVE  Inv'
<1>1. PubackPacket(id) \in OutgoingPackets /\ TypeOK /\ panic = NotPanicked
    BY DEF OutgoingPackets, PubackPacket, Inv, acknowledge, Idle
<1>2. acks' \in [ServerIdentifiers -> 0 .. MaxAcks]
    BY <1>1, InstantsAssumption DEF TypeOK, acknowledge
<1>3. /\ last_time_run' \in Instants \cup {0}
      /\ connection_state' \in ConnectionStates
      /\ action' \in ExpectedActions \cup {NoAction}
      /\ panic' \in PanicSites \cup {NotPanicked}
      /\ IsConnected' <=> IsConnected
    BY <1>1, SendKeepsTypes DEF acknowledge, PanicSites
<1>4. TypeOK'
    BY <1>1, <1>2, <1>3 DEF TypeOK, acknowledge
<1> QED BY <1>1, <1>3, <1>4, Frame DEF acknowledge

\* disconnect and the two calls of MqttClientDisconnecter::run keep it.
LEMMA DisconnectInv ==
    Inv /\ (disconnect \/ DisconnecterPacket \/ DisconnecterConnection) => Inv'
<1> SUFFICES ASSUME Inv, disconnect \/ DisconnecterPacket \/ DisconnecterConnection
             PROVE  Inv'
    OBVIOUS
<1>1. /\ handle' \in Handles /\ handle'.kind # "Publisher"
      /\ panic = NotPanicked
      /\ UNCHANGED <<data, acks>>
    BY DEF disconnect, DisconnecterPacket, DisconnecterConnection, Idle,
           Disconnecter, Handles
<1>2. /\ NoAction \in ExpectedActions \cup {NoAction}
      /\ SendPacket(DisconnectPacket) \in ExpectedActions
      /\ DisconnectAction \in ExpectedActions
    BY DEF ExpectedActions, SendPacket, DisconnectPacket, OutgoingPackets, DisconnectAction
<1>3. CASE disconnect \/ DisconnecterPacket
  <2>1. /\ UNCHANGED <<connection_state, client_pis>>
        /\ panic' = NotPanicked
        /\ action' \in ExpectedActions \cup {NoAction}
      BY <1>2, <1>3 DEF disconnect, DisconnecterPacket, Returns
  <2>2. TypeOK'
      BY <1>1, <2>1 DEF Inv, TypeOK, data
  <2>3. NoStaleUsage' /\ InUse' = InUse /\ InUseForPublish' = InUseForPublish
      BY <2>1 DEF Inv, NoStaleUsage, InUse, InUseForPublish
  <2> QED BY <1>1, <2>1, <2>2, <2>3
          DEF Inv, NonPublishSlotsNeedConnection, PublisherOwnsIdentifier, IsConnected
<1>4. CASE DisconnecterConnection
  <2>1. reset_connection /\ Returns(DisconnectAction)
      BY <1>4 DEF DisconnecterConnection
  <2>2. StoreOK' /\ connection_state' \in ConnectionStates
      BY <2>1, ResetConnection DEF Inv, TypeOK, StoreOK
  <2>3. TypeOK'
      BY <1>1, <1>2, <2>1, <2>2 DEF Inv, TypeOK, StoreOK, data, Returns
  <2> QED BY <1>1, <2>1, <2>3, ResetFrame
<1> QED BY <1>3, <1>4

\* Running a borrower that is done, and dropping one, keep it.
LEMMA HandleEndInv == Inv /\ (HandleDone \/ DropHandle) => Inv'
<1> SUFFICES ASSUME Inv, HandleDone \/ DropHandle PROVE Inv'
    OBVIOUS
<1>1. /\ UNCHANGED <<data, connection_state, client_pis, acks>>
      /\ panic = NotPanicked /\ Returns(NoAction)
      /\ handle' = handle \/ handle' = NoHandle
    BY DEF HandleDone, DropHandle
<1>2. TypeOK'
    BY <1>1 DEF Inv, TypeOK, data, Returns, Handles
<1>3. NoStaleUsage' /\ InUse' = InUse /\ InUseForPublish' = InUseForPublish
    BY <1>1 DEF Inv, NoStaleUsage, InUse, InUseForPublish
<1> QED BY <1>1, <1>2, <1>3
        DEF Inv, NonPublishSlotsNeedConnection, PublisherOwnsIdentifier, NoHandle, IsConnected

\* connection_lost keeps it.
LEMMA ConnectionLostInv ==
    ASSUME Inv, NEW t \in Instants, connection_lost(t)
    PROVE  Inv'
<1>1. reset_connection /\ StoreOK /\ handle = NoHandle /\ UNCHANGED handle
    BY DEF connection_lost, Inv, TypeOK, StoreOK, Idle
<1>2. StoreOK' /\ connection_state' \in ConnectionStates
    BY <1>1, ResetConnection
<1>3. TypeOK'
    BY <1>2 DEF connection_lost, Inv, TypeOK, StoreOK, Returns
<1> QED BY <1>1, <1>3, ResetFrame DEF NoHandle

\* run keeps it.
LEMMA RunInv ==
    ASSUME Inv, NEW t \in Instants, run(t)
    PROVE  Inv'
<1>1. SendPacket(PingreqPacket) \in ExpectedActions
    BY DEF ExpectedActions, SendPacket, PingreqPacket, OutgoingPackets
<1>2. connection_state' \in ConnectionStates /\ (IsConnected' <=> IsConnected)
    BY NewConnectionStates DEF run, PingDue, PingStates, IsConnected, Inv, TypeOK
<1>3. TypeOK'
    BY <1>1, <1>2 DEF run, Inv, TypeOK, Returns
<1> QED BY <1>2, <1>3, Frame DEF run, Idle

\* Dropping an AcknowledgeAction keeps it.
LEMMA DropAcknowledgeActionInv ==
    ASSUME Inv, NEW id \in ServerIdentifiers, DropAcknowledgeAction(id)
    PROVE  Inv'
<1>1. acks' \in [ServerIdentifiers -> 0 .. MaxAcks]
    BY InstantsAssumption DEF Inv, TypeOK, DropAcknowledgeAction
<1>2. TypeOK'
    BY <1>1 DEF DropAcknowledgeAction, Inv, TypeOK, data, Returns
<1> QED BY <1>2, Frame DEF DropAcknowledgeAction, IsConnected

-----------------------------------------------------------------------------
\* A packet that arrives outside a connection, and a Connack, keep it.
LEMMA ConsumeUnconnectedInv ==
    ASSUME Inv, NEW t \in Instants, NEW packet \in IncomingPackets,
           consume(t, packet), ~IsConnected
    PROVE  Inv'
<1>0. /\ connection_state \in ConnectionStates
      /\ panic = NotPanicked /\ UNCHANGED handle
    BY DEF Inv, TypeOK, consume, Idle
<1>1. CASE IsDisconnected
  <2>1. /\ UNCHANGED <<keep_alive, client_id_hash, connection_state, client_pis, acks>>
        /\ last_time_run' = t /\ Returns(NoAction)
      BY <1>1 DEF consume, IsConnecting, IsConnected, IsDisconnected
  <2>2. TypeOK'
      BY <1>0, <2>1 DEF Inv, TypeOK, Returns
  <2> QED BY <1>0, <2>1, <2>2, Frame DEF IsConnected
<1>2. CASE IsConnecting
  <2>0. ConsumeConnecting(t, packet)
      BY <1>2 DEF consume, IsConnecting, IsConnected, IsDisconnected
  <2>1. CASE ~(packet.type = "Connack" /\ packet.reason_code = "Success")
    <3>1. UNCHANGED <<data, connection_state, client_pis, acks>> /\ Panics("consume")
        BY <2>0, <2>1 DEF ConsumeConnecting
    <3>2. TypeOK'
        BY <1>0, <3>1 DEF Inv, TypeOK, data, Panics, PanicSites
    <3> QED BY <1>0, <3>1, <3>2, Frame DEF Panics, NotPanicked
  <2>2. CASE packet.type = "Connack" /\ packet.reason_code = "Success"
    <3>1. /\ packet.server_keep_alive \in KeepAlives \cup {None}
          /\ packet.assigned_client_identifier \in ClientIdentifiers \cup {None}
        BY <2>2 DEF IncomingPackets, Connacks, IncomingPublishes
    <3>2. \A id \in ClientIdentifiers : SaveClientIdentifier(id) \in ExpectedActions
        BY DEF ExpectedActions, SaveClientIdentifier
    <3>3. /\ keep_alive' \in KeepAlives \cup {0}
          /\ client_id_hash' \in Nat \cup {None}
          /\ action' \in ExpectedActions \cup {NoAction}
          /\ panic' = NotPanicked /\ last_time_run' = t
          /\ UNCHANGED <<client_pis, acks>>
        BY <2>0, <2>2, <3>1, <3>2, IdentifiersAssumption
           DEF ConsumeConnecting, Returns, Inv, TypeOK
    <3>4. connection_state' \in ConnectionStates /\ IsConnected'
        BY <1>0, <1>2, <2>0, <2>2, ConnectionStateShape, NewConnectionStates
           DEF ConsumeConnecting, PingStates, IsConnected
    <3>5. TypeOK'
        BY <1>0, <3>3, <3>4 DEF Inv, TypeOK
    <3> QED BY <1>0, <3>3, <3>4, <3>5, Frame
  <2> QED BY <2>1, <2>2
<1> QED BY <1>0, <1>1, <1>2, ConnectionStateShape

\* A packet that arrives on a connection keeps it.
LEMMA ConsumeConnectedInv ==
    ASSUME Inv, NEW t \in Instants, NEW packet \in IncomingPackets,
           consume(t, packet), IsConnected
    PROVE  Inv'
<1>0. /\ connection_state \in ConnectionStates
      /\ panic = NotPanicked /\ UNCHANGED handle /\ handle = NoHandle
      /\ StoreOK
    BY DEF Inv, TypeOK, consume, Idle, StoreOK
<1>1. ConsumeConnected(t, packet)
    BY DEF consume, IsConnecting, IsConnected, IsDisconnected
<1>2. CASE ConsumePublish(t, packet)
  <2>1. packet \in IncomingPublishes
      BY <1>2 DEF ConsumePublish, IncomingPackets, Connacks
  <2>2. /\ NoFurtherAction(packet) \in ExpectedActions
        /\ AcknowledgeNeeded(packet) \in ExpectedActions
      BY <2>1 DEF ExpectedActions, NoFurtherAction, AcknowledgeNeeded
  <2>3. acks' \in [ServerIdentifiers -> 0 .. MaxAcks]
      BY <1>2, <2>1, InstantsAssumption DEF ConsumePublish, Inv, TypeOK, IncomingPublishes
  <2>4. TypeOK'
      BY <1>0, <1>2, <2>2, <2>3
         DEF ConsumePublish, Inv, TypeOK, Returns, Panics, PanicSites
  <2> QED BY <1>0, <1>2, <2>4, Frame DEF ConsumePublish, IsConnected
<1>3. CASE ConsumeAck(t, packet)
  <2>1. /\ packet.packet_identifier \in PacketIdentifiers
        /\ ReleasePacket(packet.packet_identifier) \in ExpectedActions
      BY <1>3 DEF ConsumeAck, IncomingPackets, Connacks, IncomingPublishes,
                  ExpectedActions, ReleasePacket
  <2>2. StoreOK'
      BY <1>0, <1>3, <2>1, ReleaseFrees DEF ConsumeAck, StoreOK, NoStaleUsage
  <2>3. TypeOK'
      BY <1>0, <1>3, <2>1, <2>2
         DEF ConsumeAck, Inv, TypeOK, StoreOK, Returns, Panics, PanicSites
  <2> QED BY <1>0, <1>3, <2>2, <2>3
          DEF ConsumeAck, Inv, StoreOK, NonPublishSlotsNeedConnection,
              PublisherOwnsIdentifier, NoHandle, IsConnected
<1>4. CASE ConsumePingresp(t, packet)
  <2>1. connection_state' \in ConnectionStates /\ IsConnected'
      BY <1>0, <1>4, ConnectionStateShape, NewConnectionStates
         DEF ConsumePingresp, PingStates, IsConnected
  <2>2. TypeOK'
      BY <1>0, <1>4, <2>1
         DEF ConsumePingresp, Inv, TypeOK, Returns, Panics, PanicSites
  <2> QED BY <1>0, <1>4, <2>1, <2>2, Frame DEF ConsumePingresp
<1>5. CASE ConsumeDisconnect(t, packet)
  <2>1. reset_connection /\ DisconnectAction \in ExpectedActions
      BY <1>5 DEF ConsumeDisconnect, ExpectedActions, DisconnectAction
  <2>2. StoreOK' /\ connection_state' \in ConnectionStates
      BY <1>0, <2>1, ResetConnection
  <2>3. TypeOK'
      BY <1>0, <1>5, <2>1, <2>2 DEF ConsumeDisconnect, Inv, TypeOK, StoreOK, Returns
  <2> QED BY <1>0, <2>1, <2>3, ResetFrame DEF NoHandle
<1>6. CASE Panics("consume") /\ UNCHANGED <<data, connection_state, client_pis, acks>>
  <2>1. TypeOK'
      BY <1>0, <1>6 DEF Inv, TypeOK, data, Panics, PanicSites
  <2> QED BY <1>0, <1>6, <2>1, Frame DEF Panics, NotPanicked
<1> QED BY <1>1, <1>2, <1>3, <1>4, <1>5, <1>6 DEF ConsumeConnected

\* No method call, whatever its arguments, falsifies the invariant.
LEMMA InvStep == Inv /\ [Next]_vars => Inv'
<1> SUFFICES ASSUME Inv, [Next]_vars PROVE Inv'
    OBVIOUS
<1>1. CASE UNCHANGED vars
    BY <1>1, Frame DEF vars, data, Inv, TypeOK, IsConnected
<1>2. CASE \E t \in Instants, packet \in IncomingPackets : consume(t, packet)
    BY <1>2, ConsumeUnconnectedInv, ConsumeConnectedInv
<1>3. CASE \E t \in Instants, connect \in ConnectPackets : handle_connect(t, connect)
    BY <1>3, HandleConnectInv
<1>4. CASE \E packet \in NewPublishes : publish(packet)
    BY <1>4, PublishInv
<1>5. CASE PublisherStore
    BY <1>5, PublisherStoreInv
<1>6. CASE \E t \in Instants : PublisherSend(t)
    BY <1>6, PublisherSendInv
<1>7. CASE \E t \in Instants : subscribe(t)
    BY <1>7, SubscribeInv
<1>8. CASE \E t \in Instants, id \in ServerIdentifiers : acknowledge(t, id)
    BY <1>8, AcknowledgeInv
<1>9. CASE disconnect \/ DisconnecterPacket \/ DisconnecterConnection
    BY <1>9, DisconnectInv
<1>10. CASE HandleDone \/ DropHandle
    BY <1>10, HandleEndInv
<1>11. CASE \E t \in Instants : connection_lost(t)
    BY <1>11, ConnectionLostInv
<1>12. CASE \E t \in Instants : run(t)
    BY <1>12, RunInv
<1>13. CASE \E id \in ServerIdentifiers : DropAcknowledgeAction(id)
    BY <1>13, DropAcknowledgeActionInv
<1> QED BY <1>1, <1>2, <1>3, <1>4, <1>5, <1>6, <1>7, <1>8, <1>9, <1>10,
           <1>11, <1>12, <1>13 DEF Next

\* The machine's fields, results and borrowers always have their types: in
\* particular no call returns an action with an identifier out of range.
THEOREM TypeCorrect == Spec => []TypeOK
<1>1. Inv => TypeOK
    BY DEF Inv
<1> QED BY InvInit, InvStep, <1>1, PTL DEF Spec

\* No usage bit of the store outlives its slot, whatever the machine does.
THEOREM MachineHasNoStaleUsage == Spec => []NoStaleUsage
<1>1. Inv => NoStaleUsage
    BY DEF Inv
<1> QED BY InvInit, InvStep, <1>1, PTL DEF Spec

\* Outside a connection a machine that has not panicked holds identifiers
\* only for publishes: reset_connection is called wherever it has to be.
THEOREM NonPublishSlotsAreReturned == Spec => []NonPublishSlotsNeedConnection
<1>1. Inv => NonPublishSlotsNeedConnection
    BY DEF Inv
<1> QED BY InvInit, InvStep, <1>1, PTL DEF Spec

\* The identifier a publisher is about to send stays its own.
THEOREM PublisherKeepsIdentifier == Spec => []PublisherOwnsIdentifier
<1>1. Inv => PublisherOwnsIdentifier
    BY DEF Inv
<1> QED BY InvInit, InvStep, <1>1, PTL DEF Spec

-----------------------------------------------------------------------------
\* Only handle_connect and a Connack touch the identity.
LEMMA IdentityStep ==
    ASSUME Inv, Next
    PROVE  client_id_hash' # client_id_hash =>
              \/ client_id_hash = None
              \/ \E id \in ClientIdentifiers :
                    /\ client_id_hash' = FxHash[id]
                    /\ action' = SaveClientIdentifier(id)
<1> SUFFICES ASSUME client_id_hash' # client_id_hash, client_id_hash # None
             PROVE  \E id \in ClientIdentifiers :
                       /\ client_id_hash' = FxHash[id]
                       /\ action' = SaveClientIdentifier(id)
    OBVIOUS
<1>1. ASSUME NEW t \in Instants, NEW connect \in ConnectPackets, handle_connect(t, connect)
      PROVE  FALSE
    BY <1>1 DEF handle_connect, SameIdentity
<1>2. ASSUME NEW t \in Instants, NEW packet \in IncomingPackets, consume(t, packet)
      PROVE  \E id \in ClientIdentifiers :
                /\ client_id_hash' = FxHash[id]
                /\ action' = SaveClientIdentifier(id)
  <2>1. ~IsConnected \/ UNCHANGED client_id_hash
      BY <1>2
         DEF consume, IsConnected, IsConnecting, IsDisconnected, ConsumeConnected,
             ConsumePublish, ConsumeAck, ConsumePingresp, ConsumeDisconnect, data
  <2>2. ConsumeConnecting(t, packet)
      BY <1>2, <2>1 DEF consume
  <2>3. /\ packet.type = "Connack"
        /\ packet.assigned_client_identifier # None
        /\ client_id_hash' = FxHash[packet.assigned_client_identifier]
        /\ action' = SaveClientIdentifier(packet.assigned_client_identifier)
      BY <2>2 DEF ConsumeConnecting, Returns, data
  <2>4. packet.assigned_client_identifier \in ClientIdentifiers
      BY <2>3 DEF IncomingPackets, Connacks, IncomingPublishes
  <2> QED BY <2>3, <2>4
<1>3. CASE \/ \E packet \in NewPublishes : publish(packet)
           \/ PublisherStore
           \/ \E t \in Instants : PublisherSend(t)
           \/ \E t \in Instants : subscribe(t)
           \/ \E t \in Instants, id \in ServerIdentifiers : acknowledge(t, id)
    BY <1>3 DEF publish, PublisherStore, PublisherSend, subscribe, acknowledge, data
<1>4. CASE \/ disconnect \/ DisconnecterPacket \/ DisconnecterConnection
           \/ HandleDone \/ DropHandle
           \/ \E t \in Instants : connection_lost(t)
           \/ \E t \in Instants : run(t)
           \/ \E id \in ServerIdentifiers : DropAcknowledgeAction(id)
    BY <1>4 DEF disconnect, DisconnecterPacket, DisconnecterConnection, HandleDone,
                DropHandle, connection_lost, run, DropAcknowledgeAction, data
<1> QED BY <1>1, <1>2, <1>3, <1>4 DEF Next

\* The machine's identity changes only when the server assigns one, and then
\* the caller is told to save it.
THEOREM IdentityStable == Spec => IdentityIsStable
<1>1. Inv /\ [Next]_vars =>
         [client_id_hash' # client_id_hash =>
             \/ client_id_hash = None
             \/ \E id \in ClientIdentifiers :
                   /\ client_id_hash' = FxHash[id]
                   /\ action' = SaveClientIdentifier(id)]_vars
    BY IdentityStep
<1> QED BY InvInit, InvStep, <1>1, PTL DEF Spec, IdentityIsStable

-----------------------------------------------------------------------------
\* Everything that is not a StorePacket or a SUBSCRIBE announces nothing.
LEMMA OtherActions ==
    ASSUME NEW id \in PacketIdentifiers
    PROVE  /\ ~Announces(NoAction, id)
           /\ ~Announces(DisconnectAction, id)
           /\ \A i : ~Announces(ReleasePacket(i), id)
           /\ \A i : ~Announces(SaveClientIdentifier(i), id)
           /\ \A p : ~Announces(NoFurtherAction(p), id)
           /\ \A p : ~Announces(AcknowledgeNeeded(p), id)
           /\ \A p : p.type # "Subscribe" => ~Announces(SendPacket(p), id)
<1>1. /\ ~Announces(NoAction, id)
      /\ ~Announces(DisconnectAction, id)
    BY DEF Announces, NoAction, DisconnectAction, StorePacket, SendPacket
<1>2. /\ \A i : ~Announces(ReleasePacket(i), id)
      /\ \A i : ~Announces(SaveClientIdentifier(i), id)
    BY DEF Announces, ReleasePacket, SaveClientIdentifier, StorePacket, SendPacket
<1>3. /\ \A p : ~Announces(NoFurtherAction(p), id)
      /\ \A p : ~Announces(AcknowledgeNeeded(p), id)
    BY DEF Announces, NoFurtherAction, AcknowledgeNeeded, StorePacket, SendPacket
<1>4. ASSUME NEW p, p.type # "Subscribe"
      PROVE  ~Announces(SendPacket(p), id)
  <2>1. SendPacket(p).do = "SendPacket" /\ SendPacket(p).packet = p
      BY DEF SendPacket
  <2>2. StorePacket(id).do = "StorePacket"
      BY DEF StorePacket
  <2>3. /\ SendPacket(SubscribePacket(id)).packet = SubscribePacket(id)
        /\ SubscribePacket(id).type = "Subscribe"
      BY DEF SendPacket, SubscribePacket
  <2> QED BY <1>4, <2>1, <2>2, <2>3 DEF Announces
<1> QED BY <1>1, <1>2, <1>3, <1>4

\* publish allocates: StorePacket carries the identifier, and no other.
LEMMA PublisherStoreAnnounces ==
    ASSUME Inv, PublisherStore, NEW id \in PacketIdentifiers
    PROVE  /\ id \in InUse' \ InUse => Announces(action', id) \/ panic' # NotPanicked
           /\ Announces(action', id) => id \in InUse' \ InUse
<1> PICK n \in PacketIdentifiers \cup {None} :
        /\ GetNextFree("Publish", n)
        /\ \/ n = None /\ Panics("publish")
           \/ n # None /\ Returns(StorePacket(n))
    BY DEF PublisherStore
<1>0. StoreOK /\ "Publish" \in PacketIdentifierUsage
    BY DEF Inv, TypeOK, StoreOK, PacketIdentifierUsage
<1>1. CASE n = None
  <2>1. UNCHANGED client_pis /\ action' = NoAction
      BY <1>0, <1>1, GetNextFreeNone DEF Panics
  <2> QED BY <2>1, OtherActions DEF InUse
<1>2. CASE n \in PacketIdentifiers /\ n # None
  <2>1. n \notin InUse /\ InUse' = InUse \cup {n} /\ action' = StorePacket(n)
      BY <1>0, <1>2, GetNextFreeSome DEF Returns
  <2>2. Announces(action', id) <=> id = n
    <3>1. /\ StorePacket(n).do = "StorePacket" /\ StorePacket(n).id = n
          /\ StorePacket(id).id = id /\ SendPacket(SubscribePacket(id)).do = "SendPacket"
        BY DEF StorePacket, SendPacket
    <3> QED BY <2>1, <3>1 DEF Announces
  <2> QED BY <2>1, <2>2
<1> QED BY <1>1, <1>2

\* subscribe allocates: the SUBSCRIBE carries the identifier, and no other.
LEMMA SubscribeAnnounces ==
    ASSUME Inv, NEW t \in Instants, subscribe(t), NEW id \in PacketIdentifiers
    PROVE  /\ id \in InUse' \ InUse => Announces(action', id) \/ panic' # NotPanicked
           /\ Announces(action', id) => id \in InUse' \ InUse
<1> PICK n \in PacketIdentifiers \cup {None} :
        /\ GetNextFree("NonPublish", n)
        /\ \/ n = None /\ Panics("subscribe")
           \/ /\ n # None
              /\ inner_run_PublishPacket(t, SubscribePacket(n), "subscribe", TRUE)
    BY DEF subscribe
<1>0. StoreOK /\ TypeOK /\ "NonPublish" \in PacketIdentifierUsage
    BY DEF Inv, TypeOK, StoreOK, PacketIdentifierUsage
<1>1. CASE n = None
  <2>1. UNCHANGED client_pis /\ action' = NoAction
      BY <1>0, <1>1, GetNextFreeNone DEF Panics
  <2> QED BY <2>1, OtherActions DEF InUse
<1>2. CASE n \in PacketIdentifiers /\ n # None
  <2>1. n \notin InUse /\ InUse' = InUse \cup {n}
      BY <1>0, <1>2, GetNextFreeSome
  <2>2. SubscribePacket(n) \in OutgoingPackets
      BY <1>2 DEF OutgoingPackets, SubscribePacket
  <2>3. /\ panic' = NotPanicked => action' = SendPacket(SubscribePacket(n))
        /\ action' # NoAction => action' = SendPacket(SubscribePacket(n))
      BY <1>0, <1>2, <2>2, SendKeepsTypes DEF PanicSites
  <2>4. Announces(SendPacket(SubscribePacket(n)), id) <=> id = n
    <3>1. /\ SendPacket(SubscribePacket(n)).do = "SendPacket"
          /\ SendPacket(SubscribePacket(n)).packet.packet_identifier = n
          /\ SendPacket(SubscribePacket(id)).packet.packet_identifier = id
          /\ StorePacket(id).do = "StorePacket"
        BY DEF StorePacket, SendPacket, SubscribePacket
    <3> QED BY <3>1 DEF Announces
  <2> QED BY <2>1, <2>3, <2>4, OtherActions
<1> QED BY <1>1, <1>2

\* No other call allocates or announces an identifier.
LEMMA NothingElseAnnounces ==
    ASSUME Inv, Next, ~PublisherStore, \A t \in Instants : ~subscribe(t),
           NEW id \in PacketIdentifiers
    PROVE  InUse' \subseteq InUse /\ ~Announces(action', id)
<1>0. StoreOK /\ TypeOK /\ InUseForPublish \subseteq InUse
    BY InUseInRange DEF Inv, TypeOK, StoreOK
<1>1. UNCHANGED client_pis => InUse' = InUse
    BY DEF InUse
<1>2. reset_connection => InUse' \subseteq InUse
    BY <1>0, ResetConnection
<1>3. ASSUME NEW t \in Instants, NEW connect \in ConnectPackets, handle_connect(t, connect)
      PROVE  InUse' \subseteq InUse /\ ~Announces(action', id)
  <2>1. connect.type # "Subscribe"
      BY DEF ConnectPackets
  <2> QED BY <1>1, <1>3, <2>1, OtherActions DEF handle_connect, Returns, Panics
<1>4. ASSUME NEW t \in Instants, NEW packet \in IncomingPackets, consume(t, packet)
      PROVE  InUse' \subseteq InUse /\ ~Announces(action', id)
  <2>1. CASE ConsumeAck(t, packet)
    <3>1. packet.packet_identifier \in PacketIdentifiers
        BY <2>1 DEF ConsumeAck, IncomingPackets, Connacks, IncomingPublishes
    <3> QED BY <1>0, <1>1, <2>1, <3>1, ReleaseFrees, OtherActions
            DEF ConsumeAck, Returns, Panics
  <2>2. CASE ConsumeConnecting(t, packet)
      BY <1>1, <2>2, OtherActions DEF ConsumeConnecting, Returns, Panics
  <2>3. CASE ConsumePublish(t, packet)
      BY <1>1, <2>3, OtherActions DEF ConsumePublish, Returns, Panics
  <2>4. CASE ConsumePingresp(t, packet) \/ ConsumeDisconnect(t, packet)
      BY <1>1, <1>2, <2>4, OtherActions
         DEF ConsumePingresp, ConsumeDisconnect, Returns, Panics
  <2>5. CASE (Returns(NoAction) \/ Panics("consume")) /\ UNCHANGED client_pis
      BY <1>1, <2>5, OtherActions DEF Returns, Panics
  <2> QED BY <1>4, <2>1, <2>2, <2>3, <2>4, <2>5 DEF consume, ConsumeConnected
<1>5. ASSUME NEW t \in Instants, PublisherSend(t)
      PROVE  InUse' \subseteq InUse /\ ~Announces(action', id)
  <2>1. handle.packet \in OutgoingPackets /\ handle.packet.type # "Subscribe"
      BY <1>0, <1>5, PublisherPacket
         DEF TypeOK, PublisherSend, Handles, NoHandle, NewPublishes
  <2>2. action' # NoAction => action' = SendPacket(handle.packet)
      BY <1>0, <1>5, <2>1, SendKeepsTypes DEF PublisherSend, PanicSites
  <2> QED BY <1>1, <1>5, <2>1, <2>2, OtherActions DEF PublisherSend
<1>6. ASSUME NEW t \in Instants, NEW i \in ServerIdentifiers, acknowledge(t, i)
      PROVE  InUse' \subseteq InUse /\ ~Announces(action', id)
  <2>1. PubackPacket(i) \in OutgoingPackets /\ PubackPacket(i).type # "Subscribe"
      BY DEF OutgoingPackets, PubackPacket
  <2>2. action' # NoAction => action' = SendPacket(PubackPacket(i))
      BY <1>0, <1>6, <2>1, SendKeepsTypes DEF acknowledge, PanicSites
  <2> QED BY <1>1, <1>6, <2>1, <2>2, OtherActions DEF acknowledge
<1>7. CASE \/ \E packet \in NewPublishes : publish(packet)
           \/ disconnect \/ HandleDone \/ DropHandle
           \/ \E i \in ServerIdentifiers : DropAcknowledgeAction(i)
    BY <1>1, <1>7, OtherActions
       DEF publish, disconnect, HandleDone, DropHandle, DropAcknowledgeAction, Returns
<1>8. CASE DisconnecterPacket \/ \E t \in Instants : run(t)
  <2>1. PingreqPacket.type # "Subscribe" /\ DisconnectPacket.type # "Subscribe"
      BY DEF PingreqPacket, DisconnectPacket
  <2> QED BY <1>1, <1>8, <2>1, OtherActions DEF DisconnecterPacket, run, Returns
<1>9. CASE DisconnecterConnection \/ \E t \in Instants : connection_lost(t)
    BY <1>2, <1>9, OtherActions DEF DisconnecterConnection, connection_lost, Returns
<1> QED BY <1>3, <1>4, <1>5, <1>6, <1>7, <1>8, <1>9 DEF Next

\* Identifiers are handed to the caller in the step that allocates them, and
\* an identifier that is in use is never handed out again.
THEOREM FreshIdentifiers == Spec => FreshIdentifiersAreAnnounced
<1>1. Inv /\ [Next]_vars =>
         [\A id \in PacketIdentifiers :
             /\ id \in InUse' \ InUse => Announces(action', id) \/ panic' # NotPanicked
             /\ Announces(action', id) => id \in InUse' \ InUse]_vars
  <2> SUFFICES ASSUME Inv, Next, NEW id \in PacketIdentifiers
               PROVE  /\ id \in InUse' \ InUse =>
                            Announces(action', id) \/ panic' # NotPanicked
                      /\ Announces(action', id) => id \in InUse' \ InUse
      OBVIOUS
  <2>1. CASE PublisherStore
      BY <2>1, PublisherStoreAnnounces
  <2>2. CASE \E t \in Instants : subscribe(t)
      BY <2>2, SubscribeAnnounces
  <2>3. CASE ~PublisherStore /\ \A t \in Instants : ~subscribe(t)
      BY <2>3, NothingElseAnnounces
  <2> QED BY <2>1, <2>2, <2>3
<1> QED BY InvInit, InvStep, <1>1, PTL DEF Spec, FreshIdentifiersAreAnnounced
=============================================================================
