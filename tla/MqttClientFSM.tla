--------------------------- MODULE MqttClientFSM ---------------------------
(***************************************************************************)
(* The sans-IO state machine MqttClientFSM of cloudmqtt-core, driven by    *)
(* any caller (any sequence of method calls with any times) and receiving  *)
(* any packets.  Every action is one method call from outside; `action` is *)
(* the ExpectedAction that call returned (NoAction for Option::None and    *)
(* for calls that return nothing).                                         *)
(*                                                                         *)
(* publish and disconnect return an object that borrows the machine        *)
(* mutably until it is dropped: `handle` is that object, and no other      *)
(* method can be called while there is one.  A panic (assert!, unwrap,     *)
(* expect, todo!, panic!) leaves the fields as they are at that point and  *)
(* ends the behaviour; `panic` names the method.                           *)
(***************************************************************************)
EXTENDS UsizePacketIdentifierStore

CONSTANTS Instants,          \* the MqttInstants a caller passes
          KeepAlives,        \* u16, in seconds
          ClientIdentifiers, \* the non-empty client identifiers
          EmptyIdentifier,   \* ""
          FxHash,            \* the hash of each non-empty client identifier
          ServerIdentifiers, \* the identifiers of publishes of the server
          Messages,          \* topic, payload and properties of a publish
          MaxAcks            \* bound: unused AcknowledgeActions per identifier

ASSUME InstantsAssumption ==
    /\ Instants \subseteq Nat
    /\ KeepAlives \subseteq Nat
    /\ MaxAcks \in Nat

\* A hash is a u64, which Option::None is not.
ASSUME IdentifiersAssumption ==
    /\ FxHash \in [ClientIdentifiers -> Nat]
    /\ EmptyIdentifier \notin ClientIdentifiers
    /\ None \notin ClientIdentifiers \cup {EmptyIdentifier}

VARIABLES keep_alive,       \* data.keep_alive
          client_id_hash,   \* data.client_id_hash
          last_time_run,    \* data.last_time_run
          connection_state,
          handle,           \* the object that borrows the machine
          action,           \* what the last call returned
          acks,             \* the AcknowledgeActions the caller still has
          panic

data == <<keep_alive, client_id_hash, last_time_run>>
vars == <<data, connection_state, client_pis, handle, action, acks, panic>>

-----------------------------------------------------------------------------
QualityOfService == {"AtMostOnce", "AtLeastOnce", "ExactlyOnce"}

\* The packets the machine sends.
ConnectPacket(id, ka) ==
    [type |-> "Connect", client_identifier |-> id, keep_alive |-> ka]
PublishPacket(qos, id, m) ==
    [type |-> "Publish", quality_of_service |-> qos,
     packet_identifier |-> id, message |-> m]
SubscribePacket(id) == [type |-> "Subscribe", packet_identifier |-> id]
PubackPacket(id)    == [type |-> "Puback", packet_identifier |-> id]
PingreqPacket       == [type |-> "Pingreq"]
DisconnectPacket    == [type |-> "Disconnect"]

ConnectPackets ==
    [type : {"Connect"}, keep_alive : KeepAlives,
     client_identifier : ClientIdentifiers \cup {EmptyIdentifier}]

\* What publish is called with: it has no identifier yet.
NewPublishes ==
    [type : {"Publish"}, quality_of_service : QualityOfService,
     packet_identifier : {None}, message : Messages]

\* The packets that may arrive.  The ones the machine does not know in any
\* state (Pubrec, Pubrel, Pubcomp, Unsuback, Auth and those only a client
\* sends) are one: "Other".
Connacks ==
    [type : {"Connack"}, reason_code : {"Success", "Failure"},
     server_keep_alive : KeepAlives \cup {None},
     assigned_client_identifier : ClientIdentifiers \cup {None}]
IncomingPublishes ==
    [type : {"Publish"}, quality_of_service : QualityOfService,
     packet_identifier : ServerIdentifiers \cup {None}, message : Messages]
IncomingPackets ==
    Connacks \cup IncomingPublishes
    \cup [type : {"Puback", "Suback"}, packet_identifier : PacketIdentifiers]
    \cup [type : {"Pingresp", "Disconnect", "Other"}]

OutgoingPackets ==
    ConnectPackets
    \cup [type : {"Publish"}, quality_of_service : QualityOfService,
          packet_identifier : PacketIdentifiers \cup {None}, message : Messages]
    \cup [type : {"Subscribe"}, packet_identifier : PacketIdentifiers]
    \cup [type : {"Puback"}, packet_identifier : ServerIdentifiers]
    \cup [type : {"Pingreq", "Disconnect"}]

\* Option<ExpectedAction>; NoAction stands for None and for ().
NoAction                 == [do |-> "None"]
SendPacket(packet)       == [do |-> "SendPacket", packet |-> packet]
SaveClientIdentifier(id) == [do |-> "SaveClientIdentifier", client_identifier |-> id]
StorePacket(id)          == [do |-> "StorePacket", id |-> id]
ReleasePacket(id)        == [do |-> "ReleasePacket", id |-> id]
NoFurtherAction(packet)  == [do |-> "NoFurtherAction", packet |-> packet]
AcknowledgeNeeded(packet) == [do |-> "AcknowledgeNeeded", packet |-> packet]
DisconnectAction         == [do |-> "Disconnect"]

ExpectedActions ==
    [do : {"SendPacket"}, packet : OutgoingPackets]
    \cup [do : {"SaveClientIdentifier"}, client_identifier : ClientIdentifiers]
    \cup [do : {"StorePacket", "ReleasePacket"}, id : PacketIdentifiers]
    \cup [do : {"NoFurtherAction", "AcknowledgeNeeded"}, packet : IncomingPublishes]
    \cup [do : {"Disconnect"}]

\* ConnectionState.  The instant of PingState::WaitingForPingrespSince is
\* never read and left out.
Disconnected == [state |-> "Disconnected"]
ConnectingWithoutAuth(t) == [state |-> "ConnectingWithoutAuth", connect_sent |-> t]
Connected(t, ping) ==
    [state |-> "Connected", last_time_sent |-> t, ping_state |-> ping]

PingStates == {"WaitingForElapsed", "WaitingForPingresp"}

ConnectionStates ==
    {Disconnected}
    \cup [state : {"ConnectingWithoutAuth"}, connect_sent : Instants]
    \cup [state : {"Connected"}, last_time_sent : Instants, ping_state : PingStates]

IsConnected == connection_state.state = "Connected"
IsConnecting == connection_state.state = "ConnectingWithoutAuth"
IsDisconnected == connection_state.state = "Disconnected"

\* The borrowing objects; the packet of a publisher is taken by its send.
NoHandle == [kind |-> "None"]
Publisher(state, packet) == [kind |-> "Publisher", state |-> state, packet |-> packet]
Disconnecter(state) == [kind |-> "Disconnecter", state |-> state]

Handles ==
    {NoHandle}
    \cup [kind : {"Publisher"}, state : {"Store"},
          packet : {p \in NewPublishes : p.quality_of_service # "AtMostOnce"}]
    \cup [kind : {"Publisher"}, state : {"Send"},
          packet : {p \in NewPublishes : p.quality_of_service = "AtMostOnce"}
                   \cup [type : {"Publish"}, packet_identifier : PacketIdentifiers,
                         quality_of_service : QualityOfService \ {"AtMostOnce"},
                         message : Messages]]
    \cup [kind : {"Publisher"}, state : {"Done"}, packet : {None}]
    \cup [kind : {"Disconnecter"},
          state : {"DisconnectPacket", "DisconnectConnection", "Done"}]

NotPanicked == "none"
PanicSites ==
    {"handle_connect", "consume", "publish", "subscribe", "acknowledge"}

-----------------------------------------------------------------------------
\* How a call ends.
Returns(a) == action' = a /\ panic' = NotPanicked
Panics(site) == action' = NoAction /\ panic' = site

\* &mut self is available.
Idle == panic = NotPanicked /\ handle = NoHandle

\* Mutant: the non-publish slots are kept.
ResetConnectionKeepsSlots ==
    connection_state' = Disconnected /\ UNCHANGED client_pis

reset_connection ==
    /\ ReleaseNonPublishSlots
    /\ connection_state' = Disconnected

elapsed_seconds(since, t) == IF t >= since THEN t - since ELSE since - t

-----------------------------------------------------------------------------
\* Mutant: a different identity is accepted.
AnyIdentity(hash) == TRUE

\* The two assertions on the identity: once known, it is presented again.
SameIdentity(hash) == client_id_hash # None => hash = client_id_hash

handle_connect(t, connect) ==
    LET hash == IF connect.client_identifier = EmptyIdentifier THEN None
                ELSE FxHash[connect.client_identifier]
    IN  /\ Idle
        /\ \/ /\ ~IsDisconnected
              /\ Panics("handle_connect")
              /\ UNCHANGED <<keep_alive, client_id_hash, connection_state>>
           \/ /\ IsDisconnected
              /\ ~SameIdentity(hash)
              /\ keep_alive' = connect.keep_alive
              /\ Panics("handle_connect")
              /\ UNCHANGED <<client_id_hash, connection_state>>
           \/ /\ IsDisconnected
              /\ SameIdentity(hash)
              /\ keep_alive' = connect.keep_alive
              /\ client_id_hash' = hash
              /\ connection_state' = ConnectingWithoutAuth(t)
              /\ Returns(SendPacket(connect))
        /\ UNCHANGED <<last_time_run, client_pis, handle, acks>>

-----------------------------------------------------------------------------
\* inner_run with ExternalInfos::PublishPacket: the machine is asked to send
\* packet.  `expects` says that the caller unwraps the result.
inner_run_PublishPacket(t, packet, site, expects) ==
    \/ /\ IsDisconnected
       /\ last_time_run' = t
       /\ IF expects THEN Panics(site) ELSE Returns(NoAction)
       /\ UNCHANGED connection_state
    \/ /\ IsConnecting
       /\ Panics(site)
       /\ UNCHANGED <<connection_state, last_time_run>>
    \/ /\ IsConnected
       /\ connection_state' = Connected(t, connection_state.ping_state)
       /\ last_time_run' = t
       /\ Returns(SendPacket(packet))

publish(packet) ==
    /\ Idle
    /\ handle' = Publisher(IF packet.quality_of_service = "AtMostOnce"
                           THEN "Send" ELSE "Store", packet)
    /\ Returns(NoAction)
    /\ UNCHANGED <<data, connection_state, client_pis, acks>>

\* Mutant: the identifier is taken as one of a subscription.
PublisherStoreAsNonPublish ==
    /\ panic = NotPanicked /\ handle.kind = "Publisher" /\ handle.state = "Store"
    /\ \E id \in PacketIdentifiers :
          /\ GetNextFree("NonPublish", id)
          /\ handle' = [handle EXCEPT !.state = "Send",
                                      !.packet.packet_identifier = id]
          /\ Returns(StorePacket(id))
    /\ UNCHANGED <<data, connection_state, acks>>

\* MqttClientPublisher::run, PublishingState::Store.
PublisherStore ==
    /\ panic = NotPanicked /\ handle.kind = "Publisher" /\ handle.state = "Store"
    /\ \E id \in PacketIdentifiers \cup {None} :
          /\ GetNextFree("Publish", id)
          /\ \/ id = None /\ Panics("publish") /\ UNCHANGED handle
             \/ /\ id # None
                /\ handle' = Publisher("Send", [handle.packet EXCEPT !.packet_identifier = id])
                /\ Returns(StorePacket(id))
    /\ UNCHANGED <<data, connection_state, acks>>

\* PublishingState::Send.
PublisherSend(t) ==
    /\ panic = NotPanicked /\ handle.kind = "Publisher" /\ handle.state = "Send"
    /\ handle' = Publisher("Done", None)
    /\ inner_run_PublishPacket(t, handle.packet, "publish", FALSE)
    /\ UNCHANGED <<keep_alive, client_id_hash, client_pis, acks>>

subscribe(t) ==
    /\ Idle
    /\ \E id \in PacketIdentifiers \cup {None} :
          /\ GetNextFree("NonPublish", id)
          /\ \/ /\ id = None
                /\ Panics("subscribe")
                /\ UNCHANGED <<last_time_run, connection_state>>
             \/ /\ id # None
                /\ inner_run_PublishPacket(t, SubscribePacket(id), "subscribe", TRUE)
    /\ UNCHANGED <<keep_alive, client_id_hash, handle, acks>>

\* The AcknowledgeAction is moved into the call.
acknowledge(t, id) ==
    /\ Idle
    /\ acks[id] > 0
    /\ acks' = [acks EXCEPT ![id] = @ - 1]
    /\ inner_run_PublishPacket(t, PubackPacket(id), "acknowledge", TRUE)
    /\ UNCHANGED <<keep_alive, client_id_hash, client_pis, handle>>

disconnect ==
    /\ Idle
    /\ handle' = Disconnecter("DisconnectPacket")
    /\ Returns(NoAction)
    /\ UNCHANGED <<data, connection_state, client_pis, acks>>

\* MqttClientDisconnecter::run, first and second call.
DisconnecterPacket ==
    /\ panic = NotPanicked /\ handle = Disconnecter("DisconnectPacket")
    /\ handle' = Disconnecter("DisconnectConnection")
    /\ Returns(SendPacket(DisconnectPacket))
    /\ UNCHANGED <<data, connection_state, client_pis, acks>>

DisconnecterConnection ==
    /\ panic = NotPanicked /\ handle = Disconnecter("DisconnectConnection")
    /\ handle' = Disconnecter("Done")
    /\ reset_connection
    /\ Returns(DisconnectAction)
    /\ UNCHANGED <<data, acks>>

\* run of a publisher or disconnecter that is done.
HandleDone ==
    /\ panic = NotPanicked /\ handle # NoHandle /\ handle.state = "Done"
    /\ Returns(NoAction)
    /\ UNCHANGED <<data, connection_state, client_pis, handle, acks>>

\* The borrow may end at any point, done or not.
DropHandle ==
    /\ panic = NotPanicked /\ handle # NoHandle
    /\ handle' = NoHandle
    /\ Returns(NoAction)
    /\ UNCHANGED <<data, connection_state, client_pis, acks>>

connection_lost(t) ==
    /\ Idle
    /\ last_time_run' = t
    /\ reset_connection
    /\ Returns(NoAction)
    /\ UNCHANGED <<keep_alive, client_id_hash, handle, acks>>

-----------------------------------------------------------------------------
\* handle_connecting_without_auth with ExternalInfos::ConsumePacket.
ConsumeConnecting(t, packet) ==
    \/ /\ packet.type = "Connack" /\ packet.reason_code = "Success"
       /\ keep_alive' = IF packet.server_keep_alive # None
                        THEN packet.server_keep_alive ELSE keep_alive
       /\ IF packet.assigned_client_identifier # None
          THEN /\ client_id_hash' = FxHash[packet.assigned_client_identifier]
               /\ Returns(SaveClientIdentifier(packet.assigned_client_identifier))
          ELSE UNCHANGED client_id_hash /\ Returns(NoAction)
       /\ connection_state' = Connected(connection_state.connect_sent, "WaitingForElapsed")
       /\ last_time_run' = t
       /\ UNCHANGED <<client_pis, acks>>
    \/ /\ ~(packet.type = "Connack" /\ packet.reason_code = "Success")
       /\ Panics("consume")
       /\ UNCHANGED <<data, connection_state, client_pis, acks>>

\* Mutant: a QoS 1 publish is received without the need of an acknowledgement.
ConsumePublishWithoutAck(t, packet) ==
    /\ packet.type = "Publish"
    /\ Returns(NoFurtherAction(packet))
    /\ last_time_run' = t
    /\ UNCHANGED <<keep_alive, client_id_hash, connection_state, client_pis, acks>>

\* Incoming publish; `todo!()` for ExactlyOnce, unwrap of the identifier.
ConsumePublish(t, packet) ==
    /\ packet.type = "Publish"
    /\ \/ /\ packet.quality_of_service = "AtMostOnce"
          /\ Returns(NoFurtherAction(packet))
          /\ last_time_run' = t
          /\ UNCHANGED acks
       \/ /\ packet.quality_of_service = "AtLeastOnce"
          /\ packet.packet_identifier # None
          /\ acks[packet.packet_identifier] < MaxAcks
          /\ acks' = [acks EXCEPT ![packet.packet_identifier] = @ + 1]
          /\ Returns(AcknowledgeNeeded(packet))
          /\ last_time_run' = t
       \/ /\ \/ packet.quality_of_service = "AtLeastOnce" /\ packet.packet_identifier = None
             \/ packet.quality_of_service = "ExactlyOnce"
          /\ Panics("consume")
          /\ UNCHANGED <<last_time_run, acks>>
    /\ UNCHANGED <<keep_alive, client_id_hash, connection_state, client_pis>>

\* Mutant: the caller is told to release the packet, the slot is kept.
ConsumeAckKeepsSlot(t, packet) ==
    /\ packet.type \in {"Puback", "Suback"}
    /\ Contains(packet.packet_identifier)
    /\ Returns(IF packet.type = "Puback"
               THEN ReleasePacket(packet.packet_identifier) ELSE NoAction)
    /\ last_time_run' = t
    /\ UNCHANGED <<keep_alive, client_id_hash, connection_state, client_pis, acks>>

\* The assertion that the identifier is in use, then its release.
ConsumeAck(t, packet) ==
    /\ packet.type \in {"Puback", "Suback"}
    /\ \/ /\ ~Contains(packet.packet_identifier)
          /\ Panics("consume")
          /\ UNCHANGED <<last_time_run, client_pis>>
       \/ /\ Contains(packet.packet_identifier)
          /\ Release(packet.packet_identifier)
          /\ Returns(IF packet.type = "Puback"
                     THEN ReleasePacket(packet.packet_identifier) ELSE NoAction)
          /\ last_time_run' = t
    /\ UNCHANGED <<keep_alive, client_id_hash, connection_state, acks>>

\* Mutant: the answer is accepted, the machine goes on waiting for it.
ConsumePingrespKeepsWaiting(t, packet) ==
    /\ packet.type = "Pingresp"
    /\ Returns(NoAction)
    /\ last_time_run' = t
    /\ UNCHANGED <<keep_alive, client_id_hash, connection_state, client_pis, acks>>

ConsumePingresp(t, packet) ==
    /\ packet.type = "Pingresp"
    /\ \/ /\ connection_state.ping_state = "WaitingForPingresp"
          /\ connection_state' = Connected(connection_state.last_time_sent, "WaitingForElapsed")
          /\ Returns(NoAction)
          /\ last_time_run' = t
       \/ /\ connection_state.ping_state = "WaitingForElapsed"
          /\ Panics("consume")
          /\ UNCHANGED <<last_time_run, connection_state>>
    /\ UNCHANGED <<keep_alive, client_id_hash, client_pis, acks>>

ConsumeDisconnect(t, packet) ==
    /\ packet.type = "Disconnect"
    /\ reset_connection
    /\ Returns(DisconnectAction)
    /\ last_time_run' = t
    /\ UNCHANGED <<keep_alive, client_id_hash, acks>>

\* handle_connected with ExternalInfos::ConsumePacket.
ConsumeConnected(t, packet) ==
    \/ ConsumePublish(t, packet)
    \/ ConsumeAck(t, packet)
    \/ ConsumePingresp(t, packet)
    \/ ConsumeDisconnect(t, packet)
    \/ /\ packet.type \in {"Connack", "Other"}
       /\ Panics("consume")
       /\ UNCHANGED <<data, connection_state, client_pis, acks>>

\* consume(packet).run(t): inner_run with ExternalInfos::ConsumePacket.
consume(t, packet) ==
    /\ Idle
    /\ \/ /\ IsDisconnected
          /\ last_time_run' = t
          /\ Returns(NoAction)
          /\ UNCHANGED <<keep_alive, client_id_hash, connection_state, client_pis, acks>>
       \/ IsConnecting /\ ConsumeConnecting(t, packet)
       \/ IsConnected /\ ConsumeConnected(t, packet)
    /\ UNCHANGED handle

\* Mutant: pings although the last one is unanswered.
PingDueWhileWaiting(t) ==
    /\ IsConnected
    /\ keep_alive > 0
    /\ elapsed_seconds(connection_state.last_time_sent, t) >= keep_alive

\* Mutant: > for >=.
PingDueLate(t) ==
    /\ IsConnected
    /\ keep_alive > 0
    /\ connection_state.ping_state = "WaitingForElapsed"
    /\ elapsed_seconds(connection_state.last_time_sent, t) > keep_alive

\* The condition under which run sends a Pingreq.
PingDue(t) ==
    /\ IsConnected
    /\ keep_alive > 0
    /\ connection_state.ping_state = "WaitingForElapsed"
    /\ elapsed_seconds(connection_state.last_time_sent, t) >= keep_alive

run(t) ==
    /\ Idle
    /\ \/ /\ PingDue(t)
          /\ connection_state' = Connected(t, "WaitingForPingresp")
          /\ Returns(SendPacket(PingreqPacket))
       \/ /\ ~PingDue(t)
          /\ Returns(NoAction)
          /\ UNCHANGED connection_state
    /\ last_time_run' = t
    /\ UNCHANGED <<keep_alive, client_id_hash, client_pis, handle, acks>>

\* AcknowledgeAction is must_use, which is a warning: it can be dropped.
DropAcknowledgeAction(id) ==
    /\ panic = NotPanicked /\ acks[id] > 0
    /\ acks' = [acks EXCEPT ![id] = @ - 1]
    /\ Returns(NoAction)
    /\ UNCHANGED <<data, connection_state, client_pis, handle>>

-----------------------------------------------------------------------------
Init ==
    /\ keep_alive = 0 /\ client_id_hash = None /\ last_time_run = 0
    /\ connection_state = Disconnected
    /\ client_pis = EmptyStore
    /\ handle = NoHandle
    /\ action = NoAction
    /\ acks = [id \in ServerIdentifiers |-> 0]
    /\ panic = NotPanicked

Next ==
    \/ \E t \in Instants, connect \in ConnectPackets : handle_connect(t, connect)
    \/ \E t \in Instants, packet \in IncomingPackets : consume(t, packet)
    \/ \E packet \in NewPublishes : publish(packet)
    \/ PublisherStore
    \/ \E t \in Instants : PublisherSend(t)
    \/ \E t \in Instants : subscribe(t)
    \/ \E t \in Instants, id \in ServerIdentifiers : acknowledge(t, id)
    \/ disconnect
    \/ DisconnecterPacket
    \/ DisconnecterConnection
    \/ HandleDone
    \/ DropHandle
    \/ \E t \in Instants : connection_lost(t)
    \/ \E t \in Instants : run(t)
    \/ \E id \in ServerIdentifiers : DropAcknowledgeAction(id)

Spec == Init /\ [][Next]_vars

-----------------------------------------------------------------------------
\* Every field of the machine, its result and its borrower has its type.
TypeOK ==
    /\ keep_alive \in KeepAlives \cup {0}
    /\ client_id_hash \in Nat \cup {None}
    /\ last_time_run \in Instants \cup {0}
    /\ connection_state \in ConnectionStates
    /\ client_pis \in StoreType
    /\ handle \in Handles
    /\ action \in ExpectedActions \cup {NoAction}
    /\ acks \in [ServerIdentifiers -> 0 .. MaxAcks]
    /\ panic \in PanicSites \cup {NotPanicked}

(***************************************************************************)
(* However a connection ends (connection_lost, a DISCONNECT from the       *)
(* server, a Disconnecter run to its end), no identifier of a SUBSCRIBE    *)
(* outlives it: outside a connection only publishes hold identifiers.  A   *)
(* leaked one is never given back, since its SUBACK cannot come any more.  *)
(***************************************************************************)
NonPublishSlotsNeedConnection ==
    panic = NotPanicked /\ ~IsConnected => InUse = InUseForPublish

(***************************************************************************)
(* Between the StorePacket and the SendPacket of a publish the identifier  *)
(* that was written into the packet stays allocated, as a publish: it can  *)
(* neither be handed out again nor be dropped with the connection.         *)
(***************************************************************************)
PublisherOwnsIdentifier ==
    handle.kind = "Publisher" /\ handle.state = "Send" =>
        \/ handle.packet.quality_of_service = "AtMostOnce"
        \/ handle.packet.packet_identifier \in InUseForPublish

\* The actions that carry an identifier out of the machine for the first time.
Announces(a, id) == a \in {StorePacket(id), SendPacket(SubscribePacket(id))}

(***************************************************************************)
(* An identifier enters use in one step with the StorePacket or SUBSCRIBE  *)
(* that carries it, and what carries an identifier for the first time has  *)
(* a fresh one.  Only a panicking call may keep an identifier to itself.   *)
(***************************************************************************)
FreshIdentifiersAreAnnounced ==
    [][\A id \in PacketIdentifiers :
          /\ id \in InUse' \ InUse => Announces(action', id) \/ panic' # NotPanicked
          /\ Announces(action', id) => id \in InUse' \ InUse]_vars

(***************************************************************************)
(* Once the machine has an identity it keeps it over all reconnects, until *)
(* the server assigns another one, which the caller is then told to save.  *)
(***************************************************************************)
IdentityIsStable ==
    [][client_id_hash' # client_id_hash =>
          \/ client_id_hash = None
          \/ \E id \in ClientIdentifiers :
                /\ client_id_hash' = FxHash[id]
                /\ action' = SaveClientIdentifier(id)]_vars
=============================================================================
