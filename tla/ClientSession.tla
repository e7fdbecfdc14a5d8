--------------------------- MODULE ClientSession ---------------------------
(***************************************************************************)
(* MqttClientFSM in the session it is written for: a caller that performs  *)
(* every ExpectedAction it is handed, one ordered byte stream per          *)
(* connection that may break at any moment, and a server that follows the  *)
(* protocol and keeps the session.  Caller, network and server are         *)
(* external to the repository; what they do is what the machine's          *)
(* interface (ExpectedAction, connection_lost, run) asks of them.          *)
(*                                                                         *)
(* The caller keeps a publish from StorePacket to ReleasePacket and sends  *)
(* it again on every new connection.  It publishes, subscribes and         *)
(* acknowledges only while is_connected, and never has more identifiers    *)
(* outstanding than the store has slots.                                   *)
(***************************************************************************)
EXTENDS MqttClientFSM, Sequences, FiniteSets

CONSTANTS ClientMessages, ServerMessages, \* each is published once, at QoS 1
          MaxFaults,                      \* bound: broken or closed connections
          MaxSubscribes,                  \* bound: calls of subscribe
          KeepsStaleAcks \* does the caller keep an AcknowledgeAction over a reconnect?

ASSUME SessionAssumption ==
    /\ ClientMessages \cup ServerMessages \subseteq Messages
    /\ None \notin Messages \cup ServerIdentifiers
    /\ 0 \in Instants              \* the clock starts there
    /\ MaxFaults \in Nat /\ MaxSubscribes \in Nat
    /\ KeepsStaleAcks \in BOOLEAN

VARIABLES now,              \* the clock of the caller
          polled,           \* was run the last call?
          sent_at,          \* when the machine last had a packet sent
          transport,        \* "up" or "down"
          to_server, to_client,
          faults, subscribes,
          saved_identifier, \* of the caller: its client identifier,
          stored,           \* the publishes it keeps,
          resend,           \* those of them to be sent again,
          published,        \* the messages it has stored so far
          app_received,     \* and those the application got
          server_online,    \* of the server: has it answered the CONNECT?
          server_inflight,  \* its unacknowledged publishes,
          server_resend,    \* those of them to be sent again,
          server_published,
          server_received   \* and the messages it got

clock  == <<now, polled, sent_at>>
wire   == <<transport, to_server, to_client>>
caller == <<saved_identifier, stored, resend, published, app_received>>
server == <<server_online, server_inflight, server_resend,
            server_published, server_received>>
bounds == <<faults, subscribes>>
sessionVars == <<vars, clock, wire, caller, server, bounds>>

HasFreeIdentifier == Cardinality(InUse) < USIZE_BITS

Pending(store) == {store[id] : id \in DOMAIN store} \ {None}

-----------------------------------------------------------------------------
\* Perform the SendPacket the machine returned in this step, if it did.
Transmit ==
    LET sends == action'.do = "SendPacket"
    IN  /\ to_server' = IF sends /\ transport = "up"
                        THEN Append(to_server, action'.packet) ELSE to_server
        /\ sent_at' = IF sends THEN now ELSE sent_at
        /\ polled' = FALSE
        /\ UNCHANGED <<now, transport, to_client>>

\* A new stream; its first packet is the CONNECT.
ClientConnect ==
    /\ IsDisconnected /\ transport = "down"
    /\ KeepsStaleAcks \/ \A id \in ServerIdentifiers : acks[id] = 0
    /\ \E ka \in KeepAlives :
          /\ handle_connect(now, ConnectPacket(saved_identifier, ka))
          /\ to_server' = <<ConnectPacket(saved_identifier, ka)>>
    /\ transport' = "up" /\ to_client' = <<>>
    /\ sent_at' = now /\ polled' = FALSE /\ server_online' = FALSE
    /\ UNCHANGED <<now, caller, server_inflight, server_resend,
                   server_published, server_received, bounds>>

ClientPublish ==
    /\ IsConnected /\ HasFreeIdentifier
    /\ \E m \in ClientMessages \ published : publish(PublishPacket("AtLeastOnce", None, m))
    /\ Transmit
    /\ UNCHANGED <<caller, server, bounds>>

ClientStore ==
    /\ PublisherStore
    /\ Transmit
    /\ \/ /\ action' = NoAction
          /\ UNCHANGED caller
       \/ /\ action' # NoAction
          /\ stored' = [stored EXCEPT ![action'.id] = handle.packet.message]
          /\ published' = published \cup {handle.packet.message}
          /\ UNCHANGED <<saved_identifier, resend, app_received>>
    /\ UNCHANGED <<server, bounds>>

ClientSend ==
    /\ PublisherSend(now)
    /\ Transmit
    /\ UNCHANGED <<caller, server, bounds>>

\* A publish of an earlier connection: not a call of the machine.
ClientResend(id) ==
    /\ Idle /\ IsConnected /\ id \in resend
    /\ resend' = resend \ {id}
    /\ to_server' = IF transport = "up"
                    THEN Append(to_server, PublishPacket("AtLeastOnce", id, stored[id]))
                    ELSE to_server
    /\ UNCHANGED <<vars, clock, transport, to_client, saved_identifier, stored,
                   published, app_received, server, bounds>>

ClientSubscribe ==
    /\ IsConnected /\ HasFreeIdentifier
    /\ subscribes < MaxSubscribes /\ subscribes' = subscribes + 1
    /\ subscribe(now)
    /\ Transmit
    /\ UNCHANGED <<caller, server, faults>>

ClientAcknowledge(id) ==
    /\ IsConnected
    /\ acknowledge(now, id)
    /\ Transmit
    /\ UNCHANGED <<caller, server, bounds>>

ClientForgetsAck(id) ==
    /\ ~KeepsStaleAcks /\ ~IsConnected
    /\ DropAcknowledgeAction(id)
    /\ UNCHANGED <<clock, wire, caller, server, bounds>>

ClientDisconnect ==
    /\ IsConnected
    /\ faults < MaxFaults /\ faults' = faults + 1
    /\ disconnect
    /\ Transmit
    /\ UNCHANGED <<caller, server, subscribes>>

ClientDisconnectPacket ==
    /\ DisconnecterPacket
    /\ Transmit
    /\ UNCHANGED <<caller, server, bounds>>

\* ExpectedAction::Disconnect: close the stream.  What was written to it
\* before still arrives.
ClientDisconnectConnection ==
    /\ DisconnecterConnection
    /\ transport' = "down" /\ to_client' = <<>> /\ resend' = {}
    /\ UNCHANGED <<clock, to_server, saved_identifier, stored, published,
                   app_received, server, bounds>>

\* The borrow ends when its work is done, or early when the stream broke
\* after the publish was stored or the DISCONNECT sent.
ClientDropHandle ==
    /\ DropHandle
    /\ \/ handle.state = "Done"
       \/ transport = "down" /\ handle.state \in {"Send", "DisconnectConnection"}
    /\ UNCHANGED <<clock, wire, caller, server, bounds>>

\* The caller reads a packet and performs what the machine answers.
ClientConsume ==
    /\ to_client # <<>>
    /\ consume(now, Head(to_client))
    /\ polled' = FALSE
    /\ LET does(kind) == action'.do = kind
       IN  /\ stored' = IF does("ReleasePacket")
                        THEN [stored EXCEPT ![action'.id] = None] ELSE stored
           /\ saved_identifier' = IF does("SaveClientIdentifier")
                                  THEN action'.client_identifier ELSE saved_identifier
           /\ app_received' = app_received \cup
                 (IF does("NoFurtherAction") \/ does("AcknowledgeNeeded")
                  THEN {action'.packet.message} ELSE {})
           /\ resend' = CASE does("Disconnect") -> {}
                          [] IsConnecting -> {id \in DOMAIN stored : stored[id] # None}
                          [] OTHER -> resend
           /\ transport' = IF does("Disconnect") THEN "down" ELSE transport
           /\ to_client' = IF does("Disconnect") THEN <<>> ELSE Tail(to_client)
    /\ UNCHANGED <<now, sent_at, to_server, published, server, bounds>>

\* The caller notices that the stream is gone; unread packets are lost.
ClientNoticesLoss ==
    /\ transport = "down" /\ ~IsDisconnected
    /\ connection_lost(now)
    /\ to_client' = <<>> /\ resend' = {} /\ polled' = FALSE
    /\ UNCHANGED <<now, sent_at, transport, to_server, saved_identifier, stored,
                   published, app_received, server, bounds>>

\* The caller polls the machine after everything it does, once a second at
\* the least.
ClientRun ==
    /\ ~polled
    /\ run(now)
    /\ LET sends == action' # NoAction
       IN  /\ to_server' = IF sends /\ transport = "up"
                           THEN Append(to_server, action'.packet) ELSE to_server
           /\ sent_at' = IF sends THEN now ELSE sent_at
    /\ polled' = TRUE
    /\ UNCHANGED <<now, transport, to_client, caller, server, bounds>>

Tick ==
    /\ polled /\ now + 1 \in Instants
    /\ now' = now + 1 /\ polled' = FALSE
    /\ UNCHANGED <<vars, sent_at, wire, caller, server, bounds>>

-----------------------------------------------------------------------------
\* The stream breaks.  What is on the way to the server is lost; what has
\* reached the client can still be read.
TransportBreaks ==
    /\ transport = "up" /\ faults < MaxFaults
    /\ transport' = "down" /\ to_server' = <<>> /\ faults' = faults + 1
    /\ UNCHANGED <<vars, clock, to_client, caller, server, subscribes>>

Reply(packet) ==
    to_client' = IF transport = "up" THEN Append(to_client, packet) ELSE to_client

ServerReceive ==
    /\ to_server # <<>>
    /\ to_server' = Tail(to_server)
    /\ LET packet == Head(to_server)
       IN  \/ /\ packet.type = "Connect"
              /\ \E ka \in KeepAlives \cup {None},
                    id \in IF packet.client_identifier = EmptyIdentifier
                           THEN ClientIdentifiers ELSE {None} :
                    Reply([type |-> "Connack", reason_code |-> "Success",
                           server_keep_alive |-> ka, assigned_client_identifier |-> id])
              /\ server_online' = TRUE
              /\ server_resend' = {id \in DOMAIN server_inflight : server_inflight[id] # None}
              /\ UNCHANGED <<transport, server_inflight, server_received>>
           \/ /\ packet.type = "Publish"
              /\ server_received' = server_received \cup {packet.message}
              /\ Reply(PubackPacket(packet.packet_identifier))
              /\ UNCHANGED <<transport, server_online, server_inflight, server_resend>>
           \/ /\ packet.type = "Subscribe"
              /\ Reply([type |-> "Suback", packet_identifier |-> packet.packet_identifier])
              /\ UNCHANGED <<transport, server_online, server_inflight,
                             server_resend, server_received>>
           \/ /\ packet.type = "Puback"
              /\ server_inflight' = [server_inflight EXCEPT ![packet.packet_identifier] = None]
              /\ server_resend' = server_resend \ {packet.packet_identifier}
              /\ UNCHANGED <<transport, to_client, server_online, server_received>>
           \/ /\ packet.type = "Pingreq"
              /\ Reply([type |-> "Pingresp"])
              /\ UNCHANGED <<transport, server_online, server_inflight,
                             server_resend, server_received>>
           \/ /\ packet.type = "Disconnect"
              /\ transport' = "down"
              /\ UNCHANGED <<to_client, server_online, server_inflight,
                             server_resend, server_received>>
    /\ UNCHANGED <<vars, clock, caller, server_published, bounds>>

ServerPublish ==
    /\ transport = "up" /\ server_online
    /\ \E id \in ServerIdentifiers, m \in ServerMessages \ server_published :
          /\ server_inflight[id] = None
          /\ server_inflight' = [server_inflight EXCEPT ![id] = m]
          /\ server_published' = server_published \cup {m}
          /\ Reply(PublishPacket("AtLeastOnce", id, m))
    /\ UNCHANGED <<vars, clock, transport, to_server, caller, server_online,
                   server_resend, server_received, bounds>>

ServerResend(id) ==
    /\ transport = "up" /\ server_online /\ id \in server_resend
    /\ server_resend' = server_resend \ {id}
    /\ Reply(PublishPacket("AtLeastOnce", id, server_inflight[id]))
    /\ UNCHANGED <<vars, clock, transport, to_server, caller, server_online,
                   server_inflight, server_published, server_received, bounds>>

\* The server says goodbye and closes the stream.
ServerDisconnect ==
    /\ transport = "up" /\ server_online /\ faults < MaxFaults
    /\ faults' = faults + 1
    /\ to_client' = Append(to_client, DisconnectPacket)
    /\ transport' = "down" /\ to_server' = <<>>
    /\ UNCHANGED <<vars, clock, caller, server, subscribes>>

-----------------------------------------------------------------------------
SessionInit ==
    /\ Init
    /\ now = 0 /\ polled = FALSE /\ sent_at = 0
    /\ transport = "down" /\ to_server = <<>> /\ to_client = <<>>
    /\ faults = 0 /\ subscribes = 0
    /\ saved_identifier \in ClientIdentifiers \cup {EmptyIdentifier}
    /\ stored = [id \in 1 .. USIZE_BITS |-> None]
    /\ resend = {} /\ published = {} /\ app_received = {}
    /\ server_online = FALSE
    /\ server_inflight = [id \in ServerIdentifiers |-> None]
    /\ server_resend = {} /\ server_published = {} /\ server_received = {}

ClientStep ==
    \/ ClientConnect \/ ClientStore \/ ClientSend
    \/ ClientDisconnectPacket \/ ClientDisconnectConnection \/ ClientDropHandle
    \/ ClientConsume \/ ClientNoticesLoss

SessionNext ==
    \/ ClientStep
    \/ ClientPublish \/ ClientSubscribe \/ ClientDisconnect
    \/ \E id \in DOMAIN stored : ClientResend(id)
    \/ \E id \in ServerIdentifiers : ClientAcknowledge(id) \/ ClientForgetsAck(id)
    \/ ClientRun \/ Tick
    \/ TransportBreaks
    \/ ServerReceive \/ ServerPublish \/ ServerDisconnect
    \/ \E id \in ServerIdentifiers : ServerResend(id)

SessionSafety == SessionInit /\ [][SessionNext]_sessionVars

(***************************************************************************)
(* The caller's loop goes on: it reads, finishes the publish or disconnect *)
(* it has begun, sends again what it must, acknowledges what it got, and   *)
(* reconnects.  The server handles what arrives.  Nobody has to publish,   *)
(* subscribe or disconnect, and connections stop breaking eventually       *)
(* (MaxFaults).                                                            *)
(***************************************************************************)
SessionSpec ==
    /\ SessionSafety
    /\ WF_sessionVars(ClientStep)
    /\ \A id \in 1 .. USIZE_BITS : WF_sessionVars(ClientResend(id))
    /\ \A id \in ServerIdentifiers :
          /\ WF_sessionVars(ClientAcknowledge(id))
          /\ WF_sessionVars(ClientForgetsAck(id))
          /\ WF_sessionVars(ServerResend(id))
    /\ WF_sessionVars(ServerReceive)

-----------------------------------------------------------------------------
\* The packet has this type and, unless that is None, this identifier.
Matches(packet, type, id) == packet.type = type /\ (id # None => packet.packet_identifier = id)

Count(queue, type, id) == Cardinality({i \in DOMAIN queue : Matches(queue[i], type, id)})

\* The number of packets of these types on their way on this connection.
OnTheWay(request, answer, id) == Count(to_server, request, id) + Count(to_client, answer, id)

(***************************************************************************)
(* Nothing a caller and a server that follow the rules do, in whatever     *)
(* order they do it and wherever the connection breaks, makes the machine  *)
(* panic: not an assertion on an identifier, on the identity, on the       *)
(* connection state or on a PINGRESP, not an exhausted store, no todo!().  *)
(***************************************************************************)
NoPanic == panic = NotPanicked

(***************************************************************************)
(* The caller keeps a publish exactly as long as its identifier is         *)
(* allocated as one: no publish is forgotten while the machine waits for   *)
(* it, and none is kept that no acknowledgement can release any more.      *)
(***************************************************************************)
CallerAgreesWithMachine ==
    panic = NotPanicked => {id \in DOMAIN stored : stored[id] # None} = InUseForPublish

(***************************************************************************)
(* An identifier is on the wire at most once, for the purpose it is        *)
(* allocated for: no acknowledgement can release the identifier of         *)
(* something else.  This is why the assertions of handle_connected hold.   *)
(***************************************************************************)
WireAgreesWithMachine ==
    IsConnected =>
        \A id \in 1 .. USIZE_BITS :
            /\ OnTheWay("Publish", "Puback", id) <= 1
            /\ OnTheWay("Subscribe", "Suback", id) <= 1
            /\ OnTheWay("Publish", "Puback", id) = 1 => id \in InUseForPublish
            /\ OnTheWay("Subscribe", "Suback", id) = 1 => id \in InUse \ InUseForPublish

(***************************************************************************)
(* At most one ping is outstanding, and on an unbroken connection the      *)
(* machine waits for a PINGRESP exactly when one is on its way: it never   *)
(* takes a PINGRESP for a protocol error, and never stops pinging.         *)
(***************************************************************************)
PingAgreesWithMachine ==
    LET pings == OnTheWay("Pingreq", "Pingresp", None)
        waiting == IsConnected /\ connection_state.ping_state = "WaitingForPingresp"
    IN  /\ pings <= 1
        /\ IsConnected /\ pings = 1 => waiting
        /\ waiting /\ transport = "up" => pings = 1

(***************************************************************************)
(* A caller that polls is never told that there is nothing to do while the *)
(* connection has been silent for the keep-alive time, whichever of the    *)
(* client's and the server's value is in force: run has sent a PINGREQ or  *)
(* an earlier one is unanswered.                                           *)
(***************************************************************************)
KeepAliveIsKept ==
    polled /\ IsConnected /\ keep_alive > 0 =>
        \/ connection_state.ping_state = "WaitingForPingresp"
        \/ now - sent_at < keep_alive

-----------------------------------------------------------------------------
ClientToServer ==
    INSTANCE AtLeastOnce
        WITH Message  <- ClientMessages,
             accepted <- published,
             received <- server_received,
             released <- published \ Pending(stored)

ServerToClient ==
    INSTANCE AtLeastOnce
        WITH Message  <- ServerMessages,
             accepted <- server_published,
             received <- app_received,
             released <- server_published \ Pending(server_inflight)

(***************************************************************************)
(* A publish at QoS 1 for which the caller got StorePacket reaches the     *)
(* server, and ReleasePacket comes, but not before; over any number of     *)
(* connections.                                                            *)
(***************************************************************************)
PublishesAreDelivered == ClientToServer!Spec

(***************************************************************************)
(* A publish of the server at QoS 1 reaches the application, and the       *)
(* server counts it as received only after it has.                         *)
(***************************************************************************)
ReceivesAreDelivered == ServerToClient!Spec

\* The safety half of it.
ServerForgetsOnlyReceived == ServerToClient!Safety
=============================================================================
