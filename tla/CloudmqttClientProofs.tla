----------------------- MODULE CloudmqttClientProofs -----------------------
(***************************************************************************)
(* Proofs about CloudmqttClient for any number of callers, subscriptions,  *)
(* messages and reconnects, every server and every width of the store: the *)
(* caller's side and the task first, then the router.                      *)
(***************************************************************************)
EXTENDS CloudmqttClient, UsizeStoreRefinement, SequenceTheorems,
        FiniteSetTheorems, FunctionTheorems

Places ==
    {"None", "Starting", "Select", "Publisher", "Run", "Handle", "Lost",
     "Panicked", "Unreachable"}

\* What the calls of the connection task return.
MachineReturns ==
    {"SendPacket", "NoFurtherAction", "SaveClientIdentifier", "ReleasePacket",
     "AcknowledgeNeeded", "Disconnect"}

\* The publisher that the task holds while it writes its packet.
PublisherIsDone == handle.kind = "Publisher" /\ handle.state = "Done"

\* What the machine is like at each place of the task.
PlaceInv ==
    /\ task \in Places
    /\ connection \in {"Unconnected", "Connected"}
    /\ connection = "Unconnected" <=> task = "None"
    /\ task \in {"None", "Starting", "Lost"} => IsDisconnected
    /\ task \in {"None", "Starting", "Lost", "Select", "Run"} => handle = NoHandle
    /\ task = "Publisher" =>
          \/ PublisherIsDone
          \/ handle.kind = "Publisher" /\ handle.state = "Send" /\ IsConnected
    /\ task = "Handle" => handle = NoHandle \/ PublisherIsDone

\* The one identity of the client, unless the server has just assigned
\* another one, which ends the task in unreachable!().
IdentityInv ==
    \/ client_id_hash \in {None, FxHash["cloudmqtt-0"]}
    \/ task \in {"Panicked", "Unreachable"}
    \/ task = "Handle" /\ action.do = "SaveClientIdentifier"

PanicInv ==
    /\ panic # NotPanicked => task = "Panicked"
    /\ MachineIsAskedInTime

\* What the task may be handling, and why it may have ended.
EndInv ==
    /\ task \in {"Handle", "Unreachable"} => action.do \in MachineReturns
    /\ task = "Unreachable" => action.do \notin {"SendPacket", "NoFurtherAction"}
    /\ task = "Panicked" => \/ panic \in {"consume", "subscribe"}
                            \/ panic = NotPanicked /\ action.do = "SendPacket"

(***************************************************************************)
(* The inductive invariant.  That the task asks the machine in time needs  *)
(* to be known of every place it can be at: what the machine's state is    *)
(* there, and that a publisher is not held beyond its last packet.  Why    *)
(* the task ended is known from what the machine returns to it.            *)
(***************************************************************************)
ClientInv == StoreOK /\ PlaceInv /\ IdentityInv /\ PanicInv /\ EndInv

\* A new client satisfies the invariant.
LEMMA ClientInvInit == ClientInit => ClientInv
<1> SUFFICES ASSUME ClientInit PROVE ClientInv
    OBVIOUS
<1>1. Init
    BY DEF ClientInit
<1>2. StoreOK
    BY <1>1, EmptyStoreOK DEF Init
<1>3. PlaceInv
    BY <1>1 DEF ClientInit, Init, PlaceInv, Places, IsDisconnected, Disconnected
<1>4. IdentityInv
    BY <1>1 DEF Init, IdentityInv
<1>5. PanicInv
    BY <1>1 DEF Init, PanicInv, MachineIsAskedInTime, NotPanicked
<1>6. EndInv
    BY DEF ClientInit, EndInv
<1> QED BY <1>2, <1>3, <1>4, <1>5, <1>6 DEF ClientInv

\* The steps of the callers, the router and the subscriptions.
LEMMA ElsewhereInv ==
    ASSUME ClientInv, UNCHANGED <<vars, connection, task>>
    PROVE  ClientInv'
<1>1. /\ StoreOK' /\ InUse' = InUse
    BY DEF ClientInv, vars, StoreOK, NoStaleUsage, InUse
<1>2. PlaceInv'
    BY DEF ClientInv, PlaceInv, PublisherIsDone, vars, IsDisconnected, IsConnected
<1>3. IdentityInv'
    BY DEF ClientInv, IdentityInv, vars, data
<1>4. PanicInv'
    BY <1>1 DEF ClientInv, PanicInv, MachineIsAskedInTime, vars
<1>5. EndInv'
    BY DEF ClientInv, EndInv, vars
<1> QED BY <1>1, <1>2, <1>3, <1>4, <1>5 DEF ClientInv

\* connect starts a task only with the machine it found in Unconnected.
LEMMA ConnectInv ==
    ASSUME ClientInv, NEW u \in Users, connect(u)
    PROVE  ClientInv'
<1>1. UNCHANGED vars /\ connection' = "Connected"
      /\ \/ connection = "Unconnected" /\ task' = "Starting"
         \/ connection = "Connected" /\ UNCHANGED task
    BY DEF connect, connectionTask
<1>2. /\ StoreOK' /\ InUse' = InUse
    BY <1>1 DEF ClientInv, vars, StoreOK, NoStaleUsage, InUse
<1>3. PlaceInv'
    BY <1>1 DEF ClientInv, PlaceInv, Places, PublisherIsDone, vars,
                IsDisconnected, IsConnected
<1>4. IdentityInv'
    BY <1>1 DEF ClientInv, PlaceInv, IdentityInv, vars, data
<1>5. PanicInv'
    BY <1>1, <1>2 DEF ClientInv, PlaceInv, PanicInv, MachineIsAskedInTime, vars
<1>6. EndInv'
    BY <1>1 DEF ClientInv, EndInv, vars
<1> QED BY <1>2, <1>3, <1>4, <1>5, <1>6 DEF ClientInv

\* The end of the task gives the machine back.
LEMMA SetUnconnectedInv == ClientInv /\ SetUnconnected => ClientInv'
<1> SUFFICES ASSUME ClientInv, SetUnconnected PROVE ClientInv'
    OBVIOUS
<1>1. /\ UNCHANGED vars /\ task = "Lost"
      /\ connection' = "Unconnected" /\ task' = "None"
    BY DEF SetUnconnected
<1>2. /\ StoreOK' /\ InUse' = InUse
    BY <1>1 DEF ClientInv, vars, StoreOK, NoStaleUsage, InUse
<1>3. PlaceInv'
    BY <1>1 DEF ClientInv, PlaceInv, Places, PublisherIsDone, vars,
                IsDisconnected, IsConnected
<1>4. IdentityInv'
    BY <1>1 DEF ClientInv, PlaceInv, IdentityInv, vars, data
<1>5. PanicInv'
    BY <1>1, <1>2 DEF ClientInv, PlaceInv, PanicInv, MachineIsAskedInTime, vars
<1>6. EndInv'
    BY <1>1 DEF ClientInv, EndInv, vars
<1> QED BY <1>2, <1>3, <1>4, <1>5, <1>6 DEF ClientInv

(***************************************************************************)
(* What is left to show of a step in which the task calls the machine and  *)
(* goes on with the result.                                                *)
(***************************************************************************)
LEMMA ProceedInv ==
    ASSUME ClientInv, StoreOK', Proceed, UNCHANGED connection,
           connection = "Connected",
           panic' \in {NotPanicked, "consume", "subscribe"},
           action' = NoAction \/ action'.do \in MachineReturns,
           panic' = "subscribe" => InUse' = 1 .. USIZE_BITS,
           handle' = NoHandle \/ PublisherIsDone',
           action' = NoAction => handle' = NoHandle \/ panic' # NotPanicked,
           \/ client_id_hash' \in {None, FxHash["cloudmqtt-0"]}
           \/ action'.do = "SaveClientIdentifier"
    PROVE  ClientInv'
<1>1. /\ task' \in {"Panicked", "Handle", "Select"}
      /\ panic' # NotPanicked => task' = "Panicked"
      /\ task' = "Select" => action' = NoAction /\ panic' = NotPanicked
      /\ task' # "Select" => task' = "Handle" \/ task' = "Panicked"
    BY DEF Proceed
<1>2. PlaceInv'
    BY <1>1 DEF PlaceInv, Places
<1>3. action'.do = "SaveClientIdentifier" => task' # "Select"
    BY <1>1 DEF NoAction
<1>4. IdentityInv'
    BY <1>1, <1>3 DEF IdentityInv
<1>5. PanicInv'
    BY <1>1 DEF PanicInv, MachineIsAskedInTime, NotPanicked
<1>6. EndInv'
  <2>1. /\ task' = "Handle" => action' # NoAction
        /\ task' = "Panicked" => panic' # NotPanicked
      BY DEF Proceed
  <2> QED BY <1>1, <2>1 DEF EndInv
<1> QED BY <1>2, <1>4, <1>5, <1>6 DEF ClientInv

\* A task has the sender, and the machine has not panicked while it runs.
LEMMA RunningTask ==
    ASSUME ClientInv, Running
    PROVE  connection = "Connected" /\ panic = NotPanicked
BY DEF ClientInv, Running, PlaceInv, PanicInv

\* A task presents the identity the machine already has, so that its
\* handle_connect is accepted.
LEMMA StartInv == ClientInv /\ Start => ClientInv'
<1> SUFFICES ASSUME ClientInv, Start PROVE ClientInv'
    OBVIOUS
<1> DEFINE packet == ConnectPacket("cloudmqtt-0", 0)
<1>1. PICK t \in Instants : handle_connect(t, packet)
    BY DEF Start
<1>2. /\ task = "Starting" /\ Proceed /\ UNCHANGED connection
      /\ IsDisconnected /\ handle = NoHandle
      /\ client_id_hash \in {None, FxHash["cloudmqtt-0"]}
    BY DEF Start, client, ClientInv, PlaceInv, IdentityInv
<1>3. /\ packet.client_identifier = "cloudmqtt-0"
      /\ packet.client_identifier # EmptyIdentifier
    BY ClientAssumption, IdentifiersAssumption DEF ConnectPacket
<1>4. SameIdentity(FxHash["cloudmqtt-0"])
    BY <1>2 DEF SameIdentity
<1>5. /\ client_id_hash' = FxHash["cloudmqtt-0"]
      /\ action' = SendPacket(packet) /\ panic' = NotPanicked
      /\ UNCHANGED <<client_pis, handle>>
    BY <1>1, <1>2, <1>3, <1>4 DEF handle_connect, Returns
<1>6. StoreOK'
    BY <1>5 DEF ClientInv, StoreOK, NoStaleUsage
<1>7. connection = "Connected"
    BY <1>2 DEF ClientInv, PlaceInv
<1>8. action'.do \in MachineReturns /\ action' # NoAction
    BY <1>5 DEF SendPacket, NoAction, MachineReturns
<1> HIDE DEF packet
<1> QED BY <1>2, <1>5, <1>6, <1>7, <1>8, ProceedInv DEF NotPanicked

\* A packet that is consumed keeps the store in order and the identity, or
\* reports the new one; nothing it does is one of the panics in question.
LEMMA ConsumeEffects ==
    ASSUME StoreOK, handle = NoHandle,
           NEW t \in Instants, NEW packet \in IncomingPackets, consume(t, packet)
    PROVE  /\ StoreOK'
           /\ handle' = NoHandle
           /\ panic' \in {NotPanicked, "consume"}
           /\ client_id_hash' = client_id_hash \/ action'.do = "SaveClientIdentifier"
           /\ action' = NoAction \/ action'.do \in MachineReturns
<1>1. handle' = NoHandle
    BY DEF consume
<1>2. CASE IsDisconnected /\ Returns(NoAction) /\ UNCHANGED <<client_id_hash, client_pis>>
    BY <1>1, <1>2 DEF Returns, StoreOK, NoStaleUsage
<1>3. CASE ConsumeConnecting(t, packet)
  <2>1. UNCHANGED client_pis
      BY <1>3 DEF ConsumeConnecting
  <2>2. /\ panic' \in {NotPanicked, "consume"}
        /\ client_id_hash' = client_id_hash \/ action'.do = "SaveClientIdentifier"
        /\ action' = NoAction \/ action'.do \in MachineReturns
      BY <1>3 DEF ConsumeConnecting, Returns, Panics, SaveClientIdentifier, data,
                  MachineReturns
  <2> QED BY <1>1, <2>1, <2>2 DEF StoreOK, NoStaleUsage
<1>4. CASE ConsumeConnected(t, packet)
  <2>1. CASE ConsumePublish(t, packet)
      BY <1>1, <2>1 DEF ConsumePublish, Returns, Panics, StoreOK, NoStaleUsage,
                        NoFurtherAction, AcknowledgeNeeded, MachineReturns
  <2>2. CASE ConsumeAck(t, packet)
    <3>1. packet.packet_identifier \in PacketIdentifiers
        BY <2>2 DEF ConsumeAck, IncomingPackets, Connacks, IncomingPublishes
    <3>2. Release(packet.packet_identifier) => StoreOK'
        BY <3>1, ReleaseFrees
    <3>3. UNCHANGED client_pis => StoreOK'
        BY DEF StoreOK, NoStaleUsage
    <3> QED BY <1>1, <2>2, <3>2, <3>3
               DEF ConsumeAck, Returns, Panics, ReleasePacket, MachineReturns
  <2>3. CASE ConsumePingresp(t, packet)
      BY <1>1, <2>3 DEF ConsumePingresp, Returns, Panics, StoreOK, NoStaleUsage
  <2>4. CASE ConsumeDisconnect(t, packet)
      BY <1>1, <2>4, ReleaseNonPublishSlotsFrees
         DEF ConsumeDisconnect, reset_connection, Returns, DisconnectAction, MachineReturns
  <2>5. CASE /\ packet.type \in {"Connack", "Other"}
             /\ Panics("consume")
             /\ UNCHANGED <<data, connection_state, client_pis, acks>>
      BY <1>1, <2>5 DEF Panics, StoreOK, NoStaleUsage, data
  <2> QED BY <1>4, <2>1, <2>2, <2>3, <2>4, <2>5 DEF ConsumeConnected
<1> QED BY <1>2, <1>3, <1>4 DEF consume

\* Whatever the server sends, the task can go on or has lost its machine.
LEMMA ReadPacketInv == ClientInv /\ ReadPacket => ClientInv'
<1> SUFFICES ASSUME ClientInv, ReadPacket PROVE ClientInv'
    OBVIOUS
<1>1. PICK t \in Now, packet \in IncomingPackets : consume(t, packet)
    BY DEF ReadPacket
<1>2. /\ task = "Select" /\ Proceed /\ UNCHANGED connection
      /\ handle = NoHandle /\ connection = "Connected"
      /\ client_id_hash \in {None, FxHash["cloudmqtt-0"]}
    BY DEF ReadPacket, client, ClientInv, PlaceInv, IdentityInv
<1>3. /\ StoreOK' /\ handle' = NoHandle
      /\ panic' \in {NotPanicked, "consume"}
      /\ client_id_hash' = client_id_hash \/ action'.do = "SaveClientIdentifier"
      /\ action' = NoAction \/ action'.do \in MachineReturns
    BY <1>1, <1>2, ConsumeEffects DEF Now, ClientInv
<1> QED BY <1>2, <1>3, ProceedInv DEF NotPanicked

\* The machine learns of the end of the stream before the task gives it back.
LEMMA ReaderEndsInv == ClientInv /\ ReaderEnds => ClientInv'
<1> SUFFICES ASSUME ClientInv, ReaderEnds PROVE ClientInv'
    OBVIOUS
<1>1. PICK t \in Now : connection_lost(t)
    BY DEF ReaderEnds
<1>2. /\ task = "Select" /\ task' = "Lost" /\ UNCHANGED connection
      /\ handle = NoHandle /\ connection = "Connected"
      /\ client_id_hash \in {None, FxHash["cloudmqtt-0"]}
    BY DEF ReaderEnds, client, ClientInv, PlaceInv, IdentityInv
<1>3. /\ UNCHANGED <<client_id_hash, handle>> /\ panic' = NotPanicked
      /\ reset_connection
    BY <1>1 DEF connection_lost, Returns
<1>4. StoreOK' /\ IsDisconnected'
    BY <1>3, ReleaseNonPublishSlotsFrees
       DEF ClientInv, reset_connection, IsDisconnected, Disconnected
<1>5. PlaceInv' /\ IdentityInv' /\ PanicInv' /\ EndInv'
    BY <1>2, <1>3, <1>4
       DEF PlaceInv, Places, IdentityInv, PanicInv, MachineIsAskedInTime, NotPanicked, EndInv
<1> QED BY <1>4, <1>5 DEF ClientInv

\* A publish or SUBSCRIBE is taken from the channel only when the machine is
\* connected: the publisher can send, and the SUBSCRIBE fails only for want
\* of an identifier.
LEMMA TakeToSendInv == ClientInv /\ TakeToSend => ClientInv'
<1> SUFFICES ASSUME ClientInv, TakeToSend PROVE ClientInv'
    OBVIOUS
<1>1. /\ task = "Select" /\ UNCHANGED connection /\ IsConnected
      /\ handle = NoHandle /\ connection = "Connected"
      /\ client_id_hash \in {None, FxHash["cloudmqtt-0"]}
    BY DEF TakeToSend, MayReceive, client, ClientInv, PlaceInv, IdentityInv
<1>2. CASE /\ publish(PublishPacket("AtMostOnce", None, Head(channel).message))
           /\ task' = "Publisher"
  <2>1. /\ UNCHANGED <<client_id_hash, connection_state, client_pis>>
        /\ panic' = NotPanicked
        /\ handle'.kind = "Publisher" /\ handle'.state = "Send"
      BY <1>2 DEF publish, PublishPacket, Publisher, Returns, data
  <2>2. StoreOK' /\ IsConnected'
      BY <1>1, <2>1 DEF ClientInv, StoreOK, NoStaleUsage, IsConnected
  <2>3. PlaceInv' /\ IdentityInv' /\ PanicInv' /\ EndInv'
      BY <1>1, <1>2, <2>1, <2>2
         DEF PlaceInv, Places, IdentityInv, PanicInv, MachineIsAskedInTime, NotPanicked, EndInv
  <2> QED BY <2>2, <2>3 DEF ClientInv
<1>3. CASE (\E t \in Now : subscribe(t)) /\ Proceed
  <2>1. PICK t \in Now : subscribe(t)
      BY <1>3
  <2>2. PICK id \in PacketIdentifiers \cup {None} :
          /\ GetNextFree("NonPublish", id)
          /\ \/ id = None /\ Panics("subscribe")
             \/ /\ id # None
                /\ inner_run_PublishPacket(t, SubscribePacket(id), "subscribe", TRUE)
      BY <2>1 DEF subscribe
  <2>3. StoreOK /\ "NonPublish" \in PacketIdentifierUsage
        /\ UNCHANGED <<client_id_hash, handle>>
      BY <2>1 DEF ClientInv, PacketIdentifierUsage, subscribe
  <2>4. CASE id = None
    <3>1. UNCHANGED client_pis /\ InUse = 1 .. USIZE_BITS
        BY <2>2, <2>3, <2>4, GetNextFreeNone
    <3>2. StoreOK' /\ InUse' = 1 .. USIZE_BITS
        BY <2>3, <3>1 DEF StoreOK, NoStaleUsage, InUse
    <3>3. panic' = "subscribe" /\ action' = NoAction
        BY <2>2, <2>4 DEF Panics
    <3> QED BY <1>1, <1>3, <2>3, <3>2, <3>3, ProceedInv DEF NotPanicked
  <2>5. CASE id \in PacketIdentifiers /\ id # None
    <3>1. StoreOK'
        BY <2>2, <2>3, <2>5, GetNextFreeSome
    <3>2. panic' = NotPanicked /\ action'.do \in MachineReturns
        BY <1>1, <2>2, <2>5
           DEF inner_run_PublishPacket, IsConnected, IsDisconnected, IsConnecting, Returns,
               SendPacket, MachineReturns
    <3> QED BY <1>1, <1>3, <2>3, <3>1, <3>2, ProceedInv DEF NotPanicked
  <2> QED BY <2>4, <2>5
<1> QED BY <1>2, <1>3 DEF TakeToSend

\* The publisher sends once, over a connection, and is dropped when done.
LEMMA RunPublisherInv == ClientInv /\ RunPublisher => ClientInv'
<1> SUFFICES ASSUME ClientInv, RunPublisher PROVE ClientInv'
    OBVIOUS
<1>1. /\ task = "Publisher" /\ UNCHANGED connection /\ connection = "Connected"
      /\ client_id_hash \in {None, FxHash["cloudmqtt-0"]}
    BY DEF RunPublisher, client, ClientInv, PlaceInv, IdentityInv
<1>2. CASE (\E t \in Now : PublisherSend(t)) /\ Proceed
  <2>1. PICK t \in Now : PublisherSend(t)
      BY <1>2
  <2>2. /\ IsConnected /\ UNCHANGED <<client_id_hash, client_pis>>
        /\ handle' = Publisher("Done", None)
        /\ inner_run_PublishPacket(t, handle.packet, "publish", FALSE)
      BY <1>1, <2>1 DEF PublisherSend, ClientInv, PlaceInv, PublisherIsDone
  <2>3. StoreOK' /\ PublisherIsDone'
      BY <2>2 DEF ClientInv, StoreOK, NoStaleUsage, PublisherIsDone, Publisher
  <2>4. panic' = NotPanicked /\ action' = SendPacket(handle.packet)
      BY <2>2 DEF inner_run_PublishPacket, IsConnected, IsDisconnected, IsConnecting, Returns
  <2>5. action' # NoAction /\ action'.do \in MachineReturns
      BY <2>4 DEF SendPacket, NoAction, MachineReturns
  <2> QED BY <1>1, <1>2, <2>2, <2>3, <2>4, <2>5, ProceedInv DEF NotPanicked
<1>3. CASE DropHandle /\ task' = "Run"
  <2>1. /\ UNCHANGED <<client_id_hash, client_pis>>
        /\ handle' = NoHandle /\ panic' = NotPanicked
      BY <1>3 DEF DropHandle, Returns, data
  <2>2. StoreOK'
      BY <2>1 DEF ClientInv, StoreOK, NoStaleUsage
  <2>3. PlaceInv' /\ IdentityInv' /\ PanicInv' /\ EndInv'
      BY <1>1, <1>3, <2>1
         DEF PlaceInv, Places, IdentityInv, PanicInv, MachineIsAskedInTime, NotPanicked, EndInv
  <2> QED BY <2>2, <2>3 DEF ClientInv
<1> QED BY <1>2, <1>3 DEF RunPublisher

\* run never panics.
LEMMA RunMachineInv == ClientInv /\ RunMachine => ClientInv'
<1> SUFFICES ASSUME ClientInv, RunMachine PROVE ClientInv'
    OBVIOUS
<1>1. PICK t \in Now : run(t)
    BY DEF RunMachine
<1>2. /\ task = "Run" /\ Proceed /\ UNCHANGED connection
      /\ handle = NoHandle /\ connection = "Connected"
      /\ client_id_hash \in {None, FxHash["cloudmqtt-0"]}
    BY DEF RunMachine, client, ClientInv, PlaceInv, IdentityInv
<1>3. /\ UNCHANGED <<client_id_hash, handle, client_pis>> /\ panic' = NotPanicked
      /\ action' = NoAction \/ action'.do \in MachineReturns
    BY <1>1 DEF run, Returns, SendPacket, MachineReturns
<1>4. StoreOK'
    BY <1>3 DEF ClientInv, StoreOK, NoStaleUsage
<1> QED BY <1>2, <1>3, <1>4, ProceedInv DEF NotPanicked

\* handle_action leaves the machine alone: it writes, ...
LEMMA HandledInv ==
    ASSUME ClientInv, task = "Handle",
           \/ Handled
           \/ task' = "Panicked" /\ UNCHANGED action /\ action.do = "SendPacket"
           \/ /\ task' = "Unreachable" /\ UNCHANGED action
              /\ action.do \notin {"SendPacket", "NoFurtherAction"},
           action.do # "SaveClientIdentifier" \/ task' = "Unreachable",
           UNCHANGED <<client_id_hash, client_pis, handle, panic, connection>>
    PROVE  ClientInv'
<1>1. StoreOK'
    BY DEF ClientInv, StoreOK, NoStaleUsage
<1>2. connection = "Connected" /\ panic = NotPanicked
      /\ (handle = NoHandle \/ PublisherIsDone)
    BY DEF ClientInv, PlaceInv, PanicInv
<1>3. /\ task' \in {"Publisher", "Select", "Panicked", "Unreachable"}
      /\ task' = "Publisher" => handle # NoHandle
      /\ task' = "Select" => handle = NoHandle
    BY DEF Handled
<1>4. PlaceInv'
    BY <1>2, <1>3 DEF PlaceInv, Places, PublisherIsDone
<1>5. IdentityInv'
    BY <1>3 DEF ClientInv, IdentityInv
<1>6. PanicInv'
    BY <1>2 DEF PanicInv, MachineIsAskedInTime, NotPanicked
<1>7. EndInv'
    BY <1>2, <1>3 DEF ClientInv, EndInv, Handled
<1> QED BY <1>1, <1>4, <1>5, <1>6, <1>7 DEF ClientInv

\* ... hands on, or ends in unreachable!().
LEMMA HandleActionInv == ClientInv /\ (Write \/ Forward \/ Unreachable) => ClientInv'
<1> SUFFICES ASSUME ClientInv, Write \/ Forward \/ Unreachable PROVE ClientInv'
    OBVIOUS
<1>1. CASE Write
    BY <1>1, HandledInv DEF Write, client, data
<1>2. CASE Forward
    BY <1>2, HandledInv DEF Forward, client, data
<1>3. CASE Unreachable
    BY <1>3, HandledInv DEF Unreachable, client, vars, data
<1> QED BY <1>1, <1>2, <1>3

-----------------------------------------------------------------------------
\* The invariant holds in every state, with any number of callers.
THEOREM ClientInvariant == ClientSpec => []ClientInv
<1>1. ClientInv /\ [ClientNext]_clientVars => ClientInv'
  <2> SUFFICES ASSUME ClientInv, [ClientNext]_clientVars PROVE ClientInv'
      OBVIOUS
  <2>1. CASE UNCHANGED clientVars
      BY <2>1, ElsewhereInv DEF clientVars, client, connectionTask
  <2>2. ASSUME NEW u \in Users,
               BeginConnect(u) \/ BeginPublish(u) \/ BeginBuild(u) \/ Lock(u) \/ Send(u)
                 \/ Cancel(u) \/ AddSink(u) \/ AddTopic(u) \/ Built(u)
        PROVE  ClientInv'
      BY <2>2, ElsewhereInv
         DEF BeginConnect, BeginPublish, BeginBuild, Lock, Send, Cancel, AddSink,
             AddTopic, Built, client, connectionTask
  <2>3. ASSUME NEW id \in DOMAIN subscriptions, PollNext(id) \/ DropSubscription(id)
        PROVE  ClientInv'
      BY <2>3, ElsewhereInv DEF PollNext, DropSubscription, client, connectionTask
  <2>4. CASE RouterReceives \/ Deliver
      BY <2>4, ElsewhereInv DEF RouterReceives, Deliver, client, connectionTask
  <2> QED BY <2>1, <2>2, <2>3, <2>4, ConnectInv, SetUnconnectedInv, StartInv,
             ReadPacketInv, ReaderEndsInv, TakeToSendInv, RunPublisherInv,
             RunMachineInv, HandleActionInv DEF ClientNext
<1> QED BY <1>1, ClientInvInit, PTL DEF ClientSpec

(***************************************************************************)
(* handle_connection asks the machine for nothing it answers with a panic, *)
(* but for a SUBSCRIBE when all identifiers are taken.                     *)
(***************************************************************************)
THEOREM MachineAskedInTime == ClientSpec => []MachineIsAskedInTime
<1>1. ClientInv => MachineIsAskedInTime
    BY DEF ClientInv, PanicInv
<1> QED BY <1>1, ClientInvariant, PTL

(***************************************************************************)
(* CoreClient::connection_state and the task never have the machine both,  *)
(* connect finds it disconnected and free of borrows, and it is lost only  *)
(* with a task that ended in a failed write, a panic of the machine or     *)
(* unreachable!().                                                         *)
(***************************************************************************)
THEOREM OneOwnerOrLost == ClientSpec => []MachineHasOneOwnerOrIsLost
<1>1. ASSUME ClientInv PROVE MachineHasOneOwnerOrIsLost
  <2>1. CASE connection = "Unconnected"
      BY <1>1, <2>1 DEF ClientInv, PlaceInv, PanicInv, MachineHasOneOwnerOrIsLost, Idle
  <2>2. CASE connection = "Connected"
      BY <1>1, <2>2 DEF ClientInv, PlaceInv, Places, EndInv, MachineReturns, Running,
                        MachineHasOneOwnerOrIsLost
  <2> QED BY <1>1, <2>1, <2>2 DEF ClientInv, PlaceInv
<1>2. ClientInv => MachineHasOneOwnerOrIsLost
    BY <1>1
<1> QED BY <1>2, ClientInvariant, PTL

-----------------------------------------------------------------------------
SendUsages == [kind : {"Publish", "Subscribe"}, message : Messages \cup {None}]

\* What is on its way through the task.
OrderType ==
    /\ channel \in Seq(SendUsages)
    /\ accepted \in Seq(SendUsages)
    /\ wire \in Seq(SendUsages)
    /\ Running => InHand \in Seq(SendUsages)

\* A call that is about to send has something that can be sent.
CallInv(c) ==
    /\ c = Call(c.op, c.stage, c.message, c.filters, c.id)
    /\ c.stage \in {"Lock", "Send"} =>
          \/ c.op = "Publish" /\ c.message \in Messages
          \/ c.op \in {"Subscribe", "Connect"} /\ c.message = None
    /\ c.stage = "Send" => c.op # "Connect"

CallsInv ==
    /\ calls = [u \in Users |-> calls[u]]
    /\ \A u \in Users : CallInv(calls[u])
    /\ counts = [publishes |-> counts.publishes, builds |-> counts.builds,
                 arrivals |-> counts.arrivals]
    /\ counts.publishes \in Nat

\* A SUBSCRIBE in the channel has no message; a publisher holds a publish.
HandInv ==
    /\ \A i \in DOMAIN channel : channel[i].kind = "Subscribe" => channel[i].message = None
    /\ handle.kind = "Publisher" /\ handle.state = "Send" => handle.packet.type = "Publish"

(***************************************************************************)
(* What the order of the writes needs beyond ClientInv: what is handed on  *)
(* can be told from what is on the wire.                                   *)
(***************************************************************************)
OrderInv == OrderType /\ CallsInv /\ HandInv /\ AcceptedIsWrittenInOrder

\* Moving the next SendUsage along, in terms of sequences.
LEMMA SequenceMoves ==
    \A s, t \in Seq(SendUsages) :
        /\ t # <<>> => s \o <<>> \o t = s \o <<Head(t)>> \o Tail(t)
        /\ \A x \in SendUsages : Append(s, x) \o <<>> \o t = s \o <<x>> \o t
<1> TAKE s, t \in Seq(SendUsages)
<1>1. s \o <<>> = s
    BY ConcatEmptySeq
<1>2. ASSUME NEW x \in SendUsages PROVE Append(s, x) \o <<>> \o t = s \o <<x>> \o t
  <2>1. Append(s, x) = s \o <<x>>
      BY AppendIsConcat
  <2>2. Append(s, x) \in Seq(SendUsages) /\ Append(s, x) \o <<>> = Append(s, x)
      BY ConcatEmptySeq
  <2> QED BY <2>1, <2>2
<1>3. t # <<>> => /\ t = <<Head(t)>> \o Tail(t)
                  /\ <<Head(t)>> \in Seq(SendUsages) /\ Tail(t) \in Seq(SendUsages)
    BY HeadTailProperties, ConcatProperties
<1>4. t # <<>> => (s \o <<Head(t)>>) \o Tail(t) = s \o (<<Head(t)>> \o Tail(t))
    BY <1>3, ConcatAssociative
<1> QED BY <1>1, <1>2, <1>3, <1>4

\* What is appended to the last part is appended to the whole.
LEMMA AppendMoves ==
    \A s, h, t \in Seq(SendUsages), x \in SendUsages :
        Append(s \o h \o t, x) = s \o h \o Append(t, x)
<1> TAKE s, h, t \in Seq(SendUsages), x \in SendUsages
<1> DEFINE sh == s \o h
<1>1. sh \in Seq(SendUsages) /\ <<x>> \in Seq(SendUsages)
    BY ConcatProperties
<1> HIDE DEF sh
<1>2. sh \o t \in Seq(SendUsages)
    BY <1>1, ConcatProperties
<1>3. Append(sh \o t, x) = (sh \o t) \o <<x>> /\ Append(t, x) = t \o <<x>>
    BY <1>2, AppendIsConcat
<1>4. (sh \o t) \o <<x>> = sh \o (t \o <<x>>)
    BY <1>1, ConcatAssociative, SMTT(40)
<1> QED BY <1>3, <1>4 DEF sh

\* A new client has accepted nothing.
LEMMA OrderInvInit == ClientInit => OrderInv
<1> SUFFICES ASSUME ClientInit PROVE OrderInv
    OBVIOUS
<1>1. handle = NoHandle /\ NoHandle.kind = "None" /\ task # "Handle"
    BY DEF ClientInit, Init, NoHandle
<1>2. InHand = <<>>
    BY <1>1 DEF InHand
<1>3. OrderType /\ HandInv
    BY <1>1, <1>2 DEF ClientInit, OrderType, HandInv
<1>4. CallInv(NoCall)
    BY DEF CallInv, NoCall, Call
<1>5. CallsInv
    BY <1>4 DEF ClientInit, CallsInv
<1>6. AcceptedIsWrittenInOrder
    BY <1>2, ConcatEmptySeq DEF ClientInit, AcceptedIsWrittenInOrder
<1> QED BY <1>3, <1>5, <1>6 DEF OrderInv

\* Steps of the callers that hand nothing to the task, of the router and of
\* the subscriptions.
LEMMA ElsewhereOrder ==
    ASSUME OrderInv, UNCHANGED <<vars, connectionTask>>, CallsInv'
    PROVE  OrderInv'
<1>1. InHand' = InHand /\ Running' = Running
    BY DEF InHand, Running, vars, connectionTask
<1> QED BY <1>1
        DEF OrderInv, OrderType, HandInv, AcceptedIsWrittenInOrder, vars, connectionTask

\* A call goes on to another stage, or ends.
LEMMA CallGoesOn ==
    ASSUME CallsInv, NEW u \in Users, NEW c, CallInv(c),
           calls' = [calls EXCEPT ![u] = c],
           UNCHANGED counts
    PROVE  CallsInv'
BY DEF CallsInv

\* build goes from one filter to the next.
LEMMA CallIsBuilt ==
    ASSUME NEW c, CallInv(c), NEW x
    PROVE  /\ CallInv([c EXCEPT !.stage = "Topics", !.id = x])
           /\ c.stage = "Topics" => CallInv([c EXCEPT !.filters = x])
<1>1. c = Call(c.op, c.stage, c.message, c.filters, c.id)
    BY DEF CallInv
<1>2. [c EXCEPT !.stage = "Topics", !.id = x] = Call(c.op, "Topics", c.message, c.filters, x)
  <2>1. [c EXCEPT !.stage = "Topics"] = Call(c.op, "Topics", c.message, c.filters, c.id)
      BY <1>1 DEF Call
  <2>2. [Call(c.op, "Topics", c.message, c.filters, c.id) EXCEPT !.id = x] =
            Call(c.op, "Topics", c.message, c.filters, x)
      BY DEF Call
  <2>3. [c EXCEPT !.stage = "Topics", !.id = x] = [[c EXCEPT !.stage = "Topics"] EXCEPT !.id = x]
      OBVIOUS
  <2> QED BY <2>1, <2>2, <2>3
<1>3. [c EXCEPT !.filters = x] = Call(c.op, c.stage, c.message, x, c.id)
    BY <1>1 DEF Call
<1>4. CallInv(Call(c.op, "Topics", c.message, c.filters, x))
    BY DEF CallInv, Call
<1>5. c.stage = "Topics" => CallInv(Call(c.op, c.stage, c.message, x, c.id))
    BY DEF CallInv, Call
<1> QED BY <1>2, <1>3, <1>4, <1>5

\* The stages of a call, but for the one that sends.
LEMMA CallStages ==
    ASSUME CallsInv, NEW u \in Users,
           BeginConnect(u) \/ BeginPublish(u) \/ BeginBuild(u) \/ Lock(u)
             \/ Cancel(u) \/ AddSink(u) \/ AddTopic(u) \/ Built(u) \/ connect(u)
    PROVE  CallsInv'
<1>1. CallInv(NoCall)
    BY DEF CallInv, NoCall, Call
<1>2. CASE BeginConnect(u)
  <2>1. CallInv(Call("Connect", "Lock", None, <<>>, None))
      BY DEF CallInv, Call
  <2> QED BY <1>2, <2>1, CallGoesOn DEF BeginConnect
<1>3. CASE BeginPublish(u)
  <2>1. \/ UNCHANGED calls
        \/ \E topic \in Topics :
              calls' = [calls EXCEPT ![u] =
                          Call("Publish", "Lock", <<topic, counts'.publishes>>, <<>>, None)]
      BY <1>3 DEF BeginPublish
  <2>2. /\ counts' = [publishes |-> counts.publishes + 1, builds |-> counts.builds,
                      arrivals |-> counts.arrivals]
        /\ counts.publishes < MaxPublishes /\ counts.publishes \in Nat
      BY <1>3 DEF BeginPublish, CallsInv
  <2>3. ASSUME NEW topic \in Topics
        PROVE  CallInv(Call("Publish", "Lock", <<topic, counts'.publishes>>, <<>>, None))
    <3>1. <<topic, counts'.publishes>> \in Messages
        BY <2>2, ClientAssumption
    <3> QED BY <3>1 DEF CallInv, Call
  <2>4. \/ UNCHANGED calls
        \/ \E c : calls' = [calls EXCEPT ![u] = c] /\ CallInv(c)
      BY <2>1, <2>3
  <2> QED BY <2>2, <2>4 DEF CallsInv
<1>4. CASE BeginBuild(u)
  <2>1. \/ UNCHANGED calls
        \/ \E filters \in FilterLists[u] :
              calls' = [calls EXCEPT ![u] = Call("Subscribe", "Lock", None, filters, None)]
      BY <1>4 DEF BeginBuild
  <2>2. /\ counts' = [publishes |-> counts.publishes, builds |-> counts.builds + 1,
                      arrivals |-> counts.arrivals]
        /\ counts.publishes \in Nat
      BY <1>4 DEF BeginBuild, CallsInv
  <2>3. \A filters : CallInv(Call("Subscribe", "Lock", None, filters, None))
      BY DEF CallInv, Call
  <2> QED BY <2>1, <2>2, <2>3 DEF CallsInv
<1>5. CASE Lock(u)
  <2>1. CallInv(calls[u])
      BY DEF CallsInv
  <2>2. CallInv([calls[u] EXCEPT !.stage = "Send"])
      BY <1>5, <2>1 DEF CallInv, Call, Lock
  <2>3. \/ calls' = [calls EXCEPT ![u] = NoCall]
        \/ calls' = [calls EXCEPT ![u] = [calls[u] EXCEPT !.stage = "Send"]]
      BY <1>5 DEF Lock
  <2> QED BY <1>1, <1>5, <2>2, <2>3, CallGoesOn DEF Lock
<1>6. CASE Cancel(u) \/ Built(u) \/ connect(u)
    BY <1>1, <1>6, CallGoesOn DEF Cancel, Built, connect
<1>7. CASE AddSink(u)
  <2>1. CallInv([calls[u] EXCEPT !.stage = "Topics", !.id = Len(subscriptions) + 1])
      BY CallIsBuilt DEF CallsInv
  <2>2. calls' = [calls EXCEPT ![u] =
                    [calls[u] EXCEPT !.stage = "Topics", !.id = Len(subscriptions) + 1]]
      BY <1>7 DEF AddSink, CallsInv
  <2> QED BY <1>7, <2>1, <2>2, CallGoesOn DEF AddSink
<1>8. CASE AddTopic(u)
  <2>1. CallInv([calls[u] EXCEPT !.filters = Tail(calls[u].filters)])
      BY <1>8, CallIsBuilt DEF CallsInv, AddTopic
  <2>2. \/ calls' = [calls EXCEPT ![u] = [calls[u] EXCEPT !.filters = Tail(calls[u].filters)]]
        \/ calls' = [calls EXCEPT ![u] = NoCall]
      BY <1>8 DEF AddTopic
  <2> QED BY <1>1, <1>8, <2>1, <2>2, CallGoesOn DEF AddTopic
<1> QED BY <1>2, <1>3, <1>4, <1>5, <1>6, <1>7, <1>8

\* The first step of a task finds everything empty.
LEMMA ConnectOrder ==
    ASSUME ClientInv, OrderInv, NEW u \in Users, connect(u)
    PROVE  OrderInv'
<1>1. CallsInv'
    BY CallStages DEF OrderInv
<1>2. CASE UNCHANGED connectionTask
    BY <1>1, <1>2, ElsewhereOrder DEF connect
<1>3. CASE /\ connection = "Unconnected" /\ task' = "Starting"
           /\ channel' = <<>> /\ accepted' = <<>> /\ wire' = <<>>
  <2>1. handle' = NoHandle /\ NoHandle.kind = "None"
      BY <1>3 DEF connect, vars, ClientInv, PlaceInv, NoHandle
  <2>2. InHand' = <<>>
      BY <1>3, <2>1 DEF InHand
  <2>3. OrderType' /\ HandInv'
      BY <1>3, <2>1, <2>2 DEF OrderType, HandInv
  <2>4. <<>> = <<>> \o <<>> \o <<>>
      BY ConcatEmptySeq
  <2>5. AcceptedIsWrittenInOrder'
      BY <1>3, <2>2, <2>4 DEF AcceptedIsWrittenInOrder
  <2> QED BY <1>1, <2>3, <2>5 DEF OrderInv
<1> QED BY <1>2, <1>3 DEF connect

\* What a caller is told was accepted is at the end of the channel.
LEMMA SendOrder ==
    ASSUME OrderInv, NEW u \in Users, Send(u)
    PROVE  OrderInv'
<1> DEFINE x == SendUsage(calls[u].op, calls[u].message)
<1>1. CallInv(calls[u]) /\ calls[u].stage = "Send"
    BY DEF OrderInv, CallsInv, Send
<1>2. CallInv(NoCall) /\ CallInv([calls[u] EXCEPT !.stage = "Sink"])
    BY <1>1 DEF CallInv, NoCall, Call
<1>3. /\ x \in SendUsages
      /\ x.kind = "Subscribe" => x.message = None
    BY <1>1 DEF CallInv, SendUsage, SendUsages
<1>4. /\ InHand' = InHand /\ Running' = Running
      /\ UNCHANGED <<vars, task, wire, counts>>
    BY DEF Send, InHand, Running, vars
<1> HIDE DEF x
<1>5. CASE /\ ReceiverAlive
           /\ channel' = Append(channel, x) /\ accepted' = Append(accepted, x)
           /\ calls' = [calls EXCEPT ![u] = IF @.op = "Publish" THEN NoCall
                                            ELSE [@ EXCEPT !.stage = "Sink"]]
  <2>1. CallsInv'
    <3>1. calls' = [calls EXCEPT ![u] = NoCall]
          \/ calls' = [calls EXCEPT ![u] = [calls[u] EXCEPT !.stage = "Sink"]]
        BY <1>5
    <3> QED BY <1>2, <1>4, <3>1, CallGoesOn DEF OrderInv
  <2>2. Running
      BY <1>5 DEF ReceiverAlive
  <2>3. /\ channel \in Seq(SendUsages) /\ accepted \in Seq(SendUsages)
        /\ wire \in Seq(SendUsages) /\ InHand \in Seq(SendUsages)
        /\ accepted = wire \o InHand \o channel
      BY <2>2 DEF OrderInv, OrderType, AcceptedIsWrittenInOrder
  <2>4. accepted' = wire' \o InHand' \o channel'
    <3>1. Append(wire \o InHand \o channel, x) = wire \o InHand \o Append(channel, x)
      <4>1. x \in SendUsages /\ wire \in Seq(SendUsages) /\ InHand \in Seq(SendUsages)
            /\ channel \in Seq(SendUsages)
          BY <1>3, <2>3
      <4> QED BY <4>1, AppendMoves, ZenonT(60)
    <3> QED BY <1>4, <1>5, <2>3, <3>1
  <2>5. OrderType'
      BY <1>3, <1>4, <1>5, <2>3 DEF OrderType
  <2>6. HandInv'
    <3>1. \A i \in DOMAIN channel' : channel'[i].kind = "Subscribe" => channel'[i].message = None
      <4> SUFFICES ASSUME NEW i \in DOMAIN channel', channel'[i].kind = "Subscribe"
                   PROVE  channel'[i].message = None
          OBVIOUS
      <4>1. channel'[i] = x \/ (i \in DOMAIN channel /\ channel'[i] = channel[i])
          BY <1>3, <1>5, <2>3, AppendProperties
      <4> QED BY <1>3, <4>1 DEF OrderInv, HandInv
    <3> QED BY <1>4, <3>1 DEF OrderInv, HandInv, vars
  <2> QED BY <2>1, <2>4, <2>5, <2>6 DEF OrderInv, AcceptedIsWrittenInOrder
<1>6. CASE calls' = [calls EXCEPT ![u] = NoCall] /\ UNCHANGED <<channel, accepted>>
  <2>1. CallsInv'
      BY <1>2, <1>4, <1>6, CallGoesOn DEF OrderInv
  <2> QED BY <1>4, <1>6, <2>1, ElsewhereOrder DEF connectionTask
<1> QED BY <1>5, <1>6 DEF Send, x

\* A step of the task that neither takes from the channel nor writes, and has
\* nothing in hand before and after it.
LEMMA EmptyHandOrder ==
    ASSUME OrderInv, UNCHANGED <<channel, accepted, wire, calls>>, CallsInv',
           Running, InHand = <<>>,
           Running' => InHand' = <<>>,
           ~(handle'.kind = "Publisher" /\ handle'.state = "Send")
    PROVE  OrderInv'
BY DEF OrderInv, OrderType, HandInv, AcceptedIsWrittenInOrder

\* The CONNECT is not something a caller sent.
LEMMA StartOrder == ClientInv /\ OrderInv /\ Start => OrderInv'
<1> SUFFICES ASSUME ClientInv, OrderInv, Start PROVE OrderInv'
    OBVIOUS
<1>1. PICK t \in Instants : handle_connect(t, ConnectPacket("cloudmqtt-0", 0))
    BY DEF Start
<1>2. task = "Starting" /\ handle = NoHandle /\ handle' = NoHandle /\ NoHandle.kind = "None"
    BY <1>1 DEF Start, ClientInv, PlaceInv, handle_connect, NoHandle
<1>3. action' = NoAction \/ action' = SendPacket(ConnectPacket("cloudmqtt-0", 0))
    BY <1>1 DEF handle_connect, Returns, Panics
<1>4. ~(action'.do = "SendPacket" /\ action'.packet.type \in {"Publish", "Subscribe"})
    BY <1>3 DEF NoAction, SendPacket, ConnectPacket
<1>5. InHand = <<>> /\ InHand' = <<>>
    BY <1>2, <1>4 DEF InHand
<1>6. CallsInv' /\ Running
    BY <1>2 DEF Start, OrderInv, CallsInv, Running
<1> QED BY <1>2, <1>5, <1>6, EmptyHandOrder DEF Start

\* Nothing that consume returns is sent.
LEMMA ConsumeSendsNothing ==
    ASSUME NEW t, NEW packet, consume(t, packet)
    PROVE  action'.do # "SendPacket"
<1>1. CASE Returns(NoAction)
    BY <1>1 DEF Returns, NoAction
<1>2. CASE ConsumeConnecting(t, packet)
    BY <1>2 DEF ConsumeConnecting, Returns, Panics, NoAction, SaveClientIdentifier
<1>3. CASE ConsumeConnected(t, packet)
    BY <1>3 DEF ConsumeConnected, ConsumePublish, ConsumeAck, ConsumePingresp,
                ConsumeDisconnect, Returns, Panics, NoAction, NoFurtherAction,
                AcknowledgeNeeded, ReleasePacket, DisconnectAction
<1> QED BY <1>1, <1>2, <1>3 DEF consume

\* Reading a packet leaves nothing to write.
LEMMA ReadPacketOrder == ClientInv /\ OrderInv /\ ReadPacket => OrderInv'
<1> SUFFICES ASSUME ClientInv, OrderInv, ReadPacket PROVE OrderInv'
    OBVIOUS
<1>1. PICK t \in Now, packet \in IncomingPackets :
          /\ consume(t, packet)
          /\ counts' = [counts EXCEPT !.arrivals =
                          IF packet.type = "Publish" THEN @ + 1 ELSE @]
    BY DEF ReadPacket
<1>2. task = "Select" /\ handle = NoHandle /\ handle' = NoHandle /\ NoHandle.kind = "None"
    BY <1>1 DEF ReadPacket, ClientInv, PlaceInv, consume, NoHandle
<1>3. InHand = <<>> /\ InHand' = <<>>
    BY <1>1, <1>2, ConsumeSendsNothing DEF InHand
<1>4. CallsInv' /\ Running
    BY <1>1, <1>2 DEF ReadPacket, OrderInv, CallsInv, Running
<1> QED BY <1>2, <1>3, <1>4, EmptyHandOrder DEF ReadPacket

\* A PINGREQ is not something a caller sent.
LEMMA RunMachineOrder == ClientInv /\ OrderInv /\ RunMachine => OrderInv'
<1> SUFFICES ASSUME ClientInv, OrderInv, RunMachine PROVE OrderInv'
    OBVIOUS
<1>1. PICK t \in Now : run(t)
    BY DEF RunMachine
<1>2. task = "Run" /\ handle = NoHandle /\ handle' = NoHandle /\ NoHandle.kind = "None"
    BY <1>1 DEF RunMachine, ClientInv, PlaceInv, run, NoHandle
<1>3. action' = NoAction \/ action' = SendPacket(PingreqPacket)
    BY <1>1 DEF run, Returns
<1>4. ~(action'.do = "SendPacket" /\ action'.packet.type \in {"Publish", "Subscribe"})
    BY <1>3 DEF NoAction, SendPacket, PingreqPacket
<1>5. InHand = <<>> /\ InHand' = <<>>
    BY <1>2, <1>4 DEF InHand
<1>6. CallsInv' /\ Running
    BY <1>2 DEF RunMachine, OrderInv, CallsInv, Running
<1> QED BY <1>2, <1>5, <1>6, EmptyHandOrder DEF RunMachine

\* The end of a task, of whatever kind, leaves nothing to show.
LEMMA TaskEndsOrder ==
    ASSUME OrderInv, ~Running', UNCHANGED <<channel, accepted, wire, calls, counts, handle>>
    PROVE  OrderInv'
BY DEF OrderInv, OrderType, CallsInv, HandInv, AcceptedIsWrittenInOrder

\* What is taken from the channel is in hand.
LEMMA TakeToSendOrder == ClientInv /\ OrderInv /\ TakeToSend => OrderInv'
<1> SUFFICES ASSUME ClientInv, OrderInv, TakeToSend PROVE OrderInv'
    OBVIOUS
<1> DEFINE x == Head(channel)
<1>1. /\ task = "Select" /\ handle = NoHandle /\ NoHandle.kind = "None"
      /\ channel # <<>> /\ channel' = Tail(channel)
      /\ UNCHANGED <<accepted, wire, calls, counts>>
    BY DEF TakeToSend, RestOfChannel, ClientInv, PlaceInv, NoHandle
<1>2. InHand = <<>> /\ Running
    BY <1>1 DEF InHand, Running
<1>3. /\ channel \in Seq(SendUsages) /\ wire \in Seq(SendUsages)
      /\ accepted \in Seq(SendUsages) /\ accepted = wire \o <<>> \o channel
    BY <1>2 DEF OrderInv, OrderType, AcceptedIsWrittenInOrder
<1>4. /\ x \in SendUsages /\ channel' \in Seq(SendUsages)
      /\ x.kind = "Subscribe" => x.message = None
      /\ \A i \in DOMAIN channel' : i + 1 \in DOMAIN channel /\ channel'[i] = channel[i + 1]
    BY <1>1, <1>3, HeadTailProperties DEF OrderInv, HandInv
<1>5. \A i \in DOMAIN channel' : channel'[i].kind = "Subscribe" => channel'[i].message = None
    BY <1>4 DEF OrderInv, HandInv
<1>6. accepted' = wire' \o <<x>> \o channel'
    BY <1>1, <1>3, SequenceMoves
<1>7. CallsInv'
    BY <1>1 DEF OrderInv, CallsInv
<1> HIDE DEF x
<1>8. CASE x.kind = "Publish" /\ publish(PublishPacket("AtMostOnce", None, x.message))
  <2>1. handle' = Publisher("Send", PublishPacket("AtMostOnce", None, x.message))
      BY <1>8 DEF publish, PublishPacket
  <2>2. /\ handle'.kind = "Publisher" /\ handle'.state = "Send"
        /\ handle'.packet.type = "Publish" /\ handle'.packet.message = x.message
      BY <2>1 DEF Publisher, PublishPacket
  <2>3. x = SendUsage("Publish", x.message)
      BY <1>4, <1>8 DEF SendUsage, SendUsages
  <2>4. InHand' = <<x>>
      BY <2>2, <2>3 DEF InHand
  <2> QED BY <1>1, <1>3, <1>4, <1>5, <1>6, <1>7, <2>2, <2>4
          DEF OrderInv, OrderType, HandInv, AcceptedIsWrittenInOrder
<1>9. CASE x.kind = "Subscribe" /\ (\E t \in Now : subscribe(t)) /\ Proceed
  <2>1. PICK t \in Now : subscribe(t)
      BY <1>9
  <2>2. handle' = NoHandle /\ IsConnected
      BY <1>1, <2>1 DEF subscribe, TakeToSend, MayReceive
  <2>3. CASE panic' # NotPanicked
    <3>1. task' = "Panicked"
        BY <1>9, <2>3 DEF Proceed
    <3> QED BY <1>1, <1>3, <1>4, <1>5, <1>7, <2>2, <3>1
            DEF OrderInv, OrderType, HandInv, AcceptedIsWrittenInOrder, Running
  <2>4. CASE panic' = NotPanicked
    <3>1. PICK id \in PacketIdentifiers \cup {None} :
              inner_run_PublishPacket(t, SubscribePacket(id), "subscribe", TRUE)
        BY <2>1, <2>4 DEF subscribe, Panics, NotPanicked
    <3>2. action' = SendPacket(SubscribePacket(id))
        BY <2>2, <3>1
           DEF inner_run_PublishPacket, IsConnected, IsDisconnected, IsConnecting, Returns
    <3>3. /\ action' # NoAction /\ action'.do = "SendPacket"
          /\ action'.packet.type = "Subscribe"
        BY <3>2 DEF NoAction, SendPacket, SubscribePacket
    <3>4. task' = "Handle"
        BY <1>9, <2>4, <3>3 DEF Proceed
    <3>5. x = SendUsage("Subscribe", None)
        BY <1>4, <1>9 DEF SendUsage, SendUsages
    <3>6. InHand' = <<x>>
        BY <1>1, <2>2, <3>3, <3>4, <3>5 DEF InHand
    <3> QED BY <1>1, <1>3, <1>4, <1>5, <1>6, <1>7, <2>2, <3>6
            DEF OrderInv, OrderType, HandInv, AcceptedIsWrittenInOrder
  <2> QED BY <2>3, <2>4
<1> QED BY <1>8, <1>9 DEF TakeToSend, x

\* The publisher hands its packet on.
LEMMA RunPublisherOrder == ClientInv /\ OrderInv /\ RunPublisher => OrderInv'
<1> SUFFICES ASSUME ClientInv, OrderInv, RunPublisher PROVE OrderInv'
    OBVIOUS
<1>1. /\ task = "Publisher" /\ Running
      /\ UNCHANGED <<channel, accepted, wire, calls, counts>>
    BY DEF RunPublisher, Running
<1>2. CallsInv'
    BY <1>1 DEF OrderInv, CallsInv
<1>3. CASE (\E t \in Now : PublisherSend(t)) /\ Proceed
  <2>1. PICK t \in Now : PublisherSend(t)
      BY <1>3
  <2>2. /\ IsConnected
        /\ handle.kind = "Publisher" /\ handle.state = "Send"
        /\ handle.packet.type = "Publish"
        /\ handle' = Publisher("Done", None)
        /\ inner_run_PublishPacket(t, handle.packet, "publish", FALSE)
      BY <1>1, <2>1
         DEF PublisherSend, ClientInv, PlaceInv, PublisherIsDone, OrderInv, HandInv
  <2>3. panic' = NotPanicked /\ action' = SendPacket(handle.packet)
      BY <2>2 DEF inner_run_PublishPacket, IsConnected, IsDisconnected, IsConnecting, Returns
  <2>4. /\ action' # NoAction /\ action'.do = "SendPacket"
        /\ action'.packet = handle.packet /\ handle'.state = "Done"
      BY <2>2, <2>3 DEF NoAction, SendPacket, Publisher
  <2>5. task' = "Handle"
      BY <1>3, <2>3, <2>4 DEF Proceed
  <2>6. InHand' = InHand
      BY <2>2, <2>4, <2>5 DEF InHand
  <2> QED BY <1>1, <1>2, <2>4, <2>6
          DEF OrderInv, OrderType, HandInv, AcceptedIsWrittenInOrder
<1>4. CASE handle.state = "Done" /\ DropHandle /\ task' = "Run"
  <2>1. handle' = NoHandle /\ NoHandle.kind = "None"
      BY <1>4 DEF DropHandle, NoHandle
  <2>2. InHand = <<>> /\ InHand' = <<>>
      BY <1>1, <1>4, <2>1 DEF InHand
  <2> QED BY <1>1, <1>2, <2>1, <2>2, EmptyHandOrder
<1> QED BY <1>3, <1>4 DEF RunPublisher

\* What was in hand is on the wire.
LEMMA WriteOrder == ClientInv /\ OrderInv /\ Write => OrderInv'
<1> SUFFICES ASSUME ClientInv, OrderInv, Write PROVE OrderInv'
    OBVIOUS
<1>1. /\ task = "Handle" /\ Running /\ action.do = "SendPacket"
      /\ ~(handle.kind = "Publisher" /\ handle.state = "Send")
      /\ UNCHANGED <<channel, accepted, calls, counts, handle>>
    BY DEF Write, Running, ClientInv, PlaceInv, PublisherIsDone, NoHandle
<1>2. CASE task' = "Panicked" /\ UNCHANGED wire
    BY <1>1, <1>2, TaskEndsOrder DEF Running
<1>3. CASE /\ Handled
           /\ wire' = IF action.packet.type = "Publish"
                      THEN Append(wire, SendUsage("Publish", action.packet.message))
                      ELSE IF action.packet.type = "Subscribe"
                      THEN Append(wire, SendUsage("Subscribe", None))
                      ELSE wire
  <2>1. CallsInv'
      BY <1>1 DEF OrderInv, CallsInv
  <2>2. InHand' = <<>>
      BY <1>1, <1>3 DEF InHand, Handled
  <2>3. /\ channel \in Seq(SendUsages) /\ wire \in Seq(SendUsages)
        /\ accepted \in Seq(SendUsages) /\ InHand \in Seq(SendUsages)
        /\ accepted = wire \o InHand \o channel
      BY <1>1 DEF OrderInv, OrderType, AcceptedIsWrittenInOrder
  <2>4. CASE InHand = <<>> /\ wire' = wire
      BY <1>1, <2>1, <2>2, <2>3, <2>4
         DEF OrderInv, OrderType, HandInv, AcceptedIsWrittenInOrder
  <2>5. ASSUME NEW x, InHand = <<x>>, wire' = Append(wire, x)
        PROVE  OrderInv'
    <3>1. x \in SendUsages
        BY <2>3, <2>5, ElementOfSeq
    <3>2. wire' \in Seq(SendUsages) /\ accepted' = wire' \o InHand' \o channel'
      <4>1. Append(wire, x) \o <<>> \o channel = wire \o <<x>> \o channel
          BY <2>3, <3>1, SequenceMoves
      <4>2. Append(wire, x) \in Seq(SendUsages)
          BY <2>3, <3>1
      <4> QED BY <1>1, <2>2, <2>3, <2>5, <4>1, <4>2
    <3>3. OrderType'
        BY <1>1, <2>2, <2>3, <3>2 DEF OrderType
    <3>4. HandInv'
        BY <1>1 DEF OrderInv, HandInv
    <3>5. AcceptedIsWrittenInOrder'
        BY <3>2 DEF AcceptedIsWrittenInOrder
    <3> QED BY <2>1, <3>3, <3>4, <3>5 DEF OrderInv
  <2>6. \/ InHand = <<>> /\ wire' = wire
        \/ /\ InHand = <<SendUsage("Publish", action.packet.message)>>
           /\ wire' = Append(wire, SendUsage("Publish", action.packet.message))
        \/ /\ InHand = <<SendUsage("Subscribe", None)>>
           /\ wire' = Append(wire, SendUsage("Subscribe", None))
      BY <1>1, <1>3 DEF InHand
  <2> QED BY <2>4, <2>5, <2>6
<1> QED BY <1>2, <1>3 DEF Write

\* A publish of the server is not written.
LEMMA ForwardOrder == ClientInv /\ OrderInv /\ Forward => OrderInv'
<1> SUFFICES ASSUME ClientInv, OrderInv, Forward PROVE OrderInv'
    OBVIOUS
<1>1. /\ task = "Handle" /\ Running /\ action.do = "NoFurtherAction"
      /\ ~(handle.kind = "Publisher" /\ handle.state = "Send")
      /\ UNCHANGED <<channel, accepted, wire, calls, counts, handle>>
    BY DEF Forward, Running, ClientInv, PlaceInv, PublisherIsDone, NoHandle
<1>2. InHand = <<>> /\ InHand' = <<>>
    BY <1>1 DEF InHand, Forward, Handled
<1>3. CallsInv'
    BY <1>1 DEF OrderInv, CallsInv
<1> QED BY <1>1, <1>2, <1>3, EmptyHandOrder

\* The order of the writes is kept by every step.
THEOREM OrderInvariant == ClientSpec => [](ClientInv /\ OrderInv)
<1>1. ClientInv /\ OrderInv /\ [ClientNext]_clientVars => OrderInv'
  <2> SUFFICES ASSUME ClientInv, OrderInv, [ClientNext]_clientVars PROVE OrderInv'
      OBVIOUS
  <2>0. UNCHANGED <<calls, counts>> => CallsInv'
      BY DEF OrderInv, CallsInv
  <2>1. CASE UNCHANGED clientVars
      BY <2>0, <2>1, ElsewhereOrder DEF clientVars
  <2>2. ASSUME NEW u \in Users,
               BeginConnect(u) \/ BeginPublish(u) \/ BeginBuild(u) \/ Lock(u)
                 \/ Cancel(u) \/ AddSink(u) \/ AddTopic(u) \/ Built(u)
        PROVE  OrderInv'
    <3>1. CallsInv'
        BY <2>2, CallStages DEF OrderInv
    <3>2. UNCHANGED <<vars, connectionTask>>
        BY <2>2 DEF BeginConnect, BeginPublish, BeginBuild, Lock, Cancel, AddSink,
                    AddTopic, Built
    <3> QED BY <3>1, <3>2, ElsewhereOrder
  <2>3. ASSUME NEW id \in DOMAIN subscriptions, PollNext(id) \/ DropSubscription(id)
        PROVE  OrderInv'
      BY <2>0, <2>3, ElsewhereOrder DEF PollNext, DropSubscription
  <2>4. CASE RouterReceives \/ Deliver
      BY <2>0, <2>4, ElsewhereOrder DEF RouterReceives, Deliver
  <2>5. CASE ReaderEnds
      BY <2>5, TaskEndsOrder DEF ReaderEnds, connection_lost, Running
  <2>6. CASE SetUnconnected
      BY <2>6, TaskEndsOrder DEF SetUnconnected, Running, vars
  <2>7. CASE Unreachable
      BY <2>7, TaskEndsOrder DEF Unreachable, Running, vars
  <2> QED BY <2>1, <2>2, <2>3, <2>4, <2>5, <2>6, <2>7, ConnectOrder, SendOrder,
             StartOrder, ReadPacketOrder, TakeToSendOrder, RunPublisherOrder,
             RunMachineOrder, WriteOrder, ForwardOrder DEF ClientNext
<1> QED BY <1>1, OrderInvInit, ClientInvariant, PTL DEF ClientSpec

(***************************************************************************)
(* What publish and subscribe returned Ok for is written once and in that  *)
(* order, as long as the task of the connection runs, for any number of    *)
(* callers, cancelled calls and refused connects.                          *)
(***************************************************************************)
THEOREM AcceptedWrittenInOrder == ClientSpec => []AcceptedIsWrittenInOrder
<1>1. OrderInv => AcceptedIsWrittenInOrder
    BY DEF OrderInv
<1> QED BY <1>1, OrderInvariant, PTL

-----------------------------------------------------------------------------
(***************************************************************************)
(* The router delivers in order: whatever the server sends, however many   *)
(* subscriptions are built, read and dropped meanwhile and however often   *)
(* the connection is replaced.  The proofs rest on ClientInv and OrderInv. *)
(***************************************************************************)

\* How often x is in the sequence s.
Occurs(s, x) == Cardinality({i \in DOMAIN s : s[i] = x})

\* It is a number, and zero only if x is not in s.
LEMMA OccursNat ==
    ASSUME NEW S, NEW s \in Seq(S), NEW x
    PROVE  /\ IsFiniteSet({i \in DOMAIN s : s[i] = x})
           /\ Occurs(s, x) \in Nat
           /\ (\A i \in DOMAIN s : s[i] # x) => Occurs(s, x) = 0
<1> DEFINE M == {i \in DOMAIN s : s[i] = x}
<1>1. DOMAIN s = 1 .. Len(s) /\ Len(s) \in Nat
    BY LenProperties
<1>2. IsFiniteSet(1 .. Len(s))
    BY <1>1, FS_Interval
<1>3. M \subseteq 1 .. Len(s)
    BY <1>1
<1>4. (\A i \in DOMAIN s : s[i] # x) => M = {}
    OBVIOUS
<1>5. Occurs(s, x) = Cardinality(M)
    BY DEF Occurs
<1> HIDE DEF M
<1>6. IsFiniteSet(M) /\ Cardinality(M) \in Nat
    BY <1>2, <1>3, FS_Subset, FS_CardinalityType
<1>7. M = {} => Cardinality(M) = 0
    BY <1>6, FS_EmptySet
<1> QED BY <1>4, <1>5, <1>6, <1>7 DEF M

\* Nothing occurs in the empty sequence.
LEMMA OccursEmpty == \A x : Occurs(<<>>, x) = 0
<1>1. <<>> \in Seq({}) /\ DOMAIN <<>> = {}
    OBVIOUS
<1> QED BY <1>1, OccursNat

\* What is appended occurs once more.
LEMMA OccursAppend ==
    ASSUME NEW S, NEW s \in Seq(S), NEW y \in S, NEW x
    PROVE  Occurs(Append(s, y), x) = Occurs(s, x) + (IF y = x THEN 1 ELSE 0)
<1> DEFINE r == Append(s, y)
           M == {i \in DOMAIN s : s[i] = x}
           N == {i \in DOMAIN r : r[i] = x}
<1>0. Occurs(s, x) = Cardinality(M) /\ Occurs(r, x) = Cardinality(N)
    BY DEF Occurs
<1>1. /\ r \in Seq(S) /\ Len(r) = Len(s) + 1
      /\ \A i \in 1 .. Len(s) : r[i] = s[i]
      /\ r[Len(s) + 1] = y
    BY AppendProperties
<1>2. DOMAIN s = 1 .. Len(s) /\ DOMAIN r = 1 .. Len(s) + 1 /\ Len(s) \in Nat
    BY <1>1, LenProperties
<1>3. IsFiniteSet(M) /\ Cardinality(M) \in Nat
    BY OccursNat DEF Occurs
<1>4. Len(s) + 1 \notin M
    BY <1>2
<1>5. CASE y = x
  <2>1. N = M \cup {Len(s) + 1}
      BY <1>1, <1>2, <1>5
  <2> HIDE DEF M, N
  <2>2. Cardinality(N) = Cardinality(M) + 1
      BY <1>3, <1>4, <2>1, FS_AddElement
  <2> QED BY <1>0, <1>5, <2>2
<1>6. CASE y # x
  <2>1. N = M
      BY <1>1, <1>2, <1>6
  <2> HIDE DEF M, N
  <2> QED BY <1>0, <1>3, <1>6, <2>1
<1> QED BY <1>5, <1>6

\* What is taken from the front occurs once less.
LEMMA OccursTail ==
    ASSUME NEW S, NEW s \in Seq(S), s # <<>>, NEW x
    PROVE  Occurs(s, x) = Occurs(Tail(s), x) + (IF Head(s) = x THEN 1 ELSE 0)
<1> DEFINE r == Tail(s)
           M == {i \in DOMAIN s : s[i] = x}
           N == {i \in DOMAIN r : r[i] = x}
           shift == [i \in N |-> i + 1]
<1>0. Occurs(s, x) = Cardinality(M) /\ Occurs(r, x) = Cardinality(N)
    BY DEF Occurs
<1>1. /\ r \in Seq(S) /\ Len(r) = Len(s) - 1
      /\ \A i \in 1 .. Len(r) : r[i] = s[i + 1]
    BY HeadTailProperties
<1>2. /\ DOMAIN s = 1 .. Len(s) /\ DOMAIN r = 1 .. Len(s) - 1
      /\ Len(s) \in Nat \ {0} /\ Head(s) = s[1]
    BY <1>1, LenProperties, EmptySeq
<1>3. IsFiniteSet(M) /\ IsFiniteSet(N) /\ Cardinality(M) \in Nat /\ Cardinality(N) \in Nat
    BY <1>1, OccursNat, Zenon DEF Occurs
<1>4. shift \in Bijection(N, M \ {1})
  <2>1. \A i \in N : i + 1 \in M \ {1}
      BY <1>1, <1>2
  <2>2. \A j \in M \ {1} : j - 1 \in N /\ j = (j - 1) + 1
      BY <1>1, <1>2
  <2>3. \A i, j \in N : i + 1 = j + 1 => i = j
      BY <1>2
  <2>4. shift \in [N -> M \ {1}]
      BY <2>1
  <2>5. \A j \in M \ {1} : \E i \in N : shift[i] = j
      BY <2>2
  <2>6. \A i, j \in N : shift[i] = shift[j] => i = j
      BY <2>3
  <2> QED BY <2>4, <2>5, <2>6 DEF Bijection, Injection, Surjection, IsInjective
<1>5. 1 \in M <=> Head(s) = x
    BY <1>2
<1> HIDE DEF M, N, shift
<1>6. Cardinality(M \ {1}) = Cardinality(N)
    BY <1>3, <1>4, FS_Bijection, Zenon DEF ExistsBijection
<1>7. Cardinality(M \ {1}) = IF 1 \in M THEN Cardinality(M) - 1 ELSE Cardinality(M)
    BY <1>3, FS_RemoveElement
<1> QED BY <1>0, <1>3, <1>5, <1>6, <1>7

\* Nothing occurs more often in the first part than in the whole.
LEMMA OccursPrefix ==
    ASSUME NEW S, NEW s \in Seq(S), NEW t \in Seq(S), NEW x
    PROVE  Occurs(s, x) <= Occurs(s \o t, x)
<1> DEFINE r == s \o t
           M == {i \in DOMAIN s : s[i] = x}
           N == {i \in DOMAIN r : r[i] = x}
<1>1. /\ r \in Seq(S) /\ Len(r) = Len(s) + Len(t)
      /\ \A i \in 1 .. Len(s) : r[i] = s[i]
    BY ConcatProperties
<1>2. DOMAIN s = 1 .. Len(s) /\ DOMAIN r = 1 .. Len(s) + Len(t) /\ Len(s) \in Nat /\ Len(t) \in Nat
    BY <1>1, LenProperties
<1>3. M \subseteq N
    BY <1>1, <1>2
<1>4. IsFiniteSet(N)
    BY <1>1, OccursNat
<1>5. Occurs(s, x) = Cardinality(M) /\ Occurs(r, x) = Cardinality(N)
    BY DEF Occurs
<1> HIDE DEF M, N
<1> QED BY <1>3, <1>4, <1>5, FS_Subset

\* A queue is filled at its end and read from its front.
LEMMA QueueMoves ==
    ASSUME NEW S, NEW s \in Seq(S), NEW t \in Seq(S)
    PROVE  /\ s \o t \in Seq(S) /\ s \o <<>> = s
           /\ \A x \in S : s \o Append(t, x) = Append(s \o t, x)
           /\ t # <<>> => Append(s, Head(t)) \o Tail(t) = s \o t
<1>1. s \o t \in Seq(S) /\ s \o <<>> = s
    BY ConcatProperties, ConcatEmptySeq
<1>2. ASSUME NEW x \in S PROVE s \o Append(t, x) = Append(s \o t, x)
  <2>1. <<x>> \in Seq(S) /\ Append(t, x) = t \o <<x>> /\ Append(s \o t, x) = (s \o t) \o <<x>>
      BY <1>1, AppendIsConcat
  <2> QED BY <2>1, ConcatAssociative
<1>3. ASSUME t # <<>> PROVE Append(s, Head(t)) \o Tail(t) = s \o t
  <2>1. /\ Head(t) \in S /\ Tail(t) \in Seq(S) /\ <<Head(t)>> \in Seq(S)
        /\ t = <<Head(t)>> \o Tail(t)
      BY <1>3, HeadTailProperties, ConcatProperties
  <2>2. Append(s, Head(t)) = s \o <<Head(t)>>
      BY <2>1, AppendIsConcat
  <2>3. (s \o <<Head(t)>>) \o Tail(t) = s \o (<<Head(t)>> \o Tail(t))
      BY <2>1, ConcatAssociative
  <2> QED BY <2>1, <2>2, <2>3
<1> QED BY <1>1, <1>2, <1>3

\* What is read moves from the front of the queue to what was read before.
LEMMA QueueRead ==
    ASSUME NEW S, NEW s \in Seq(S), NEW t \in Seq(S), t # <<>>
    PROVE  /\ Tail(t) \in Seq(S) /\ Append(s, Head(t)) \in Seq(S)
           /\ Append(s, Head(t)) \o Tail(t) = s \o t
<1>1. Tail(t) \in Seq(S) /\ Head(t) \in S
    BY HeadTailProperties
<1> QED BY <1>1, QueueMoves

-----------------------------------------------------------------------------
\* What a subscription has been given, read or not.
Given(sub) == sub.got \o sub.queue

\* The task holds a publish of the server, the router delivers one.
Forwarding == task = "Handle" /\ action.do = "NoFurtherAction"
Routing == routing.ids # <<>>

\* m arrived before everything that has still to reach the router.
Older(m) ==
    /\ m[2] \in Nat /\ m[2] <= counts.arrivals
    /\ Forwarding => m[2] < counts.arrivals
    /\ \A i \in DOMAIN incoming : m[2] < incoming[i][2]

Sinks ==
    [receiver : {"Building", "Open", "Dropped"},
     queue : Seq(Messages), got : Seq(Messages), filters : Seq(Filters)]

Routes(Ids) == [message : Messages, filter : ValidFilters, ids : Seq(Ids) \ {<<>>}]

RouteType ==
    /\ counts.arrivals \in Nat
    /\ incoming \in Seq(Messages)
    /\ subscriptions \in Seq(Sinks)
    /\ subscription_topics \in [Filters -> Seq(DOMAIN subscriptions)]
    /\ routing = NoRoute \/ routing \in Routes(DOMAIN subscriptions)
    /\ \A u \in Users : calls[u].filters \in Seq(Filters)

\* On the way to the router the publishes are in the order of their arrival.
IncomingInv ==
    /\ Forwarding => /\ action.packet.message \in Messages
                     /\ action.packet.message[2] = counts.arrivals
    /\ \A i \in DOMAIN incoming :
          /\ incoming[i][2] \in Nat /\ incoming[i][2] <= counts.arrivals
          /\ Forwarding => incoming[i][2] < counts.arrivals
          /\ \A j \in DOMAIN incoming : i < j => incoming[i][2] < incoming[j][2]
    /\ Routing => Older(routing.message) /\ routing.filter \in Matching[routing.message[1]]

\* A subscription is registered for a filter at most as often as it names it,
\* what its build has still to register included.
TopicsInv ==
    /\ \A id \in DOMAIN subscriptions, f \in Filters :
          Occurs(subscription_topics[f], id) <= Occurs(subscriptions[id].filters, f)
    /\ \A u \in Users : calls[u].stage = "Topics" =>
          /\ calls[u].id \in DOMAIN subscriptions
          /\ \A f \in Filters :
                Occurs(subscription_topics[f], calls[u].id) + Occurs(calls[u].filters, f)
                    <= Occurs(subscriptions[calls[u].id].filters, f)
          /\ \A v \in Users : calls[v].stage = "Topics" /\ calls[v].id = calls[u].id => v = u

\* The publish that is being delivered is the youngest a subscription has, and
\* with the turns that are left it is not given it too often.
GivenInv(id) ==
    LET given == Given(subscriptions[id])
        named(f) == Occurs(subscriptions[id].filters, f)
    IN  /\ \A i, j \in DOMAIN given : i < j => given[i][2] <= given[j][2]
        /\ \A i \in DOMAIN given :
              /\ Older(given[i])
              /\ \E f \in Matching[given[i][1]] : Occurs(given, given[i]) <= named(f)
              /\ Routing => given[i] = routing.message \/ given[i][2] < routing.message[2]
        /\ Routing => Occurs(given, routing.message) + Occurs(routing.ids, id)
                          <= named(routing.filter)

(***************************************************************************)
(* The inductive invariant.  The order of what a subscription has is kept  *)
(* because everything upstream of it is younger; the bound on its copies   *)
(* because the ids the router goes through were registered by build, one   *)
(* for each filter it was given.                                           *)
(***************************************************************************)
RouteInv ==
    RouteType /\ IncomingInv /\ TopicsInv /\ \A id \in DOMAIN subscriptions : GivenInv(id)

\* A new client has no subscription.
LEMMA RouteInvInit == ClientInit => RouteInv
<1> SUFFICES ASSUME ClientInit PROVE RouteInv
    OBVIOUS
<1>1. /\ counts.arrivals = 0 /\ incoming = <<>> /\ routing = NoRoute /\ subscriptions = <<>>
      /\ subscription_topics = [f \in Filters |-> <<>>]
      /\ calls = [u \in Users |-> NoCall] /\ task # "Handle"
      /\ DOMAIN incoming = {} /\ DOMAIN subscriptions = {}
    BY DEF ClientInit
<1>2. NoCall.filters = <<>> /\ NoCall.stage # "Topics" /\ NoRoute.ids = <<>>
    BY DEF NoCall, Call, NoRoute
<1>3. RouteType
  <2>1. counts.arrivals \in Nat /\ incoming \in Seq(Messages) /\ subscriptions \in Seq(Sinks)
      BY <1>1
  <2>2. <<>> \in Seq(DOMAIN subscriptions) /\ <<>> \in Seq(Filters)
      OBVIOUS
  <2>3. subscription_topics \in [Filters -> Seq(DOMAIN subscriptions)]
      BY <1>1, <2>2
  <2>4. \A u \in Users : calls[u].filters \in Seq(Filters)
      BY <1>1, <1>2, <2>2
  <2> QED BY <1>1, <2>1, <2>3, <2>4 DEF RouteType
<1>4. IncomingInv
    BY <1>1, <1>2 DEF IncomingInv, Forwarding, Routing
<1>5. TopicsInv
    BY <1>1, <1>2 DEF TopicsInv
<1> QED BY <1>1, <1>3, <1>4, <1>5 DEF RouteInv

\* The router and the subscriptions are left alone, nothing arrives, and no
\* build that registers filters goes on.
LEMMA RouteFrame ==
    ASSUME RouteInv, UNCHANGED router, counts'.arrivals = counts.arrivals,
           Forwarding' => Forwarding /\ UNCHANGED action,
           \A u \in Users : /\ calls'[u].filters \in Seq(Filters)
                            /\ calls'[u].stage = "Topics" => calls'[u] = calls[u]
    PROVE  RouteInv'
<1>1. RouteType'
    BY DEF RouteInv, RouteType, router
<1>2. \A m : Older(m) => Older(m)'
    BY DEF Older, router
<1>3. IncomingInv'
    BY <1>2 DEF RouteInv, IncomingInv, router, Routing
<1>4. TopicsInv'
    BY DEF RouteInv, TopicsInv, router
<1>5. \A id \in DOMAIN subscriptions' : GivenInv(id)'
    BY <1>2 DEF RouteInv, GivenInv, Routing, router
<1> QED BY <1>1, <1>3, <1>4, <1>5 DEF RouteInv

-----------------------------------------------------------------------------
\* A publish is handed on only right after it was read.
LEMMA ConsumeForwards ==
    ASSUME NEW t, NEW packet, consume(t, packet), action'.do = "NoFurtherAction"
    PROVE  packet.type = "Publish" /\ action'.packet = packet
<1>1. ~Returns(NoAction)
    BY DEF Returns, NoAction
<1>2. ~ConsumeConnecting(t, packet)
    BY DEF ConsumeConnecting, Returns, Panics, NoAction, SaveClientIdentifier
<1>3. ConsumeConnected(t, packet)
    BY <1>1, <1>2 DEF consume
<1>4. ConsumePublish(t, packet)
    BY <1>3 DEF ConsumeConnected, ConsumeAck, ConsumePingresp, ConsumeDisconnect, Returns,
                Panics, NoAction, ReleasePacket, DisconnectAction
<1> QED BY <1>4 DEF ConsumePublish, Returns, Panics, NoAction, NoFurtherAction,
                    AcknowledgeNeeded

\* What has arrived before is older than what arrives now.
LEMMA ReadPacketRoute == OrderInv /\ RouteInv /\ ReadPacket => RouteInv'
<1> SUFFICES ASSUME OrderInv, RouteInv, ReadPacket PROVE RouteInv'
    OBVIOUS
<1>1. PICK t \in Now, packet \in IncomingPackets :
          /\ packet.type = "Publish" => packet.message[2] = counts.arrivals + 1
          /\ consume(t, packet)
          /\ counts' = [counts EXCEPT !.arrivals =
                          IF packet.type = "Publish" THEN @ + 1 ELSE @]
    BY DEF ReadPacket
<1>2. ~Forwarding /\ UNCHANGED <<router, calls>>
    BY DEF ReadPacket, Forwarding
<1>3. /\ counts.arrivals \in Nat
      /\ counts'.arrivals = IF packet.type = "Publish" THEN counts.arrivals + 1
                                                       ELSE counts.arrivals
    BY <1>1 DEF OrderInv, CallsInv, RouteInv, RouteType
<1>4. Forwarding' => /\ packet.type = "Publish" /\ action'.packet = packet
                     /\ counts'.arrivals = counts.arrivals + 1
    BY <1>1, <1>3, ConsumeForwards DEF Forwarding
<1>5. counts'.arrivals \in Nat /\ counts.arrivals <= counts'.arrivals
      /\ (Forwarding' => counts.arrivals < counts'.arrivals)
    BY <1>3, <1>4
<1>6. ASSUME NEW m, Older(m) PROVE Older(m)'
    BY <1>2, <1>3, <1>5, <1>6 DEF Older, router
<1>7. Forwarding' => /\ action'.packet.message \in Messages
                     /\ action'.packet.message[2] = counts'.arrivals
  <2> SUFFICES ASSUME Forwarding'
               PROVE  /\ action'.packet.message \in Messages
                      /\ action'.packet.message[2] = counts'.arrivals
      OBVIOUS
  <2>1. packet \in IncomingPublishes
      BY <1>4 DEF IncomingPackets, Connacks
  <2>2. packet.message \in Messages
      BY <2>1 DEF IncomingPublishes
  <2> QED BY <1>1, <1>4, <2>2
<1>8. \A i \in DOMAIN incoming' :
          /\ incoming'[i][2] \in Nat /\ incoming'[i][2] <= counts'.arrivals
          /\ Forwarding' => incoming'[i][2] < counts'.arrivals
          /\ \A j \in DOMAIN incoming' : i < j => incoming'[i][2] < incoming'[j][2]
    BY <1>2, <1>3, <1>5 DEF RouteInv, IncomingInv, router
<1>9. IncomingInv'
    BY <1>2, <1>6, <1>7, <1>8 DEF RouteInv, IncomingInv, router, Routing
<1>10. RouteType'
    BY <1>2, <1>5 DEF RouteInv, RouteType, router
<1>11. TopicsInv'
    BY <1>2 DEF RouteInv, TopicsInv, router
<1>12. \A id \in DOMAIN subscriptions' : GivenInv(id)'
    BY <1>2, <1>6 DEF RouteInv, GivenInv, Routing, router
<1> QED BY <1>9, <1>10, <1>11, <1>12 DEF RouteInv

\* The other steps of the task hand nothing on.
LEMMA TaskRoute ==
    ASSUME RouteInv,
           Start \/ ReaderEnds \/ SetUnconnected \/ TakeToSend \/ RunPublisher \/ RunMachine
             \/ Write \/ Unreachable
    PROVE  RouteInv'
<1>1. UNCHANGED <<calls, counts, router>>
    BY DEF Start, ReaderEnds, SetUnconnected, TakeToSend, RunPublisher, RunMachine, Write,
           Unreachable
<1>2. ~Forwarding'
  <2>1. CASE ReaderEnds \/ SetUnconnected \/ Unreachable \/ Write
      BY <2>1 DEF ReaderEnds, SetUnconnected, Unreachable, Write, Handled, Forwarding
  <2>2. CASE Start \/ RunMachine
    <3>1. action' = NoAction \/ \E packet : action' = SendPacket(packet)
        BY <2>2 DEF Start, RunMachine, handle_connect, run, Returns, Panics
    <3> QED BY <3>1 DEF Forwarding, NoAction, SendPacket
  <2>3. CASE TakeToSend \/ RunPublisher
    <3>1. \/ task' \in {"Publisher", "Run"}
          \/ action' = NoAction \/ \E packet : action' = SendPacket(packet)
        BY <2>3 DEF TakeToSend, RunPublisher, PublisherSend, subscribe, inner_run_PublishPacket,
                    Returns, Panics
    <3> QED BY <3>1 DEF Forwarding, NoAction, SendPacket
  <2> QED BY <2>1, <2>2, <2>3
<1>3. \A u \in Users : calls'[u].filters \in Seq(Filters) /\ calls'[u] = calls[u]
    BY <1>1 DEF RouteInv, RouteType
<1> QED BY <1>1, <1>2, <1>3, RouteFrame

\* A publish on its way to the router is the youngest there.
LEMMA ForwardRoute == RouteInv /\ Forward => RouteInv'
<1> SUFFICES ASSUME RouteInv, Forward PROVE RouteInv'
    OBVIOUS
<1> DEFINE m == action.packet.message
<1>1. /\ Forwarding /\ ~Forwarding'
      /\ incoming' = Append(incoming, m)
      /\ UNCHANGED <<calls, counts, routing, subscriptions, subscription_topics>>
    BY DEF Forward, Handled, Forwarding
<1>2. /\ m \in Messages /\ m[2] = counts.arrivals /\ counts.arrivals \in Nat
      /\ incoming \in Seq(Messages)
    BY <1>1 DEF RouteInv, IncomingInv, RouteType
<1> HIDE DEF m
<1>3. /\ incoming' \in Seq(Messages)
      /\ DOMAIN incoming = 1 .. Len(incoming) /\ Len(incoming) \in Nat
      /\ DOMAIN incoming' = 1 .. Len(incoming) + 1
      /\ \A i \in DOMAIN incoming : incoming'[i] = incoming[i]
      /\ incoming'[Len(incoming) + 1] = m
    BY <1>1, <1>2, AppendProperties, LenProperties
<1>4. ASSUME NEW x, Older(x) PROVE Older(x)'
  <2>1. \A i \in DOMAIN incoming : x[2] < incoming[i][2]
      BY <1>4 DEF Older
  <2>2. x[2] \in Nat /\ x[2] < counts.arrivals /\ x[2] <= counts.arrivals
      BY <1>1, <1>4 DEF Older
  <2>3. \A i \in DOMAIN incoming' : i \in DOMAIN incoming \/ i = Len(incoming) + 1
      BY <1>3
  <2>4. \A i \in DOMAIN incoming' : x[2] < incoming'[i][2]
      BY <1>2, <1>3, <2>1, <2>2, <2>3
  <2> QED BY <1>1, <2>2, <2>4 DEF Older
<1>5. \A i \in DOMAIN incoming' :
          /\ incoming'[i][2] \in Nat /\ incoming'[i][2] <= counts'.arrivals
          /\ \A j \in DOMAIN incoming' : i < j => incoming'[i][2] < incoming'[j][2]
  <2>1. \A i \in DOMAIN incoming :
            /\ incoming[i][2] \in Nat /\ incoming[i][2] < counts.arrivals
            /\ \A j \in DOMAIN incoming : i < j => incoming[i][2] < incoming[j][2]
      BY <1>1 DEF RouteInv, IncomingInv
  <2> SUFFICES ASSUME NEW i \in DOMAIN incoming'
               PROVE  /\ incoming'[i][2] \in Nat /\ incoming'[i][2] <= counts'.arrivals
                      /\ \A j \in DOMAIN incoming' : i < j => incoming'[i][2] < incoming'[j][2]
      OBVIOUS
  <2>2. CASE i \in DOMAIN incoming
    <3>1. incoming'[i] = incoming[i] /\ incoming[i][2] \in Nat /\ incoming[i][2] < counts.arrivals
        BY <1>3, <2>1, <2>2
    <3>2. ASSUME NEW j \in DOMAIN incoming', i < j PROVE incoming'[i][2] < incoming'[j][2]
      <4>1. j \in DOMAIN incoming \/ j = Len(incoming) + 1
          BY <1>3
      <4> QED BY <1>2, <1>3, <2>1, <2>2, <3>1, <3>2, <4>1
    <3>3. incoming[i][2] <= counts.arrivals
        BY <1>2, <3>1
    <3> QED BY <1>1, <3>1, <3>2, <3>3
  <2>3. CASE i = Len(incoming) + 1
    <3>1. incoming'[i] = m /\ \A j \in DOMAIN incoming' : ~(i < j)
        BY <1>3, <2>3
    <3> QED BY <1>1, <1>2, <3>1
  <2> QED BY <1>3, <2>2, <2>3
<1>6. IncomingInv'
    BY <1>1, <1>4, <1>5 DEF RouteInv, IncomingInv, Routing
<1>7. RouteType'
    BY <1>1, <1>3 DEF RouteInv, RouteType
<1>8. TopicsInv'
    BY <1>1 DEF RouteInv, TopicsInv
<1>9. \A id \in DOMAIN subscriptions' : GivenInv(id)'
    BY <1>1, <1>4 DEF RouteInv, GivenInv, Routing
<1> QED BY <1>6, <1>7, <1>8, <1>9 DEF RouteInv

-----------------------------------------------------------------------------
\* The router takes the oldest publish there is, and goes to subscriptions that
\* have none as young as that.
LEMMA RouterReceivesRoute == RouteInv /\ RouterReceives => RouteInv'
<1> SUFFICES ASSUME RouteInv, RouterReceives PROVE RouteInv'
    OBVIOUS
<1> PICK h : h = Head(incoming)
    OBVIOUS
<1>1. /\ ~Routing /\ incoming # <<>> /\ incoming' = Tail(incoming)
      /\ UNCHANGED <<calls, counts, subscriptions, subscription_topics, action, task>>
    BY DEF RouterReceives, Routing, NoRoute, vars, connectionTask
<1>2. /\ incoming \in Seq(Messages) /\ h \in Messages /\ Tail(incoming) \in Seq(Messages)
      /\ DOMAIN incoming = 1 .. Len(incoming) /\ Len(incoming) \in Nat \ {0}
      /\ h = incoming[1]
      /\ DOMAIN incoming' = 1 .. Len(incoming) - 1
      /\ \A i \in DOMAIN incoming' : i + 1 \in DOMAIN incoming /\ incoming'[i] = incoming[i + 1]
  <2>1. incoming \in Seq(Messages)
      BY DEF RouteInv, RouteType
  <2> QED BY <1>1, <2>1, HeadTailProperties, LenProperties, EmptySeq
<1>3. ASSUME NEW x, Older(x) PROVE Older(x)' /\ x[2] < h[2] /\ x # h
    BY <1>1, <1>2, <1>3 DEF Older, Forwarding
<1>4. /\ \A i \in DOMAIN incoming :
            /\ incoming[i][2] \in Nat /\ incoming[i][2] <= counts.arrivals
            /\ Forwarding => incoming[i][2] < counts.arrivals
            /\ \A j \in DOMAIN incoming : i < j => incoming[i][2] < incoming[j][2]
      /\ Forwarding => /\ action.packet.message \in Messages
                       /\ action.packet.message[2] = counts.arrivals
    BY DEF RouteInv, IncomingInv
<1>5. Older(h)'
  <2>1. /\ h[2] \in Nat /\ h[2] <= counts.arrivals /\ (Forwarding => h[2] < counts.arrivals)
        /\ \A j \in DOMAIN incoming : 1 < j => h[2] < incoming[j][2]
      BY <1>2, <1>4
  <2>2. \A i \in DOMAIN incoming' : h[2] < incoming'[i][2]
      BY <1>2, <2>1
  <2> QED BY <1>1, <2>1, <2>2 DEF Older, Forwarding
<1>6. \A i \in DOMAIN incoming' :
          /\ incoming'[i][2] \in Nat /\ incoming'[i][2] <= counts'.arrivals
          /\ Forwarding' => incoming'[i][2] < counts'.arrivals
          /\ \A j \in DOMAIN incoming' : i < j => incoming'[i][2] < incoming'[j][2]
    BY <1>1, <1>2, <1>4 DEF Forwarding
<1>7. TopicsInv'
    BY <1>1 DEF RouteInv, TopicsInv
<1>8. CASE UNCHANGED routing
  <2>1. ~Routing'
      BY <1>1, <1>8 DEF Routing
  <2>2. IncomingInv'
      BY <1>1, <1>4, <1>6, <2>1 DEF IncomingInv, Forwarding
  <2>3. RouteType'
      BY <1>1, <1>2, <1>8 DEF RouteInv, RouteType
  <2>4. \A id \in DOMAIN subscriptions' : GivenInv(id)'
      BY <1>1, <1>3, <2>1 DEF RouteInv, GivenInv
  <2> QED BY <1>7, <2>2, <2>3, <2>4 DEF RouteInv
<1>9. CASE \E f \in Matching[h[1]] :
              /\ subscription_topics[f] # <<>>
              /\ routing' = [message |-> h, filter |-> f, ids |-> subscription_topics[f]]
  <2>1. PICK f \in Matching[h[1]] :
              /\ subscription_topics[f] # <<>>
              /\ routing' = [message |-> h, filter |-> f, ids |-> subscription_topics[f]]
      BY <1>9
  <2>2. f \in ValidFilters /\ f \in Filters
    <3>1. h[1] \in Topics
        BY <1>2, ClientAssumption
    <3> QED BY <2>1, <3>1, ClientAssumption
  <2>3. subscription_topics[f] \in Seq(DOMAIN subscriptions)
      BY <2>2 DEF RouteInv, RouteType
  <2>4. /\ routing'.message = h /\ routing'.filter = f /\ routing'.ids = subscription_topics[f]
        /\ Routing' /\ routing' \in Routes(DOMAIN subscriptions)
      BY <1>2, <2>1, <2>2, <2>3 DEF Routing, Routes
  <2>5. IncomingInv'
      BY <1>1, <1>4, <1>5, <1>6, <2>1, <2>4 DEF IncomingInv, Forwarding
  <2>6. RouteType'
      BY <1>1, <1>2, <2>4 DEF RouteInv, RouteType
  <2>7. ASSUME NEW id \in DOMAIN subscriptions PROVE GivenInv(id)'
    <3>1. PICK given, filters :
              /\ given \in Seq(Messages)
              /\ given = Given(subscriptions[id]) /\ given = Given(subscriptions'[id])
              /\ filters = subscriptions[id].filters /\ filters = subscriptions'[id].filters
      <4>1. subscriptions[id] \in Sinks
          BY DEF RouteInv, RouteType
      <4>2. Given(subscriptions[id]) \in Seq(Messages)
          BY <4>1, QueueMoves DEF Sinks, Given
      <4> QED BY <1>1, <4>2
    <3> DEFINE named(ff) == Occurs(filters, ff)
    <3>2. /\ \A i, j \in DOMAIN given : i < j => given[i][2] <= given[j][2]
          /\ \A i \in DOMAIN given :
                /\ Older(given[i])
                /\ \E ff \in Matching[given[i][1]] : Occurs(given, given[i]) <= named(ff)
        BY <3>1 DEF RouteInv, GivenInv
    <3>3. \A i \in DOMAIN given : Older(given[i])' /\ given[i][2] < h[2] /\ given[i] # h
        BY <1>3, <3>2
    <3>4. Occurs(given, h) = 0
        BY <3>1, <3>3, OccursNat
    <3>5. Occurs(subscription_topics[f], id) <= named(f)
        BY <2>2, <3>1 DEF RouteInv, TopicsInv
    <3>6. Occurs(given, h) + Occurs(subscription_topics[f], id) <= named(f)
      <4>1. Occurs(subscription_topics[f], id) \in Nat
          BY <2>3, OccursNat
      <4> HIDE DEF named
      <4> QED BY <3>4, <3>5, <4>1, <3>1
    <3> QED BY <2>4, <3>1, <3>2, <3>3, <3>6 DEF GivenInv
  <2> QED BY <1>1, <1>7, <2>5, <2>6, <2>7 DEF RouteInv
<1> QED BY <1>8, <1>9 DEF RouterReceives

\* One sink is replaced.
LEMMA SinkReplaced ==
    ASSUME NEW subs \in Seq(Sinks), NEW d \in DOMAIN subs, NEW s \in Sinks
    PROVE  /\ [subs EXCEPT ![d] = s] \in Seq(Sinks)
           /\ DOMAIN [subs EXCEPT ![d] = s] = DOMAIN subs
           /\ [subs EXCEPT ![d] = s][d] = s
           /\ \A id \in DOMAIN subs \ {d} : [subs EXCEPT ![d] = s][id] = subs[id]
BY DEF Sinks

\* What is delivered to a sink is given to it after everything else.
LEMMA SinkFilled ==
    ASSUME NEW s \in Sinks, NEW m \in Messages
    PROVE  /\ [s EXCEPT !.queue = Append(@, m)] \in Sinks
           /\ [s EXCEPT !.queue = Append(@, m)].filters = s.filters
           /\ Given([s EXCEPT !.queue = Append(@, m)]) = Append(Given(s), m)
<1>1. PICK r \in {"Building", "Open", "Dropped"}, q \in Seq(Messages), g \in Seq(Messages),
           f \in Seq(Filters) : s = [receiver |-> r, queue |-> q, got |-> g, filters |-> f]
    BY DEF Sinks
<1>2. s.receiver = r /\ s.queue = q /\ s.got = g /\ s.filters = f
    BY <1>1
<1>3. PICK q2 \in Seq(Messages) : q2 = Append(q, m) /\ g \o q2 = Append(g \o q, m)
  <2>1. Append(q, m) \in Seq(Messages)
      OBVIOUS
  <2>2. \A x \in Messages : g \o Append(q, x) = Append(g \o q, x)
      BY QueueMoves
  <2> QED BY <2>1, <2>2
<1>4. [[receiver |-> r, queue |-> q, got |-> g, filters |-> f] EXCEPT !.queue = q2] =
          [receiver |-> r, queue |-> q2, got |-> g, filters |-> f]
    OBVIOUS
<1>5. [s EXCEPT !.queue = Append(@, m)] = [receiver |-> r, queue |-> q2, got |-> g, filters |-> f]
    BY <1>1, <1>2, <1>3, <1>4
<1>6. [receiver |-> r, queue |-> q2, got |-> g, filters |-> f] \in Sinks
    BY DEF Sinks
<1>7. Given(s) = g \o q
    BY <1>2 DEF Given
<1>8. Given([receiver |-> r, queue |-> q2, got |-> g, filters |-> f]) = g \o q2
    BY DEF Given
<1> QED BY <1>2, <1>3, <1>5, <1>6, <1>7, <1>8

\* The router goes on to the other ids.
LEMMA RouteGoesOn ==
    ASSUME NEW D, NEW r \in Routes(D), NEW ids
    PROVE  [r EXCEPT !.ids = ids] = [message |-> r.message, filter |-> r.filter, ids |-> ids]
<1>1. PICK x, y, z : r = [message |-> x, filter |-> y, ids |-> z]
    BY DEF Routes
<1>2. [r EXCEPT !.ids = ids] = [message |-> x, filter |-> y, ids |-> ids]
    BY <1>1
<1> QED BY <1>1, <1>2

\* A publish is delivered to a subscription that has not been given it as
\* often as it named the filter.
LEMMA DeliverRoute == RouteInv /\ Deliver => RouteInv'
<1> SUFFICES ASSUME RouteInv, Deliver PROVE RouteInv'
    OBVIOUS
<1> PICK d, m, f, ids :
        /\ d = Head(routing.ids) /\ m = routing.message /\ f = routing.filter
        /\ ids = Tail(routing.ids)
    OBVIOUS
<1>1. /\ Routing /\ UNCHANGED <<calls, counts, incoming, subscription_topics, task, action>>
      /\ \/ subscriptions' = [subscriptions EXCEPT ![d].queue = Append(@, m)]
         \/ UNCHANGED subscriptions
      /\ routing' = IF ids = <<>> THEN NoRoute ELSE [routing EXCEPT !.ids = ids]
    BY DEF Deliver, Routing, vars, connectionTask
<1>2. routing \in Routes(DOMAIN subscriptions)
    BY <1>1 DEF RouteInv, RouteType, Routing, NoRoute
<1>3. /\ routing.ids \in Seq(DOMAIN subscriptions) /\ routing.ids # <<>>
      /\ m \in Messages /\ f \in ValidFilters
    BY <1>2 DEF Routes
<1>4. d \in DOMAIN subscriptions /\ ids \in Seq(DOMAIN subscriptions)
    BY <1>3, HeadTailProperties
<1>5. ASSUME NEW id
      PROVE  /\ Occurs(routing.ids, id) \in Nat /\ Occurs(ids, id) \in Nat
             /\ Occurs(routing.ids, id) = Occurs(ids, id) + (IF d = id THEN 1 ELSE 0)
    BY <1>3, <1>4, OccursNat, OccursTail
<1>6. Routing' => /\ routing'.message = m /\ routing'.filter = f /\ routing'.ids = ids
                  /\ routing' \in Routes(DOMAIN subscriptions)
  <2>1. [routing EXCEPT !.ids = ids] = [message |-> m, filter |-> f, ids |-> ids]
      BY <1>2, RouteGoesOn
  <2>2. Routing' => ids # <<>>
      BY <1>1 DEF Routing, NoRoute
  <2>3. [message |-> m, filter |-> f, ids |-> ids] \in Routes(DOMAIN subscriptions) \/ ids = <<>>
      BY <1>3, <1>4 DEF Routes
  <2>4. ids # <<>> => routing' = [message |-> m, filter |-> f, ids |-> ids]
      BY <1>1, <2>1
  <2>5. ids # <<>> => routing'.message = m /\ routing'.filter = f /\ routing'.ids = ids
    <3>1. LET r == [message |-> m, filter |-> f, ids |-> ids]
          IN  r.message = m /\ r.filter = f /\ r.ids = ids
        OBVIOUS
    <3> QED BY <2>4, <3>1, Zenon
  <2> QED BY <2>2, <2>3, <2>4, <2>5
<1>7. routing' = NoRoute \/ Routing'
  <2>1. CASE ids = <<>>
      BY <1>1, <2>1
  <2>2. CASE ids # <<>>
    <3>1. [routing EXCEPT !.ids = ids].ids = ids
        BY <1>2 DEF Routes
    <3> QED BY <1>1, <2>2, <3>1 DEF Routing
  <2> QED BY <2>1, <2>2
<1>8. \A x : Older(x) => Older(x)'
    BY <1>1 DEF Older, Forwarding
<1>9. /\ subscriptions \in Seq(Sinks) /\ subscriptions' \in Seq(Sinks)
      /\ DOMAIN subscriptions' = DOMAIN subscriptions
      /\ \A id \in DOMAIN subscriptions :
            /\ subscriptions[id] \in Sinks
            /\ subscriptions'[id].filters = subscriptions[id].filters
            /\ \/ Given(subscriptions'[id]) = Given(subscriptions[id])
               \/ id = d /\ Given(subscriptions'[id]) = Append(Given(subscriptions[id]), m)
  <2>1. subscriptions \in Seq(Sinks) /\ \A id \in DOMAIN subscriptions : subscriptions[id] \in Sinks
      BY DEF RouteInv, RouteType
  <2>2. CASE subscriptions' = [subscriptions EXCEPT ![d].queue = Append(@, m)]
    <3>1. PICK s \in Sinks : s = subscriptions[d]
        BY <1>4, <2>1
    <3>2. PICK r \in Sinks : /\ r = [s EXCEPT !.queue = Append(@, m)]
                             /\ r.filters = s.filters /\ Given(r) = Append(Given(s), m)
        BY <1>3, SinkFilled
    <3>3. subscriptions' = [subscriptions EXCEPT ![d] = r]
        BY <2>2, <3>1, <3>2
    <3>4. /\ subscriptions' \in Seq(Sinks) /\ DOMAIN subscriptions' = DOMAIN subscriptions
          /\ subscriptions'[d] = r
          /\ \A id \in DOMAIN subscriptions \ {d} : subscriptions'[id] = subscriptions[id]
        BY <1>4, <2>1, <3>3, SinkReplaced
    <3> QED BY <2>1, <3>1, <3>2, <3>4
  <2> QED BY <1>1, <2>1, <2>2
<1>10. IncomingInv'
    BY <1>1, <1>6, <1>8 DEF RouteInv, IncomingInv, Forwarding
<1>11. RouteType'
    BY <1>1, <1>6, <1>7, <1>9 DEF RouteInv, RouteType
<1>12. TopicsInv'
    BY <1>1, <1>9 DEF RouteInv, TopicsInv
<1>13. ASSUME NEW id \in DOMAIN subscriptions PROVE GivenInv(id)'
  <2>1. PICK given, given2, filters :
            /\ given \in Seq(Messages)
            /\ given = Given(subscriptions[id]) /\ given2 = Given(subscriptions'[id])
            /\ filters = subscriptions[id].filters /\ filters = subscriptions'[id].filters
            /\ given2 = given \/ (id = d /\ given2 = Append(given, m))
    <3>1. Given(subscriptions[id]) \in Seq(Messages)
        BY <1>9, QueueMoves DEF Sinks, Given
    <3> QED BY <1>9, <3>1
  <2>2. /\ \A i, j \in DOMAIN given : i < j => given[i][2] <= given[j][2]
        /\ \A i \in DOMAIN given :
              /\ Older(given[i])
              /\ \E ff \in Matching[given[i][1]] : Occurs(given, given[i]) <= Occurs(filters, ff)
              /\ given[i] = m \/ given[i][2] < m[2]
        /\ Occurs(given, m) + Occurs(routing.ids, id) <= Occurs(filters, f)
        /\ Older(m) /\ f \in Matching[m[1]]
      BY <1>1, <2>1 DEF RouteInv, GivenInv, IncomingInv
  <2>3. /\ Occurs(given, m) \in Nat /\ Occurs(filters, f) \in Nat
        /\ Occurs(given, m) + Occurs(routing.ids, id) <= Occurs(filters, f)
        /\ Occurs(routing.ids, id) \in Nat /\ Occurs(ids, id) \in Nat
        /\ Occurs(routing.ids, id) = Occurs(ids, id) + (IF d = id THEN 1 ELSE 0)
    <3>1. Occurs(given, m) \in Nat
        BY <2>1, OccursNat
    <3>2. subscriptions[id] \in Sinks
        BY <1>9
    <3>3. filters \in Seq(Filters)
        BY <2>1, <3>2 DEF Sinks
    <3>4. Occurs(filters, f) \in Nat
        BY <3>3, OccursNat
    <3>5. Occurs(given, m) + Occurs(routing.ids, id) <= Occurs(filters, f)
        BY <2>2
    <3> QED BY <1>5, <3>1, <3>4, <3>5
  <2>4. CASE given2 = given
    <3>1. \A i \in DOMAIN given : Older(given[i])'
        BY <1>8, <2>2
    <3>2. Occurs(given, m) + Occurs(ids, id) <= Occurs(filters, f)
        BY <2>3
    <3> QED BY <1>6, <2>1, <2>2, <2>4, <3>1, <3>2 DEF GivenInv
  <2>5. CASE id = d /\ given2 = Append(given, m)
    <3>1. /\ DOMAIN given = 1 .. Len(given) /\ Len(given) \in Nat
          /\ DOMAIN given2 = 1 .. Len(given) + 1
          /\ \A i \in DOMAIN given : given2[i] = given[i]
          /\ given2[Len(given) + 1] = m
        BY <1>3, <2>5, AppendProperties, LenProperties
    <3>2. \A i \in DOMAIN given2 : i \in DOMAIN given \/ i = Len(given) + 1
        BY <3>1
    <3>3. \A i \in DOMAIN given : given[i][2] \in Nat /\ given[i][2] <= m[2]
      <4>1. m[2] \in Nat /\ \A i \in DOMAIN given : given[i][2] \in Nat
          BY <2>2 DEF Older
      <4> QED BY <2>2, <4>1
    <3>4. ASSUME NEW i \in DOMAIN given2, NEW j \in DOMAIN given2, i < j
          PROVE  given2[i][2] <= given2[j][2]
      <4>1. i \in DOMAIN given
          BY <3>1, <3>2, <3>4
      <4> QED BY <2>2, <3>1, <3>2, <3>3, <3>4, <4>1
    <3>5. Occurs(given2, m) = Occurs(given, m) + 1
      <4>1. given \in Seq(Messages)
          BY <2>1
      <4>2. Occurs(Append(given, m), m) = Occurs(given, m) + 1
          BY <1>3, <4>1, OccursAppend
      <4> QED BY <2>5, <4>2
    <3>6. Occurs(given2, m) + Occurs(ids, id) <= Occurs(filters, f)
        BY <2>3, <2>5, <3>5
    <3>7. Occurs(given2, m) <= Occurs(filters, f)
        BY <2>3, <3>5, <3>6
    <3>8. ASSUME NEW i \in DOMAIN given2
          PROVE  /\ Older(given2[i])
                 /\ \E ff \in Matching[given2[i][1]] : Occurs(given2, given2[i]) <= Occurs(filters, ff)
                 /\ given2[i] = m \/ given2[i][2] < m[2]
      <4>1. CASE given2[i] = m
          BY <2>2, <3>7, <4>1
      <4>2. CASE given2[i] # m
        <5>1. i \in DOMAIN given /\ given2[i] = given[i]
            BY <3>1, <3>2, <4>2
        <5>2. Occurs(given2, given[i]) = Occurs(given, given[i])
          <6>1. Occurs(given, given[i]) \in Nat
              BY <2>1, OccursNat
          <6>2. Occurs(Append(given, m), given[i]) = Occurs(given, given[i]) + 0
              BY <1>3, <2>1, <4>2, <5>1, OccursAppend
          <6> QED BY <2>5, <6>1, <6>2
        <5> QED BY <2>2, <4>2, <5>1, <5>2
      <4> QED BY <4>1, <4>2
    <3>9. \A i \in DOMAIN given2 : Older(given2[i])'
        BY <1>8, <3>8
    <3> QED BY <1>6, <2>1, <3>4, <3>6, <3>8, <3>9 DEF GivenInv
  <2> QED BY <2>1, <2>4, <2>5
<1> QED BY <1>9, <1>10, <1>11, <1>12, <1>13 DEF RouteInv

-----------------------------------------------------------------------------
\* A subscription has what it had, or a first part of it.
LEMMA SubscriptionRoute ==
    ASSUME RouteInv, NEW d \in DOMAIN subscriptions, NEW r \in Sinks, NEW rest \in Seq(Messages),
           subscriptions' = [subscriptions EXCEPT ![d] = r],
           r.filters = subscriptions[d].filters,
           Given(subscriptions[d]) = Given(r) \o rest,
           UNCHANGED <<incoming, routing, subscription_topics, counts, task, action>>,
           \A u \in Users : /\ calls'[u].filters \in Seq(Filters)
                            /\ calls'[u].stage = "Topics" => calls'[u] = calls[u]
    PROVE  RouteInv'
<1>1. \A x : Older(x) => Older(x)'
    BY DEF Older, Forwarding
<1>2. subscriptions \in Seq(Sinks) /\ \A id \in DOMAIN subscriptions : subscriptions[id] \in Sinks
    BY DEF RouteInv, RouteType
<1>3. /\ subscriptions' \in Seq(Sinks) /\ DOMAIN subscriptions' = DOMAIN subscriptions
      /\ subscriptions'[d] = r
      /\ \A id \in DOMAIN subscriptions \ {d} : subscriptions'[id] = subscriptions[id]
    BY <1>2, SinkReplaced
<1>4. IncomingInv'
    BY <1>1 DEF RouteInv, IncomingInv, Forwarding, Routing
<1>5. RouteType'
    BY <1>3 DEF RouteInv, RouteType
<1>6. \A id \in DOMAIN subscriptions : subscriptions'[id].filters = subscriptions[id].filters
    BY <1>3
<1>7. TopicsInv'
  <2>1. \A id \in DOMAIN subscriptions', f \in Filters :
            Occurs(subscription_topics'[f], id) <= Occurs(subscriptions'[id].filters, f)
      BY <1>3, <1>6 DEF RouteInv, TopicsInv
  <2>2. ASSUME NEW u \in Users, calls'[u].stage = "Topics"
        PROVE  /\ calls'[u].id \in DOMAIN subscriptions'
               /\ \A f \in Filters :
                     Occurs(subscription_topics'[f], calls'[u].id) + Occurs(calls'[u].filters, f)
                         <= Occurs(subscriptions'[calls'[u].id].filters, f)
    <3>1. calls'[u] = calls[u] /\ calls[u].stage = "Topics"
        BY <2>2
    <3>2. calls[u].id \in DOMAIN subscriptions
        BY <3>1 DEF RouteInv, TopicsInv
    <3>3. subscriptions'[calls[u].id].filters = subscriptions[calls[u].id].filters
        BY <1>6, <3>2
    <3> QED BY <1>3, <3>1, <3>2, <3>3 DEF RouteInv, TopicsInv
  <2>3. \A u, v \in Users :
            calls'[u].stage = "Topics" /\ calls'[v].stage = "Topics" /\ calls'[v].id = calls'[u].id
                => v = u
      BY DEF RouteInv, TopicsInv
  <2> QED BY <2>1, <2>2, <2>3 DEF TopicsInv
<1>8. ASSUME NEW id \in DOMAIN subscriptions, id # d PROVE GivenInv(id)'
    BY <1>1, <1>3, <1>8 DEF RouteInv, GivenInv, Routing
<1>9. GivenInv(d)'
  <2>1. PICK whole \in Seq(Messages), given \in Seq(Messages), filters \in Seq(Filters) :
            /\ whole = Given(subscriptions[d]) /\ given = Given(subscriptions'[d])
            /\ filters = subscriptions[d].filters /\ filters = subscriptions'[d].filters
            /\ whole = given \o rest
    <3>1. Given(r) \in Seq(Messages)
        BY QueueMoves DEF Sinks, Given
    <3>2. Given(r) \o rest \in Seq(Messages)
        BY <3>1, QueueMoves
    <3>3. r.filters \in Seq(Filters)
        BY DEF Sinks
    <3> QED BY <1>3, <3>1, <3>2, <3>3
  <2>2. /\ DOMAIN given \subseteq DOMAIN whole
        /\ \A i \in DOMAIN given : given[i] = whole[i]
      BY <2>1, ConcatProperties, LenProperties
  <2>3. ASSUME NEW x
        PROVE  /\ Occurs(given, x) <= Occurs(whole, x)
               /\ Occurs(given, x) \in Nat /\ Occurs(whole, x) \in Nat
      BY <2>1, OccursPrefix, OccursNat
  <2>4. /\ \A i, j \in DOMAIN whole : i < j => whole[i][2] <= whole[j][2]
        /\ \A i \in DOMAIN whole :
              /\ Older(whole[i])
              /\ \E f \in Matching[whole[i][1]] : Occurs(whole, whole[i]) <= Occurs(filters, f)
              /\ Routing => whole[i] = routing.message \/ whole[i][2] < routing.message[2]
        /\ Routing => Occurs(whole, routing.message) + Occurs(routing.ids, d)
                         <= Occurs(filters, routing.filter)
    <3>1. GivenInv(d)
        BY DEF RouteInv
    <3>2. whole = Given(subscriptions[d]) /\ filters = subscriptions[d].filters
        BY <2>1
    <3> QED BY <3>1, <3>2, Zenon DEF GivenInv
  <2>5. \A f : Occurs(filters, f) \in Nat
      BY OccursNat
  <2>6. \A i, j \in DOMAIN given : i < j => given[i][2] <= given[j][2]
      BY <2>2, <2>4
  <2>7. ASSUME NEW i \in DOMAIN given
        PROVE  /\ Older(given[i])
               /\ \E f \in Matching[given[i][1]] : Occurs(given, given[i]) <= Occurs(filters, f)
               /\ Routing => given[i] = routing.message \/ given[i][2] < routing.message[2]
    <3>1. i \in DOMAIN whole /\ given[i] = whole[i]
        BY <2>2
    <3>2. PICK f \in Matching[given[i][1]] : Occurs(whole, given[i]) <= Occurs(filters, f)
        BY <2>4, <3>1
    <3>3. Occurs(given, given[i]) <= Occurs(filters, f)
        BY <2>3, <2>5, <3>2
    <3> QED BY <2>4, <3>1, <3>3
  <2>8. Routing => Occurs(given, routing.message) + Occurs(routing.ids, d)
                      <= Occurs(filters, routing.filter)
    <3>1. Routing => Occurs(routing.ids, d) \in Nat
      <4>1. Routing => routing.ids \in Seq(DOMAIN subscriptions)
          BY DEF RouteInv, RouteType, Routing, NoRoute, Routes
      <4> QED BY <4>1, OccursNat
    <3>2. /\ Occurs(given, routing.message) <= Occurs(whole, routing.message)
          /\ Occurs(given, routing.message) \in Nat /\ Occurs(whole, routing.message) \in Nat
          /\ Occurs(filters, routing.filter) \in Nat
        BY <2>3, <2>5
    <3>3. Routing => Occurs(whole, routing.message) + Occurs(routing.ids, d)
                        <= Occurs(filters, routing.filter)
        BY <2>4
    <3> QED BY <3>1, <3>2, <3>3
  <2>9. \A i \in DOMAIN given : Older(given[i])'
      BY <1>1, <2>7
  <2> QED BY <2>1, <2>6, <2>7, <2>8, <2>9 DEF GivenInv, Routing
<1> QED BY <1>3, <1>4, <1>5, <1>7, <1>8, <1>9 DEF RouteInv
\* build finishes the subscription.
LEMMA SinkOpened ==
    ASSUME NEW s \in Sinks
    PROVE  /\ [s EXCEPT !.receiver = "Open"] \in Sinks
           /\ [s EXCEPT !.receiver = "Open"].filters = s.filters
           /\ Given(s) = Given([s EXCEPT !.receiver = "Open"]) \o <<>>
<1>1. PICK r \in {"Building", "Open", "Dropped"}, q \in Seq(Messages), g \in Seq(Messages),
           f \in Seq(Filters) : s = [receiver |-> r, queue |-> q, got |-> g, filters |-> f]
    BY DEF Sinks
<1>2. s.receiver = r /\ s.queue = q /\ s.got = g /\ s.filters = f
    BY <1>1
<1>3. [s EXCEPT !.receiver = "Open"] = [receiver |-> "Open", queue |-> q, got |-> g, filters |-> f]
    BY <1>1
<1>4. [receiver |-> "Open", queue |-> q, got |-> g, filters |-> f] \in Sinks
    BY DEF Sinks
<1>5. Given(s) = g \o q
    BY <1>2 DEF Given
<1>6. Given([receiver |-> "Open", queue |-> q, got |-> g, filters |-> f]) = g \o q
    BY DEF Given
<1>7. (g \o q) \o <<>> = g \o q
    BY ConcatProperties, ConcatEmptySeq
<1> QED BY <1>2, <1>3, <1>4, <1>5, <1>6, <1>7

\* A publish is read: it is still the same that the subscription was given.
LEMMA SinkRead ==
    ASSUME NEW s \in Sinks, NEW s2,
           s2 = [s EXCEPT !.queue = Tail(@), !.got = Append(@, Head(s.queue))]
    PROVE  s.queue # <<>> =>
              s2 \in Sinks /\ s2.filters = s.filters /\ Given(s) = Given(s2) \o <<>>
<1>1. PICK r, q, g, f : s = [receiver |-> r, queue |-> q, got |-> g, filters |-> f]
    BY DEF Sinks
<1>2. /\ s.receiver = r /\ s.queue = q /\ s.got = g /\ s.filters = f
      /\ r \in {"Building", "Open", "Dropped"}
      /\ q \in Seq(Messages) /\ g \in Seq(Messages) /\ f \in Seq(Filters)
    BY <1>1 DEF Sinks
<1>3. PICK q2, g2 : q2 = Tail(q) /\ g2 = Append(g, Head(q))
    OBVIOUS
<1>4. [[receiver |-> r, queue |-> q2, got |-> g, filters |-> f] EXCEPT !.got = g2] =
          [receiver |-> r, queue |-> q2, got |-> g2, filters |-> f]
    OBVIOUS
<1>5. [s EXCEPT !.queue = q2] = [receiver |-> r, queue |-> q2, got |-> g, filters |-> f]
    BY <1>1
<1>6. q # <<>> => s2 = [receiver |-> r, queue |-> q2, got |-> g2, filters |-> f]
    BY <1>2, <1>3, <1>4, <1>5
<1>7. q # <<>> => q2 \in Seq(Messages) /\ g2 \in Seq(Messages) /\ g2 \o q2 = g \o q
    BY <1>2, <1>3, QueueRead
<1>8. q # <<>> => [receiver |-> r, queue |-> q2, got |-> g2, filters |-> f] \in Sinks
    BY <1>2, <1>7 DEF Sinks
<1>9. Given(s) = g \o q
    BY <1>2 DEF Given
<1>10. Given([receiver |-> r, queue |-> q2, got |-> g2, filters |-> f]) = g2 \o q2
    BY DEF Given
<1>11. (g \o q) \o <<>> = g \o q
    BY <1>2, ConcatProperties, ConcatEmptySeq
<1> QED BY <1>2, <1>6, <1>7, <1>8, <1>9, <1>10, <1>11

\* A receiver is dropped with what it has not read.
LEMMA SinkClosed ==
    ASSUME NEW s \in Sinks
    PROVE  /\ [s EXCEPT !.receiver = "Dropped", !.queue = <<>>] \in Sinks
           /\ [s EXCEPT !.receiver = "Dropped", !.queue = <<>>].filters = s.filters
           /\ Given(s) = Given([s EXCEPT !.receiver = "Dropped", !.queue = <<>>]) \o s.queue
<1>1. PICK r, q, g, f : s = [receiver |-> r, queue |-> q, got |-> g, filters |-> f]
    BY DEF Sinks
<1>2. /\ s.receiver = r /\ s.queue = q /\ s.got = g /\ s.filters = f
      /\ r \in {"Building", "Open", "Dropped"}
      /\ q \in Seq(Messages) /\ g \in Seq(Messages) /\ f \in Seq(Filters)
    BY <1>1 DEF Sinks
<1>3. PICK q2 : q2 = <<>>
    OBVIOUS
<1>4. [s EXCEPT !.receiver = "Dropped"] =
          [receiver |-> "Dropped", queue |-> q, got |-> g, filters |-> f]
    BY <1>1
<1>5. [[receiver |-> "Dropped", queue |-> q, got |-> g, filters |-> f] EXCEPT !.queue = q2] =
          [receiver |-> "Dropped", queue |-> q2, got |-> g, filters |-> f]
    OBVIOUS
<1>6. [s EXCEPT !.receiver = "Dropped", !.queue = <<>>] =
          [receiver |-> "Dropped", queue |-> q2, got |-> g, filters |-> f]
    BY <1>3, <1>4, <1>5
<1>7. [receiver |-> "Dropped", queue |-> q2, got |-> g, filters |-> f] \in Sinks
    BY <1>2, <1>3 DEF Sinks
<1>8. Given(s) = g \o q
    BY <1>2 DEF Given
<1>9. Given([receiver |-> "Dropped", queue |-> q2, got |-> g, filters |-> f]) = g \o q2
    BY DEF Given
<1>10. g \o <<>> = g
    BY <1>2, ConcatEmptySeq
<1> QED BY <1>2, <1>3, <1>6, <1>7, <1>8, <1>9, <1>10

\* Subscriptions are finished by build, read, and dropped; what a call to build
\* that panics has built is dropped too.
LEMMA SubscriptionsRoute ==
    ASSUME OrderInv, RouteInv
    PROVE  /\ \A u \in Users : Built(u) => RouteInv'
           /\ \A u \in Users :
                 AddTopic(u) /\ Head(calls[u].filters) \notin ValidFilters => RouteInv'
           /\ \A id \in DOMAIN subscriptions : PollNext(id) \/ DropSubscription(id) => RouteInv'
<1>1. \A id \in DOMAIN subscriptions :
          /\ subscriptions[id] \in Sinks
          /\ subscriptions[id].queue \in Seq(Messages) /\ <<>> \in Seq(Messages)
  <2>1. \A id \in DOMAIN subscriptions : subscriptions[id] \in Sinks
      BY DEF RouteInv, RouteType
  <2>2. \A s \in Sinks : s.queue \in Seq(Messages)
      BY DEF Sinks
  <2>3. <<>> \in Seq(Messages)
      OBVIOUS
  <2> QED BY <2>1, <2>2, <2>3
<1>2. ASSUME NEW u \in Users, calls[u].stage = "Topics", calls' = [calls EXCEPT ![u] = NoCall]
      PROVE  /\ calls[u].id \in DOMAIN subscriptions
             /\ \A v \in Users : /\ calls'[v].filters \in Seq(Filters)
                                 /\ calls'[v].stage = "Topics" => calls'[v] = calls[v]
  <2>1. calls[u].id \in DOMAIN subscriptions
      BY <1>2 DEF RouteInv, TopicsInv
  <2>2. NoCall.filters = <<>> /\ NoCall.stage # "Topics" /\ <<>> \in Seq(Filters)
      BY DEF NoCall, Call
  <2>3. \A v \in Users : calls'[v] = IF v = u THEN NoCall ELSE calls[v]
      BY <1>2 DEF OrderInv, CallsInv
  <2> QED BY <2>1, <2>2, <2>3 DEF RouteInv, RouteType
<1>3. \A v \in Users : calls[v].filters \in Seq(Filters)
    BY DEF RouteInv, RouteType
<1>4. ASSUME NEW u \in Users, Built(u) PROVE RouteInv'
  <2> PICK d : d = calls[u].id
      OBVIOUS
  <2>1. d \in DOMAIN subscriptions
      BY <1>2, <1>4 DEF Built
  <2> PICK r : r = [subscriptions[d] EXCEPT !.receiver = "Open"]
      OBVIOUS
  <2>2. /\ r \in Sinks /\ r.filters = subscriptions[d].filters
        /\ Given(subscriptions[d]) = Given(r) \o <<>> /\ <<>> \in Seq(Messages)
      BY <1>1, <2>1, SinkOpened
  <2>3. /\ subscriptions' = [subscriptions EXCEPT ![d] = r]
        /\ UNCHANGED <<incoming, routing, subscription_topics, counts, task, action>>
      BY <1>4 DEF Built, vars, connectionTask
  <2>4. \A v \in Users : /\ calls'[v].filters \in Seq(Filters)
                         /\ calls'[v].stage = "Topics" => calls'[v] = calls[v]
      BY <1>2, <1>4 DEF Built
  <2> QED BY <2>1, <2>2, <2>3, <2>4, SubscriptionRoute
<1>5. ASSUME NEW d \in DOMAIN subscriptions,
             subscriptions' = [subscriptions EXCEPT ![d].receiver = "Dropped", ![d].queue = <<>>],
             UNCHANGED <<incoming, routing, subscription_topics, counts, task, action>>,
             \A v \in Users : /\ calls'[v].filters \in Seq(Filters)
                              /\ calls'[v].stage = "Topics" => calls'[v] = calls[v]
      PROVE  RouteInv'
  <2> PICK s : s = subscriptions[d]
      OBVIOUS
  <2> PICK r : r = [s EXCEPT !.receiver = "Dropped", !.queue = <<>>]
      OBVIOUS
  <2> PICK rest : rest = s.queue
      OBVIOUS
  <2>0. s \in Sinks
      BY <1>1
  <2>1. /\ r \in Sinks /\ r.filters = s.filters /\ rest \in Seq(Messages)
        /\ Given(s) = Given(r) \o rest
    <3>1. rest \in Seq(Messages)
        BY <1>1
    <3> QED BY <2>0, <3>1, SinkClosed, Zenon
  <2>2. subscriptions' = [subscriptions EXCEPT ![d] = r]
    <3>1. [subscriptions EXCEPT ![d].receiver = "Dropped", ![d].queue = <<>>] =
              [subscriptions EXCEPT ![d] = r]
        OBVIOUS
    <3> QED BY <1>5, <3>1
  <2>3. /\ r.filters = subscriptions[d].filters
        /\ Given(subscriptions[d]) = Given(r) \o rest
      BY <2>1
  <2> QED BY <1>5, <2>1, <2>2, <2>3, SubscriptionRoute
<1>6. ASSUME NEW u \in Users, AddTopic(u), Head(calls[u].filters) \notin ValidFilters
      PROVE  RouteInv'
  <2>1. /\ calls[u].stage = "Topics" /\ calls' = [calls EXCEPT ![u] = NoCall]
        /\ subscriptions' = [subscriptions EXCEPT ![calls[u].id].receiver = "Dropped",
                                                  ![calls[u].id].queue = <<>>]
        /\ UNCHANGED <<incoming, routing, subscription_topics, counts, task, action>>
      BY <1>6 DEF AddTopic, vars, connectionTask
  <2>2. /\ calls[u].id \in DOMAIN subscriptions
        /\ \A v \in Users : /\ calls'[v].filters \in Seq(Filters)
                            /\ calls'[v].stage = "Topics" => calls'[v] = calls[v]
      BY <1>2, <2>1
  <2> QED BY <1>5, <2>1, <2>2, Zenon
<1>7. ASSUME NEW id \in DOMAIN subscriptions, DropSubscription(id) PROVE RouteInv'
  <2>1. /\ subscriptions' = [subscriptions EXCEPT ![id].receiver = "Dropped", ![id].queue = <<>>]
        /\ UNCHANGED <<calls, incoming, routing, subscription_topics, counts, task, action>>
      BY <1>7 DEF DropSubscription, vars, connectionTask
  <2>2. \A v \in Users : /\ calls'[v].filters \in Seq(Filters)
                         /\ calls'[v].stage = "Topics" => calls'[v] = calls[v]
      BY <1>3, <2>1
  <2> QED BY <1>5, <2>1, <2>2, Zenon
<1>8. ASSUME NEW d \in DOMAIN subscriptions, PollNext(d) PROVE RouteInv'
  <2> PICK s : s = subscriptions[d]
      OBVIOUS
  <2> PICK r : r = [s EXCEPT !.queue = Tail(@), !.got = Append(@, Head(s.queue))]
      OBVIOUS
  <2>1. /\ r \in Sinks /\ r.filters = s.filters /\ Given(s) = Given(r) \o <<>>
    <3>1. s \in Sinks /\ s.queue # <<>>
        BY <1>1, <1>8 DEF PollNext
    <3> QED BY <3>1, SinkRead, Zenon
  <2>2. subscriptions' = [subscriptions EXCEPT ![d] = r]
    <3>1. [subscriptions EXCEPT ![d].queue = Tail(@), ![d].got = Append(@, Head(s.queue))] =
              [subscriptions EXCEPT ![d] = r]
        OBVIOUS
    <3> QED BY <1>8, <3>1 DEF PollNext
  <2>3. UNCHANGED <<calls, incoming, routing, subscription_topics, counts, task, action>>
      BY <1>8 DEF PollNext, vars, connectionTask
  <2>4. /\ r.filters = subscriptions[d].filters /\ <<>> \in Seq(Messages)
        /\ Given(subscriptions[d]) = Given(r) \o <<>>
      BY <1>1, <2>1
  <2> QED BY <1>3, <2>1, <2>2, <2>3, <2>4, SubscriptionRoute
<1> QED BY <1>4, <1>6, <1>7, <1>8

\* A new subscription has been given nothing and is registered nowhere.
LEMMA AddSinkRoute ==
    ASSUME OrderInv, RouteInv, NEW u \in Users, AddSink(u)
    PROVE  RouteInv'
<1> PICK filters, sink, n :
        /\ filters = calls[u].filters /\ n = Len(subscriptions)
        /\ sink = [receiver |-> "Building", queue |-> <<>>, got |-> <<>>, filters |-> filters]
    OBVIOUS
<1>1. /\ subscriptions' = Append(subscriptions, sink)
      /\ UNCHANGED <<incoming, routing, subscription_topics, counts, task, action>>
    BY DEF AddSink, vars, connectionTask
<1>2. /\ subscriptions \in Seq(Sinks) /\ n \in Nat /\ DOMAIN subscriptions = 1 .. n
      /\ filters \in Seq(Filters)
  <2>1. subscriptions \in Seq(Sinks) /\ filters \in Seq(Filters)
      BY DEF RouteInv, RouteType
  <2> QED BY <2>1, LenProperties
<1>3. /\ sink \in Sinks /\ sink.filters = filters
      /\ sink.got = <<>> /\ sink.queue = <<>>
    BY <1>2 DEF Sinks
<1>4. Given(sink) = <<>>
    BY <1>3 DEF Given
<1>5. /\ subscriptions' \in Seq(Sinks) /\ DOMAIN subscriptions' = 1 .. n + 1
      /\ subscriptions'[n + 1] = sink
      /\ \A id \in 1 .. n : subscriptions'[id] = subscriptions[id]
    BY <1>1, <1>2, <1>3, AppendProperties, LenProperties
<1>6. /\ calls'[u].stage = "Topics" /\ calls'[u].id = n + 1 /\ calls'[u].filters = filters
      /\ \A v \in Users \ {u} : calls'[v] = calls[v]
  <2>1. calls[u] = Call(calls[u].op, calls[u].stage, calls[u].message, filters, calls[u].id)
      BY DEF OrderInv, CallsInv, CallInv
  <2>2. calls' = [calls EXCEPT ![u] = [@ EXCEPT !.stage = "Topics", !.id = n + 1]]
      BY DEF AddSink
  <2>3. /\ [calls[u] EXCEPT !.stage = "Topics", !.id = n + 1].stage = "Topics"
        /\ [calls[u] EXCEPT !.stage = "Topics", !.id = n + 1].id = n + 1
        /\ [calls[u] EXCEPT !.stage = "Topics", !.id = n + 1].filters = filters
      BY <2>1 DEF Call
  <2>4. \A v \in Users : calls'[v] = IF v = u THEN [calls[u] EXCEPT !.stage = "Topics", !.id = n + 1]
                                              ELSE calls[v]
      BY <2>2 DEF OrderInv, CallsInv
  <2> QED BY <2>3, <2>4
<1>7. \A x : Older(x) => Older(x)'
    BY <1>1 DEF Older, Forwarding
<1>8. IncomingInv'
    BY <1>1, <1>7 DEF RouteInv, IncomingInv, Forwarding, Routing
<1>9. subscription_topics \in [Filters -> Seq(1 .. n)]
    BY <1>2 DEF RouteInv, RouteType
<1>10. RouteType'
  <2>1. Seq(1 .. n) \subseteq Seq(1 .. n + 1) /\ Seq(1 .. n) \ {<<>>} \subseteq Seq(1 .. n + 1) \ {<<>>}
    <3>1. 1 .. n \subseteq 1 .. n + 1
        BY <1>2
    <3>2. ASSUME NEW s \in Seq(1 .. n) PROVE s \in Seq(1 .. n + 1)
      <4>1. s \in [1 .. Len(s) -> 1 .. n] /\ Len(s) \in Nat
          BY LenProperties
      <4>2. s \in [1 .. Len(s) -> 1 .. n + 1]
          BY <3>1, <4>1
      <4> QED BY <4>1, <4>2, SeqDef
    <3> QED BY <3>2
  <2>2. subscription_topics' \in [Filters -> Seq(DOMAIN subscriptions')]
      BY <1>1, <1>5, <1>9, <2>1
  <2>3. routing' = NoRoute \/ routing' \in Routes(DOMAIN subscriptions')
    <3>1. routing = NoRoute \/ routing \in Routes(1 .. n)
        BY <1>2 DEF RouteInv, RouteType
    <3>2. Routes(1 .. n) \subseteq Routes(1 .. n + 1)
        BY <2>1 DEF Routes
    <3> QED BY <1>1, <1>5, <3>1, <3>2
  <2>4. \A v \in Users : calls'[v].filters \in Seq(Filters)
      BY <1>2, <1>6 DEF RouteInv, RouteType
  <2> QED BY <1>1, <1>5, <2>2, <2>3, <2>4 DEF RouteInv, RouteType
<1>11. ASSUME NEW s \in Seq(1 .. n) PROVE Occurs(s, n + 1) = 0
  <2>1. \A i \in DOMAIN s : s[i] # n + 1
    <3>1. \A i \in DOMAIN s : s[i] \in 1 .. n
        BY ElementOfSeq, LenProperties
    <3> QED BY <1>2, <3>1
  <2> QED BY <2>1, OccursNat
<1>12. TopicsInv'
  <2>1. ASSUME NEW id \in 1 .. n + 1, NEW f \in Filters
        PROVE  Occurs(subscription_topics[f], id) <= Occurs(subscriptions'[id].filters, f)
    <3>1. CASE id \in 1 .. n
        BY <1>2, <1>5, <3>1 DEF RouteInv, TopicsInv
    <3>2. CASE id = n + 1
      <4>1. Occurs(subscription_topics[f], id) = 0
          BY <1>9, <1>11, <3>2
      <4>2. Occurs(filters, f) \in Nat
          BY <1>2, OccursNat
      <4> QED BY <1>3, <1>5, <3>2, <4>1, <4>2
    <3> QED BY <1>2, <3>1, <3>2
  <2>2. ASSUME NEW v \in Users, calls'[v].stage = "Topics"
        PROVE  /\ calls'[v].id \in 1 .. n + 1
               /\ \A f \in Filters :
                     Occurs(subscription_topics[f], calls'[v].id) + Occurs(calls'[v].filters, f)
                         <= Occurs(subscriptions'[calls'[v].id].filters, f)
    <3>1. CASE v = u
      <4>1. \A f \in Filters : Occurs(subscription_topics[f], n + 1) = 0
          BY <1>9, <1>11
      <4>2. \A f \in Filters : Occurs(filters, f) \in Nat
          BY <1>2, OccursNat
      <4> QED BY <1>2, <1>3, <1>5, <1>6, <3>1, <4>1, <4>2
    <3>2. CASE v # u
      <4>1. calls'[v] = calls[v] /\ calls[v].stage = "Topics"
          BY <1>6, <2>2, <3>2
      <4>2. calls[v].id \in 1 .. n
          BY <1>2, <4>1 DEF RouteInv, TopicsInv
      <4>3. subscriptions'[calls[v].id] = subscriptions[calls[v].id] /\ calls[v].id \in 1 .. n + 1
          BY <1>2, <1>5, <4>2
      <4>4. \A f \in Filters :
                Occurs(subscription_topics[f], calls[v].id) + Occurs(calls[v].filters, f)
                    <= Occurs(subscriptions[calls[v].id].filters, f)
          BY <4>1 DEF RouteInv, TopicsInv
      <4> QED BY <4>1, <4>3, <4>4
    <3> QED BY <3>1, <3>2
  <2>3. ASSUME NEW v \in Users, NEW w \in Users, calls'[v].stage = "Topics",
               calls'[w].stage = "Topics", calls'[w].id = calls'[v].id
        PROVE  w = v
    <3>1. \A x \in Users \ {u} :
              calls'[x].stage = "Topics" => calls[x].id \in 1 .. n /\ calls'[x].id # n + 1
        BY <1>2, <1>6 DEF RouteInv, TopicsInv
    <3> QED BY <1>6, <2>3, <3>1 DEF RouteInv, TopicsInv
  <2> QED BY <1>1, <1>5, <2>1, <2>2, <2>3 DEF TopicsInv
<1>13. ASSUME NEW id \in 1 .. n PROVE GivenInv(id)'
  <2>1. GivenInv(id) /\ subscriptions'[id] = subscriptions[id]
      BY <1>2, <1>5 DEF RouteInv
  <2> QED BY <1>1, <1>7, <2>1 DEF GivenInv, Routing
<1>14. GivenInv(n + 1)'
  <2>1. Given(subscriptions'[n + 1]) = <<>> /\ subscriptions'[n + 1].filters = filters
      BY <1>3, <1>4, <1>5
  <2>2. Routing => Occurs(routing.ids, n + 1) = 0
    <3>1. Routing => routing.ids \in Seq(1 .. n)
        BY <1>2 DEF RouteInv, RouteType, Routing, NoRoute, Routes
    <3> QED BY <1>11, <3>1
  <2>3. Occurs(<<>>, routing.message) = 0 /\ Occurs(filters, routing.filter) \in Nat
      BY <1>2, OccursEmpty, OccursNat
  <2>4. DOMAIN <<>> = {}
      OBVIOUS
  <2> QED BY <1>1, <2>1, <2>2, <2>3, <2>4 DEF GivenInv, Routing
<1> QED BY <1>2, <1>5, <1>8, <1>10, <1>12, <1>13, <1>14 DEF RouteInv

\* A build registers its subscription for the next of its filters.
LEMMA AddTopicRoute ==
    ASSUME OrderInv, RouteInv, NEW u \in Users, AddTopic(u),
           Head(calls[u].filters) \in ValidFilters
    PROVE  RouteInv'
<1> PICK filters, filter, id :
        filters = calls[u].filters /\ filter = Head(calls[u].filters) /\ id = calls[u].id
    OBVIOUS
<1>1. /\ filters # <<>> /\ calls[u].stage = "Topics" /\ filter = Head(filters)
      /\ subscription_topics' = [subscription_topics EXCEPT ![filter] = Append(@, id)]
      /\ calls' = [calls EXCEPT ![u].filters = Tail(@)]
      /\ UNCHANGED <<incoming, routing, subscriptions, counts, task, action>>
  <2>1. /\ calls[u].filters # <<>> /\ calls[u].stage = "Topics"
        /\ UNCHANGED <<incoming, routing, counts, task, action>>
      BY DEF AddTopic, vars, connectionTask
  <2>2. /\ subscription_topics' = [subscription_topics EXCEPT
                                     ![Head(calls[u].filters)] = Append(@, calls[u].id)]
        /\ calls' = [calls EXCEPT ![u].filters = Tail(@)]
        /\ UNCHANGED subscriptions
      BY Zenon DEF AddTopic
  <2> QED BY <2>1, <2>2
<1>2. /\ filters \in Seq(Filters) /\ filter \in Filters /\ Tail(filters) \in Seq(Filters)
      /\ id \in DOMAIN subscriptions
  <2>1. filters \in Seq(Filters) /\ id \in DOMAIN subscriptions
      BY <1>1 DEF RouteInv, RouteType, TopicsInv
  <2> QED BY <1>1, <2>1, HeadTailProperties
<1>3. /\ calls'[u].stage = "Topics" /\ calls'[u].id = id /\ calls'[u].filters = Tail(filters)
      /\ \A v \in Users \ {u} : calls'[v] = calls[v]
  <2>1. calls[u] = Call(calls[u].op, calls[u].stage, calls[u].message, filters, id)
      BY DEF OrderInv, CallsInv, CallInv
  <2>2. /\ [calls[u] EXCEPT !.filters = Tail(filters)].stage = "Topics"
        /\ [calls[u] EXCEPT !.filters = Tail(filters)].id = id
        /\ [calls[u] EXCEPT !.filters = Tail(filters)].filters = Tail(filters)
      BY <1>1, <2>1 DEF Call
  <2>3. \A v \in Users : calls'[v] = IF v = u THEN [calls[u] EXCEPT !.filters = Tail(filters)]
                                              ELSE calls[v]
      BY <1>1 DEF OrderInv, CallsInv
  <2> QED BY <2>2, <2>3
<1>4. \A x : Older(x) => Older(x)'
    BY <1>1 DEF Older, Forwarding
<1>5. IncomingInv'
    BY <1>1, <1>4 DEF RouteInv, IncomingInv, Forwarding, Routing
<1>6. /\ subscription_topics \in [Filters -> Seq(DOMAIN subscriptions)]
      /\ subscription_topics' \in [Filters -> Seq(DOMAIN subscriptions)]
      /\ subscription_topics'[filter] = Append(subscription_topics[filter], id)
      /\ \A f \in Filters \ {filter} : subscription_topics'[f] = subscription_topics[f]
  <2>1. subscription_topics \in [Filters -> Seq(DOMAIN subscriptions)]
      BY DEF RouteInv, RouteType
  <2>2. Append(subscription_topics[filter], id) \in Seq(DOMAIN subscriptions)
      BY <1>2, <2>1
  <2> QED BY <1>1, <1>2, <2>1, <2>2
<1>7. RouteType'
  <2>1. \A v \in Users : calls'[v].filters \in Seq(Filters)
      BY <1>2, <1>3 DEF RouteInv, RouteType
  <2>2. UNCHANGED <<incoming, routing, subscriptions, counts>>
      BY <1>1
  <2> QED BY <1>6, <2>1, <2>2 DEF RouteInv, RouteType
<1>8. ASSUME NEW x \in DOMAIN subscriptions, NEW f \in Filters
      PROVE  /\ Occurs(subscription_topics[f], x) \in Nat
             /\ Occurs(subscription_topics'[f], x) =
                    Occurs(subscription_topics[f], x) + (IF x = id /\ f = filter THEN 1 ELSE 0)
  <2>1. subscription_topics[f] \in Seq(DOMAIN subscriptions)
      BY <1>6
  <2>2. Occurs(subscription_topics[f], x) \in Nat
      BY <2>1, OccursNat
  <2>3. Occurs(Append(subscription_topics[f], id), x) =
            Occurs(subscription_topics[f], x) + (IF id = x THEN 1 ELSE 0)
      BY <1>2, <2>1, OccursAppend
  <2>4. CASE f = filter
      BY <1>6, <2>2, <2>3, <2>4
  <2>5. CASE f # filter
      BY <1>6, <2>2, <2>5
  <2> QED BY <2>4, <2>5
<1>9. ASSUME NEW f \in Filters
      PROVE  /\ Occurs(Tail(filters), f) \in Nat
             /\ Occurs(filters, f) = Occurs(Tail(filters), f) + (IF f = filter THEN 1 ELSE 0)
    BY <1>1, <1>2, OccursTail, OccursNat
<1>10. ASSUME NEW f \in Filters
       PROVE  /\ Occurs(subscription_topics[f], id) + Occurs(filters, f)
                     <= Occurs(subscriptions[id].filters, f)
              /\ Occurs(subscriptions[id].filters, f) \in Nat
  <2>1. subscriptions[id].filters \in Seq(Filters)
    <3>1. subscriptions[id] \in Sinks
        BY <1>2 DEF RouteInv, RouteType
    <3> QED BY <3>1 DEF Sinks
  <2>2. Occurs(subscriptions[id].filters, f) \in Nat
      BY <2>1, OccursNat
  <2> QED BY <1>1, <2>2 DEF RouteInv, TopicsInv
<1>11. ASSUME NEW f \in Filters
       PROVE  /\ Occurs(subscription_topics'[f], id) + Occurs(Tail(filters), f)
                     <= Occurs(subscriptions[id].filters, f)
              /\ Occurs(subscription_topics'[f], id) <= Occurs(subscriptions[id].filters, f)
  <2>1. /\ Occurs(subscription_topics[f], id) \in Nat
        /\ Occurs(subscription_topics'[f], id) =
               Occurs(subscription_topics[f], id) + (IF f = filter THEN 1 ELSE 0)
      BY <1>2, <1>8
  <2> HIDE <1>8
  <2> QED BY <1>9, <1>10, <2>1
<1>12. TopicsInv'
  <2>1. ASSUME NEW x \in DOMAIN subscriptions, NEW f \in Filters
        PROVE  Occurs(subscription_topics'[f], x) <= Occurs(subscriptions[x].filters, f)
    <3>1. CASE x = id
        BY <1>11, <3>1
    <3>2. CASE x # id
      <4>1. Occurs(subscription_topics'[f], x) = Occurs(subscription_topics[f], x)
          BY <1>8, <3>2
      <4> QED BY <4>1 DEF RouteInv, TopicsInv
    <3> QED BY <3>1, <3>2
  <2>2. ASSUME NEW v \in Users, calls'[v].stage = "Topics"
        PROVE  /\ calls'[v].id \in DOMAIN subscriptions
               /\ \A f \in Filters :
                     Occurs(subscription_topics'[f], calls'[v].id) + Occurs(calls'[v].filters, f)
                         <= Occurs(subscriptions[calls'[v].id].filters, f)
    <3>1. CASE v = u
        BY <1>2, <1>3, <1>11, <3>1
    <3>2. CASE v # u
      <4>1. calls'[v] = calls[v] /\ calls[v].stage = "Topics"
          BY <1>3, <2>2, <3>2
      <4>2. calls[v].id \in DOMAIN subscriptions /\ calls[v].id # id
          BY <1>1, <3>2, <4>1 DEF RouteInv, TopicsInv
      <4>3. \A f \in Filters : Occurs(subscription_topics'[f], calls[v].id) =
                                   Occurs(subscription_topics[f], calls[v].id)
          BY <1>8, <4>2
      <4>4. \A f \in Filters :
                Occurs(subscription_topics[f], calls[v].id) + Occurs(calls[v].filters, f)
                    <= Occurs(subscriptions[calls[v].id].filters, f)
          BY <4>1 DEF RouteInv, TopicsInv
      <4> QED BY <4>1, <4>2, <4>3, <4>4
    <3> QED BY <3>1, <3>2
  <2>3. ASSUME NEW v \in Users, NEW w \in Users, calls'[v].stage = "Topics",
               calls'[w].stage = "Topics", calls'[w].id = calls'[v].id
        PROVE  w = v
    <3>1. \A x \in Users : calls'[x].stage = calls[x].stage /\ calls'[x].id = calls[x].id
        BY <1>1, <1>3
    <3> QED BY <2>3, <3>1 DEF RouteInv, TopicsInv
  <2> QED BY <1>1, <2>1, <2>2, <2>3 DEF TopicsInv
<1>13. \A x \in DOMAIN subscriptions' : GivenInv(x)'
    BY <1>1, <1>4 DEF RouteInv, GivenInv, Routing
<1> QED BY <1>5, <1>7, <1>12, <1>13 DEF RouteInv

\* The other steps of a call leave the router alone.
LEMMA CallersRoute ==
    ASSUME OrderInv, RouteInv, NEW u \in Users,
           BeginConnect(u) \/ connect(u) \/ BeginPublish(u) \/ BeginBuild(u) \/ Lock(u)
             \/ Send(u) \/ Cancel(u)
    PROVE  RouteInv'
<1>1. UNCHANGED <<router, action>> /\ (task' = "Handle" => UNCHANGED task)
    BY DEF BeginConnect, connect, BeginPublish, BeginBuild, Lock, Send, Cancel, vars,
           connectionTask
<1>2. counts'.arrivals = counts.arrivals
  <2>1. CASE BeginPublish(u) \/ BeginBuild(u)
      BY <2>1 DEF BeginPublish, BeginBuild, OrderInv, CallsInv
  <2>2. CASE ~(BeginPublish(u) \/ BeginBuild(u))
      BY <2>2 DEF BeginConnect, connect, Lock, Send, Cancel
  <2> QED BY <2>1, <2>2
<1>3. PICK c : calls' = [calls EXCEPT ![u] = c] /\ c.filters \in Seq(Filters) /\ c.stage # "Topics"
  <2>1. /\ NoCall.filters = <<>> /\ NoCall.stage # "Topics" /\ <<>> \in Seq(Filters)
        /\ calls[u].filters \in Seq(Filters)
        /\ calls[u] = Call(calls[u].op, calls[u].stage, calls[u].message, calls[u].filters,
                           calls[u].id)
      BY DEF NoCall, Call, RouteInv, RouteType, OrderInv, CallsInv, CallInv
  <2>7. calls = [calls EXCEPT ![u] = calls[u]]
      BY DEF OrderInv, CallsInv
  <2>2. CASE BeginConnect(u)
    <3>1. LET c == Call("Connect", "Lock", None, <<>>, None)
          IN  calls' = [calls EXCEPT ![u] = c] /\ c.filters = <<>> /\ c.stage # "Topics"
        BY <2>2 DEF BeginConnect, Call
    <3> QED BY <2>1, <3>1
  <2>3. CASE BeginPublish(u) /\ calls' # calls
    <3>1. PICK m : calls' = [calls EXCEPT ![u] = Call("Publish", "Lock", m, <<>>, None)]
        BY <2>3 DEF BeginPublish
    <3>2. LET c == Call("Publish", "Lock", m, <<>>, None)
          IN  c.filters = <<>> /\ c.stage # "Topics"
        BY DEF Call
    <3> QED BY <2>1, <3>1, <3>2
  <2>8. CASE (BeginPublish(u) \/ BeginBuild(u)) /\ UNCHANGED calls
    <3>1. calls[u] = NoCall
        BY <2>8 DEF BeginPublish, BeginBuild
    <3> QED BY <2>1, <2>7, <2>8, <3>1
  <2>4. CASE BeginBuild(u) /\ calls' # calls
    <3>1. PICK filters \in FilterLists[u] :
              calls' = [calls EXCEPT ![u] = Call("Subscribe", "Lock", None, filters, None)]
        BY <2>4 DEF BeginBuild
    <3>2. LET c == Call("Subscribe", "Lock", None, filters, None)
          IN  c.filters = filters /\ c.stage # "Topics"
        BY DEF Call
    <3>3. filters \in Seq(Filters)
        BY <3>1, ClientAssumption
    <3> QED BY <3>1, <3>2, <3>3
  <2>5. CASE Lock(u) \/ Send(u)
    <3>1. PICK stage : /\ stage # "Topics"
                       /\ \/ calls' = [calls EXCEPT ![u] = NoCall]
                          \/ calls' = [calls EXCEPT ![u] = [calls[u] EXCEPT !.stage = stage]]
        BY <2>5 DEF Lock, Send
    <3>2. LET c == [calls[u] EXCEPT !.stage = stage]
          IN  c.filters = calls[u].filters /\ c.stage = stage
        BY <2>1 DEF Call
    <3> QED BY <2>1, <3>1, <3>2
  <2>6. CASE connect(u) \/ Cancel(u)
      BY <2>1, <2>6 DEF connect, Cancel
  <2> QED BY <2>2, <2>3, <2>4, <2>5, <2>6, <2>8
<1>4. \A v \in Users : /\ calls'[v].filters \in Seq(Filters)
                       /\ calls'[v].stage = "Topics" => calls'[v] = calls[v]
    BY <1>3 DEF OrderInv, CallsInv, RouteInv, RouteType
<1>5. Forwarding' => Forwarding /\ UNCHANGED action
    BY <1>1 DEF Forwarding
<1> QED BY <1>1, <1>2, <1>4, <1>5, RouteFrame

-----------------------------------------------------------------------------
\* Every step of the client keeps what the router relies on.
THEOREM RouteInvariant == ClientSpec => []RouteInv
<1>1. OrderInv /\ RouteInv /\ [ClientNext]_clientVars => RouteInv'
  <2> SUFFICES ASSUME OrderInv, RouteInv, [ClientNext]_clientVars PROVE RouteInv'
      OBVIOUS
  <2>1. CASE UNCHANGED clientVars
    <3>1. UNCHANGED <<router, counts, calls, action, task>>
        BY <2>1 DEF clientVars, vars, connectionTask
    <3>2. \A u \in Users : calls'[u].filters \in Seq(Filters) /\ calls'[u] = calls[u]
        BY <3>1 DEF RouteInv, RouteType
    <3>3. Forwarding' => Forwarding /\ UNCHANGED action
        BY <3>1 DEF Forwarding
    <3> QED BY <3>1, <3>2, <3>3, RouteFrame
  <2>2. ASSUME NEW u \in Users,
               BeginConnect(u) \/ connect(u) \/ BeginPublish(u) \/ BeginBuild(u) \/ Lock(u)
                 \/ Send(u) \/ Cancel(u)
        PROVE  RouteInv'
      BY <2>2, CallersRoute
  <2>3. ASSUME NEW u \in Users, AddSink(u) PROVE RouteInv'
      BY <2>3, AddSinkRoute
  <2>4. ASSUME NEW u \in Users, AddTopic(u) PROVE RouteInv'
      BY <2>4, AddTopicRoute, SubscriptionsRoute
  <2>5. ASSUME NEW u \in Users, Built(u) PROVE RouteInv'
      BY <2>5, SubscriptionsRoute
  <2>6. ASSUME NEW id \in DOMAIN subscriptions, PollNext(id) \/ DropSubscription(id)
        PROVE  RouteInv'
      BY <2>6, SubscriptionsRoute
  <2>7. CASE ReadPacket \/ Forward
      BY <2>7, ReadPacketRoute, ForwardRoute
  <2>8. CASE Start \/ ReaderEnds \/ SetUnconnected \/ TakeToSend \/ RunPublisher \/ RunMachine
               \/ Write \/ Unreachable
      BY <2>8, TaskRoute
  <2>9. CASE RouterReceives \/ Deliver
      BY <2>9, RouterReceivesRoute, DeliverRoute
  <2> QED BY <2>1, <2>2, <2>3, <2>4, <2>5, <2>6, <2>7, <2>8, <2>9 DEF ClientNext
<1> QED BY <1>1, RouteInvInit, OrderInvariant, PTL DEF ClientSpec

(***************************************************************************)
(* A subscription is given the publishes of the server in the order of     *)
(* their arrival, each at most as often as it names a filter it matches,   *)
(* for any number of subscriptions, filters, shards and callers.           *)
(***************************************************************************)
THEOREM RouterDeliversInOrder == ClientSpec => []DeliveredInOrder
<1>1. RouteInv => DeliveredInOrder
  <2> SUFFICES ASSUME RouteInv, NEW id \in DOMAIN subscriptions
               PROVE  LET sub == subscriptions[id]
                          given == sub.got \o sub.queue
                          named(f) == {i \in DOMAIN sub.filters : sub.filters[i] = f}
                      IN  /\ \A i, j \in DOMAIN given : i < j => given[i][2] <= given[j][2]
                          /\ \A i \in DOMAIN given :
                                \E f \in Matching[given[i][1]] :
                                    Cardinality({j \in DOMAIN given : given[j] = given[i]})
                                        <= Cardinality(named(f))
      BY DEF DeliveredInOrder
  <2>1. GivenInv(id)
      BY DEF RouteInv
  <2> QED BY <2>1 DEF GivenInv, Given, Occurs
<1> QED BY <1>1, RouteInvariant, PTL
=============================================================================
