-------------------------- MODULE CloudmqttClient --------------------------
(***************************************************************************)
(* CloudmqttClient with its parts: the CoreClient (a mutex around the      *)
(* connection's sender, one task per connection that drives the            *)
(* MqttClientFSM), the Router task with its two maps, and the tasks of the *)
(* program that call connect, publish and subscribe at the same time.      *)
(*                                                                         *)
(* Everything between two awaits of one task is a step.  The machine of    *)
(* MqttClientFSM is inside the connection task while there is one and      *)
(* inside ConnectionState::Unconnected otherwise.  The server may send     *)
(* anything, and the stream may end at any time or refuse a write.         *)
(***************************************************************************)
EXTENDS MqttClientFSM, Sequences, FiniteSets

CONSTANTS Users,            \* the tasks that call the client
          Filters,          \* topic filters
          ValidFilters,     \* those that TopicFilterBuf::new accepts
          LongFilters,      \* those longer than a length field can say
          Shard,            \* the DashMap shard of each filter
          Topics,           \* topic names of the server's publishes
          RefusedTopics,    \* names that MqttPacket::new cannot write or parse
          Matching,         \* topic |-> the filters it matches; {} if invalid
          FilterLists,      \* what each user gives to a SubscriptionBuilder
          Connectors,       \* bound: the users that call connect, ...
          Publishers,       \* ... and those that call publish
          MaxPublishes,     \* bound: publishes of the program
          MaxSubscriptions, \* bound: subscriptions of the program
          MaxArrivals       \* bound: publishes of the server

ASSUME ClientAssumption ==
    /\ Matching \in [Topics -> SUBSET ValidFilters]
    /\ ValidFilters \subseteq Filters /\ LongFilters \subseteq Filters
    /\ Topics \cap RefusedTopics = {}
    /\ Connectors \subseteq Users /\ Publishers \subseteq Users
    /\ "cloudmqtt-0" \in ClientIdentifiers
    /\ DOMAIN Shard = Filters
    /\ FilterLists \in [Users -> SUBSET Seq(Filters)]
    /\ {MaxPublishes, MaxSubscriptions, MaxArrivals} \subseteq Nat
    /\ Messages = Topics \X (1 .. MaxPublishes + MaxArrivals)

VARIABLES connection,   \* which variant CoreClient::connection_state is
          attached,     \* its sender belongs to the channel of the task
          lock,         \* the caller that waits for room with the mutex locked
          task,         \* where the connection task is
          channel,      \* SendUsages on their way to the task, capacity 1
          accepted,     \* history: the SendUsages of this connection
          wire,         \* history: those of them that were written
          calls,        \* the call each user is in
          counts,       \* history: publishes, builds and arrivals so far
          incoming,     \* publishes on their way to the router, capacity 1
          routing,      \* the publish the router is delivering
          subscriptions, \* the sinks by SubscriptionId, and their receivers
          subscription_topics

client == <<connection, attached, lock>>
connectionTask == <<task, channel, accepted, wire>>
router == <<incoming, routing, subscriptions, subscription_topics>>
clientVars == <<vars, client, connectionTask, calls, counts, router>>

Capacity == 1

\* The connection task is in handle_connection and owns the receiver.
Running == task \in {"Starting", "Select", "Publisher", "Run", "Handle"}

\* Mutant: the receiver is dropped after the mutex was locked.
ReceiverAliveUntilTheEnd == attached /\ (Running \/ task = "Lost")

ReceiverAlive == attached /\ Running

SendUsage(kind, m) == [kind |-> kind, message |-> m]

Call(op, stage, message, filters, id) ==
    [op |-> op, stage |-> stage, message |-> message, filters |-> filters, id |-> id]
NoCall == Call("None", "Done", None, <<>>, None)
NoRoute == [message |-> None, filter |-> None, ids |-> <<>>]

\* since(start), which starts at 0 with each connection.
Now ==
    {t \in Instants : t >= IF IsConnecting THEN connection_state.connect_sent
                           ELSE last_time_run}

-----------------------------------------------------------------------------
\* CloudmqttClient::connect, publish and SubscriptionBuilder::build up to the
\* mutex.
BeginConnect(u) ==
    /\ calls[u] = NoCall /\ u \in Connectors
    /\ calls' = [calls EXCEPT ![u] = Call("Connect", "Lock", None, <<>>, None)]
    /\ UNCHANGED <<vars, client, connectionTask, counts, router>>

\* MqttPacket::new panics in the caller for a name it refuses.
BeginPublish(u) ==
    /\ calls[u] = NoCall /\ u \in Publishers /\ counts.publishes < MaxPublishes
    /\ counts' = [counts EXCEPT !.publishes = @ + 1]
    /\ \/ \E topic \in Topics :
             calls' = [calls EXCEPT ![u] =
                         Call("Publish", "Lock", <<topic, counts'.publishes>>, <<>>, None)]
       \/ RefusedTopics # {} /\ UNCHANGED calls
    /\ UNCHANGED <<vars, client, connectionTask, router>>

\* What a SUBSCRIBE can be made of; for anything else build panics in the caller.
Subscribable(filters) ==
    filters # <<>> /\ \A i \in DOMAIN filters : filters[i] \notin LongFilters

BeginBuild(u) ==
    /\ calls[u] = NoCall /\ counts.builds < MaxSubscriptions
    /\ counts' = [counts EXCEPT !.builds = @ + 1]
    /\ \E filters \in FilterLists[u] :
          \/ /\ Subscribable(filters)
             /\ calls' = [calls EXCEPT ![u] = Call("Subscribe", "Lock", None, filters, None)]
          \/ ~Subscribable(filters) /\ UNCHANGED calls
    /\ UNCHANGED <<vars, client, connectionTask, router>>

\* CoreClient::connect: the new sender is in place before the old variant is
\* looked at; only if that was Unconnected the new receiver gets a task.
connect(u) ==
    /\ calls[u].stage = "Lock" /\ calls[u].op = "Connect" /\ lock = None
    /\ connection' = "Connected"
    /\ calls' = [calls EXCEPT ![u] = NoCall]
    /\ \/ /\ connection = "Unconnected"
          /\ attached' = TRUE
          /\ task' = "Starting" /\ channel' = <<>>
          /\ accepted' = <<>> /\ wire' = <<>>
       \/ /\ connection = "Connected"                  \* Error::AlreadyConnected
          /\ attached' = FALSE
          /\ UNCHANGED connectionTask
    /\ UNCHANGED <<vars, lock, counts, router>>

\* CoreClient::publish and subscribe.  Error::NotConnected leaves at once;
\* otherwise the mutex stays locked while the channel is full.
Lock(u) ==
    /\ calls[u].stage = "Lock" /\ calls[u].op # "Connect" /\ lock = None
    /\ \/ /\ connection = "Unconnected"
          /\ calls' = [calls EXCEPT ![u] = NoCall]
          /\ UNCHANGED lock
       \/ /\ connection = "Connected"
          /\ calls' = [calls EXCEPT ![u].stage = "Send"]
          /\ lock' = u
    /\ UNCHANGED <<vars, connection, attached, connectionTask, counts, router>>

Send(u) ==
    /\ calls[u].stage = "Send"
    /\ \/ /\ ReceiverAlive /\ Len(channel) < Capacity
          /\ channel' = Append(channel, SendUsage(calls[u].op, calls[u].message))
          /\ accepted' = Append(accepted, SendUsage(calls[u].op, calls[u].message))
          /\ calls' = [calls EXCEPT ![u] = IF @.op = "Publish" THEN NoCall
                                           ELSE [@ EXCEPT !.stage = "Sink"]]
       \/ /\ ~ReceiverAlive                             \* Error::TokioChannel
          /\ calls' = [calls EXCEPT ![u] = NoCall]
          /\ UNCHANGED <<channel, accepted>>
    /\ lock' = None
    /\ UNCHANGED <<vars, connection, attached, task, wire, counts, router>>

\* A future may be dropped where it waits.
Cancel(u) ==
    /\ calls[u].stage \in {"Lock", "Send"}
    /\ calls' = [calls EXCEPT ![u] = NoCall]
    /\ lock' = IF lock = u THEN None ELSE lock
    /\ UNCHANGED <<vars, connection, attached, connectionTask, counts, router>>

-----------------------------------------------------------------------------
\* The task goes on with what the machine returned.
Proceed ==
    task' = IF panic' # NotPanicked THEN "Panicked"
            ELSE IF action' # NoAction THEN "Handle"
            ELSE "Select"

\* handle_connection up to the loop.
Start ==
    /\ task = "Starting"
    /\ \E t \in Instants : handle_connect(t, ConnectPacket("cloudmqtt-0", 0))
    /\ Proceed
    /\ UNCHANGED <<client, channel, accepted, wire, calls, counts, router>>

\* The reader's branch of the select.
ReadPacket ==
    /\ task = "Select"
    /\ \E t \in Now, packet \in IncomingPackets :
          /\ packet.type = "Publish" =>
                /\ counts.arrivals < MaxArrivals
                /\ packet.message[2] = counts.arrivals + 1
          /\ consume(t, packet)
          /\ counts' = [counts EXCEPT !.arrivals =
                          IF packet.type = "Publish" THEN @ + 1 ELSE @]
    /\ Proceed
    /\ UNCHANGED <<client, channel, accepted, wire, calls, router>>

\* Mutant: the machine is not told.
ReaderEndsUnnoticed ==
    /\ task = "Select"
    /\ task' = "Lost"
    /\ UNCHANGED <<vars, client, channel, accepted, wire, calls, counts, router>>

\* The stream ended or broke: handle_connection returns, which drops the
\* receiver, and the machine learns of it.
ReaderEnds ==
    /\ task = "Select"
    /\ \E t \in Now : connection_lost(t)
    /\ task' = "Lost"
    /\ UNCHANGED <<client, channel, accepted, wire, calls, counts, router>>

SetUnconnected ==
    /\ task = "Lost" /\ lock = None
    /\ connection' = "Unconnected" /\ attached' = FALSE
    /\ task' = "None"
    /\ UNCHANGED <<vars, lock, channel, accepted, wire, calls, counts, router>>

\* Mutant: `if fsm.is_connected()` is dropped.
MayReceiveAlways == TRUE

MayReceive == IsConnected

\* Mutant: what is taken stays in the channel.
RestOfChannelKept == channel

RestOfChannel == Tail(channel)

\* The receiver's branch of the select.
TakeToSend ==
    /\ task = "Select" /\ MayReceive /\ channel # <<>>
    /\ channel' = RestOfChannel
    /\ \/ /\ Head(channel).kind = "Publish"
          /\ publish(PublishPacket("AtMostOnce", None, Head(channel).message))
          /\ task' = "Publisher"
       \/ /\ Head(channel).kind = "Subscribe"
          /\ \E t \in Now : subscribe(t)
          /\ Proceed
    /\ UNCHANGED <<client, accepted, wire, calls, counts, router>>

\* while let Some(action) = publisher.run(..), then fsm.run(..).
RunPublisher ==
    /\ task = "Publisher"
    /\ \/ (\E t \in Now : PublisherSend(t)) /\ Proceed
       \/ handle.state = "Done" /\ DropHandle /\ task' = "Run"
    /\ UNCHANGED <<client, channel, accepted, wire, calls, counts, router>>

RunMachine ==
    /\ task = "Run"
    /\ \E t \in Now : run(t)
    /\ Proceed
    /\ UNCHANGED <<client, channel, accepted, wire, calls, counts, router>>

Handled ==
    /\ task' = IF handle # NoHandle THEN "Publisher" ELSE "Select"
    /\ action' = NoAction

\* handle_action.  A write that fails panics; a publish of the server waits
\* for room on the way to the router; the rest is unreachable!().
Write ==
    /\ task = "Handle" /\ action.do = "SendPacket"
    /\ \/ /\ Handled
          /\ wire' = IF action.packet.type = "Publish"
                     THEN Append(wire, SendUsage("Publish", action.packet.message))
                     ELSE IF action.packet.type = "Subscribe"
                     THEN Append(wire, SendUsage("Subscribe", None))
                     ELSE wire
       \/ task' = "Panicked" /\ UNCHANGED <<action, wire>>
    /\ UNCHANGED <<data, connection_state, client_pis, handle, acks, panic,
                   client, channel, accepted, calls, counts, router>>

\* Mutant: the packet is handed on again while there is room.
ForwardAgain ==
    /\ task = "Handle" /\ action.do = "NoFurtherAction"
    /\ Len(incoming) < Capacity
    /\ incoming' = Append(incoming, action.packet.message)
    /\ UNCHANGED <<vars, client, connectionTask, calls, counts,
                   routing, subscriptions, subscription_topics>>

Forward ==
    /\ task = "Handle" /\ action.do = "NoFurtherAction"
    /\ Len(incoming) < Capacity
    /\ incoming' = Append(incoming, action.packet.message)
    /\ Handled
    /\ UNCHANGED <<data, connection_state, client_pis, handle, acks, panic,
                   client, channel, accepted, wire, calls, counts,
                   routing, subscriptions, subscription_topics>>

Unreachable ==
    /\ task = "Handle" /\ action.do \notin {"SendPacket", "NoFurtherAction"}
    /\ task' = "Unreachable"
    /\ UNCHANGED <<vars, client, channel, accepted, wire, calls, counts, router>>

-----------------------------------------------------------------------------
\* The router takes a publish and looks for a filter that matches: any one,
\* the order is that of a hash map.  The guard of its shard is held from here
\* until the publish is delivered.
RouterReceives ==
    /\ routing = NoRoute /\ incoming # <<>>
    /\ LET found == {f \in Matching[Head(incoming)[1]] : subscription_topics[f] # <<>>}
       IN  \/ found = {} /\ UNCHANGED routing
           \/ \E f \in found :
                 routing' = [message |-> Head(incoming), filter |-> f,
                             ids |-> subscription_topics[f]]
    /\ incoming' = Tail(incoming)
    /\ UNCHANGED <<vars, client, connectionTask, calls, counts,
                   subscriptions, subscription_topics>>

\* Mutant: try_send for send.
SendFailsWhenFull(sink) ==
    sink.receiver = "Dropped" \/ Len(sink.queue) = Capacity

\* The error is only logged.
SendFails(sink) == sink.receiver = "Dropped"

\* One turn of the router's loop over the SubscriptionIds.
Deliver ==
    /\ routing.ids # <<>>
    /\ LET id == Head(routing.ids)
           sink == subscriptions[id]
           ids == Tail(routing.ids)
       IN  /\ \/ /\ ~SendFails(sink) /\ Len(sink.queue) < Capacity
                 /\ subscriptions' = [subscriptions EXCEPT
                                        ![id].queue = Append(@, routing.message)]
              \/ SendFails(sink) /\ UNCHANGED subscriptions
           /\ routing' = IF ids = <<>> THEN NoRoute ELSE [routing EXCEPT !.ids = ids]
    /\ UNCHANGED <<vars, client, connectionTask, calls, counts,
                   incoming, subscription_topics>>

\* build after the SUBSCRIBE was handed on: add_subscription_sink ...
AddSink(u) ==
    /\ calls[u].stage = "Sink"
    /\ subscriptions' = Append(subscriptions,
                               [receiver |-> "Building", queue |-> <<>>, got |-> <<>>,
                                filters |-> calls[u].filters])
    /\ calls' = [calls EXCEPT ![u].stage = "Topics", ![u].id = Len(subscriptions) + 1]
    /\ UNCHANGED <<vars, client, connectionTask, counts,
                   incoming, routing, subscription_topics>>

\* Mutant: one lock for the whole map.
MapIsFree(filter) == routing = NoRoute

ShardIsFree(filter) == routing # NoRoute => Shard[routing.filter] # Shard[filter]

\* ... and add_subscription_to_topic for each filter.  An invalid filter
\* panics in the caller, whose receiver is dropped; a valid one waits for the
\* shard, with the whole thread.
AddTopic(u) ==
    /\ calls[u].stage = "Topics" /\ calls[u].filters # <<>>
    /\ LET filter == Head(calls[u].filters)
           id == calls[u].id
       IN  \/ /\ filter \in ValidFilters
              /\ ShardIsFree(filter)
              /\ subscription_topics' = [subscription_topics EXCEPT ![filter] = Append(@, id)]
              /\ calls' = [calls EXCEPT ![u].filters = Tail(@)]
              /\ UNCHANGED subscriptions
           \/ /\ filter \notin ValidFilters
              /\ subscriptions' = [subscriptions EXCEPT ![id].receiver = "Dropped",
                                                        ![id].queue = <<>>]
              /\ calls' = [calls EXCEPT ![u] = NoCall]
              /\ UNCHANGED subscription_topics
    /\ UNCHANGED <<vars, client, connectionTask, counts, incoming, routing>>

Built(u) ==
    /\ calls[u].stage = "Topics" /\ calls[u].filters = <<>>
    /\ subscriptions' = [subscriptions EXCEPT ![calls[u].id].receiver = "Open"]
    /\ calls' = [calls EXCEPT ![u] = NoCall]
    /\ UNCHANGED <<vars, client, connectionTask, counts,
                   incoming, routing, subscription_topics>>

\* Subscription::poll_next, by whoever holds the subscription, and its drop.
PollNext(id) ==
    /\ subscriptions[id].receiver = "Open" /\ subscriptions[id].queue # <<>>
    /\ subscriptions' = [subscriptions EXCEPT ![id].queue = Tail(@),
                           ![id].got = Append(@, Head(subscriptions[id].queue))]
    /\ UNCHANGED <<vars, client, connectionTask, calls, counts,
                   incoming, routing, subscription_topics>>

DropSubscription(id) ==
    /\ subscriptions[id].receiver = "Open"
    /\ subscriptions' = [subscriptions EXCEPT ![id].receiver = "Dropped",
                                              ![id].queue = <<>>]
    /\ UNCHANGED <<vars, client, connectionTask, calls, counts,
                   incoming, routing, subscription_topics>>

-----------------------------------------------------------------------------
\* CloudmqttClient::new, or new_from_connection, whose task is spawned.
ClientInit ==
    /\ Init
    /\ \/ connection = "Unconnected" /\ task = "None" /\ attached = FALSE
       \/ connection = "Connected" /\ task = "Starting" /\ attached = TRUE
    /\ lock = None
    /\ channel = <<>> /\ accepted = <<>> /\ wire = <<>>
    /\ calls = [u \in Users |-> NoCall]
    /\ counts = [publishes |-> 0, builds |-> 0, arrivals |-> 0]
    /\ incoming = <<>> /\ routing = NoRoute
    /\ subscriptions = <<>>
    /\ subscription_topics = [f \in Filters |-> <<>>]

ClientNext ==
    \/ \E u \in Users : BeginConnect(u)
    \/ \E u \in Users : connect(u)
    \/ \E u \in Users : BeginPublish(u)
    \/ \E u \in Users : BeginBuild(u)
    \/ \E u \in Users : Lock(u)
    \/ \E u \in Users : Send(u)
    \/ \E u \in Users : Cancel(u)
    \/ \E u \in Users : AddSink(u)
    \/ \E u \in Users : AddTopic(u)
    \/ \E u \in Users : Built(u)
    \/ Start
    \/ ReadPacket
    \/ ReaderEnds
    \/ SetUnconnected
    \/ TakeToSend
    \/ RunPublisher
    \/ RunMachine
    \/ Write
    \/ Forward
    \/ Unreachable
    \/ RouterReceives
    \/ Deliver
    \/ \E id \in DOMAIN subscriptions : PollNext(id)
    \/ \E id \in DOMAIN subscriptions : DropSubscription(id)

ClientSpec == ClientInit /\ [][ClientNext]_clientVars

(***************************************************************************)
(* The runtime runs every task that can go on: the callers, the task of    *)
(* the connection, the router, and for every finished subscription someone *)
(* who reads it and does nothing else.  The server answers a CONNECT or    *)
(* the stream ends.                                                        *)
(***************************************************************************)
ServerAnswers == IsConnecting /\ (ReadPacket \/ ReaderEnds)

CallSteps(u) == connect(u) \/ Lock(u) \/ Send(u) \/ AddSink(u) \/ AddTopic(u) \/ Built(u)

TaskSteps ==
    \/ Start \/ ServerAnswers \/ TakeToSend \/ RunPublisher \/ RunMachine
    \/ Write \/ Forward \/ Unreachable \/ SetUnconnected

Fairness ==
    /\ \A u \in Users : WF_clientVars(CallSteps(u))
    /\ WF_clientVars(TaskSteps)
    /\ WF_clientVars(RouterReceives \/ Deliver)
    /\ \A id \in 1 .. MaxSubscriptions :
          WF_clientVars(id \in DOMAIN subscriptions /\ PollNext(id))

FairSpec == ClientSpec /\ Fairness

-----------------------------------------------------------------------------
(***************************************************************************)
(* The task never asks the machine for what it answers with a panic: a     *)
(* reconnect finds it disconnected and with its identity, a publish or a   *)
(* SUBSCRIBE finds it connected, whatever was in the channel before, and   *)
(* only a SUBSCRIBE without a free identifier fails.                       *)
(***************************************************************************)
MachineIsAskedInTime ==
    /\ panic \notin {"handle_connect", "publish"}
    /\ panic = "subscribe" => InUse = 1 .. USIZE_BITS

(***************************************************************************)
(* The machine is in the state or in the task of the connection, never in  *)
(* both; in the state it is disconnected, free of borrows and ready for    *)
(* the next connect.  It is lost with its task only where a write failed,  *)
(* the server sent what consume panics on, a SUBSCRIBE found no free       *)
(* identifier, or the machine returned what handle_action does not know:   *)
(* then the state stays Connected and no connect finds a machine again.    *)
(***************************************************************************)
MachineHasOneOwnerOrIsLost ==
    /\ connection = "Unconnected" => task = "None" /\ IsDisconnected /\ Idle
    /\ connection = "Connected" =>
          \/ Running \/ task = "Lost"
          \/ /\ task = "Panicked"
             /\ \/ panic \in {"consume", "subscribe"}
                \/ panic = NotPanicked /\ action.do = "SendPacket"
          \/ /\ task = "Unreachable"
             /\ action.do \in {"SaveClientIdentifier", "ReleasePacket",
                              "AcknowledgeNeeded", "Disconnect"}

\* What the task has taken from the channel and not written yet.
InHand ==
    IF handle.kind = "Publisher" /\ handle.state = "Send"
    THEN <<SendUsage("Publish", handle.packet.message)>>
    ELSE IF task = "Handle" /\ action.do = "SendPacket" /\ action.packet.type = "Publish"
    THEN <<SendUsage("Publish", action.packet.message)>>
    ELSE IF task = "Handle" /\ action.do = "SendPacket" /\ action.packet.type = "Subscribe"
    THEN <<SendUsage("Subscribe", None)>>
    ELSE <<>>

(***************************************************************************)
(* As long as the connection's task runs, every publish and SUBSCRIBE that *)
(* a caller got an Ok for is on the wire once, or still on its way there,  *)
(* in the order in which the callers had the mutex.                        *)
(***************************************************************************)
AcceptedIsWrittenInOrder == Running => accepted = wire \o InHand \o channel

(***************************************************************************)
(* A subscription gets publishes in the order in which they arrived, each  *)
(* at most once for every time it names the filter, and only those its     *)
(* filters match, while other subscriptions are built, fail half way and   *)
(* are dropped.                                                            *)
(***************************************************************************)
DeliveredInOrder ==
    \A id \in DOMAIN subscriptions :
        LET sub == subscriptions[id]
            given == sub.got \o sub.queue
            named(f) == {i \in DOMAIN sub.filters : sub.filters[i] = f}
        IN  /\ \A i, j \in DOMAIN given : i < j => given[i][2] <= given[j][2]
            /\ \A i \in DOMAIN given :
                  \E f \in Matching[given[i][1]] :
                      Cardinality({j \in DOMAIN given : given[j] = given[i]})
                          <= Cardinality(named(f))

(***************************************************************************)
(* The one way to wait for ever: build waits for the shard of its next     *)
(* filter, the router holds it and waits for room in the sink of this      *)
(* build, which nobody can read before build returns.                      *)
(***************************************************************************)
BuildAndRouterWait ==
    \E u \in Users :
        /\ calls[u].stage = "Topics" /\ calls[u].filters # <<>>
        /\ Head(calls[u].filters) \in ValidFilters
        /\ routing # NoRoute /\ Head(routing.ids) = calls[u].id
        /\ Shard[routing.filter] = Shard[Head(calls[u].filters)]
        /\ Len(subscriptions[calls[u].id].queue) = Capacity

(***************************************************************************)
(* Every call returns, unless a build and the router wait for each other:  *)
(* a full channel, a connection that ends, a refused filter, a router that *)
(* waits for a slow subscription and the other callers delay a call, none  *)
(* of them for ever.                                                       *)
(***************************************************************************)
CallsReturn ==
    \A u \in Users : calls[u] # NoCall ~> calls[u] = NoCall \/ BuildAndRouterWait

(***************************************************************************)
(* A connection that ended leaves the client Unconnected, ready for a      *)
(* reconnect, even when a caller holds the mutex and waits for room in the *)
(* channel of that connection.                                             *)
(***************************************************************************)
LostConnectionIsReleased == task = "Lost" ~> connection = "Unconnected"

(***************************************************************************)
(* A publish that the router begins to deliver reaches every subscription  *)
(* of the filter it chose, unless that subscription is gone, whatever      *)
(* becomes of the others, and unless a build and the router wait for each  *)
(* other.                                                                  *)
(***************************************************************************)
RoutedIsDelivered ==
    \A id \in 1 .. MaxSubscriptions, m \in Messages :
        (routing.message = m /\ \E i \in DOMAIN routing.ids : routing.ids[i] = id)
        ~> \/ BuildAndRouterWait
           \/ /\ id \in DOMAIN subscriptions
              /\ \/ subscriptions[id].receiver = "Dropped"
                 \/ \E i \in DOMAIN subscriptions[id].got : subscriptions[id].got[i] = m
=============================================================================
