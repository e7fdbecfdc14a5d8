# cloudmqtt: a TLA+ model of the client

This directory holds TLA+ modules for the MQTT 5 client of this repository and for
the wire formats under it, TLC configurations that check them on small instances, and TLAPS proofs that hold for
every instance. `PROJECT.json` lists the runs, the mutants that show that each
property can fail, the source lines behind each definition, the hazards, the
findings and the theorems.

    tlc -workers 2 -config MqttClientFSM.cfg MCMqttClientFSM   # any run
    tlapm MqttClientFSMProofs.tla                              # any proof module

## The system

| Part | State | Operations | Talks to |
|---|---|---|---|
| `UsizePacketIdentifierStore` (`cloudmqtt-core/src/client/packet_identifier_store.rs`) | two `usize` masks, `slots` and `is_publish` | `get_next_free`, `release`, `release_non_publish_slots`, `contains` | owned by the state machine |
| `MqttClientFSM` (`cloudmqtt-core/src/client/mod.rs`) | keep-alive time, hash of the client identifier, connection state with the last send time and the ping state, the store | `handle_connect`, `consume`, `publish` and its publisher, `subscribe`, `acknowledge`, `disconnect` and its disconnecter, `connection_lost`, `run` | no I/O: every call returns an `ExpectedAction` the caller performs |
| `CoreClient` (`cloudmqtt/src/client.rs`) | mutex around `Unconnected {fsm}` or `Connected {sender}` | `connect`, `publish`, `subscribe`, the connection task with its `select!` loop | machine, codec, router (capacity-1 channels) |
| `CloudmqttClient`, `SubscriptionBuilder`, `Subscription` (`cloudmqtt/src/lib.rs`) | none of their own; one receiver per subscription | `connect`, `publish`, `subscribe` | `CoreClient`, `Router` |
| `Router` (`cloudmqtt/src/router.rs`) | two concurrent maps: filters to subscriptions, subscriptions to sinks | delivery task, `add_subscription_sink`, `add_subscription_to_topic` | connection task, subscriptions |
| `TopicFilterBuf`, `TopicNameBuf` (`cloudmqtt/src/topic.rs`) | levels, end-wildcard flag | `new`, `append`, `append_single`, `matches` | router |
| `MqttPacketCodec` (`cloudmqtt/src/codec.rs`) | none; a byte buffer | `decode`, `encode` | `mqtt-format` |
| `mqtt-format` v5 and v3 | none | parse, `binary_size`, write | codec |
| test harness (`cloudmqtt/src/test_harness`) | scripted broker and client | used by the tests only | client, codec |

What is hard in it:

* the caller, the stream and the server act concurrently, and the stream may break
  between any two steps; a publish and a disconnect are several calls each;
* identifiers outlive connections (publishes) or must not (subscribes);
* acknowledgements, pings and identities of one connection must not be taken for
  those of another;
* in the client above the machine: three tasks, a mutex held across awaits, and
  channels of capacity one;
* on the wire: bytes arrive cut anywhere, sizes are announced before they are
  written, and what a peer sends is parsed, kept and written again.

What makes each part correct: the store never hands out an identifier twice and
never loses its usage; the machine gives back exactly the identifiers that can no
longer be acknowledged, keeps its identity, pings in time, delivers QoS 1 at least
once, and panics only when caller or server break the rules; topics stay well
formed and match as MQTT says; the client gets the machine back from every
connection that ended, never blocks for ever, writes what it accepted once and in
order, and delivers in order; the codec is independent of how the bytes were cut; sizes are
exact, and what is parsed or written survives the other.

## Modules

| Module | What it is |
|---|---|
| `PacketIdentifierStore` | the trait's promise: a table from identifier to free, publish or non-publish |
| `UsizePacketIdentifierStore` | the two masks, as sets of bit indices; each method an action on `client_pis` |
| `UsizeStoreRefinement` | what each method does to the identifiers in use, as lemmas; the store on its own and the proof that it implements the table |
| `MqttClientFSM` | the state machine with any caller, any times, any incoming packets |
| `MqttClientFSMProofs` | its inductive invariant and theorems |
| `AtLeastOnce` | what QoS 1 promises for one direction of a session |
| `ClientSession` | the machine with a conforming caller, a stream that breaks, and a conforming server |
| `ClientSessionProofs` | the session's inductive invariant: no panic, and machine, caller, wire and pings agree; then the safety halves of `AtLeastOnce` in both directions |
| `CloudmqttClient` | `CoreClient`, its connection task, the router, subscriptions and the tasks that call them, around the actions of `MqttClientFSM` |
| `CloudmqttClientProofs` | its inductive invariants and theorems: the task and its callers, then the way of a publish from the server through the router to the subscriptions |
| `Topic` | building and matching topics |
| `TopicProofs` | folds over sequences, the invariant of the two buffers, and what `matches` computes |
| `PacketStream` | what a connection promises: whole packets, in order, once |
| `PacketCodec` | `encode` and `decode` over a byte stream; implements `PacketStream` |
| `WirePrimitivesProofs` | lemmas the two wire proofs share: induction over numbers, variable byte integers, concatenated byte sequences |
| `PacketCodecProofs` | the bytes of a sequence of packets, and what `decode` makes of them |
| `WirePrimitives`, `WireProperties`, `WirePackets` | MQTT v5: parse, size and write of integers and strings, of property lists, and of the fifteen packets |
| `MqttPacketWire` | the life of a v5 packet: `MqttPacket::new`, a peer, `parse_complete`, `MqttPacket::new` again |
| `WireV3` | MQTT v3: `mpacket`, `write_to` and a relay that does both |
| `WireV3Proofs` | which v3 packets come back from being written and parsed, for every packet |
| `MCMqttClientFSM`, `MCClientSession`, `MCTopic`, `MCCloudmqttClient`, `MCPacketCodec`, `MCMqttPacketWire`, `MCWireV3` | values of constants for TLC |

### The state machine

One action per method, with the source's name (`handle_connect`, `consume`,
`publish`, `subscribe`, `acknowledge`, `disconnect`, `connection_lost`, `run`).
`inner_run` is split by its `ExternalInfos`: `inner_run_PublishPacket` (send this),
`consume` (a packet arrived) and `run` (nothing happened). `action` is what the last
call returned. `publish` and `disconnect` return objects that borrow the machine;
`handle` is that object, its `run` calls are `PublisherStore`, `PublisherSend`,
`DisconnecterPacket`, `DisconnecterConnection` and `HandleDone`, and it can be
dropped at any point (`DropHandle`). While there is one, no other method can be
called: that is what `&mut` enforces. `acks` are the `AcknowledgeAction`s the caller
has not used; they can be dropped, since `must_use` only warns.

Every `assert!`, `unwrap`, `expect`, `todo!` and `panic!` is a step that sets `panic`
to the method's name, keeps the fields as they are at that point of the code, and
ends the behaviour. This is why the runs of the machine do not check for deadlock.

Abstracted: a message is a value (topic, payload, properties); the packets the
machine rejects in every state are one packet `"Other"`; the instant inside
`WaitingForPingrespSince` and the CONNACK properties the code reads and drops
(`receive_maximum`) have no effect and are left out, as is `clean_start`, which the
code does not act on. `FxHash` is any function, so collisions are allowed. Times are
arguments, in any order.

### The session

`ClientSession` conjoins the machine's actions with what a caller does with the
returned action, in one step, because the caller's calls are sequential. The caller
stores a publish at `StorePacket`, forgets it at `ReleasePacket`, sends what it has
stored again after every CONNACK, presents the identifier of `SaveClientIdentifier`,
closes the stream at `Disconnect`, calls `connection_lost` when it notices a broken
stream, and polls `run` after everything it does and at least once a second. The
stream is FIFO in both directions; when it breaks, what is on the way to the server
is lost, and what has reached the client can still be read until the client notices.
The server answers in order, keeps the session, and sends unacknowledged publishes
again. None of this is in the repository: it is the environment the interface of the
machine asks for, and is marked external. `CoreClient` is a caller that performs only
`SendPacket` and the receipt of QoS 0 publishes; `CloudmqttClient` models it as it is.

### The client

`CloudmqttClient` extends `MqttClientFSM` and calls its actions. What a task does
between two awaits is one step. `connection`, `attached` and `lock` are
`CoreClient::connection_state`: its variant, whether its sender belongs to the task
that runs, and who holds the mutex while waiting for room. `task` is the place of the
connection task: `Starting` (`handle_connect`), `Select`, `Publisher` (the
`while let` around `publisher.run`), `Run` (`fsm.run`), `Handle` (`handle_action`
before its await), `Lost` (back in the spawned closure, before the mutex), and the
ends `None`, `Panicked` and `Unreachable`. `channel` and `incoming` are the
capacity-1 channels to the task and to the router; a subscription is a sink with its
queue and its receiver (`Building`, `Open`, `Dropped`).

| Code | Actions |
|---|---|
| `connect`, `publish`, `build` up to the mutex | `BeginConnect`, `BeginPublish`, `BeginBuild`; the last two panic in the caller for a topic or a filter list that `MqttPacket::new` refuses (`RefusedTopics`, `Subscribable`) |
| `CoreClient::connect` | `connect`, with `AlreadyConnected` after the sender was replaced |
| `CoreClient::publish`, `subscribe` | `Lock`, `Send`; a caller's future may be dropped at both awaits (`Cancel`) |
| `handle_connection` | `Start`, `ReadPacket`, `ReaderEnds`, `TakeToSend`, `RunPublisher`, `RunMachine`, then `SetUnconnected` |
| `handle_action` | `Write`, `Forward`, `Unreachable` |
| `Router::new`'s task | `RouterReceives`, `Deliver`; the shard guard is held while `routing` is not empty |
| `build` after the SUBSCRIBE | `AddSink`, `AddTopic` for each filter, `Built` |
| `Subscription` | `PollNext`, `DropSubscription` |

The server may send any packet the machine knows, at any time. Topics and filters are
values; `Matching` is what `matches` says of them and `Shard` the shard of the
`DashMap` that a filter falls into. `accepted`, `wire`, `counts` and `got` are
histories. A panic in a task ends that task only, as in tokio; in a caller, where
nothing is held, it is a call that never begins.

### The wire formats

A packet of MQTT v5 is a record of its type, its flags and the values of its fields.
All packets but CONNECT are given by their layout, the sequence of fields that
`parse`, `binary_size` and `write` go through; three folds over it are the three
functions. Parsers are combined with `Then`, `MapOk` and `Verify`, which stand for the
combinators of winnow (v5) and nom (v3). Property lists are given by the fields of the
Rust struct in the same way. User properties are what the code keeps of them: the slice
from the first one to the end of the list, through which `iter` walks, skipping what is
not a user property, whenever they are compared, measured or written.
A parser returns `ok`, `incomplete` or `error`; where the code parses complete input
the last two are the same. `MqttPacketWire` is the path of a packet through the
client: `MqttPacket::new` writes and parses it (both unwrapped), a peer may change a
byte, leave one out or cut the packet, the receiver parses the result, and
`handle_action` gives it to `MqttPacket::new` again.

`PacketCodec` has packets that are a first byte and a body, because `decode` looks at
no more than that; `src` is its buffer, `wire` what is under way. The reader may get
any of `Chunks` bytes, or all of them, with each read. `StreamOfPackets` says that it
implements `PacketStream`: the packets that were sent arrive whole, in order and once;
a broken stream loses a suffix; a malformed packet ends the connection.

`WireV3` gives the v3 parser and writer as functions. `write_to` is `todo!()` for
three packet types, which ends the relay in `panicked`.

## Runs

| Run | Question | Bounds | States |
|---|---|---|---|
| `store` | do the masks implement the table? | 4 bits, identifiers up to 6, so that release and contains meet identifiers out of range | 297 |
| `fsm` | is the machine consistent whatever its caller and server do? | 2 slots, times 0, 1, 3 with keep-alive 0 and 2 (early, due, late, backwards), three client identifiers of which two collide, up to 2 unused acknowledgements | 51 k |
| `session` | does a rule-following environment ever make it panic, do machine, caller and wire agree, and is QoS 1 delivered at least once, both ways, with liveness? | 2 slots, 2 messages each way, 1 subscribe, 2 broken or closed connections | 228 k |
| `session_keep_alive` | are pings sent in time, one at a time? | 6 seconds, client and server keep-alive in {0, 2, 3}, one message each way, one fault | 219 k |
| `topic_build` | are built topics well formed, and does matching follow the MQTT rule where no level is left over? | 5 bytes, inputs of up to 2 levels, which gives topics of up to 5 levels | 9 k |
| `wire` | does every v5 packet survive `MqttPacket::new`, with the announced size? | all 15 types; no, each and all properties; values on both sides of 127, 16383 and 2097151; packets of up to 17 bytes with one byte changed, left out or cut off, and forms of other implementations, with user properties scattered between others among them; topic names with `#`, `+` and `*`; topic names, reason strings and correlation data longer than 65535 bytes, and correlation data of just that length | 225 k |
| `packet_codec` | is `decode` independent of how bytes arrive? | 2 packets of 2, 4 and 131 bytes, with padded lengths and without a type; reads of 1, 3 or all bytes | 45 k |
| `client_connection` | does the task use the machine correctly, who has the machine, and is what was accepted written once and in order? | 2 callers, 2 publishes, 1 build of no filter, of one that is too long or of a valid and an invalid one, 1 arrival, keep-alive 1, reconnects without limit | 1.5 M |
| `client_delivery` | what do subscriptions get and in which order, does every call return, is a lost connection released, is what is routed delivered? | 2 callers with 1 build each: of two filters in different shards, and of two in one shard followed by an invalid one; both have the filter that matches; 2 arrivals, which fill a subscription; the connection may end | 103 k |
| `v3_relay` | which v3 packets survive being written and parsed? | every type that can be written, packets with each defect, one byte changed to one of 14 values | 30 k |
| `topic_matching` | a violation, see the findings | as `topic_build` | |
| `session_stale_acks` | a violation, see the findings | no client messages, 2 of the server, 2 faults | |

The properties, by run:

* `store`: `StoreTypeOK`; `NoStaleUsage`, a free slot has no usage left over;
  `ImplementsStore`, the refinement of the table.
* `fsm`: `TypeOK`; `NonPublishSlotsNeedConnection` and `PublisherOwnsIdentifier`, which
  identifiers may outlive a connection and who may release them;
  `FreshIdentifiersAreAnnounced`, an identifier enters use together with the packet that
  carries it; `IdentityIsStable`, the client identifier survives reconnects.
* `session`: `NoPanic`; `CallerAgreesWithMachine` and `WireAgreesWithMachine`, the stored
  packets and the packets under way account for every identifier in use;
  `PublishesAreDelivered` and `ReceivesAreDelivered`, `AtLeastOnce` in both directions.
  `session_stale_acks` asks for the safety half of the latter,
  `ServerForgetsOnlyReceived`, across connections.
* `session_keep_alive`: `NoPanic`; `PingAgreesWithMachine`, one ping at a time, and the
  machine waits exactly while one is answered; `KeepAliveIsKept`.
* `topic_build`: `FilterIsWellFormed`, `#` only at the end; `LengthIsBounded`;
  `MatchesWhereLengthsFit`, `matches` finds every match of the MQTT rule, and no other
  where no level of one side is left over. `topic_matching` asks for the whole rule,
  `MatchesAsSpecified`, which the code does not keep.
* `wire`: `NewKeepsPacket`, the two kinds of packets on which `MqttPacket::new` panics,
  and that every other comes back as it was; `SizeIsExact`, `binary_size` is what `write` writes;
  `PrefixesAreRefused`, no part of a packet parses as a packet.
* `packet_codec`: `InStep`, the bytes in flight are the packets not yet received;
  `StreamOfPackets`, the refinement of `PacketStream`, liveness included.
* `client_connection`: `MachineIsAskedInTime`; `MachineHasOneOwnerOrIsLost`, the machine
  is never in two places, and nowhere only after a task that ended in one of the panics
  it names; `AcceptedIsWrittenInOrder`.
* `client_delivery`: `DeliveredInOrder`; `CallsReturn` and `RoutedIsDelivered`, both up to
  `BuildAndRouterWait`, the one deadlock there is; `LostConnectionIsReleased`.
* `v3_relay`: `RoundTripUnlessDefect`, which names the defects; `PrefixesAreRefused`.

The bounds are small but reach the interesting cases: the store is exhausted, an
identifier is reused after its release and after a reconnect, a publish is stored and
its connection lost before it is sent, after it is sent and after it is acknowledged;
a third slot or message adds only copies of these. In the client runs a channel, a
subscription and the mutex are each held full or locked while everybody else goes on,
a connection ends at every await, and a build fails after its first filters while the
router delivers to two subscriptions. The users
are symmetric, which `client_connection` uses. In `client_delivery` the calls are builds:
their SUBSCRIBE waits for the mutex, for room and for the end of a connection as a publish
does, and they alone wait for the router as well. Publishing and reconnecting are in
`client_connection`; adding them here is beyond what TLC does with liveness. The theorem
on `DeliveredInOrder` has no such bound. `MaxFaults` counts broken
connections and both kinds of DISCONNECT. The sessions, the client and the packet
pipelines do not check for deadlock, because all of them may rest when the bounded
input is used up or a panic ended them; that nothing is left undone is what the
temporal properties of `session`, `packet_codec` and `client_delivery` check.

Fairness of `SessionSpec` is weak fairness of the caller's loop, its resends and
acknowledgements, and of the server. The loop is the code's reason for it: a
connection task does nothing but read, call the machine and perform the result.
Publishing, subscribing, disconnecting and faults are not fair, and the number of
faults is bounded, since nothing is delivered over a stream that breaks for ever.
Polling is not fair either; delivery does not depend on it.

Fairness of `PacketCodec` is that the runtime polls the reader: weak fairness of
`Read`, `decode` and `DecodeEof`.

Fairness of `CloudmqttClient` (`FairSpec`) is that tokio runs every task that can go on,
weak fairness of each:

* of every call (`CallSteps`), of the connection task (`TaskSteps`) and of the router.
  Nothing stronger is needed of the mutex, of the shard locks or of `select!`, because
  builds and arrivals are bounded: nobody can be passed over for ever. (Without the
  bounds tokio's `Mutex`, which serves its waiters in order, would be the reason.)
* of reading each finished subscription: `RoutedIsDelivered` and `CallsReturn` are about
  a program that reads its subscriptions in tasks of their own;
* a CONNECT is answered or the stream ends (`ServerAnswers`). Without this, a caller may
  hold the mutex for ever: the code has no timeout.

Calling, cancelling, dropping a subscription, arrivals and the end of a connection
are not fair.

### Findings

The runs state where the code departs from its documentation; `PROJECT.json` quotes
the lines.

* `acknowledge` panics when the connection is gone, though an `AcknowledgeAction`
  has to be sent back; and it survives a reconnect and then acknowledges another
  publish: the server forgets a message the client never got (`session_stale_acks`).
  `session` passes because its caller drops such actions (`KeepsStaleAcks = FALSE`).
* `TopicNameBuf::matches` ignores what is left over of the longer side, so a name that
  is longer or shorter than the filter matches (`topic_matching`); a topic of exactly the maximum length is refused (`LengthIsBounded` is strict);
  `TopicNameBuf::append_single` accepts a level with a separator in it.
* The parser of PUBLISH refuses `*` in a topic name instead of `+`: publishing to `a*b`
  panics in `MqttPacket::new`, as do a name with a `#` and one longer than 65535 bytes,
  all of which `CloudmqttClient::publish` takes (`NewKeepsPacket` says that nothing else
  does); and a peer's publish to `a+b` is accepted.
* `handle_action` reaches `unreachable!()` for a CONNACK with an assigned identifier, a
  QoS 1 publish and a DISCONNECT: the task and the machine in it are gone while the
  state stays `Connected`, so that no later `connect` or publish can succeed.
  `MachineHasOneOwnerOrIsLost` names this among the ways to lose the machine; the others
  are a failed write, which is unwrapped, and the panics of `consume` and `subscribe`.
* A `connect` that is refused with "Client is already connected" has already replaced
  the sender, so nothing can be sent until the connection ends.
* `build` deadlocks with the router when two publishes for its first filter arrive
  before a later filter, in the same shard, is registered. `client_delivery` reaches this
  state; `CallsReturn` and `RoutedIsDelivered` say that nothing else waits for ever. Its
  mutant `MapIsFree` is a map with a single lock, where filters in different shards wait
  for each other too.
* v3: a length of two bytes is read as one, and a body that starts with a byte of 128
  or more loses it to the length; a SUBACK announces one code however many it has; a
  will of QoS 0 is written as QoS 1. `RoundTripUnlessDefect` says that these packets,
  and no others, do not survive.

## Proofs

Assumptions, which TLC evaluates in the runs: `USIZE_BITS` is positive and at most
`MAX_PACKET_IDENTIFIER`; `None` is no number, message or identifier; times and
keep-alive times are natural numbers and the session's clock starts at 0; hashes are
natural numbers; the client's own identifier is a client identifier, its messages are
pairs of a topic and a number, and filter lists are sequences of filters; a packet of
the codec is a first byte and a body no longer than `VARIABLE_INTEGER_MAX`, since
`MqttPacket::new` has written it; the packets a v3 relay starts with are `Sendable`
(fields in the range of their types, strings without control characters, flags that go
together, protocol `MQTT` level 4, a length `write_remaining_length` does not refuse), and
a changed byte is a byte. About the machine's caller and server nothing is
assumed in `MqttClientFSMProofs`; in the session they are the ones that
`ClientSession` models. The bounds (`MaxFaults`, `MaxPackets` and the like) are any
natural numbers.

* Store. `StoreInv` is the type invariant and `NoStaleUsage`, which is inductive on
  its own. `UsizeStoreImplementsStore` maps the masks to the table `UsageOf` and
  shows that every call is the table's call of the same name.
* Machine. `Inv` is `TypeOK`, `NoStaleUsage`, `NonPublishSlotsNeedConnection` and
  `PublisherOwnsIdentifier`. The third needs the second: with a stale `is_publish`
  bit, `release_non_publish_slots` would keep the slot of a SUBSCRIBE. The fourth
  rests on the borrow: no step that releases an identifier is possible while a
  publisher is between its two calls. There is one lemma per method; a frame lemma
  covers the steps that touch neither store nor borrower, and a reset lemma the
  three that end a connection. The lemmas of `UsizeStoreRefinement`
  replace the bits by `InUse` and `InUseForPublish`.
* Action properties. `IdentityStable` and `FreshIdentifiers` follow from `Inv` and a
  case analysis of the steps.

* Client. `ClientInv` says what the machine is like at each place of the connection
  task (`PlaceInv`), that its identity is the client's own unless the task is about to
  end in `unreachable!()` (`IdentityInv`), and that a panic ends the task (`PanicInv`) and how it may end (`EndInv`).
  `MachineIsAskedInTime` and `MachineHasOneOwnerOrIsLost` are not inductive without it: that
  `handle_connect` does not panic depends on what every earlier step of the task did to
  the connection state and the identity. Callers, router and subscriptions leave all of
  it alone, which is one frame lemma. `AcceptedIsWrittenInOrder` needs in addition the
  types of the calls and of the channel, and that a publisher holds a publish
  (`OrderInv`); its steps are moves of one element between neighbouring sequences. The
  theorems hold for any number of callers, subscriptions, messages and connections.

* Session. `SessionUsesMachine` shows that every step of the session is a step of
  `MqttClientFSM`, which brings in `Inv`. `SessionInv` then puts together the four
  properties that the runs check with what they need of each other:
  - `SessionTypeOK`: what may be in the buffers, the caller's store and the server;
  - `SavedIdentity`: the identifier the caller saved is the one the machine has hashed.
    Without it the assertions of `handle_connect` could fail on a reconnect;
  - `Handshake`: while the machine connects, either the CONNECT is all that is on its
    way, or the CONNACK is the first packet that will arrive, or the stream is down;
    at other times neither is left over. This is why no packet meets the machine in a
    state where it would reach `todo!()`;
  - `Borrower`: what the publisher or disconnecter the caller holds is about to send,
    and that its identifier is not on the wire;
  - `Resend`: what waits to be sent again is stored and not under way.

  `WireAgreesWithMachine` and `CallerAgreesWithMachine` need each other: a PUBACK may
  release an identifier because the wire has no other packet for it, and the wire has
  none because the caller sends only what is stored. A connection starts with empty
  buffers, so that both hold again over any number of connections.
  `SessionKeepsAlive` needs in addition that the machine's `last_time_sent` is never
  later than what was really sent last (`TimeInv`).
* Delivery. `UpInv` relates a publish in the caller's store to its copies on the wire
  and to the server's PUBACK, so that it is forgotten only after receipt. In the other
  direction `DownInv` counts the ways in which an identifier of the server is under way
  (publish, action, PUBACK): at most one. That is false if the caller keeps the
  `AcknowledgeAction`s of a lost connection, which is the finding of
  `session_stale_acks`; so `ForgottenOnlyAfterReceipt` is stated for
  `~KeepsStaleAcks`, and the run shows that it cannot be stated without.
* Router. `RouteInv` follows a publish from the connection task through the channel
  and the router to the subscriptions: everything that is further upstream is younger
  (`IncomingInv`, `GivenInv`); and the identifiers the router still has to serve for a
  publish, with the copies a subscription already has, are no more than the times it
  names the filter (`TopicsInv`, `GivenInv`). `TopicsInv` covers a subscription that is
  still being built, or whose build failed half way.
* Topics. `TopicsOK` says what every filter and every name is: levels that `TryFrom`
  accepts, a length within the limit, "#" at most last and `has_end_wildcard` set
  exactly then. `FilterIsWellFormed` is not inductive without the flag: it is the flag
  that stops an append after "#". `append` and `len` are folds (`FoldLeft`), which recur
  over the sets of indices of a sequence: `FoldExists` and `FoldKeeps` show, by induction
  over the number of indices, that such a recursion defines something and keeps what each
  step keeps. `matches` recurs down the levels: `TurnFits` gives one turn of its loop,
  `LoopFits` all of them, and `RuleOfCommonLevels` and `FitsImpliesRule` compare the result
  with the rule of the MQTT specification. Beyond `TopicAssumption`, which TLC evaluates, nothing is
  assumed about levels and their lengths.
* Codec. `CodecInv` says that the reader's and the writer's buffers are the bytes of
  the packets not yet received, up to those a break lost (`InPlace`), and that a reader
  which waits for bytes has less than one packet (`Asked`): without it a closed stream
  could end in an error although everything was sent. The steps rest on three groups of
  lemmas. A length is read as it was written for every length and every cut
  (`ParseWritten`), and a padded one as far as four bytes go (`ParsePadded`). The bytes
  of a sequence of packets begin with those of the first and end with those of the last
  (`FlattenFirst`, `FlattenAppend`). And on a buffer that begins like a packet, `decode`
  waits, returns exactly that packet, or refuses it (`DecodeSound`); for a padded length
  it refuses since `total_packet_length` is a byte short of what was sent
  (`ParsePaddedPacket`). `FlattenSeq` is recursive: what it computes is proved by
  induction over the length, in the form of `NatSetInduction`, which takes the
  set of the numbers that have the property instead of an operator. This and the lemmas
  on lengths are in `WirePrimitivesProofs`.
* v3 relay. `RelayOK` says that what the relay holds is `Sendable`, and that its buffer is
  what was written last and its packet what `mpacket` makes of the buffer. It is inductive
  because a parsed packet is `Sendable` again, whatever the bytes were
  (`ParsedIsSendable`); the assumption on the first packets is therefore no assumption on
  what peers send. `RoundTripUnlessDefect` is an equivalence. That a packet without a
  defect comes back (`SoundReturns`) goes through the types of packet: the bytes of each
  field are read as that field and leave the rest of the body alone, and for a length
  below 128 the frame ends where the body does (`ShortPacket`, `ShortPrefix`). That a
  packet with one does not come back has one lemma per defect: `LongIsLost` for a length
  of two bytes or more, `FirstByteIsLost`, `AcksAreLost` and `WillIsChanged`. The run needs
  one packet of each kind; the theorem covers all of them, strings of 65536 bytes and
  more included, since these are packets of length 128 and more.

Only model-checked: liveness under fairness, out of the prover's reach, which are the
second halves of `AtLeastOnce` and `PacketStream` and the properties of `client_delivery` but
`DeliveredInOrder`; and the
laws of whole v5 packets (`NewKeepsPacket`, `SizeIsExact` and `PrefixesAreRefused` of
`MqttPacketWire`), whose parsers recur over property lists and take operators as
arguments.

## Plan

1. Done: store, machine, session, topics; the client with its router and
   subscriptions; the codec; the wire formats v5 and v3; the theorems above.
2. Proofs that are left: the laws of whole v5 packets, for which the lemmas of
   `WirePrimitivesProofs` and the way of `WireV3Proofs` are the start.

## Not modelled

* The test harness (`cloudmqtt/src/test_harness`): a scripted broker and client that
  the repository's tests step by hand; it has no protocol state of its own.
* `new_with_address` (name resolution and a TCP connect before `new_from_connection`)
  and `wait_for_shutdown` (waits for ever, without state).
* In `mqtt-format`: `get_kind`, `Debug` and conversions between types, and the
  iterators over v3 requests, which re-parse what was validated. v3 strings of 65536
  bytes and more, whose length is cut to 16 bits, are beyond what TLC can enumerate; the
  proofs cover them.
* v5 bodies longer than `VARIABLE_INTEGER_MAX`, for which `variable_u32_binary_size` reaches
  `unreachable!()` in the caller: too large for TLC.
* The fuzz targets, TLS and sockets (pure I/O), tracing.
