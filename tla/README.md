# TLA+ models of SOA4CoRE

SOA4CoRE is a service-oriented middleware for in-vehicle networks, written as
OMNeT++ simulation modules on top of INET and CoRE4INET. A host runs
publisher and subscriber applications; a manager finds, for each subscriber, a
publisher of the service in the network and builds the transport endpoints
through which the two talk. This directory holds TLA+ modules of the parts that
agree with each other over the network, TLC configurations that check them, and
proofs checked by TLAPS. Paths below are relative to `src/src/soa4core/`.

Every handler of an OMNeT++ module runs to completion before the next event,
and signals between modules of one host (`emit` ... `receiveSignal`) are plain
calls. So one action of the models is one event: a self message, a received
packet, or the start of an application, with everything it calls. What
interleaves are the events of different hosts, timers and packets. A
`throw cRuntimeError` ends the simulation.

## The system

| component | state it keeps | operations | where |
|---|---|---|---|
| Applications | parameters, send timer, synchronisation state | start, stop, send, receive | `applications/` |
| Manager, Registry | publisher connector per service; list of subscriber connectors per service | register publisher, register subscriber (share or create a connector, discover), create or find endpoints | `manager/base/`, `registry/base/` |
| SomeIpManager | `_offers[service][instance]`, `_subscriptions[service][qos][instance]`: SD phase, repetitions, flags | register, discover, three phase timers, find, offer, subscribe, acknowledge | `manager/someip/` |
| SomeIpSD | UDP socket and its multicast group | find, offer, subscribe, acknowledge, and the four entries received | `discovery/someip/` |
| StaticServiceDiscovery | map from service to host | discover, answered inside the call | `discovery/static/` |
| QoSManager | `_pendingRequests` | discover, offered service, find | `manager/qos/` |
| QoSNegotiationProtocol, QoSBroker | list of brokers, a state machine in each | create broker, dispatch a packet, request/response/establish/finalise | `qosmanagement/negotiation/` |
| ProcessingTimeSimulation | busy flag, waiting list | delay each message before it is handled | `utility/processing/` |
| Connectors | endpoints of a publisher, applications of a subscriber | forward a copy to each | `connector/` |
| Endpoints (UDP, multicast, TCP, SOME/IP, AVB) | remotes, sockets, connected flag, SRP registration | connect, publish, receive | `endpoints/` |
| Messages | notification fields, SD entries and options | write as options, read back | `discovery/*Notification*`, `messages/` |

How they interact: an application's start calls the manager; the manager calls
or signals the SD module; SD modules exchange UDP packets; the SD module
signals its manager; managers create endpoints and enter them in connectors.
With the QoS manager the discovered host is then asked for the endpoints by the
negotiation protocol, over UDP as well.

What is hard here, and what makes each part correct:

- **SOME/IP discovery.** Offers, finds, repetitions and handshakes of several
  hosts overlap; timers are never cancelled; the flags `seen`, `requested` and
  `active` decide what a late packet does. Correct: nobody listens to a
  publisher that does not serve him, the maps never collide, a handshake is
  under way exactly when `requested` says so, timers of skipped phases are
  harmless, and every subscriber that can be served ends up served.
- **QoS negotiation.** Four packets between two state machines, dispatched by an
  identity that does not contain the QoS group. Correct: both sides agree at
  any time, brokers do not stay behind, an endpoint is only made when its other
  side exists (in the order each QoS group needs), handlers do not throw.
- **Processing time**: one message at a time, in order, and all of them.
- **Data plane**: every endpoint and application gets each message once;
  remotes and sockets are those of living peers.
- **AVB**: an endpoint is connected exactly while its stream is registered.
- **Encodings and numbers**: reading gives what was written; identifiers do not
  collide; reserved frames cover the payload.

## Modules

| module | models |
|---|---|
| `SomeIpDiscovery` | SomeIpManager on SomeIpSD, with Manager and Registry as far as they are called |
| `EventGroupSubscription` | what discovery promises: serve first, then listen, and stay |
| `SomeIpSDMessages` | what the SD messages say: entries, options, notifications, and what the managers copy between them |
| `QoSNegotiation` | QoSManager, QoSNegotiationProtocol and QoSBroker on either discovery |
| `ProcessingTime` | ProcessingTimeSimulation, the base class of QoSNegotiationProtocol and of the endpoints |
| `OrderedProcessing` | what it promises: messages are processed once, in order |
| `DataPlane` | connectors and UDP, multicast and TCP endpoints, from a publisher's application to the subscribers' |
| `Channel` | what the data plane promises the applications |
| `Publishing` | the applications: start, stop, and when each kind of publisher sends |
| `StreamReservation` | AVB endpoints and the reservations of IP publisher endpoints, on the SRP tables |
| `StreamNumbers` | identifiers, frame sizes and intervals as operators |
| `RealTimeStream` | `Publishing` and `StreamReservation` composed: do applications send what their endpoints reserve? |
| `MCSomeIpDiscovery`, `MCSomeIpSDMessages`, `MCQoSNegotiation`, `MCDataPlane`, `MCRealTimeStream` | instances for TLC |
| `SomeIpDiscoveryProofs`, `SomeIpDiscoveryRefinement` | theorems about `SomeIpDiscovery` |
| `QoSNegotiationProofs`, `ProcessingTimeProofs` | theorems about those modules, the second with its refinement |
| `DataPlaneProofs` | theorems about `DataPlane` |
| `RealTimeStreamProofs` | theorems about `RealTimeStream` and the two modules it composes |
| `SomeIpSDMessagesProofs` | theorems about `SomeIpSDMessages` |
| `StreamNumbersProofs` | theorems about the operators of `StreamNumbers` |

The modules divide the system along its interfaces: `SomeIpDiscovery` and
`QoSNegotiation` say when endpoints come into being and abstract what messages
say to the QoS groups they name; `SomeIpSDMessages` says what the messages say
and leaves open when they are sent; `DataPlane` takes endpoints in any order
that the two protocols admit; `RealTimeStream` takes them at any time after their
application's start.

### SomeIpDiscovery

State. `offer[p]` and `subscription[s]` are the `OfferState` and
`SubscriptionState` objects: phase, number of repetitions, flags, and the timer
message that is scheduled for them (`"NONE"` for the phase says the object does
not exist). `published`, `connector` are the registry; a connector is named by
the subscriber whose start created it. `pubEndpoints`, `remotes` and
`subEndpoint` are the endpoints the manager built: for a publisher the QoS
groups and the UDP remotes, for a subscriber connector the address its endpoint
was made for. `net` is a bag of SD packets in flight.

| action | code |
|---|---|
| `RegisterPublisherService` | `SomeIpManager::registerPublisherService` with `Manager::registerPublisherService`; static publishers; `startInitialWaitPhase`, both for a zero and a positive `initialDelay` |
| `AttachSubscriber`, `SubscribeService` | the two outcomes of `Manager::registerSubscriberServiceAndSubscribeService`, with `discoverService` |
| `OfferTimer`, `FindTimer` | `handleInitialWaitPhaseOver` and `handleNextRepetitionPhase` for either kind of state; the early return for a service already seen is the first disjunct of `FindTimer` |
| `CyclicOffer` | `handleCyclicOffer` |
| `LookForService` | `lookForService` on a find |
| `SubscribeServiceIfThereIsAPendingRequest` | the method of that name on an offer: a subscription for every announced QoS group with a request that is not outstanding |
| `AcknowledgeSubscription` | `acknowledgeSubscription`: endpoint, remote, acknowledgement |
| `ProcessAcknowledgedSubscription` | the method of that name: activates, and makes the endpoint the first time |
| `Lose` | the network drops a packet (external) |

Abstractions. Delays are not modelled: due timers expire in any order, which
covers every value of `initialDelay`, `repititionBaseDelay` and
`cyclicOfferDelay`. Ports, TTL, versions, VLAN and reservation options take no
part in the protocol. Packets may overtake each other.

`EventGroupSubscription` has two variables, who `serves` whom and whom each
subscriber `listensTo`. `ImplementsSubscription` maps them to the endpoints and
flags of the protocol.

### SomeIpSDMessages

State. One service instance: `publisher` and `reader[r]` are the parameters of
the hosts, chosen at the beginning; `net` a bag of messages with their entry and
options; `requested[r]` the subscriptions of a reader that wait for their
acknowledgement; `csi[r][q]` the `ConnectionSpecificInformation` its endpoint
for QoS group `q` was made from; `found[r]` the address a QoSManager took from an
offer; `remotes[q]` the remotes of the publisher's endpoints. `aborted` says that
a handler threw.

| action | code |
|---|---|
| `ExecuteSdForServiceState` | an offer of the SomeIpManager to the multicast group |
| `Find`, `ProcessFindEntry` | a find and the offer that answers it, to one host |
| `ProcessOfferEntry` | `SomeIpSD::processOfferEntry` with either manager: for each requested QoS group a subscription, or the address at which to negotiate |
| `ProcessSubscribeEventGroupEntry` | the method of that name, `acknowledgeSubscription` and the remote it adds |
| `ProcessSubscribeEventGroupAckEntry` | the method of that name and the creation of the endpoint |

Writing is `Offer`, `SubscribeEventgroup`, `SubscribeEventgroupAck` with
`CreateIpv4Endpoint`; reading `ReadOptions` with `UpdateFromEndpointOption`,
`ReadAddress` on hosts with the negotiation protocol. An option is a record with
the fields the readers look at; configuration options are their kind, since no
reader uses their values. What is kept is the order of options, their number and
who throws at which of them.

### QoSNegotiation

State. `pending` is `_pendingRequests`, `jobs` the create-broker messages that
wait for their processing time, `brokers[h]` the list `_brokers` of a host in
its order (only states that outlast an event occur), `channel[from][to]` the
negotiation packets between two hosts in order, `sdNet` finds and offers. The
registry and endpoint variables are those of `SomeIpDiscovery`. `aborted` says
that a handler threw.

| action | code |
|---|---|
| `RegisterPublisherService`, `AttachSubscriber` | as in `Manager` |
| `SubscribeService` | `QoSManager::discoverService`; with the static map also the synchronous answer |
| `LookForService`, `SubscribeOfferedService` | the methods of that name of `QoSManager` |
| `StartNegotiation` | first branch of `processScheduledMessage`, `QoSBroker::startNegotiation` |
| `ReceiveRequest`, `ReceiveResponse`, `ReceiveEstablish`, `ReceiveFinalise` | dispatch in `processScheduledMessage` and the broker's handler |
| `Ignore` | the dispatch finds no broker that handles the packet |
| `Lose`, `LoseSd` | the network drops a packet (external) |

`First` is the dispatch rule: the oldest broker with the packet's endpoints gets
it, whatever its state. Refusals are left out because both acceptance checks of
the code return true. Packets of one host to another keep their order: they take
one path, and each waits the same processing time at the receiver (`KeepsOrder` of
`ProcessingTime`, for parameters that do not change in between).

### ProcessingTime

State. `busy`, `msgList` and the two parameters are the module's fields,
`scheduled` the service time events with the time left until each is due;
`arrived` and `processed` record the history. `SimulateProcessingTime`,
`TriggerNextProcessingTime`, `HandleServiceTime` and `HandleParameterChange`
are the methods of those names (the third is the self-message branch of
`handleMessage`); `TimePasses` and `Due` are simulation time and the order of
simultaneous events, both OMNeT++'s. Times are small integers.

### DataPlane

State. `publisherConnectors` and `applications[c]` are the connectors and the
applications of each subscriber connector; `publisherEndpoint[p, q]` and
`subscriberEndpoint[c]` the endpoints with their parameters, remotes or sockets,
and `_isConnected`; `queue[p, q]` what waits in an endpoint for its processing
time; `net[l]` the messages on a link (a publisher's endpoint and an address on a
host), in order; `failed` the links whose TCP connection is gone.

| action | code |
|---|---|
| `RegisterPublisherService`, `RegisterSubscriberService` | the methods of `Manager`, `PublisherConnector`/`SubscriberConnector::addApplication` |
| `ServeSubscription` | `createOrFindPublisherEndpoint` for an acknowledged subscription or an establish, and `addRemote` |
| `Listen` | `createConnectionSpecificSubscriberEndpoint` and the socket of the new endpoint |
| `Establish` | a TCP connection is accepted: the subscriber endpoint is told at once, the publisher endpoint after its processing time |
| `SendMessage` | the application's message, forwarded by the connector to each endpoint |
| `HandleConnectorIn`, `HandleTransportIn` | the two messages an endpoint's processing time is for |
| `Arrive` | a socket gives a packet to its endpoint, its connector forwards it to all applications; a `GatewaySubscriber` throws for what is no aggregation |
| `Lose`, `ConnectionFails` | the network (external) |

What a subscriber is told of a publisher is computed by the code's two mappings
(`ConnectionType`, `QoSGroupForConnectionType`), so that `Listen` finds the
connector it came from only if they fit. Sockets bound to one address on a host
may each be the one that gets a datagram; all multicast sockets get it.

`Channel` has the applications of each connector and what every subscriber
received. `ImplementsChannel` maps the state of `DataPlane` to it by leaving out
everything below the connectors.

### Publishing

State. `now` is the simulation time in cycles; `startMessage`, `stopMessage`,
`sendMsgTimer` and `event` (the scheduler's) are what is scheduled for each
application; `connector` says that its manager gave it one; `synchronized` and
`nextCycle` are fields of `SyncPublisher`; `sent` and `lastSent` record what it sent.

| action | code |
|---|---|
| `HandleStart`, `HandleStop` | the two messages of `ServiceBase`, with `handleStart`/`handleStop` of publishers and subscribers |
| `HandleMessage` | the send timer of a `Publisher`, rescheduled with a new interval |
| `SchedulerIn` | `SyncPublisher`: the action time event of a cycle |
| `ReceiveSignal` | `SyncPublisher`: synchronisation is gained or lost |
| `GatewayIn` | `GatewayPublisher`: a message of the CAN gateway |
| `Tick` | simulation time, when nothing is due |

Events of one instant happen in any order, which also stands for every action
time within a cycle. The cycle counter has `CycleLimit` values where the code's
has 2^32. Intervals are drawn between `intervalMin` and `intervalMax`
(the default of `interval` in `Publisher.ned` is `uniform(intervalMin,
intervalMax)`).

### StreamReservation

State. `talkers[h]`, `listeners[h]` are the SRP table of a node, `reservation[s]`
what the talker of a stream reserves; `publisherEndpoints` and
`subscriberEndpoints` the AVB endpoints that exist, `connectedPublishers` and
`connectedSubscribers` their `_isConnected`; `remotes[p]` the destinations for
which an IP publisher endpoint has a filter; `updateMessages` the subscriber
endpoints whose `_updateMessage` is scheduled.

| action | code |
|---|---|
| `CreateAVBPublisherEndpoint` | `AVBPublisherEndpoint::initializeTransportConnection`, and what the table's signals call in turn |
| `CheckAndCreateFilter` | `IPPublisherEndpointBase`: filter, talker and its update for a new destination |
| `CreateAVBSubscriberEndpoint`, `UpdateSubscription` | `AVBSubscriberEndpoint::initializeTransportConnection` and its update message |
| `TalkerArrives`, `ListenerArrives`, `ListenerUnregistered` | SRP between the tables (external), with the endpoints' `receiveSignal` |
| `ListenerTimeout`, `TalkerForgotten` | table entries time out (external), with the endpoints' `receiveSignal` |

The SRP table and protocol are CoRE4INET's. Of them the model has what the
endpoints use: entries, and the signals for new, repeated, removed and expired
ones, which are calls within the event that changes the table.

`StreamNumbers` holds the arithmetic: `BuildStreamIDForService`, `MessageID`,
`RequestID`, `AVBFrameSize`, `CalculateL2Framesize`, `NumFrames`,
`NormalizeFramesizeForCMI`. A stream identifier is a tuple of its fields in
`StreamReservation`, which `StreamIDsDiffer` justifies.

### RealTimeStream

Both modules side by side. `EndpointsOfRegistered` ties them: an endpoint comes
into being once its application has its connector. `RealTimeStreamAssumption`
says how endpoint parameters follow from those of the application
(`SetAVBParameters`, `IPParametersOf`, `GetIntervalMin`). `KeepsReservation` relates
the times at which an application sends to the frames its endpoints reserve.

## Runs

`tlc -config X.cfg M` with `M` = `MCSomeIpDiscovery` for `MC_*.cfg`,
`MCQoSNegotiation` for `MCQ_*.cfg`, `ProcessingTime` for `MCP_*.cfg`, `MCDataPlane`
for `MCD_*.cfg`, `MCRealTimeStream` for `MCR_*.cfg` and `MCSomeIpSDMessages` for
`MCM_*.cfg`.

| run | shows | expected |
|---|---|---|
| `MC_safety` | two instances on two hosts, three subscribers on a third, two of them on one connector: safety and refinement | pass |
| `MC_timers` | two repetitions, cyclic offers, two QoS groups of one publisher, static publisher and subscriber: phases only advance, finding stops | pass |
| `MC_live` | a find or an offer is lost, cyclic offers make up for it: every discoverable subscriber becomes active, and offers keep triggering subscriptions | pass |
| `MC_lossyhandshake` | a SUBSCRIBE or acknowledgement is lost: `requested` stays set and offers no longer trigger subscriptions | violation |
| `MC_mixed` | any-instance and specific subscribers are silently mixed on one connector | violation |
| `MCQ_sessions` | one service negotiated in one QoS group, another one in two between one pair of hosts, offers that take several requests at once: both sides of the first agree whatever becomes of the others, nothing that was offered makes a handler throw, and every offer that finds a request waiting connects one more QoS group | pass |
| `MCQ_shared` | two publishers of one service, a host with the static map that starts its publishers late and negotiates with itself, one that negotiates two QoS groups with either, all kinds of packets lost: nothing unserved comes into being | pass |
| `MCQ_rightbroker` | the dispatch gives a response to the wrong one of two brokers | violation |
| `MCP_processing` | all processing times up to 2, serial and parallel, two parameter changes: nothing is lost, processed twice or forgotten, and until the first change it is an `OrderedProcessing` | pass |
| `MCD_dataplane` | a publisher of either manager, four subscribers on two hosts, two of them on one connector, TCP, UDP and SOME/IP multicast, a lost datagram, a failed connection: a `Channel`, and what could be delivered is | pass |
| `MCM_handshake` | every set of QoS groups, configurations, both managers, hosts with and without the negotiation protocol: what is read is what was written, and both sides end up with each other's addresses | pass |
| `MCR_realtime` | three kinds of publishers, an AVB stream with two listeners, two SOME/IP endpoints that reserve for one destination, one of them for messages of three frames, losses of synchronisation, overflow of the cycle counter, a timeout: who sends has reserved it, and streams are reserved again | pass |

Deadlock is checked in every run but two. `Terminated` is the only idle step of
the others, and only when every application has started and nothing is scheduled
or in flight (or a handler has thrown). `MCR_realtime` ends at its time bound or
when a handler throws, `MCM_handshake` when all messages are delivered or one of
its hosts has thrown.

Bounds. `RepetitionsMax` is the code's own parameter, 0 where phases do not
matter, 2 where they do (first, middle, last repetition). `MaxCopies` (1 or 2)
stops cyclic offers from piling up: an offer already in flight twice has the
effect of any number, because receiving it is idempotent but for the flags that
two copies can set and clear. `MaxLosses` is 1 or 2: every counterexample we
met needs one lost packet. Two publishers and two or three subscribers give the
cases in which states meet: two instances for one request, two QoS groups of one
offer, a shared connector, a shared broker identity, two services on one pair of
hosts. There is no symmetry: the applications have different parameters.

For the processing time, three messages and times up to 2 put messages before,
at and behind each other's end in both modes; two changes lead from one mode to
the other and back (`MaxChanges`). In `DataPlane` the first publisher sends two
messages (`MaxMessages`), so that one can overtake, be lost or be published
before and after a subscriber joins; one datagram is lost (`MaxLosses`) and one
connection fails (`MaxFailures`). Two multicast offers (`MaxOffers`) and one find
(`MaxFinds`) let a second offer arrive during and after the handshake of the
first. In `RealTimeStream`, `MaxTime` 3 and `CycleLimit` 4 with modulo 2 take the
next cycle of a synchronous publisher over its overflow; three changes of
synchronisation (`MaxSyncChanges`) lose and regain it once, one table entry times
out (`MaxFaults`), and one message of the gateway (`MaxGatewayMessages`) comes
before or after the start.

Fairness. `FairSpec` assumes weak fairness of what OMNeT++ schedules: timers,
the start of a publisher, processing times, and the delivery of packets. In
`SomeIpDiscovery` and `QoSNegotiation` it is stated per type and pair of hosts or
per channel; in `DataPlane`, `SomeIpSDMessages` and `RealTimeStream` of `Proceed`
as a whole, which is weaker and enough because each of its steps uses something
up. Losses, failures, timeouts, synchronisation and gateway messages are never
forced; they are bounded, so that a cyclic offer eventually arrives and streams
are eventually left in peace. No strong fairness is used.

What each liveness property says: `EventuallyActive` (a subscriber that an offer
can serve is served), `KeepsSubscribing` (while offers arrive subscriptions
follow them), `EventuallyConnected` (an offer that finds a request waiting connects a
QoS group of its service on that host that was not connected before; AVB streams
are reserved again after the last timeout), `EventuallyProcessed`,
`EventuallyReceived` (a message published when the way to a connector was complete
gets there) and `EventuallyTold` (every requested and offered QoS group gets an
endpoint).

Preconditions of properties name where the code gives no guarantee:
`TalkerPerDestination` leaves out a second endpoint of one service at the same
address, whose reservation replaces the first one's; `KeepsReservation` the streams
with a second talker for the same reason (the default of `streamID` is the service
identifier, `Publisher.ned:45`), those whose application sends at shorter intervals
than the priority or class of the endpoint has, IP endpoints of applications with
several frames per interval, which they do not look at, several destinations with
one stream identifier, and gateways, which send when their bus does.
`OncePerModulo` and `KeepsReservation` leave out the overflow of the cycle counter.
`SessionsAgree` is about services whose negotiations have identities of their own
(`DistinctNegotiations`), `EventuallyConnected` about services that no host both
offers and negotiates (`OneDirection`), found by SomeIpSD;
both, and `RequestedIsUnderWay`, about runs without losses.

Two properties are weaker than one would like, because the code does no better.
Several QoS groups of one service between one pair of hosts get in each other's
way (`MCQ_rightbroker`): an offer that takes the requests of all of them is sure to
connect one more, and `EventuallyConnected` says no more than that. A message larger
than a frame is reserved without its started last frame
(`IPPublisherEndpointBase.cc:155`): `KeepsReservation` subtracts what may be missing,
`Unreserved`, the headers of one frame and less than a byte of each, and says that
nothing else is. The run needs that: a message of three frames takes 3261 bytes on
the wire where 3176 are reserved.

## Proofs

The theorems hold for every set of hosts, services, instances and applications
that `ConfigAssumption`, `NegotiationAssumption`, `DataPlaneAssumption` or
`RealTimeStreamAssumption` admits, for every delay parameter, and with any number of
losses of any kind of packet. The assumptions give parameters their types and
state what the code throws on otherwise: a static application uses the multicast
group, and 0xFFFF is not an instance id. `StreamReservationAssumption` adds that a
stream identifier given as a parameter is none of those that are made of a
service, `EndpointAssumption` that publishers of different services do not listen
at one TCP address, `SomeIpSDMessagesAssumption` that a multicast service has a
group and that a QoSManager comes with the negotiation protocol,
`DataPlaneAssumption` that a publisher of a SomeIpManager has SOME/IP groups only.

`DataPlaneIsChannel` has a hypothesis, `AddressesApart`: on one host only one
connector has a UDP port, and only one service and QoS group have a multicast
address. It is no assumption, because the code does not enforce it: a UDP socket
reuses an address that is bound already (`UDPSubscriberEndpoint.cc:46`), and no
endpoint looks at the service of a message. The instance of `MCD_dataplane` has
such addresses (`InstanceAssumption`).

`SomeIpDiscoveryProofs`:

- `TypeCorrect`: `TypeOK`.
- `OneRequest`: `OneRequestPerQoSGroup` follows from `Registration`: a known
  subscription is its own connector, connectors point to themselves, and two
  different connectors of a host differ in service or QoS group.
- `InitialWaitIsSilent`: `OffersLeftInitialWait` follows from `Phasing`, which
  also relates each phase to the timers that can be scheduled in it: the code
  never cancels a timer, so an offer's timer must be that of its phase, and a
  subscription with a phase timer in the main phase must have seen its service.
- `PhasesAdvance`: the action property follows from `Phasing`.
- `NobodyListensInVain`: `ActiveIsServed` is not inductive: whether an
  acknowledgement may activate depends on packets. `Serving` adds that every
  acknowledgement in flight comes from a publisher that serves its receiver, and
  that every offer and subscription in flight names a QoS group the publisher has.
- `RequestsAreUnderWay`: `RequestedIsUnderWay`. A count over a bag is no use to the
  provers, so the property says the same of one subscription at a time: its
  handshake has one packet, and one copy of it. `Handshaking` has that every
  SUBSCRIBE and acknowledgement in flight belongs to one known subscription
  (`OneOwner`) and meets exactly one publisher at its receiver, whose
  acknowledgement goes back to that subscription: so the packet is handed over
  (`Handover`) and never multiplied. With losses only `HandshakingInvariant` is left.
- `SeenHostsAreSilent`: `FindsStop`, for each packet by itself: only the timer of a
  subscription that has not seen its service puts another copy of a find in
  flight, and everything that is received is answered by other types of packets.

`SomeIpDiscoveryRefinement`: `Implements`: every step is a `Serve` step, a
`Listen` step or stutters. It needs `Taking`: one publisher takes a
subscription, one subscriber's state changes with an acknowledgement.

`QoSNegotiationProofs` keeps the order of packets and brokers out of the
arguments: `Packets` and `BrokersOf` are sets, and the lemmas `NewPackets`,
`NewServers`, `NewEndpoints`, `NewRemotes` and `Aborting` say where each new
element comes from.

- `TypeCorrect`: `TypeOK`.
- `DiscoveryIsSound`: `DiscoveredIsThere`. `Discovered` follows the connector of
  the publisher from the offer over the queued negotiation and the request to
  the waiting server; it stays true because connectors stay registered.
- `ConnectionsAreServed`: `ConnectedIsServed` with `Finalised`: a finalise comes
  from a host that has the endpoint. Which broker takes it does not matter.
- `RemotesAreListening`: `RemotesListen` with `Established` and `Requesting`: the
  connector exists from the request on, its endpoint from the establish on.
- `SessionsStayInStep`: `SessionsAgree`, under the conditions the property names
  (nothing lost, `DistinctNegotiations` of the service). `InSession` says of every
  pair of hosts that the negotiation of a service is at one of five steps
  (`Session`): which brokers the two sides have, in which state, and which one packet
  is between them. A handler takes its own negotiation to the next step
  (`ServerSession`, `ClientSession`) and leaves the others alone (`OnlyDisturbs`),
  because a broker is found by peer and service and `Sides` keeps hosts that want a
  service apart from those that have it. Other services need not be distinct: whatever
  they do moves no broker or packet of this one (`OtherSessionsGoOn`), and what it
  adds to the jobs of a host is not of this service (`JobsIdle`). `AskOnce` is what keeps a second negotiation from starting:
  only the first subscriber of a connector asks, once. Lists of brokers and packets
  are compared by "one in, all others kept" (`OneIn`, `Keeps`), with a lemma for
  appending to, removing from and replacing in a sequence.

`ProcessingTimeProofs`:

- `TypeCorrect`: `TypeOK`.
- `NobodyIsForgotten`: `WaitingIsServed`. `Serving` puts the busy flag between
  the list and the events, for any parameter changes.
- `NoMessageLostOrTwice`: `NothingLostOrTwice`. The counts of the property become
  `OnePlace`: the list, the events and the history are injective and disjoint,
  and together they are what arrived. No finite count is inductive by itself.
- `SerialProcessing`: `OneAtATime`, from `Steady`: while no parameter has changed,
  parallel processing keeps the list empty and serial processing is busy
  exactly when its one event is scheduled.
- `OrderIsKept`: `KeepsOrder`, until the first parameter change. `Steady` also has
  the events due in the order they were scheduled (`Sorted`), and `HasArrived`
  says that what is on its way has arrived.

`RealTimeStreamProofs`, from the invariant `Inductive`, the conjunction of
`Scheduled` (`Typed`, `Paced`, `AllSynchronous` and `AllApart`, about applications and
types), `Reserving` (about endpoints) and `Backed`:

- `TypeCorrect`: `TypeOK`, for applications and endpoints.
- `PublishersKeepPace`: `KeepsPace`. `Paced` has the bounds for the time up to the
  timer that is due next: what is sent times the shortest interval fits before
  it, and the timer is at most the longest interval after the last message.
- `SyncPublishersSendOncePerModulo`: `OncePerModulo`. `Synchronous` ties
  `nextCycle` to the cycle of the last message; `CyclesApart` is the arithmetic: a
  counter that has not overflowed between two cycles can only be behind.
- `ConnectedHaveListeners`: `ConnectedHasListener` is inductive with the types;
  the point is that every signal which clears or sets `_isConnected` looks at the
  table it comes from.
- `EveryDestinationHasATalker`: `TalkerPerDestination`, which is inductive: another
  endpoint's talker has another stream, by the fields it is made of.
- `TalkersKeepReservations`: `KeepsReservation`. `Backed` says that every reservation
  was made by one of its stream's talkers, with the frame size of that endpoint;
  with one talker it is this one's. `AllApart` has the timer of a plain publisher
  the shortest interval after its last message, so that no two are closer
  (`MessagesApart`, with `Synchronous` for the other kind of publisher).
  `ReservedFramesCover` compares a message with the frames counted for it,
  `NormalizedFrameCovers` turns the bytes per message interval into those of the
  class interval, and `HoldsMessage` multiplies the two.

`SomeIpSDMessagesProofs`, from the invariant `TrueMessages`: every message in flight
says what its sender has (`Written`), and what was made of earlier ones is true.

- Loops. Options are lists of any length, so the lemmas about reading and writing
  them need induction. The library's induction takes a predicate as parameter,
  which no prover here can instantiate; `Induction` has a set of numbers in its
  place and follows from the pigeonhole principle, `Iterates` and `Recursion` bring
  a recursive function into the form the lemmas use.
- Writing. `OfferIsWritten`, `SubscribeIsWritten`, `AckIsWritten`: which options a
  message has, in which order, and that it counts them (`ConfigurationsWritten`).
- Reading. `ReadRecursion`: reading stays inside `Told`, the notifications that have
  the publisher's values for the QoS groups read so far. TCP sets the port of UDP
  too, so the invariant of the loop has the order of the options. `OfferRead`,
  `SubscribeRead`, `AckRead` are what a receiver makes of a written message,
  `OfferReadable` that there is something it can make.
- `MessagesTypeCorrect`: `TypeOK`.
- `OptionsAreCounted`: `CountsItsOptions`, from `Written`.
- `AddressesAreExchanged`: `AddressesAgree`. A subscription in flight has the
  subscriber's port, an acknowledgement the publisher's and is sent only when the
  subscriber is among the remotes (`AckWritten`); nothing forgets a remote.
- `ThrowsOnlyWhenMixed`: `EndsOnlyWhenMixed`. Only an offer can be unreadable, and
  `OfferReadable` says when it is not.

`StreamNumbersProofs`, about operators:

- `StreamIDsDiffer`, `MessageIDsDiffer`: packing is injective for fields of their
  width.
- `ClientIsLost`: the request identifier is the same for every client identifier.
- `NormalizedFrameCovers`: the normalised frame is the smallest that covers what
  the wire carries.
- `ReservedFramesCover`: the frames counted for a message, of average size, hold it
  but for `Unreserved`: a quotient and the average it gives are both rounded down,
  and both remainders are less than their divisor.
- `AVBFrameFits`: an accepted AVB payload makes a frame of legal size.

`DataPlaneProofs`:

- `TypeCorrect`: `TypeOK`. What a connector of a host is told of a publisher's
  endpoint makes an endpoint for its own QoS group (`GroupOfConnection`).
- `RemotesAreSubscribersCorrect`: `RemotesAreSubscribers`. A socket is added only
  when its connection has waited in the endpoint's queue, so `Accepting` says of
  what waits there that it is served, unknown to the endpoint and waits once. That
  it is served at all needs `ConnectsToItsPublisher`: a subscriber endpoint reaches
  the endpoint it was created for, because a host has one publisher of a service
  (`Registered`) and one listening socket per port (`EndpointAssumption`).
- `DataPlaneIsChannel`: `ImplementsChannel`, where `AddressesApart`. What subscribers
  received says nothing of what they will get, so `Delivering` follows a message all
  the way: numbers rise in every queue (`QueuesRise`) and on every link
  (`LinksRise`), what is on a link was sent before all that waits in its endpoint's
  queue, and what a subscriber has got before all that can still come to its
  connector (`Past`). A socket gets messages of publishers that fit its connector
  only (`ListensTo`): by TCP because a connection belongs to the publisher that
  accepted it, otherwise because of `AddressesApart`. Every step but `Arrive` and
  those of the registry leaves `Channel` unchanged.

What the attempts to prove these changed in the models:

- `SessionsAgree` was false where the static map of some host says that a service
  is published by a host which itself subscribes to it: two negotiations then share
  their identity on both sides. `DistinctNegotiations` excludes it now, service by
  service: the proof showed that other services do not matter.
- Two cases of `GroupOf` overlapped: a multicast option has the protocol UDP as well,
  and TLC takes the first case, a proof cannot. The cases are disjoint now, as the
  code's test of `isMcast` makes them.
- `KeepsReservation` was false where two talkers of a node share a stream
  identifier: the later reservation is the one that counts, and may be smaller. No
  instance had such parameters; `TalkersOf` is its precondition now.
- `DataPlaneAssumption` had left out that a SomeIpManager throws on QoS groups other
  than those of SOME/IP. `ImplementsChannel` is false without `AddressesApart`, which
  the run's instance had without saying so.
- `RequestedIsUnderWay` and `FindsStop` were sums over bags and are stated packet by
  packet, which says more. `ReadOptions` gives the set of notifications that can
  be read, none if the reader throws.

## What is only model-checked

- Liveness, which is out of the prover's reach: `EventuallyActive`,
  `KeepsSubscribing`, `EventuallyConnected`, `EventuallyProcessed`,
  `EventuallyReceived`, `EventuallyTold`.

## Where the code and its comments disagree

Each of these is a run whose property states the comment.

- `MC_lossyhandshake` (`SomeIpManager.cc:585`): cyclic offers are to trigger
  subscriptions, but after one lost SUBSCRIBE or acknowledgement `requested` is
  never cleared.
- `MC_mixed` (`SomeIpManager.cc:319`): the mix of any-instance and specific
  subscribers is said to be excluded, and passes silently on a shared connector.
- `MCQ_rightbroker` (`QoSNegotiationProtocol.cc:96`): "the right broker" is the
  first of those with the packet's endpoints, also when another one waits for it.

Met while modelling, without a run of their own:

- A request for any instance does not record which publisher it is active with
  (the TODO at `SomeIpManager.h:69`). A second publisher's offer triggers a
  second subscription, whose acknowledgement takes the branch for a refresh
  (`SomeIpManager.cc:208`): that publisher serves a host which never listens.
- `isRequestAcceptable` (`QoSBroker.cc:373`) says that it checks whether the
  service exists, and returns true. With the static map a request may arrive
  before its publisher has started; its establish then throws (`Manager.cc:212`).
- `_busy` is said to tell whether "a message is currently scheduled"
  (`ProcessingTimeSimulation.h:97`). In parallel mode the first of several
  scheduled messages resets it (`ProcessingTimeSimulation.cc:53`).
- A modulo of 0 means never, says `SyncPublisher.ned:36`; the publisher then sends
  in every cycle (`SyncPublisher.cc:83`). `nextCycle` wraps with the counter of
  cycles, where it is behind for one message and far ahead after it.
- The client identifier, which a comment has in the request identifier
  (`SOMEIPPublisherEndpointBase.cc:33`), is shifted out of its 16 bits
  (`ClientIsLost`).
- The number of frames of a large payload is the ceiling of an integer quotient,
  hence its floor (`IPPublisherEndpointBase.cc:155`).
- IP endpoints reserve for `intervalMin` and do not look at `intervalFrames`, which AVB
  endpoints do (`IPPublisherEndpointBase.cc:133`-184): of several frames per interval
  they reserve one.
- A filter compares no protocol (`IPPublisherEndpointBase.cc:245`): a UDP and a TCP
  endpoint of one node with the same port, towards the same port of a subscriber,
  have the same one.
- The end of a listener's registration disconnects every AVB subscriber endpoint of
  the node before the stream is compared (`AVBSubscriberEndpoint.cc:102`).
- `hasQoSNP` is true by default (`Middleware.ned:49`), so a host of a SomeIpManager
  that is left with it offers an address without ports, which no host without
  the protocol can read.

## What is not modelled

- Creation of OMNeT++ modules, gates and sockets, statistics and result
  recording, NED structure, visualisation: no behaviour of their own.
- Node and network descriptions, tests and examples: parameters and wiring only;
  their values are those of the instances where they matter.
- `removeApplication` and `removeEndpoint` of the connectors: nothing calls them.
- The connectors' limits `maxApplications` and `maxEndpoints`: both are -1, no limit,
  in `SubscriberConnector.ned` and `PublisherConnector.ned`, and no configuration sets
  them. With a limit, an application too many would end the simulation
  (`Manager.cc:164`), and an endpoint too many would be left out silently.
- A scheduler of CoRE4INET that repeats a cycle when its clock is corrected: a
  `SyncPublisher` gets one event per cycle in the model. Gain and loss of
  synchronisation are modelled.
- What the filters of IP endpoints do to packets, which is CoRE4INET's network layer:
  the model has for which destinations an endpoint has one.
- Contents of messages beyond their publisher, number and kind: no module looks
  at them.
- INET, CoRE4INET and the network itself appear only as packets in flight,
  sockets that listen or are connected, and the SRP tables with their signals.
- Crashes of hosts: nothing in the code restarts a host or stores state.

## Plan

Every component with behaviour is modelled, and every safety property and action
property that a run checks and that holds is stated by a theorem, the refinements
included. What is left to TLC is liveness.
