--------------------------- MODULE QoSNegotiation ---------------------------
(***************************************************************************)
(* The QoS negotiation between hosts that run a QoSManager and a           *)
(* QoSNegotiationProtocol: a subscriber's host discovers the publisher's   *)
(* host and negotiates, request by response and establish by finalise,     *)
(* the endpoints of one service and QoS group.                             *)
(*                                                                         *)
(* One action is one simulation event.  Discovery is either the static map *)
(* of StaticServiceDiscovery, which answers inside the call, or SomeIpSD,  *)
(* whose packets are a bag in flight.  The negotiation packets of one host *)
(* to another stay in order: they take the same way, and the processing    *)
(* time of the receiver is the same for all of them.  The order in which   *)
(* a host works off the negotiations it is asked for is left open.         *)
(*                                                                         *)
(* As in SomeIpDiscovery a connector is named by the subscriber that       *)
(* created it; so are its request and its endpoint.                        *)
(***************************************************************************)
EXTENDS Naturals, Sequences, FiniteSets, Bags, SequencesExt

CONSTANTS
    Hosts,            \* IP addresses, one manager and one protocol module each
    Services,         \* service ids
    Publishers,       \* publisher applications
    Subscribers,      \* subscriber applications
    PublisherApp,     \* their parameters: [host, service]
    SubscriberApp,    \* their parameters: [host, service, qos]
    StaticHosts,      \* hosts whose discovery is the static map, not SomeIpSD
    Provider,         \* the static map: the host of each service
    LossyTypes,       \* types of packets the network may drop
    MaxLosses,        \* bound: packets dropped in one behaviour
    None              \* no connector, no endpoint, no request

UDP == "IP_UDP"
QoSGroups == {"RT", "IP_TCP", UDP, "IP_UDP_MCAST"}

SdTypes == {"FIND", "OFFER"}
NegotiationTypes == {"REQUEST", "RESPONSE", "ESTABLISH", "FINALISE"}

ASSUME NegotiationAssumption ==
    /\ PublisherApp \in [Publishers -> [host : Hosts, service : Services]]
    /\ SubscriberApp \in [Subscribers -> [host : Hosts, service : Services, qos : QoSGroups]]
    /\ StaticHosts \subseteq Hosts
    /\ Provider \in [Services -> Hosts]
    /\ LossyTypes \subseteq SdTypes \cup NegotiationTypes
    /\ MaxLosses \in Nat
    /\ None \notin Hosts \cup Subscribers

VARIABLES
    published,     \* publishers whose connector is in the registry
    connector,     \* the connector each started subscriber is attached to
    pending,       \* _pendingRequests: connectors whose service is looked for
    sdNet,         \* bag of SD packets in flight
    jobs,          \* brokers to be created, [request, peer] each
    brokers,       \* _brokers of each host, in the order of their creation
    channel,       \* channel[from][to]: negotiation packets, oldest first
    pubEndpoints,  \* QoS groups a publisher connector has an endpoint for
    remotes,       \* hosts in the remote list of its UDP endpoint
    subEndpoint,   \* address the endpoint of a subscriber connector was made for
    aborted,       \* a handler threw: the simulation has ended
    losses         \* packets dropped so far

endpointVars == <<pubEndpoints, remotes, subEndpoint>>
vars == <<published, connector, pending, sdNet, jobs, brokers, channel,
          pubEndpoints, remotes, subEndpoint, aborted, losses>>

SdMessage == [type : SdTypes, from : Hosts, to : Hosts, service : Services]

NegotiationMessage == [type : NegotiationTypes, service : Services, qos : QoSGroups]

Message(type, service, qos) == [type |-> type, service |-> service, qos |-> qos]

\* A broker that is neither just created nor finished; both last for no longer
\* than one event.  A client works for a request, a server for none.
BrokerStates == {"CLIENT_PENDING_REQUEST", "CLIENT_PENDING_CONNECTION", "SERVER_PENDING_ACCEPT"}

Broker == [service : Services, peer : Hosts, state : BrokerStates,
           request : Subscribers \cup {None}]

Init ==
    /\ published = {}
    /\ connector = [s \in Subscribers |-> None]
    /\ pending = {}
    /\ sdNet = EmptyBag
    /\ jobs = {}
    /\ brokers = [h \in Hosts |-> <<>>]
    /\ channel = [from \in Hosts |-> [to \in Hosts |-> <<>>]]
    /\ pubEndpoints = [p \in Publishers |-> {}]
    /\ remotes = [p \in Publishers |-> {}]
    /\ subEndpoint = [s \in Subscribers |-> None]
    /\ aborted = FALSE
    /\ losses = 0

-----------------------------------------------------------------------------
(* Registration of applications.                                           *)

\* The publishers whose connector serves this service on host h.
Provides(h, service) ==
    {p \in published : PublisherApp[p].host = h /\ PublisherApp[p].service = service}

\* A second publisher of a service on one host ends the simulation.
RegisterPublisherService(p) ==
    /\ p \notin published
    /\ Provides(PublisherApp[p].host, PublisherApp[p].service) = {}
    /\ published' = published \cup {p}
    /\ UNCHANGED <<connector, pending, sdNet, jobs, brokers, channel, endpointVars,
                   aborted, losses>>

\* The subscriber connector of host h for this service and QoS group.
ConnectorsFor(h, service, qos) ==
    {c \in Subscribers :
        /\ connector[c] = c
        /\ SubscriberApp[c] = [host |-> h, service |-> service, qos |-> qos]}

AttachSubscriber(s) ==
    LET app == SubscriberApp[s] IN
    /\ connector[s] = None
    /\ \E c \in ConnectorsFor(app.host, app.service, app.qos) :
          connector' = [connector EXCEPT ![s] = c]
    /\ UNCHANGED <<published, pending, sdNet, jobs, brokers, channel, endpointVars,
                   aborted, losses>>

FindMessages(s) ==
    LET app == SubscriberApp[s] IN
    {[type |-> "FIND", from |-> app.host, to |-> h, service |-> app.service]
        : h \in Hosts \ {app.host}}

\* The static map has one host for each service.
Discover(service) == Provider[service]

\* A new connector whose service is looked for.  The static map answers inside
\* the call, and the pending request becomes a negotiation at once.
SubscribeService(s) ==
    LET app == SubscriberApp[s] IN
    /\ connector[s] = None
    /\ ConnectorsFor(app.host, app.service, app.qos) = {}
    /\ connector' = [connector EXCEPT ![s] = s]
    /\ \/ /\ app.host \in StaticHosts
          /\ jobs' = jobs \cup {[request |-> s, peer |-> Discover(app.service)]}
          /\ UNCHANGED <<pending, sdNet>>
       \/ /\ app.host \notin StaticHosts
          /\ pending' = pending \cup {s}
          /\ sdNet' = sdNet (+) SetToBag(FindMessages(s))
          /\ UNCHANGED jobs
    /\ UNCHANGED <<published, brokers, channel, endpointVars, aborted, losses>>

-----------------------------------------------------------------------------
(* Discovery by SomeIpSD.  Publishers are not offered, finds not repeated. *)

SdReply(m, sent) == sdNet' = (sdNet (-) SetToBag({m})) (+) SetToBag(sent)

\* Mutant: every find is answered.
Answers_Always(m) ==
    {[type |-> "OFFER", from |-> m.to, to |-> m.from, service |-> m.service]}

\* The answer to a find: only a host that has the publisher's connector offers.
Answers(m) ==
    {[type |-> "OFFER", from |-> m.to, to |-> m.from, service |-> m.service]
        : p \in Provides(m.to, m.service)}

LookForService(m) ==
    /\ m.type = "FIND"
    /\ SdReply(m, Answers(m))
    /\ UNCHANGED <<published, connector, pending, jobs, brokers, channel, endpointVars,
                   aborted, losses>>

\* Every pending request for the offered service, of whatever QoS group,
\* becomes a negotiation with the offering host.
SubscribeOfferedService(m) ==
    LET wanted == {s \in pending : /\ SubscriberApp[s].host = m.to
                                   /\ SubscriberApp[s].service = m.service}
    IN  /\ m.type = "OFFER"
        /\ pending' = pending \ wanted
        /\ jobs' = jobs \cup {[request |-> s, peer |-> m.from] : s \in wanted}
        /\ SdReply(m, {})
        /\ UNCHANGED <<published, connector, brokers, channel, endpointVars, aborted, losses>>

-----------------------------------------------------------------------------
(* Negotiation.                                                            *)

Send(from, to, m) == channel' = [channel EXCEPT ![from][to] = Append(@, m)]

\* The oldest packet from "from" to "to" is consumed without an answer.
Consume(from, to) == channel' = [channel EXCEPT ![from][to] = Tail(@)]

\* It is consumed and answered; a host may be its own peer.
Answer(from, to, m) ==
    LET rest == [channel EXCEPT ![from][to] = Tail(@)]
    IN  channel' = [rest EXCEPT ![to][from] = Append(@, m)]

\* The client broker of a job is created and sends its request.
StartNegotiation(j) ==
    LET app == SubscriberApp[j.request]
        broker == [service |-> app.service, peer |-> j.peer,
                   state |-> "CLIENT_PENDING_REQUEST", request |-> j.request]
    IN  /\ jobs' = jobs \ {j}
        /\ brokers' = [brokers EXCEPT ![app.host] = Append(@, broker)]
        /\ Send(app.host, j.peer, Message("REQUEST", app.service, app.qos))
        /\ UNCHANGED <<published, connector, pending, sdNet, endpointVars, aborted, losses>>

\* Mutant: the service is not part of a broker's identity.
Responsible_AnyService(h, peer, service) ==
    {i \in DOMAIN brokers[h] : brokers[h][i].peer = peer}

\* The brokers of host h whose identity is this pair of endpoints.
Responsible(h, peer, service) ==
    {i \in DOMAIN brokers[h] : brokers[h][i].peer = peer /\ brokers[h][i].service = service}

\* The broker a packet is given to, whatever its state: the oldest one.
First(h, peer, service) ==
    {i \in Responsible(h, peer, service) :
        \A j \in Responsible(h, peer, service) : i <= j}

\* That broker, when it is in the state that handles the packet.
Handler(h, peer, service, state) ==
    {i \in First(h, peer, service) : brokers[h][i].state = state}

\* The connector of host h for this service and QoS group gets its endpoint,
\* made for the address addr, unless it has one.
MakeSubscriberEndpoint(h, service, qos, addr) ==
    subEndpoint' = [s \in Subscribers |->
        IF s \in ConnectorsFor(h, service, qos) /\ subEndpoint[s] = None
        THEN addr ELSE subEndpoint[s]]

\* Mutant: the new broker stays as it was made.
ReceiveRequest_NoState(from, to, m) ==
    LET broker == [service |-> m.service, peer |-> from,
                   state |-> "SERVER_NO_SESSION", request |-> None]
    IN  /\ m.type = "REQUEST"
        /\ brokers' = [brokers EXCEPT ![to] = Append(@, broker)]
        /\ Answer(from, to, Message("RESPONSE", m.service, m.qos))
        /\ UNCHANGED <<published, connector, pending, sdNet, jobs, endpointVars, aborted, losses>>

\* No broker waits for a request: a new server broker accepts it, always.
ReceiveRequest(from, to, m) ==
    LET broker == [service |-> m.service, peer |-> from,
                   state |-> "SERVER_PENDING_ACCEPT", request |-> None]
    IN  /\ m.type = "REQUEST"
        /\ brokers' = [brokers EXCEPT ![to] = Append(@, broker)]
        /\ Answer(from, to, Message("RESPONSE", m.service, m.qos))
        /\ UNCHANGED <<published, connector, pending, sdNet, jobs, endpointVars, aborted, losses>>

\* Mutant: the subscriber endpoint is made on the response for every QoS group.
Connectionless_Always(qos) == TRUE

\* Mutant: the subscriber endpoint is made on the finalise for every QoS group.
Connectionless_Never(qos) == FALSE

\* The subscriber makes its endpoint first and tells the publisher of it.
Connectionless(qos) == qos = UDP

ReceiveResponse(from, to, m) ==
    /\ m.type = "RESPONSE"
    /\ \E i \in Handler(to, from, m.service, "CLIENT_PENDING_REQUEST") :
          brokers' = [brokers EXCEPT ![to][i].state = "CLIENT_PENDING_CONNECTION"]
    /\ IF Connectionless(m.qos) THEN MakeSubscriberEndpoint(to, m.service, m.qos, to)
                                ELSE UNCHANGED subEndpoint
    /\ Answer(from, to, Message("ESTABLISH", m.service, m.qos))
    /\ UNCHANGED <<published, connector, pending, sdNet, jobs, pubEndpoints, remotes,
                   aborted, losses>>

\* The publisher makes its endpoint and takes a UDP subscriber as a remote;
\* without a publisher connector the handler throws.
ReceiveEstablish(from, to, m) ==
    LET takers == Provides(to, m.service) IN
    /\ m.type = "ESTABLISH"
    /\ \E i \in Handler(to, from, m.service, "SERVER_PENDING_ACCEPT") :
          \/ /\ takers = {}
             /\ aborted' = TRUE
             /\ UNCHANGED <<brokers, channel, pubEndpoints, remotes>>
          \/ /\ takers # {}
             /\ brokers' = [brokers EXCEPT ![to] = RemoveAt(@, i)]
             /\ pubEndpoints' = [p \in Publishers |->
                   IF p \in takers THEN pubEndpoints[p] \cup {m.qos} ELSE pubEndpoints[p]]
             /\ remotes' = [p \in Publishers |->
                   IF p \in takers /\ m.qos = UDP THEN remotes[p] \cup {from} ELSE remotes[p]]
             /\ Answer(from, to, Message("FINALISE", m.service, m.qos))
             /\ UNCHANGED aborted
    /\ UNCHANGED <<published, connector, pending, sdNet, jobs, subEndpoint, losses>>

\* Mutant: the client keeps its broker.
ReceiveFinalise_Keeps(from, to, m) ==
    /\ m.type = "FINALISE"
    /\ Handler(to, from, m.service, "CLIENT_PENDING_CONNECTION") # {}
    /\ IF m.qos = UDP THEN UNCHANGED subEndpoint
                      ELSE MakeSubscriberEndpoint(to, m.service, m.qos, from)
    /\ Consume(from, to)
    /\ UNCHANGED <<published, connector, pending, sdNet, jobs, brokers, pubEndpoints, remotes,
                   aborted, losses>>

\* The subscriber of a connection makes its endpoint; the client is done.
ReceiveFinalise(from, to, m) ==
    /\ m.type = "FINALISE"
    /\ \E i \in Handler(to, from, m.service, "CLIENT_PENDING_CONNECTION") :
          brokers' = [brokers EXCEPT ![to] = RemoveAt(@, i)]
    /\ IF m.qos = UDP THEN UNCHANGED subEndpoint
                      ELSE MakeSubscriberEndpoint(to, m.service, m.qos, from)
    /\ Consume(from, to)
    /\ UNCHANGED <<published, connector, pending, sdNet, jobs, pubEndpoints, remotes,
                   aborted, losses>>

\* The state that handles a packet.
Awaited(type) ==
    CASE type = "RESPONSE" -> "CLIENT_PENDING_REQUEST"
      [] type = "ESTABLISH" -> "SERVER_PENDING_ACCEPT"
      [] type = "FINALISE" -> "CLIENT_PENDING_CONNECTION"

\* The oldest responsible broker cannot handle the packet, and a broker made
\* for it cannot either.
Ignore(from, to, m) ==
    /\ m.type # "REQUEST"
    /\ Handler(to, from, m.service, Awaited(m.type)) = {}
    /\ Consume(from, to)
    /\ UNCHANGED <<published, connector, pending, sdNet, jobs, brokers, endpointVars,
                   aborted, losses>>

Receive(from, to) ==
    /\ channel[from][to] # <<>>
    /\ LET m == Head(channel[from][to]) IN
          \/ ReceiveRequest(from, to, m) \/ ReceiveResponse(from, to, m)
          \/ ReceiveEstablish(from, to, m) \/ ReceiveFinalise(from, to, m)
          \/ Ignore(from, to, m)

LoseSd(m) ==
    /\ m.type \in LossyTypes /\ losses < MaxLosses
    /\ losses' = losses + 1
    /\ SdReply(m, {})
    /\ UNCHANGED <<published, connector, pending, jobs, brokers, channel, endpointVars, aborted>>

Lose(from, to) ==
    /\ channel[from][to] # <<>>
    /\ Head(channel[from][to]).type \in LossyTypes /\ losses < MaxLosses
    /\ losses' = losses + 1
    /\ Consume(from, to)
    /\ UNCHANGED <<published, connector, pending, sdNet, jobs, brokers, endpointVars, aborted>>

Quiet ==
    /\ sdNet = EmptyBag
    /\ jobs = {}
    /\ \A from, to \in Hosts : channel[from][to] = <<>>

\* The simulation has ended, or nothing is in flight or left to start.
Terminated ==
    /\ \/ aborted
       \/ /\ Quiet
          /\ \A p \in Publishers : Provides(PublisherApp[p].host, PublisherApp[p].service) # {}
          /\ \A s \in Subscribers : connector[s] # None
    /\ UNCHANGED vars

Step ==
    \/ \E p \in Publishers : RegisterPublisherService(p)
    \/ \E s \in Subscribers : AttachSubscriber(s) \/ SubscribeService(s)
    \/ \E m \in BagToSet(sdNet) : LookForService(m) \/ SubscribeOfferedService(m) \/ LoseSd(m)
    \/ \E j \in jobs : StartNegotiation(j)
    \/ \E from, to \in Hosts : Receive(from, to) \/ Lose(from, to)

Next == (~aborted /\ Step) \/ Terminated

Spec == Init /\ [][Next]_vars

\* Packets that are not dropped arrive, and due events are processed.
Fairness ==
    /\ \A type \in SdTypes, from, to \in Hosts :
          WF_vars(~aborted /\ \E m \in BagToSet(sdNet) :
                     /\ m.type = type /\ m.from = from /\ m.to = to
                     /\ LookForService(m) \/ SubscribeOfferedService(m))
    /\ \A s \in Subscribers :
          WF_vars(~aborted /\ \E j \in jobs : j.request = s /\ StartNegotiation(j))
    /\ \A from, to \in Hosts : WF_vars(~aborted /\ Receive(from, to))

FairSpec == Spec /\ Fairness

-----------------------------------------------------------------------------
(* Properties.                                                             *)

\* Every variable stays in its declared range.
TypeOK ==
    /\ published \subseteq Publishers
    /\ connector \in [Subscribers -> Subscribers \cup {None}]
    /\ pending \subseteq Subscribers
    /\ BagToSet(sdNet) \subseteq SdMessage
    /\ jobs \subseteq [request : Subscribers, peer : Hosts]
    /\ brokers \in [Hosts -> Seq(Broker)]
    /\ channel \in [Hosts -> [Hosts -> Seq(NegotiationMessage)]]
    /\ pubEndpoints \in [Publishers -> SUBSET QoSGroups]
    /\ remotes \in [Publishers -> SUBSET Hosts]
    /\ subEndpoint \in [Subscribers -> Hosts \cup {None}]
    /\ aborted \in BOOLEAN
    /\ losses \in 0..MaxLosses

\* handleEstablish throws when its host has no connector for the service.  A
\* host discovered by SomeIpSD has one: what follows from its offer, however
\* late, never ends the simulation.
DiscoveredIsThere == StaticHosts = {} => ~aborted

\* A connection-oriented subscriber endpoint points at a host that publishes
\* the service and already has the endpoint of that QoS group, whatever is
\* lost and however the negotiations of one pair of hosts are mixed up.
ConnectedIsServed ==
    \A s \in Subscribers :
        subEndpoint[s] # None /\ SubscriberApp[s].qos # UDP =>
            \E p \in Provides(subEndpoint[s], SubscriberApp[s].service) :
                SubscriberApp[s].qos \in pubEndpoints[p]

\* A publisher sends to a UDP remote only when the endpoint there exists: the
\* establish that names it was sent by a host that had made it.
RemotesListen ==
    \A p \in Publishers : \A h \in remotes[p] :
        \E s \in ConnectorsFor(h, PublisherApp[p].service, UDP) : subEndpoint[s] # None

\* No host negotiates the service while it publishes it itself.
OneDirection(service) ==
    \A s \in Subscribers, p \in Publishers :
        /\ SubscriberApp[s].service = service
        /\ PublisherApp[p].service = service
        => SubscriberApp[s].host # PublisherApp[p].host

\* No two connectors of a host negotiate the service, and no host negotiates it
\* that publishes it, or is said to publish it by the static map of some host:
\* every broker identity of this service belongs to one request.
DistinctNegotiations(service) ==
    /\ \A s, t \in Subscribers :
          /\ SubscriberApp[s].host = SubscriberApp[t].host
          /\ SubscriberApp[s].service = service /\ SubscriberApp[t].service = service
          => SubscriberApp[s].qos = SubscriberApp[t].qos
    /\ OneDirection(service)
    /\ \A s, t \in Subscribers :
          /\ SubscriberApp[s].host \in StaticHosts
          /\ SubscriberApp[s].service = service /\ SubscriberApp[t].service = service
          => SubscriberApp[t].host # Provider[service]

\* The state of a broker, as seen by the negotiation of client h with peer.
ClientStates(h, peer, service) ==
    {brokers[h][i].state : i \in Responsible(h, peer, service)}
ServerStates(h, peer, service) ==
    {brokers[peer][i].state : i \in Responsible(peer, h, service)}

\* Its packets in flight, by direction and place.
PacketsOf(from, to, service) ==
    {i \in DOMAIN channel[from][to] : channel[from][to][i].service = service}
TypesOf(h, peer, service) ==
    {channel[h][peer][i].type : i \in PacketsOf(h, peer, service)}
    \cup {channel[peer][h][i].type : i \in PacketsOf(peer, h, service)}

\* When nothing is lost and the negotiations of a service are distinct, the
\* client's state, the server's state and the one packet under way between them
\* always agree, whatever is negotiated of other services: no broker waits for a
\* packet that is not coming, and none stays when its negotiation is over.
SessionsAgree ==
    LossyTypes = {} /\ ~aborted =>
        \A s \in Subscribers, peer \in Hosts :
            LET h == SubscriberApp[s].host
                service == SubscriberApp[s].service
            IN  DistinctNegotiations(service) =>
                /\ Cardinality(PacketsOf(h, peer, service))
                   + Cardinality(PacketsOf(peer, h, service)) <= 1
                /\ Cardinality(Responsible(h, peer, service)) <= 1
                /\ <<ClientStates(h, peer, service), ServerStates(h, peer, service),
                     TypesOf(h, peer, service)>> \in
                     {<<{}, {}, {}>>,
                      <<{"CLIENT_PENDING_REQUEST"}, {}, {"REQUEST"}>>,
                      <<{"CLIENT_PENDING_REQUEST"}, {"SERVER_PENDING_ACCEPT"}, {"RESPONSE"}>>,
                      <<{"CLIENT_PENDING_CONNECTION"}, {"SERVER_PENDING_ACCEPT"}, {"ESTABLISH"}>>,
                      <<{"CLIENT_PENDING_CONNECTION"}, {}, {"FINALISE"}>>}

\* The subscriber and a publisher of its service have the endpoints they need.
Connected(s) ==
    LET app == SubscriberApp[s] IN
    /\ subEndpoint[s] # None
    /\ \E p \in published : /\ PublisherApp[p].service = app.service
                            /\ app.qos \in pubEndpoints[p]
                            /\ app.qos = UDP => app.host \in remotes[p]

OfferUnderWay(s) ==
    /\ s \in pending
    /\ \E m \in BagToSet(sdNet) : /\ m.type = "OFFER" /\ m.to = SubscriberApp[s].host
                                  /\ m.service = SubscriberApp[s].service

\* The QoS groups in which host h is connected to the service.
ConnectedGroups(h, service) ==
    {SubscriberApp[s].qos : s \in {s \in Subscribers : /\ SubscriberApp[s].host = h
                                                      /\ SubscriberApp[s].service = service
                                                      /\ Connected(s)}}

\* An offer that finds a request waiting leads to a connection: one more QoS
\* group of the host is connected to the service, which is the subscriber's own
\* when its host negotiates no other.  More than one is not promised: requests
\* of several QoS groups share the identity of their brokers, and a response
\* that comes to the broker of another one is dropped.  Nothing is lost, offers
\* come from SomeIpSD, and no host negotiates a service that it publishes: two
\* hosts that negotiate with each other mix up requests in both directions.
EventuallyConnected ==
    LossyTypes = {} /\ StaticHosts = {} =>
        \A s \in Subscribers, n \in 0..(Cardinality(QoSGroups) - 1) :
            LET app == SubscriberApp[s]
                Count == Cardinality(ConnectedGroups(app.host, app.service))
            IN  OneDirection(app.service) /\ OfferUnderWay(s) /\ Count = n ~> Count > n

\* "let the right broker handle the message": a packet some broker of the host
\* is waiting for is given to a broker that waits for it.
RightBroker ==
    \A from, to \in Hosts : channel[from][to] # <<>> =>
        LET m == Head(channel[from][to]) IN
        /\ m.type # "REQUEST"
        /\ \E i \in Responsible(to, from, m.service) : brokers[to][i].state = Awaited(m.type)
        => Handler(to, from, m.service, Awaited(m.type)) # {}
=============================================================================
