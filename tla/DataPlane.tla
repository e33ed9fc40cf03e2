------------------------------ MODULE DataPlane ------------------------------
(***************************************************************************)
(* The way of a published message: publisher application, its connector,   *)
(* one endpoint per QoS group, the transport, the subscriber endpoint, its *)
(* connector and the applications that share it.  The managers create the  *)
(* endpoints meanwhile, in the orders of their discovery protocols (see    *)
(* SomeIpDiscovery and QoSNegotiation), which are left open here.          *)
(*                                                                         *)
(* A message is its publisher and its number.  What a module hands to the  *)
(* next one in the same simulation instant is one step; the queue of an    *)
(* endpoint is that of its processing time (see ProcessingTime).           *)
(***************************************************************************)
EXTENDS Naturals, Sequences, FiniteSets, SequencesExt

CONSTANTS
    Hosts, Services, Ports,
    Groups,               \* multicast addresses
    Publishers,           \* publisher applications
    Subscribers,          \* subscriber applications
    PublisherApp,         \* parameters of the publishers
    SubscriberApp,        \* parameters of the subscribers
    MaxMessages,          \* bound: number of messages of each publisher
    MaxLosses,            \* bound: datagrams lost
    MaxFailures,          \* bound: TCP connections that fail
    None

TCP == {"IP_TCP", "SOMEIP_TCP"}
UDP == {"IP_UDP", "SOMEIP_UDP"}
MCAST == {"IP_UDP_MCAST", "SOMEIP_UDP_MCAST"}
QoSGroups == TCP \cup UDP \cup MCAST
SOMEIP == {"SOMEIP_TCP", "SOMEIP_UDP", "SOMEIP_UDP_MCAST"}

Managers == {"QoSManager", "SomeIpManager"}

\* Addresses and ports are parameters of the applications.  gateway: is it a
\* GatewayPublisher, whose messages are aggregations of CAN frames, or a
\* GatewaySubscriber, which takes nothing else?
PublisherParameters ==
    [host : Hosts, manager : Managers, service : Services, tcpPort : Ports,
     udpPort : Ports, mcastDestAddr : Groups, mcastDestPort : Ports,
     qos : SUBSET QoSGroups, gateway : BOOLEAN]

SubscriberParameters ==
    [host : Hosts, service : Services, qos : QoSGroups, tcpPort : Ports, udpPort : Ports,
     gateway : BOOLEAN]

\* A manager has endpoints for its own QoS groups only, and throws when it is to
\* create another one.
ASSUME DataPlaneAssumption ==
    /\ Hosts \cap Groups = {}
    /\ None \notin Hosts \cup Groups \cup Ports
    /\ PublisherApp \in [Publishers -> PublisherParameters]
    /\ \A p \in Publishers :
          PublisherApp[p].manager = "SomeIpManager" => PublisherApp[p].qos \subseteq SOMEIP
    /\ SubscriberApp \in [Subscribers -> SubscriberParameters]
    /\ MaxMessages \in [Publishers -> Nat] /\ MaxLosses \in Nat /\ MaxFailures \in Nat

Addresses == (Hosts \cup Groups) \X Ports

\* The connector of a subscriber: a host has one for each service and QoS.
ConnectorOf(s) ==
    [host |-> SubscriberApp[s].host, service |-> SubscriberApp[s].service,
     qos |-> SubscriberApp[s].qos]
Connectors == {ConnectorOf(s) : s \in Subscribers}

\* Can publisher p serve connector c: SomeIpManager compares the QoS groups,
\* QoSManager negotiates whichever of its own a subscriber asks for.
Fits(c, p) ==
    LET app == PublisherApp[p]
    IN  /\ c.service = app.service
        /\ IF app.manager = "SomeIpManager" THEN c.qos \in app.qos
           ELSE c.qos \notin SOMEIP

\* The endpoints that may exist: one per publisher and QoS group.
Endpoints ==
    {k \in Publishers \X QoSGroups :
        \E c \in Connectors : c.qos = k[2] /\ Fits(c, k[1])}

VARIABLES
    publisherConnectors, \* _publisherConnectors of all hosts: publishers with one
    applications,       \* _applications of each subscriber connector, in order
    publisherEndpoint,  \* endpoint of a publisher for a QoS group, or None
    subscriberEndpoint, \* endpoint of each subscriber connector, or None
    published,          \* number of messages each publisher sent
    queue,              \* what waits for the processing time of a publisher endpoint
    net,                \* messages on their way, per link, until the processing time
                        \* of the subscriber endpoint is over
    received,           \* messages given to each subscriber application
    failed,             \* links whose TCP connection is gone
    losses,             \* datagrams lost so far
    aborted             \* has a handler thrown: the end of the simulation

registryVars == <<publisherConnectors, applications>>
endpointVars == <<publisherEndpoint, subscriberEndpoint>>
messageVars == <<published, queue, net, received>>
vars == <<registryVars, endpointVars, messageVars, failed, losses, aborted>>

-----------------------------------------------------------------------------
(* Endpoints and their parameters.                                         *)

\* An endpoint's class and parameters and what its transport has added:
\* isConnected, and the remotes of a UDP or the sockets of a TCP endpoint.
PublisherEndpoint ==
    [someip : BOOLEAN, address : Hosts, port : Ports, dest : Addresses \cup {None},
     remotes : Seq((Hosts \X Ports) \cup (Hosts \X {None})), isConnected : BOOLEAN]

TCPPublisherEndpoint(app) ==
    [someip |-> FALSE, address |-> app.host, port |-> app.tcpPort, dest |-> None,
     remotes |-> <<>>, isConnected |-> FALSE]

UDPPublisherEndpoint(app) ==
    [someip |-> FALSE, address |-> app.host, port |-> app.udpPort, dest |-> None,
     remotes |-> <<>>, isConnected |-> FALSE]

\* Mutant: the parameters of the group are not set.
UDPMcastPublisherEndpoint_NoGroup(app) == UDPPublisherEndpoint(app)

UDPMcastPublisherEndpoint(app) ==
    [UDPPublisherEndpoint(app) EXCEPT !.dest = <<app.mcastDestAddr, app.mcastDestPort>>]

SomeIpTCPPublisherEndpoint(app) == [TCPPublisherEndpoint(app) EXCEPT !.someip = TRUE]
SomeIpUDPPublisherEndpoint(app) == [UDPPublisherEndpoint(app) EXCEPT !.someip = TRUE]
SomeIpUDPMcastPublisherEndpoint(app) ==
    [UDPMcastPublisherEndpoint(app) EXCEPT !.someip = TRUE]

QoSManagerPublisherEndpoint(qos, app) ==
    CASE qos = "IP_TCP"       -> TCPPublisherEndpoint(app)
      [] qos = "IP_UDP"       -> UDPPublisherEndpoint(app)
      [] qos = "IP_UDP_MCAST" -> UDPMcastPublisherEndpoint(app)

SomeIpManagerPublisherEndpoint(qos, app) ==
    CASE qos = "SOMEIP_TCP"       -> SomeIpTCPPublisherEndpoint(app)
      [] qos = "SOMEIP_UDP"       -> SomeIpUDPPublisherEndpoint(app)
      [] qos = "SOMEIP_UDP_MCAST" -> SomeIpUDPMcastPublisherEndpoint(app)

\* A datagram socket is connected once it is bound, a TCP socket listens and
\* is connected with its first subscriber.  A multicast endpoint joins its own
\* group too, without getting back what it sends.
InitializeTCPServerSocket(e) == [e EXCEPT !.isConnected = FALSE]
InitializeUDPServerSocket(e) == [e EXCEPT !.isConnected = TRUE]
InitializeUDPMcastServerSocket(e) == InitializeUDPServerSocket(e)

InitializePublisherTransport(qos, e) ==
    CASE qos \in TCP   -> InitializeTCPServerSocket(e)
      [] qos \in UDP   -> InitializeUDPServerSocket(e)
      [] qos \in MCAST -> InitializeUDPMcastServerSocket(e)

CreateQoSSpecificPublisherEndpoint(qos, app) ==
    IF qos \in SOMEIP THEN SomeIpManagerPublisherEndpoint(qos, app)
    ELSE QoSManagerPublisherEndpoint(qos, app)

\* The endpoint of p's connector for this QoS group.
FindPublisherEndpoint(p, qos) == publisherEndpoint[p, qos]

\* A service has one endpoint per QoS group: found if it was created before.
CreateOrFindPublisherEndpoint(p, qos) ==
    IF FindPublisherEndpoint(p, qos) # None THEN FindPublisherEndpoint(p, qos)
    ELSE InitializePublisherTransport(
            qos, CreateQoSSpecificPublisherEndpoint(qos, PublisherApp[p]))

\* What a subscriber is told of a publisher's endpoint, and what kind of
\* connection it is.
ConnectionType ==
    [IP_TCP |-> "ct_tcp", IP_UDP |-> "ct_udp", IP_UDP_MCAST |-> "ct_udp_mcast",
     SOMEIP_TCP |-> "ct_someip_tcp", SOMEIP_UDP |-> "ct_someip_udp",
     SOMEIP_UDP_MCAST |-> "ct_someip_udp_mcast"]
TCPInformation(qos, e) ==
    [type |-> ConnectionType[qos], address |-> e.address, port |-> e.port, dest |-> None]
UDPInformation(qos) ==   \* nothing that a subscriber makes use of
    [type |-> ConnectionType[qos], address |-> None, port |-> None, dest |-> None]
UDPMcastInformation(qos, e) == [UDPInformation(qos) EXCEPT !.dest = e.dest]

ConnectionSpecificInformation(qos, e) ==
    CASE qos \in TCP   -> TCPInformation(qos, e)
      [] qos \in UDP   -> UDPInformation(qos)
      [] qos \in MCAST -> UDPMcastInformation(qos, e)

\* The QoS group of a connection, by which a manager finds the connector.
QoSManagerGroup(type) ==
    CASE type = "ct_tcp"       -> "IP_TCP"
      [] type = "ct_udp"       -> "IP_UDP"
      [] type = "ct_udp_mcast" -> "IP_UDP_MCAST"
SomeIpManagerGroup(type) ==
    CASE type = "ct_someip_tcp"       -> "SOMEIP_TCP"
      [] type = "ct_someip_udp"       -> "SOMEIP_UDP"
      [] type = "ct_someip_udp_mcast" -> "SOMEIP_UDP_MCAST"

SubscriberEndpoint ==
    [someip : BOOLEAN, local : Addresses, remote : Addresses \cup {None},
     dest : Addresses \cup {None}, isConnected : BOOLEAN]

TCPSubscriberEndpoint(csi, connector) ==
    [someip |-> FALSE, local |-> <<connector.host, connector.tcpPort>>,
     remote |-> <<csi.address, csi.port>>, dest |-> None, isConnected |-> FALSE]

UDPSubscriberEndpoint(connector) ==
    [someip |-> FALSE, local |-> <<connector.host, connector.udpPort>>, remote |-> None,
     dest |-> None, isConnected |-> FALSE]

UDPMcastSubscriberEndpoint(csi, connector) ==
    [UDPSubscriberEndpoint(connector) EXCEPT !.dest = csi.dest]

SomeIpTCPSubscriberEndpoint(csi, connector) ==
    [TCPSubscriberEndpoint(csi, connector) EXCEPT !.someip = TRUE]
SomeIpUDPSubscriberEndpoint(connector) ==
    [UDPSubscriberEndpoint(connector) EXCEPT !.someip = TRUE]
SomeIpUDPMcastSubscriberEndpoint(csi, connector) ==
    [UDPMcastSubscriberEndpoint(csi, connector) EXCEPT !.someip = TRUE]

QoSManagerSubscriberEndpoint(csi, connector) ==
    CASE csi.type = "ct_tcp"       -> TCPSubscriberEndpoint(csi, connector)
      [] csi.type = "ct_udp"       -> UDPSubscriberEndpoint(connector)
      [] csi.type = "ct_udp_mcast" -> UDPMcastSubscriberEndpoint(csi, connector)

SomeIpManagerSubscriberEndpoint(csi, connector) ==
    CASE csi.type = "ct_someip_tcp"       -> SomeIpTCPSubscriberEndpoint(csi, connector)
      [] csi.type = "ct_someip_udp"       -> SomeIpUDPSubscriberEndpoint(connector)
      [] csi.type = "ct_someip_udp_mcast" -> SomeIpUDPMcastSubscriberEndpoint(csi, connector)

\* A TCP socket connects to the remote, see Establish; a datagram socket is
\* bound to the local address, a multicast one to that of the group.
InitializeTCPSocket(e) == e
InitializeUDPSocket(e) == [e EXCEPT !.isConnected = TRUE]
InitializeUDPMcastSocket(e) == InitializeUDPSocket([e EXCEPT !.local = e.dest])

InitializeSubscriberTransport(qos, e) ==
    CASE qos \in TCP   -> InitializeTCPSocket(e)
      [] qos \in UDP   -> InitializeUDPSocket(e)
      [] qos \in MCAST -> InitializeUDPMcastSocket(e)

\* A host has one socket that listens at a TCP port: another one cannot be
\* opened.  None is no endpoint.
ASSUME EndpointAssumption ==
    /\ None \notin PublisherEndpoint \cup SubscriberEndpoint
    /\ \A p, r \in Publishers :
          LET app == PublisherApp[p]
              other == PublisherApp[r]
          IN  /\ <<app.host, app.tcpPort>> = <<other.host, other.tcpPort>>
              /\ \E k, m \in Endpoints : k[1] = p /\ m[1] = r /\ {k[2], m[2]} \subseteq TCP
              => app.service = other.service

-----------------------------------------------------------------------------
(* Links: the ways messages of a publisher's endpoint take to a host.      *)

\* Address and port of the socket for an application's parameters.
LocalAddress(app) ==
    <<app.host, IF app.qos \in TCP THEN app.tcpPort ELSE app.udpPort>>

\* A connector has the parameters of the application it was created for.
SubscriberConnector(c) == SubscriberApp[Head(applications[c])]

Links ==
    {l \in [from : Publishers, qos : TCP \cup UDP,
             to : {LocalAddress(SubscriberApp[s]) : s \in Subscribers}, host : Hosts] :
        <<l.from, l.qos>> \in Endpoints /\ l.host = l.to[1]}
    \cup
    {l \in [from : Publishers, qos : MCAST, to : Addresses, host : Hosts] :
        /\ <<l.from, l.qos>> \in Endpoints
        /\ l.to = <<PublisherApp[l.from].mcastDestAddr, PublisherApp[l.from].mcastDestPort>>
        /\ l.host # PublisherApp[l.from].host
        /\ \E c \in Connectors : c.host = l.host /\ c.qos \in MCAST} \* others drop it

\* Connectors whose endpoint's socket gets what arrives on link l.
Listeners(l) ==
    {c \in Connectors :
        /\ subscriberEndpoint[c] # None
        /\ c.host = l.host
        /\ subscriberEndpoint[c].local = l.to
        /\ \/ l.qos \in TCP /\ c.qos \in TCP
              /\ subscriberEndpoint[c].remote
                   = <<PublisherApp[l.from].host, PublisherApp[l.from].tcpPort>>
           \/ l.qos \in UDP /\ c.qos \in UDP
           \/ l.qos \in MCAST /\ c.qos \in MCAST}

-----------------------------------------------------------------------------
(* Creation of endpoints.                                                  *)

Init ==
    /\ publisherConnectors = {}
    /\ applications = [c \in Connectors |-> <<>>]
    /\ publisherEndpoint = [k \in Endpoints |-> None]
    /\ subscriberEndpoint = [c \in Connectors |-> None]
    /\ published = [p \in Publishers |-> 0]
    /\ queue = [k \in Endpoints |-> <<>>]
    /\ net = [l \in Links |-> <<>>]
    /\ received = [s \in Subscribers |-> <<>>]
    /\ failed = {}
    /\ losses = 0
    /\ aborted = FALSE

\* The publisher that registered a service at a host, if there is one.
GetPublisherConnector(host, service) ==
    {p \in publisherConnectors :
        PublisherApp[p].host = host /\ PublisherApp[p].service = service}

CreatePublisherConnector(p) == publisherConnectors \cup {p}

\* A publisher starts: a host has one publisher of a service.
RegisterPublisherService(p) ==
    LET known == GetPublisherConnector(PublisherApp[p].host, PublisherApp[p].service)
    IN  /\ p \notin publisherConnectors
        /\ publisherConnectors' = IF known = {} THEN CreatePublisherConnector(p)
                                  ELSE publisherConnectors
        /\ aborted' = (known # {})
        /\ UNCHANGED <<applications, endpointVars, messageVars, failed, losses>>

\* The connectors that a host has of a service, each with its applications.
GetSubscriberConnectors(host, service) ==
    {c \in Connectors : c.host = host /\ c.service = service /\ applications[c] # <<>>}
FindSubscriberConnector(host, service, qos) ==
    {c \in GetSubscriberConnectors(host, service) : c.qos = qos}

\* A subscriber starts: it is added as the last application to the connector
\* of its service and QoS, which is created with the first.  The connector's
\* maxApplications is -1, no limit, which no configuration changes.
AddApplication(c, s) ==
    IF s \in Range(applications[c]) THEN applications
    ELSE [applications EXCEPT ![c] = Append(@, s)]

RegisterSubscriberService(s) ==
    /\ \A c \in Connectors : s \notin Range(applications[c])
    /\ applications' = AddApplication(ConnectorOf(s), s)
    /\ UNCHANGED <<publisherConnectors, endpointVars, messageVars, failed, losses, aborted>>

\* Mutant: a remote that is known is added again.
AddRemote_Twice(e, remote) == [e EXCEPT !.remotes = Append(@, remote)]

AddRemote(e, remote) ==
    IF remote \in Range(e.remotes) THEN e
    ELSE [e EXCEPT !.remotes = Append(@, remote)]

\* The endpoints that are told a subscriber's address when they serve it.
TakesRemotes(q) == q \in UDP \cup (MCAST \cap SOMEIP)

\* The port its subscriber tells: a multicast subscription carries the group's.
SubscribedPort(c) == IF c.qos \in MCAST THEN None ELSE SubscriberConnector(c).udpPort

\* The publisher's side of a subscription or negotiation of connector c.
ServeSubscription(p, c) ==
    LET e == CreateOrFindPublisherEndpoint(p, c.qos)
    IN  /\ p \in publisherConnectors /\ applications[c] # <<>>
        /\ Fits(c, p)
        /\ publisherEndpoint' = [publisherEndpoint EXCEPT ![<<p, c.qos>>] =
              IF TakesRemotes(c.qos) THEN AddRemote(e, <<c.host, SubscribedPort(c)>>) ELSE e]
        /\ UNCHANGED <<registryVars, subscriberEndpoint, messageVars, failed, losses,
                       aborted>>

\* The endpoint of the connector with this service and QoS.
FindSubscriberEndpoint(c) == subscriberEndpoint[c]

CreateConnectionSpecificSubscriberEndpoint(csi, connector) ==
    IF connector.qos \in SOMEIP THEN SomeIpManagerSubscriberEndpoint(csi, connector)
    ELSE QoSManagerSubscriberEndpoint(csi, connector)

\* The subscriber's side of connector c: the endpoint of the connector with
\* this type of connection is created unless it has one.  Only a UDP endpoint
\* may come before the publisher's.
QoSGroupForConnectionType(c, type) ==
    IF c.qos \in SOMEIP THEN SomeIpManagerGroup(type) ELSE QoSManagerGroup(type)

Listen(c, p) ==
    LET e == publisherEndpoint[p, c.qos]
        csi == ConnectionSpecificInformation(c.qos, e)
    IN  /\ applications[c] # <<>>
        /\ Fits(c, p)
        /\ e = None => c.qos = "IP_UDP"
        /\ \E d \in FindSubscriberConnector(
                      c.host, c.service, QoSGroupForConnectionType(c, csi.type)) :
              /\ FindSubscriberEndpoint(d) = None
              /\ subscriberEndpoint' = [subscriberEndpoint EXCEPT ![d] =
                    InitializeSubscriberTransport(d.qos,
                        CreateConnectionSpecificSubscriberEndpoint(
                            csi, SubscriberConnector(d)))]
        /\ UNCHANGED <<registryVars, publisherEndpoint, messageVars, failed, losses, aborted>>

\* A connection is established: the subscriber endpoint is told, and the
\* publisher endpoint will be, after the messages that wait there already.
Establish(c, p) ==
    LET q == c.qos
    IN  /\ <<p, q>> \in Endpoints /\ q \in TCP
        /\ subscriberEndpoint[c] # None
        /\ ~subscriberEndpoint[c].isConnected
        /\ publisherEndpoint[p, q] # None
        /\ subscriberEndpoint[c].remote
             = <<publisherEndpoint[p, q].address, publisherEndpoint[p, q].port>>
        /\ subscriberEndpoint' = [subscriberEndpoint EXCEPT ![c].isConnected = TRUE]
        /\ queue' = [queue EXCEPT ![<<p, q>>] =
              Append(@, [type |-> "ACCEPT", remote |-> subscriberEndpoint[c].local])]
        /\ UNCHANGED <<registryVars, publisherEndpoint, published, net, received, failed,
                       losses, aborted>>

-----------------------------------------------------------------------------
(* The way of a message.                                                   *)

\* The application sends, its connector forwards a copy to each endpoint.
SendMessage(p) ==
    /\ p \in publisherConnectors
    /\ published[p] < MaxMessages[p]
    /\ published' = [published EXCEPT ![p] = @ + 1]
    /\ queue' = [k \in Endpoints |->
          IF k[1] # p \/ publisherEndpoint[k] = None THEN queue[k]
          ELSE Append(queue[k], [type |-> "PUBLISH", n |-> published[p] + 1])]
    /\ UNCHANGED <<registryVars, endpointVars, net, received, failed, losses, aborted>>

\* Where an endpoint sends a message: to its remotes or sockets, or once to
\* its group.
Targets(e) == IF e.dest = None THEN e.remotes ELSE <<e.dest>>

\* A SOME/IP endpoint puts its header before the payload.
CreateSomeIpPacket(n) == [n |-> n, someip |-> TRUE]

Packet(e, n) == IF e.someip THEN CreateSomeIpPacket(n) ELSE [n |-> n, someip |-> FALSE]

\* The copies of message n that endpoint e of publisher p puts on link l.
Copies(e, p, q, l, n) ==
    LET targets == IF l.from = p /\ l.qos = q THEN Targets(e) ELSE <<>>
    IN  [i \in 1..Cardinality({k \in DOMAIN targets : targets[k] = l.to}) |-> Packet(e, n)]

\* A socket whose connection is gone refuses to send.
Broken(p, q) == \E l \in failed : l.from = p /\ l.qos = q

\* The processing time of the oldest message of an endpoint is over: sent if
\* the endpoint is connected, dropped otherwise.
HandleConnectorIn(p, q) ==
    LET e == publisherEndpoint[p, q]
    IN  /\ queue[p, q] # <<>>
        /\ Head(queue[p, q]).type = "PUBLISH"
        /\ queue' = [queue EXCEPT ![<<p, q>>] = Tail(@)]
        /\ \/ /\ e.isConnected /\ Broken(p, q)
              /\ aborted' = TRUE
              /\ UNCHANGED net
           \/ /\ e.isConnected /\ ~Broken(p, q)
              /\ net' = [l \in Links |->
                    net[l] \o Copies(e, p, q, l, Head(queue[p, q]).n)]
              /\ UNCHANGED aborted
           \/ /\ ~e.isConnected
              /\ UNCHANGED <<net, aborted>>
        /\ UNCHANGED <<registryVars, endpointVars, published, received, failed, losses>>

\* Mutant: the endpoint is not connected by a new socket.
HandleTransportIn_NotConnected(p, q) ==
    /\ queue[p, q] # <<>>
    /\ Head(queue[p, q]).type = "ACCEPT"
    /\ queue' = [queue EXCEPT ![<<p, q>>] = Tail(@)]
    /\ publisherEndpoint' = [publisherEndpoint EXCEPT
          ![<<p, q>>].remotes = Append(@, Head(queue[p, q]).remote)]
    /\ UNCHANGED <<registryVars, subscriberEndpoint, published, net, received, failed,
                   losses, aborted>>

\* A socket is added to those of a TCP endpoint, which is connected now.
AddSocket(e, socket) == [e EXCEPT !.remotes = Append(@, socket), !.isConnected = TRUE]

\* A TCP publisher endpoint gets to know a new connection.
HandleTransportIn(p, q) ==
    /\ queue[p, q] # <<>>
    /\ Head(queue[p, q]).type = "ACCEPT"
    /\ queue' = [queue EXCEPT ![<<p, q>>] = Tail(@)]
    /\ publisherEndpoint' = [publisherEndpoint EXCEPT
          ![<<p, q>>] = AddSocket(@, Head(queue[p, q]).remote)]
    /\ UNCHANGED <<registryVars, subscriberEndpoint, published, net, received, failed,
                   losses, aborted>>

\* What the processing time of an endpoint is for.
ProcessScheduledMessage(p, q) == HandleConnectorIn(p, q) \/ HandleTransportIn(p, q)

\* Mutant: only the application the connector was created for.
ForwardToApplications_First(D, l) ==
    received' = [s \in Subscribers |->
        IF \E c \in D : applications[c] # <<>> /\ s = Head(applications[c])
        THEN Append(received[s], [from |-> l.from, n |-> Head(net[l]).n])
        ELSE received[s]]

\* The connectors in D forward the message to all their applications.
ForwardToApplications(D, l) ==
    received' = [s \in Subscribers |->
        IF \E c \in D : s \in Range(applications[c])
        THEN Append(received[s], [from |-> l.from, n |-> Head(net[l]).n])
        ELSE received[s]]

\* A gateway subscriber throws for anything but an aggregation; every other
\* subscriber takes what it gets.
Refuses(s, from) == SubscriberApp[s].gateway /\ ~PublisherApp[from].gateway

\* SOME/IP datagram endpoints take SOME/IP packets only, TCP ones anything.
Decapsulates(c, packet) ==
    subscriberEndpoint[c].someip /\ c.qos \notin TCP => packet.someip

\* The transport gives a message to the endpoint that listens: one of those
\* bound to the address, all that joined the group, or none.
Arrive(l) ==
    LET takers == {c \in Listeners(l) : Decapsulates(c, Head(net[l]))}
    IN  /\ net[l] # <<>>
        /\ net' = [net EXCEPT ![l] = Tail(@)]
        /\ \/ l.qos \in MCAST /\ ForwardToApplications(takers, l)
           \/ /\ l.qos \notin MCAST
              /\ \E c \in Listeners(l) : ForwardToApplications({c} \cap takers, l)
           \/ Listeners(l) = {} /\ UNCHANGED received
        /\ aborted' = \E s \in Subscribers : received'[s] # received[s] /\ Refuses(s, l.from)
        /\ UNCHANGED <<registryVars, endpointVars, published, queue, failed, losses>>

\* The network loses a datagram.
Lose(l) ==
    /\ l.qos \notin TCP
    /\ losses < MaxLosses
    /\ net[l] # <<>>
    /\ net' = [net EXCEPT ![l] = Tail(@)]
    /\ losses' = losses + 1
    /\ UNCHANGED <<registryVars, endpointVars, published, queue, received, failed, aborted>>

\* TCP gives up a connection, and what is on its way on it; the socket stays
\* in the map and isConnected as it is.
ConnectionFails(l) ==
    /\ l.qos \in TCP /\ l \notin failed
    /\ Cardinality(failed) < MaxFailures
    /\ publisherEndpoint[l.from, l.qos] # None
    /\ l.to \in Range(publisherEndpoint[l.from, l.qos].remotes)
    /\ failed' = failed \cup {l}
    /\ net' = [net EXCEPT ![l] = <<>>]
    /\ UNCHANGED <<registryVars, endpointVars, published, queue, received, losses, aborted>>

\* Nothing is left to send or to deliver, or the simulation has ended.
Terminated ==
    /\ \/ aborted
       \/ /\ \A p \in Publishers : published[p] = MaxMessages[p]
          /\ \A k \in Endpoints : queue[k] = <<>>
          /\ \A l \in Links : net[l] = <<>>
    /\ UNCHANGED vars

Step ==
    \/ \E p \in Publishers : RegisterPublisherService(p)
    \/ \E s \in Subscribers : RegisterSubscriberService(s)
    \/ \E p \in Publishers, c \in Connectors :
          ServeSubscription(p, c) \/ Listen(c, p) \/ Establish(c, p)
    \/ \E p \in Publishers : SendMessage(p)
    \/ \E k \in Endpoints : ProcessScheduledMessage(k[1], k[2])
    \/ \E l \in Links : Arrive(l) \/ Lose(l) \/ ConnectionFails(l)

Next == (~aborted /\ Step) \/ Terminated

Spec == Init /\ [][Next]_vars

\* The simulation goes on: processing times end, the network delivers.
Proceed ==
    \/ \E k \in Endpoints : ProcessScheduledMessage(k[1], k[2])
    \/ \E l \in Links : Arrive(l)
Fairness == WF_vars(~aborted /\ Proceed)

FairSpec == Spec /\ Fairness

-----------------------------------------------------------------------------
(* Properties.                                                             *)

Item ==
    [type : {"PUBLISH"}, n : Nat] \cup [type : {"ACCEPT"}, remote : Addresses]

Message == [from : Publishers, n : Nat]

\* Every variable stays in its declared range.
TypeOK ==
    /\ publisherConnectors \subseteq Publishers
    /\ applications \in [Connectors -> Seq(Subscribers)]
    /\ publisherEndpoint \in [Endpoints -> PublisherEndpoint \cup {None}]
    /\ subscriberEndpoint \in [Connectors -> SubscriberEndpoint \cup {None}]
    /\ published \in [Publishers -> Nat]
    /\ queue \in [Endpoints -> Seq(Item)]
    /\ net \in [Links -> Seq([n : Nat, someip : BOOLEAN])]
    /\ received \in [Subscribers -> Seq(Message)]
    /\ failed \subseteq Links
    /\ losses \in 0..MaxLosses
    /\ aborted \in BOOLEAN

\* The remotes and sockets of a publisher's endpoint are those of connectors
\* with a subscriber of this service and QoS, each of them once: who comes to
\* a shared connector adds none, although its ports may be others than those
\* of the first, and a socket is one a subscriber connected.
RemotesAreSubscribers ==
    \A k \in Endpoints :
        LET p == k[1]
            q == k[2]
            e == publisherEndpoint[k]
        IN  e # None =>
              /\ p \in publisherConnectors
              /\ IsInjective(e.remotes)
              /\ \A i \in DOMAIN e.remotes : \E c \in Connectors :
                    /\ Fits(c, p) /\ c.qos = q
                    /\ applications[c] # <<>>
                    /\ c.host = e.remotes[i][1]
                    /\ q \in UDP => e.remotes[i] = LocalAddress(SubscriberConnector(c))
                    /\ q \in TCP => /\ subscriberEndpoint[c] # None
                                    /\ subscriberEndpoint[c].isConnected
                                    /\ subscriberEndpoint[c].local = e.remotes[i]

\* Where a publisher sends by multicast.
GroupAddress(p) == <<PublisherApp[p].mcastDestAddr, PublisherApp[p].mcastDestPort>>

\* Parameters by which addresses tell services apart, which the code does not
\* check: a UDP socket reuses an address that is bound already.  One connector
\* of a host has a UDP port, and one service and QoS group have a multicast
\* address.
AddressesApart ==
    /\ \A s, t \in Subscribers :
          /\ {SubscriberApp[s].qos, SubscriberApp[t].qos} \subseteq UDP
          /\ LocalAddress(SubscriberApp[s]) = LocalAddress(SubscriberApp[t])
          => ConnectorOf(s) = ConnectorOf(t)
    /\ \A k, m \in Endpoints :
          /\ {k[2], m[2]} \subseteq MCAST
          /\ GroupAddress(k[1]) = GroupAddress(m[1])
          => k[2] = m[2] /\ PublisherApp[k[1]].service = PublisherApp[m[1]].service

\* Messages reach the applications of a matching service only, all of a
\* connector alike, in the order of publication and at most once, whatever is
\* lost or fails: no endpoint looks at a message's service or number.
Chan == INSTANCE Channel WITH Wants <- Fits
ImplementsChannel == Chan!Spec

\* A message that is published when the way to a connector is complete (its
\* endpoint listens, the publisher knows its address or socket) reaches its
\* applications, by ImplementsChannel all of them alike, unless the network
\* loses a datagram or a failed connection ends the simulation.
Complete(p, c) ==
    LET q == c.qos
    IN  /\ applications[c] # <<>>
        /\ subscriberEndpoint[c] # None
        /\ publisherEndpoint[p, q] # None
        /\ \/ q \in MCAST
           \/ LocalAddress(SubscriberConnector(c)) \in Range(publisherEndpoint[p, q].remotes)
EventuallyReceived ==
    \A p \in Publishers : \A c \in {x \in Connectors : Fits(x, p)} :
        \A n \in 1..MaxMessages[p] :
            LET q == c.qos
            IN  (Complete(p, c) /\ [type |-> "PUBLISH", n |-> n] \in Range(queue[p, q]))
                ~> (\/ \E s \in Range(applications[c]) :
                          [from |-> p, n |-> n] \in Range(received[s])
                    \/ losses > 0 \/ failed # {})
=============================================================================
