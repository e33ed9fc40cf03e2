-------------------------- MODULE DataPlaneProofs --------------------------
(***************************************************************************)
(* Theorems about DataPlane, for every configuration of applications.      *)
(*                                                                         *)
(* RemotesAreSubscribers is not inductive: a socket is added when its      *)
(* connection has waited in the endpoint's queue.  Accepting says that     *)
(* each connection waits once and is served, Listening and Made that a     *)
(* subscriber endpoint connects to the publisher it was created for.       *)
(*                                                                         *)
(* ImplementsChannel needs more than what was received: Delivering adds    *)
(* that messages are in order all the way, on links and in queues, and     *)
(* that nothing a subscriber has received is still to come.                *)
(***************************************************************************)
EXTENDS DataPlane, FiniteSetTheorems, TLAPS

-----------------------------------------------------------------------------
(* Parameters, connectors and sequences.                                   *)

LEMMA Parameters ==
    /\ \A p \in Publishers :
          LET app == PublisherApp[p]
          IN  /\ app.host \in Hosts /\ app.service \in Services
              /\ app.tcpPort \in Ports /\ app.udpPort \in Ports
              /\ app.mcastDestAddr \in Groups /\ app.mcastDestPort \in Ports
    /\ \A s \in Subscribers :
          LET app == SubscriberApp[s]
          IN  /\ app.host \in Hosts /\ app.service \in Services /\ app.qos \in QoSGroups
              /\ app.tcpPort \in Ports /\ app.udpPort \in Ports
BY DataPlaneAssumption DEF PublisherParameters, SubscriberParameters

\* A connector is its host, its service and its QoS group.
LEMMA ConnectorIs ==
    /\ \A c \in Connectors : c.host \in Hosts /\ c.service \in Services /\ c.qos \in QoSGroups
    /\ \A c, d \in Connectors :
          c.host = d.host /\ c.service = d.service /\ c.qos = d.qos => c = d
BY Parameters DEF Connectors, ConnectorOf

LEMMA EndpointIs ==
    /\ \A k \in Endpoints : k[1] \in Publishers /\ k[2] \in QoSGroups /\ k = <<k[1], k[2]>>
    /\ \A p \in Publishers : \A c \in Connectors : Fits(c, p) => <<p, c.qos>> \in Endpoints
BY ConnectorIs DEF Endpoints

LEMMA GroupIsOneKind ==
    ASSUME NEW q \in QoSGroups
    PROVE  \/ q \in TCP /\ q \notin UDP /\ q \notin MCAST
           \/ q \in UDP /\ q \notin TCP /\ q \notin MCAST
           \/ q \in MCAST /\ q \notin TCP /\ q \notin UDP
BY DEF QoSGroups, TCP, UDP, MCAST

LEMMA AppendIs ==
    ASSUME NEW S, NEW seq \in Seq(S), NEW e \in S
    PROVE  /\ Append(seq, e) \in Seq(S)
           /\ Append(seq, e) # <<>>
           /\ \A i \in DOMAIN Append(seq, e) :
                 \/ i \in DOMAIN seq /\ Append(seq, e)[i] = seq[i]
                 \/ i = Len(seq) + 1 /\ i \notin DOMAIN seq /\ Append(seq, e)[i] = e
<1>1. Append(seq, e) \in Seq(S)  OBVIOUS
<1>2. Len(Append(seq, e)) # 0  OBVIOUS
<1>3. \A i \in DOMAIN Append(seq, e) :
        \/ i \in DOMAIN seq /\ Append(seq, e)[i] = seq[i]
        \/ i = Len(seq) + 1 /\ i \notin DOMAIN seq /\ Append(seq, e)[i] = e
  OBVIOUS
<1> QED  BY <1>1, <1>2, <1>3

LEMMA AppendHead ==
    ASSUME NEW S, NEW seq \in Seq(S), NEW e \in S, seq # <<>>
    PROVE  Head(Append(seq, e)) = Head(seq)
<1>1. Len(seq) # 0 /\ Len(seq) \in Nat  OBVIOUS
<1>2. Head(Append(seq, e)) = Append(seq, e)[1]  OBVIOUS
<1>3. 1 \in 1..Len(seq)  BY <1>1
<1>4. Append(seq, e)[1] = seq[1]  BY <1>3
<1>5. Head(seq) = seq[1]  BY <1>1
<1> QED  BY <1>2, <1>4, <1>5

LEMMA AppendRange ==
    ASSUME NEW S, NEW seq \in Seq(S), NEW e \in S
    PROVE  Range(Append(seq, e)) = Range(seq) \cup {e}
<1>1. DOMAIN Append(seq, e) = DOMAIN seq \cup {Len(seq) + 1}  OBVIOUS
<1>2. \A i \in DOMAIN seq : Append(seq, e)[i] = seq[i]  OBVIOUS
<1>3. Append(seq, e)[Len(seq) + 1] = e  OBVIOUS
<1> QED  BY <1>1, <1>2, <1>3 DEF Range

LEMMA AppendApart ==
    ASSUME NEW S, NEW seq \in Seq(S), NEW e \in S,
           \A x, y \in DOMAIN seq : seq[x] = seq[y] => x = y,
           \A x \in DOMAIN seq : seq[x] # e,
           NEW i \in DOMAIN Append(seq, e), NEW j \in DOMAIN Append(seq, e),
           Append(seq, e)[i] = Append(seq, e)[j]
    PROVE  i = j
<1>1. \/ i \in DOMAIN seq /\ Append(seq, e)[i] = seq[i]
      \/ i = Len(seq) + 1 /\ Append(seq, e)[i] = e
  BY AppendIs
<1>2. \/ j \in DOMAIN seq /\ Append(seq, e)[j] = seq[j]
      \/ j = Len(seq) + 1 /\ Append(seq, e)[j] = e
  BY AppendIs
<1> QED  BY <1>1, <1>2

LEMMA AppendOther ==
    ASSUME NEW S, NEW seq \in Seq(S), NEW e \in S
    PROVE  IsInjective(seq) /\ (\A x \in DOMAIN seq : seq[x] # e) => IsInjective(Append(seq, e))
<1> SUFFICES ASSUME \A x, y \in DOMAIN seq : seq[x] = seq[y] => x = y,
                    \A x \in DOMAIN seq : seq[x] # e,
                    NEW i \in DOMAIN Append(seq, e), NEW j \in DOMAIN Append(seq, e),
                    Append(seq, e)[i] = Append(seq, e)[j]
             PROVE  i = j
  BY DEF IsInjective
<1> QED  BY AppendApart

LEMMA TailIs ==
    ASSUME NEW S, NEW seq \in Seq(S), seq # <<>>
    PROVE  /\ Tail(seq) \in Seq(S)
           /\ \A i \in DOMAIN Tail(seq) :
                 i \in Nat /\ i + 1 \in DOMAIN seq /\ i + 1 # 1 /\ Tail(seq)[i] = seq[i + 1]
           /\ 1 \in DOMAIN seq /\ Head(seq) = seq[1] /\ Head(seq) \in S
<1>1. Len(seq) \in Nat \ {0}  OBVIOUS
<1>2. \A i \in DOMAIN Tail(seq) : i + 1 \in DOMAIN seq /\ Tail(seq)[i] = seq[i + 1]
  OBVIOUS
<1>3. \A i \in DOMAIN Tail(seq) : i \in Nat /\ i + 1 # 1  OBVIOUS
<1>4. 1 \in DOMAIN seq /\ Head(seq) = seq[1]  BY <1>1
<1> QED  BY <1>2, <1>3, <1>4

-----------------------------------------------------------------------------
(* Endpoints as the managers create them.                                  *)

Remotes == Seq((Hosts \X Ports) \cup (Hosts \X {None}))

\* What a field's change leaves alone.
LEMMA EndpointOfSomeIp ==
    ASSUME NEW e \in PublisherEndpoint
    PROVE  LET f == [e EXCEPT !.someip = TRUE]
           IN  /\ f \in PublisherEndpoint /\ f.address = e.address
               /\ f.port = e.port /\ f.dest = e.dest /\ f.remotes = e.remotes
BY DEF PublisherEndpoint

LEMMA EndpointConnected ==
    ASSUME NEW e \in PublisherEndpoint, NEW b \in BOOLEAN
    PROVE  LET f == [e EXCEPT !.isConnected = b]
           IN  /\ f \in PublisherEndpoint /\ f.address = e.address
               /\ f.port = e.port /\ f.dest = e.dest /\ f.remotes = e.remotes
BY DEF PublisherEndpoint

LEMMA EndpointOfGroup ==
    ASSUME NEW e \in PublisherEndpoint, NEW dest \in Addresses
    PROVE  LET f == [e EXCEPT !.dest = dest]
           IN  /\ f \in PublisherEndpoint /\ f.address = e.address
               /\ f.port = e.port /\ f.dest = dest /\ f.remotes = e.remotes
BY DEF PublisherEndpoint

LEMMA EndpointWithRemotes ==
    ASSUME NEW e \in PublisherEndpoint, NEW remotes \in Remotes
    PROVE  LET f == [e EXCEPT !.remotes = remotes]
           IN  /\ f \in PublisherEndpoint /\ f.address = e.address
               /\ f.port = e.port /\ f.dest = e.dest /\ f.remotes = remotes
BY DEF PublisherEndpoint, Remotes

LEMMA EndpointWithSockets ==
    ASSUME NEW e \in PublisherEndpoint, NEW remotes \in Remotes
    PROVE  LET f == [e EXCEPT !.remotes = remotes, !.isConnected = TRUE]
           IN  /\ f \in PublisherEndpoint /\ f.address = e.address
               /\ f.port = e.port /\ f.dest = e.dest /\ f.remotes = remotes
BY DEF PublisherEndpoint, Remotes

\* What is known of the endpoint of publisher p for QoS group q.
MadeFor(e, p, q) ==
    /\ e \in PublisherEndpoint
    /\ e.address = PublisherApp[p].host
    /\ q \in TCP => e.port = PublisherApp[p].tcpPort
    /\ e.dest = IF q \in MCAST THEN GroupAddress(p) ELSE None

LEMMA GroupIsAddress == \A p \in Publishers : GroupAddress(p) \in Addresses
BY Parameters DEF GroupAddress, Addresses

LEMMA PublisherEndpointCreated ==
    ASSUME NEW p \in Publishers, NEW q \in QoSGroups
    PROVE  LET e == InitializePublisherTransport(
                        q, CreateQoSSpecificPublisherEndpoint(q, PublisherApp[p]))
           IN  MadeFor(e, p, q) /\ e.remotes = <<>>
<1> DEFINE app == PublisherApp[p]
           tcp == TCPPublisherEndpoint(app)
           udp == UDPPublisherEndpoint(app)
           mcast == UDPMcastPublisherEndpoint(app)
           created == CreateQoSSpecificPublisherEndpoint(q, app)
           e == InitializePublisherTransport(q, created)
<1>1. /\ app.host \in Hosts /\ app.tcpPort \in Ports /\ app.udpPort \in Ports
      /\ <<app.mcastDestAddr, app.mcastDestPort>> = GroupAddress(p)
      /\ GroupAddress(p) \in Addresses
  BY Parameters, GroupIsAddress DEF GroupAddress
<1>2. <<>> \in Seq((Hosts \X Ports) \cup (Hosts \X {None}))  OBVIOUS
<1>3. tcp \in PublisherEndpoint /\ udp \in PublisherEndpoint
  BY <1>1, <1>2 DEF TCPPublisherEndpoint, UDPPublisherEndpoint, PublisherEndpoint
<1>4. /\ tcp.address = app.host /\ tcp.port = app.tcpPort /\ tcp.remotes = <<>>
      /\ udp.address = app.host /\ udp.remotes = <<>>
      /\ tcp.dest = None /\ udp.dest = None
  BY DEF TCPPublisherEndpoint, UDPPublisherEndpoint
<1>5. /\ mcast \in PublisherEndpoint /\ mcast.address = app.host /\ mcast.remotes = <<>>
      /\ mcast.dest = GroupAddress(p)
  BY <1>1, <1>3, <1>4, EndpointOfGroup DEF UDPMcastPublisherEndpoint
<1> HIDE DEF tcp, udp, mcast
<1>6. CASE q \in TCP
  <2>1. created = tcp \/ created = [tcp EXCEPT !.someip = TRUE]
    BY <1>6 DEF TCP, SOMEIP, CreateQoSSpecificPublisherEndpoint, tcp,
       SomeIpManagerPublisherEndpoint, QoSManagerPublisherEndpoint, SomeIpTCPPublisherEndpoint
  <2>2. q \notin UDP /\ q \notin MCAST  BY <1>6 DEF TCP, UDP, MCAST
  <2>3. e = [created EXCEPT !.isConnected = FALSE]
    BY <1>6, <2>2 DEF InitializePublisherTransport, InitializeTCPServerSocket
  <2>4. /\ created \in PublisherEndpoint /\ created.address = app.host
        /\ created.port = app.tcpPort /\ created.remotes = <<>> /\ created.dest = None
    BY <1>3, <1>4, <2>1, EndpointOfSomeIp
  <2> HIDE DEF created, e
  <2> QED  BY <2>2, <2>3, <2>4, EndpointConnected DEF MadeFor, e, created
<1>7. CASE q \in UDP
  <2>1. created = udp \/ created = [udp EXCEPT !.someip = TRUE]
    BY <1>7 DEF UDP, SOMEIP, CreateQoSSpecificPublisherEndpoint, udp,
       SomeIpManagerPublisherEndpoint, QoSManagerPublisherEndpoint, SomeIpUDPPublisherEndpoint
  <2>2. q \notin TCP /\ q \notin MCAST  BY <1>7 DEF TCP, UDP, MCAST
  <2>3. e = [created EXCEPT !.isConnected = TRUE]
    BY <1>7, <2>2 DEF InitializePublisherTransport, InitializeUDPServerSocket
  <2>4. /\ created \in PublisherEndpoint /\ created.address = app.host
        /\ created.remotes = <<>> /\ created.dest = None
    BY <1>3, <1>4, <2>1, EndpointOfSomeIp
  <2> HIDE DEF created, e
  <2> QED  BY <2>2, <2>3, <2>4, EndpointConnected DEF MadeFor, e, created
<1>8. CASE q \in MCAST
  <2>1. created = mcast \/ created = [mcast EXCEPT !.someip = TRUE]
    BY <1>8 DEF MCAST, SOMEIP, CreateQoSSpecificPublisherEndpoint, mcast,
       SomeIpManagerPublisherEndpoint, QoSManagerPublisherEndpoint,
       SomeIpUDPMcastPublisherEndpoint
  <2>2. q \notin TCP /\ q \notin UDP  BY <1>8 DEF TCP, UDP, MCAST
  <2>3. e = [created EXCEPT !.isConnected = TRUE]
    BY <1>8, <2>2 DEF InitializePublisherTransport, InitializeUDPServerSocket,
       InitializeUDPMcastServerSocket
  <2>4. /\ created \in PublisherEndpoint /\ created.address = app.host
        /\ created.remotes = <<>> /\ created.dest = GroupAddress(p)
    BY <1>5, <2>1, EndpointOfSomeIp
  <2> HIDE DEF created, e
  <2>5. /\ e \in PublisherEndpoint /\ e.address = created.address
        /\ e.port = created.port /\ e.remotes = created.remotes /\ e.dest = created.dest
    BY <2>3, <2>4, EndpointConnected
  <2>6. MadeFor(e, p, q) /\ e.remotes = <<>>  BY <1>8, <2>2, <2>4, <2>5 DEF MadeFor
  <2> QED  BY <2>6 DEF e, created
<1> QED  BY <1>6, <1>7, <1>8, GroupIsOneKind

\* The endpoint of a connector is for its own type of connection.
LEMMA GroupOfConnection ==
    ASSUME NEW c \in Connectors, NEW e
    PROVE  QoSGroupForConnectionType(c, ConnectionSpecificInformation(c.qos, e).type) = c.qos
<1>1. c.qos \in QoSGroups  BY ConnectorIs
<1>2. ConnectionSpecificInformation(c.qos, e).type = ConnectionType[c.qos]
  BY <1>1, GroupIsOneKind DEF ConnectionSpecificInformation, TCPInformation, UDPInformation,
     UDPMcastInformation
<1>3. QoSGroupForConnectionType(c, ConnectionType[c.qos]) = c.qos
  BY <1>1 DEF QoSGroups, TCP, UDP, MCAST, SOMEIP, ConnectionType, QoSGroupForConnectionType,
     SomeIpManagerGroup, QoSManagerGroup
<1> QED  BY <1>2, <1>3

LEMMA SubscriberEndpointWith ==
    ASSUME NEW e \in SubscriberEndpoint
    PROVE  /\ LET f == [e EXCEPT !.someip = TRUE]
              IN  /\ f \in SubscriberEndpoint /\ f.local = e.local
                  /\ f.remote = e.remote /\ f.dest = e.dest
           /\ LET f == [e EXCEPT !.isConnected = TRUE]
              IN  /\ f \in SubscriberEndpoint /\ f.local = e.local
                  /\ f.remote = e.remote /\ f.dest = e.dest /\ f.isConnected
           /\ \A local \in Addresses :
                 LET f == [e EXCEPT !.local = local]
                 IN  f \in SubscriberEndpoint /\ f.local = local
           /\ \A dest \in Addresses :
                 LET f == [e EXCEPT !.dest = dest]
                 IN  f \in SubscriberEndpoint /\ f.dest = dest
BY DEF SubscriberEndpoint

LEMMA SubscriberEndpointCreated ==
    ASSUME NEW c \in Connectors, NEW s \in Subscribers, ConnectorOf(s) = c, NEW pe,
           c.qos \in TCP => pe.address \in Hosts /\ pe.port \in Ports,
           c.qos \in MCAST => pe.dest \in Addresses
    PROVE  LET csi == ConnectionSpecificInformation(c.qos, pe)
               e == InitializeSubscriberTransport(c.qos,
                        CreateConnectionSpecificSubscriberEndpoint(csi, SubscriberApp[s]))
           IN  /\ e \in SubscriberEndpoint
               /\ c.qos \in TCP => /\ e.local = <<c.host, SubscriberApp[s].tcpPort>>
                                   /\ e.remote = <<pe.address, pe.port>>
               /\ c.qos \in UDP => e.local = <<c.host, SubscriberApp[s].udpPort>>
               /\ c.qos \in MCAST => e.local = pe.dest
<1> DEFINE q == c.qos
           app == SubscriberApp[s]
           csi == ConnectionSpecificInformation(q, pe)
           tcp == TCPSubscriberEndpoint(csi, app)
           udp == UDPSubscriberEndpoint(app)
           mcast == UDPMcastSubscriberEndpoint(csi, app)
           created == CreateConnectionSpecificSubscriberEndpoint(csi, app)
           e == InitializeSubscriberTransport(q, created)
<1>1. /\ app.host \in Hosts /\ app.tcpPort \in Ports /\ app.udpPort \in Ports
      /\ q \in QoSGroups /\ app.qos = q /\ c.host = app.host
  BY Parameters DEF ConnectorOf
<1>2. csi.type = ConnectionType[q]
  BY <1>1, GroupIsOneKind DEF ConnectionSpecificInformation, TCPInformation, UDPInformation,
     UDPMcastInformation
<1>3. <<app.host, app.tcpPort>> \in Addresses /\ <<app.host, app.udpPort>> \in Addresses
  BY <1>1 DEF Addresses
<1>4. udp \in SubscriberEndpoint /\ udp.local = <<app.host, app.udpPort>>
  BY <1>3 DEF UDPSubscriberEndpoint, SubscriberEndpoint
<1>5. CASE q \in TCP
  <2>1. q \notin UDP /\ q \notin MCAST  BY <1>5 DEF TCP, UDP, MCAST
  <2>2. csi.address = pe.address /\ csi.port = pe.port
    BY <1>5, <2>1 DEF ConnectionSpecificInformation, TCPInformation
  <2>3. <<pe.address, pe.port>> \in Addresses  BY <1>5 DEF Addresses
  <2> HIDE DEF csi
  <2>4. /\ tcp \in SubscriberEndpoint /\ tcp.local = <<c.host, app.tcpPort>>
        /\ tcp.remote = <<pe.address, pe.port>>
    BY <1>1, <1>3, <2>2, <2>3 DEF TCPSubscriberEndpoint, SubscriberEndpoint
  <2> HIDE DEF tcp
  <2>5. created = tcp \/ created = [tcp EXCEPT !.someip = TRUE]
    BY <1>1, <1>2, <1>5 DEF TCP, SOMEIP, QoSGroups, UDP, MCAST, ConnectionType, tcp,
       CreateConnectionSpecificSubscriberEndpoint, SomeIpManagerSubscriberEndpoint,
       QoSManagerSubscriberEndpoint, SomeIpTCPSubscriberEndpoint
  <2>6. e = created
    BY <1>5, <2>1 DEF InitializeSubscriberTransport, InitializeTCPSocket
  <2> HIDE DEF created, e
  <2>7. e \in SubscriberEndpoint /\ e.local = tcp.local /\ e.remote = tcp.remote
    BY <2>4, <2>5, <2>6, SubscriberEndpointWith
  <2> QED  BY <1>5, <2>1, <2>4, <2>7 DEF csi, e, created
<1>6. CASE q \in UDP
  <2>1. q \notin TCP /\ q \notin MCAST  BY <1>6 DEF TCP, UDP, MCAST
  <2> HIDE DEF csi, udp
  <2>2. created = udp \/ created = [udp EXCEPT !.someip = TRUE]
    BY <1>1, <1>2, <1>6 DEF TCP, SOMEIP, QoSGroups, UDP, MCAST, ConnectionType, udp,
       CreateConnectionSpecificSubscriberEndpoint, SomeIpManagerSubscriberEndpoint,
       QoSManagerSubscriberEndpoint, SomeIpUDPSubscriberEndpoint
  <2>3. e = [created EXCEPT !.isConnected = TRUE]
    BY <1>6, <2>1 DEF InitializeSubscriberTransport, InitializeUDPSocket
  <2> HIDE DEF created, e
  <2>4. created \in SubscriberEndpoint /\ created.local = udp.local
    BY <1>4, <2>2, SubscriberEndpointWith
  <2>5. e \in SubscriberEndpoint /\ e.local = udp.local
    BY <2>3, <2>4, SubscriberEndpointWith
  <2>6. udp.local = <<c.host, app.udpPort>>  BY <1>1, <1>4
  <2> QED  BY <1>6, <2>1, <2>5, <2>6 DEF csi, e, created
<1>7. CASE q \in MCAST
  <2>1. q \notin TCP /\ q \notin UDP  BY <1>7 DEF TCP, UDP, MCAST
  <2>2. csi.dest = pe.dest
    BY <1>7, <2>1 DEF ConnectionSpecificInformation, UDPMcastInformation, UDPInformation
  <2> HIDE DEF csi
  <2>3. mcast \in SubscriberEndpoint /\ mcast.dest = pe.dest
    BY <1>4, <1>7, <2>2, SubscriberEndpointWith DEF UDPMcastSubscriberEndpoint
  <2> HIDE DEF mcast
  <2>4. created = mcast \/ created = [mcast EXCEPT !.someip = TRUE]
    BY <1>1, <1>2, <1>7 DEF TCP, SOMEIP, QoSGroups, UDP, MCAST, ConnectionType, mcast,
       CreateConnectionSpecificSubscriberEndpoint, SomeIpManagerSubscriberEndpoint,
       QoSManagerSubscriberEndpoint, SomeIpUDPMcastSubscriberEndpoint
  <2>5. created \in SubscriberEndpoint /\ created.dest = pe.dest
    BY <2>3, <2>4, SubscriberEndpointWith
  <2>6. e = [[created EXCEPT !.local = created.dest] EXCEPT !.isConnected = TRUE]
    BY <1>7, <2>1 DEF InitializeSubscriberTransport, InitializeUDPMcastSocket,
       InitializeUDPSocket
  <2> HIDE DEF created, e
  <2>7. PICK f : f = [created EXCEPT !.local = created.dest]  OBVIOUS
  <2>8. f \in SubscriberEndpoint /\ f.local = pe.dest
    BY <1>7, <2>5, <2>7, SubscriberEndpointWith
  <2>9. e \in SubscriberEndpoint /\ e.local = pe.dest
    BY <2>6, <2>7, <2>8, SubscriberEndpointWith
  <2> QED  BY <2>1, <2>9 DEF csi, e, created
<1> QED  BY <1>1, <1>5, <1>6, <1>7, GroupIsOneKind

-----------------------------------------------------------------------------
(* The inductive invariant.                                                *)

\* The applications of a connector are of its host, service and QoS group.
Attached ==
    \A c \in Connectors : \A i \in DOMAIN applications[c] : ConnectorOf(applications[c][i]) = c

\* A host has one publisher of a service.
Registered ==
    \A p, r \in publisherConnectors :
        /\ PublisherApp[p].host = PublisherApp[r].host
        /\ PublisherApp[p].service = PublisherApp[r].service
        => p = r

\* An endpoint is that of a registered publisher.
Made ==
    \A k \in Endpoints :
        publisherEndpoint[k] # None =>
          k[1] \in publisherConnectors /\ MadeFor(publisherEndpoint[k], k[1], k[2])

\* A TCP subscriber endpoint connects to a registered publisher it fits.
ConnectsTo(c, p) ==
    /\ p \in publisherConnectors /\ Fits(c, p)
    /\ subscriberEndpoint[c].remote = <<PublisherApp[p].host, PublisherApp[p].tcpPort>>

Listening ==
    \A c \in Connectors :
        c.qos \in TCP /\ subscriberEndpoint[c] # None =>
          /\ applications[c] # <<>>
          /\ subscriberEndpoint[c].local \in Hosts \X Ports
          /\ subscriberEndpoint[c].local[1] = c.host
          /\ \E p \in Publishers : ConnectsTo(c, p)

\* Connector c is the one with address a that publisher endpoint k serves.
Serves(k, a, c) ==
    /\ Fits(c, k[1]) /\ c.qos = k[2]
    /\ applications[c] # <<>>
    /\ c.host = a[1]
    /\ k[2] \in UDP => a = LocalAddress(SubscriberConnector(c))
    /\ k[2] \in TCP => /\ subscriberEndpoint[c] # None
                       /\ subscriberEndpoint[c].isConnected
                       /\ subscriberEndpoint[c].local = a
Served(k, a) == \E c \in Connectors : Serves(k, a, c)

\* The remotes of a publisher's endpoint are served, each of them once.
RemotesServed ==
    \A k \in Endpoints :
        publisherEndpoint[k] # None =>
          /\ IsInjective(publisherEndpoint[k].remotes)
          /\ \A i \in DOMAIN publisherEndpoint[k].remotes :
                Served(k, publisherEndpoint[k].remotes[i])

\* An accepted connection the endpoint does not know yet is served, too, and
\* waits once.
Unknown(k, a) ==
    /\ publisherEndpoint[k] # None /\ k[2] \in TCP
    /\ a \in Hosts \X Ports
    /\ \A i \in DOMAIN publisherEndpoint[k].remotes : publisherEndpoint[k].remotes[i] # a
    /\ Served(k, a)
Waiting(k, items) ==
    \A i \in DOMAIN items :
        items[i].type = "ACCEPT" =>
          /\ Unknown(k, items[i].remote)
          /\ \A j \in DOMAIN items :
                items[j].type = "ACCEPT" /\ items[j].remote = items[i].remote => i = j
Accepting == \A k \in Endpoints : Waiting(k, queue[k])

\* Only an endpoint that exists has something in its queue.
Queued == \A k \in Endpoints : queue[k] # <<>> => publisherEndpoint[k] # None

IInv ==
    /\ TypeOK /\ Attached /\ Registered /\ Made /\ Listening
    /\ RemotesServed /\ Accepting /\ Queued

LEMMA InitInvariant == Init => IInv
<1> SUFFICES ASSUME Init PROVE IInv  OBVIOUS
<1>1. TypeOK
  <2>1. MaxLosses \in Nat  BY DataPlaneAssumption
  <2>2. /\ <<>> \in Seq(Subscribers) /\ <<>> \in Seq(Item) /\ <<>> \in Seq(Message)
        /\ <<>> \in Seq([n : Nat, someip : BOOLEAN])
    OBVIOUS
  <2>3. publisherConnectors \subseteq Publishers  BY DEF Init
  <2>4. applications \in [Connectors -> Seq(Subscribers)]  BY <2>2 DEF Init
  <2>5. publisherEndpoint \in [Endpoints -> PublisherEndpoint \cup {None}]  BY DEF Init
  <2>6. subscriberEndpoint \in [Connectors -> SubscriberEndpoint \cup {None}]  BY DEF Init
  <2>7. published \in [Publishers -> Nat]  BY DEF Init
  <2>8. queue \in [Endpoints -> Seq(Item)]  BY <2>2 DEF Init
  <2>9. net \in [Links -> Seq([n : Nat, someip : BOOLEAN])]  BY <2>2 DEF Init
  <2>10. received \in [Subscribers -> Seq(Message)]  BY <2>2 DEF Init
  <2>11. failed \subseteq Links /\ losses \in 0..MaxLosses /\ aborted \in BOOLEAN
    BY <2>1, 0 \in 0..MaxLosses DEF Init
  <2> QED  BY <2>3, <2>4, <2>5, <2>6, <2>7, <2>8, <2>9, <2>10, <2>11 DEF TypeOK
<1>2. Attached  BY DEF Init, Attached
<1>3. Registered  BY DEF Init, Registered
<1>4. Made  BY DEF Init, Made
<1>5. Listening  BY DEF Init, Listening
<1>6. RemotesServed  BY DEF Init, RemotesServed
<1>7. Accepting  BY DOMAIN <<>> = {} DEF Init, Accepting, Waiting
<1>8. Queued  BY DEF Init, Queued
<1> QED  BY <1>1, <1>2, <1>3, <1>4, <1>5, <1>6, <1>7, <1>8 DEF IInv

\* A connector has the parameters of its first application.
LEMMA ConnectorOfFirst ==
    ASSUME TypeOK, Attached, NEW c \in Connectors, applications[c] # <<>>
    PROVE  LET s == Head(applications[c])
           IN  /\ s \in Subscribers /\ ConnectorOf(s) = c
               /\ SubscriberConnector(c) = SubscriberApp[s]
               /\ SubscriberApp[s].host = c.host /\ SubscriberApp[s].qos = c.qos
               /\ SubscriberApp[s].tcpPort \in Ports /\ SubscriberApp[s].udpPort \in Ports
<1> DEFINE s == Head(applications[c])
<1>1. applications[c] \in Seq(Subscribers)  BY DEF TypeOK
<1>2. 1 \in DOMAIN applications[c] /\ s = applications[c][1] /\ s \in Subscribers
  BY <1>1, TailIs
<1>3. ConnectorOf(s) = c  BY <1>2 DEF Attached
<1>4. SubscriberApp[s].host = c.host /\ SubscriberApp[s].qos = c.qos
  BY <1>3 DEF ConnectorOf
<1> QED  BY <1>2, <1>3, <1>4, Parameters DEF SubscriberConnector

\* What keeps a connector served: it keeps its first application, and its
\* endpoint its address and connection.
Stays(c) ==
    /\ applications[c] # <<>> =>
         applications'[c] # <<>> /\ Head(applications'[c]) = Head(applications[c])
    /\ subscriberEndpoint[c] # None /\ subscriberEndpoint[c].isConnected =>
         /\ subscriberEndpoint'[c] # None /\ subscriberEndpoint'[c].isConnected
         /\ subscriberEndpoint'[c].local = subscriberEndpoint[c].local

LEMMA ServedStays ==
    ASSUME \A c \in Connectors : Stays(c), NEW k, NEW a, Served(k, a)
    PROVE  Served(k, a)'
<1>1. PICK c \in Connectors : Serves(k, a, c)  BY DEF Served
<1>2. Stays(c)  BY <1>1
<1>3. Serves(k, a, c)'
  BY <1>1, <1>2 DEF Serves, Stays, SubscriberConnector
<1> QED  BY <1>3 DEF Served

-----------------------------------------------------------------------------
(* The registries.                                                         *)

LEMMA RegistryStep ==
    ASSUME IInv, Step
    PROVE  /\ publisherConnectors' \subseteq Publishers
           /\ publisherConnectors \subseteq publisherConnectors'
           /\ applications' \in [Connectors -> Seq(Subscribers)]
           /\ Attached' /\ Registered'
           /\ \A c \in Connectors : applications[c] # <<>> =>
                applications'[c] # <<>> /\ Head(applications'[c]) = Head(applications[c])
<1> USE DEF IInv
<1>1. CASE UNCHANGED registryVars
  BY <1>1 DEF registryVars, TypeOK, Attached, Registered
<1>2. ASSUME NEW p \in Publishers, RegisterPublisherService(p)
      PROVE  /\ publisherConnectors' \subseteq Publishers
             /\ publisherConnectors \subseteq publisherConnectors'
             /\ Registered' /\ UNCHANGED applications
  <2>1. CASE publisherConnectors' = publisherConnectors
    BY <1>2, <2>1 DEF TypeOK, Registered, RegisterPublisherService
  <2>2. CASE /\ GetPublisherConnector(PublisherApp[p].host, PublisherApp[p].service) = {}
             /\ publisherConnectors' = publisherConnectors \cup {p}
    <3>1. \A r \in publisherConnectors :
            ~(/\ PublisherApp[r].host = PublisherApp[p].host
              /\ PublisherApp[r].service = PublisherApp[p].service)
      BY <2>2 DEF GetPublisherConnector
    <3> QED  BY <1>2, <2>2, <3>1 DEF TypeOK, Registered, RegisterPublisherService
  <2> QED  BY <1>2, <2>1, <2>2 DEF RegisterPublisherService, CreatePublisherConnector
<1>3. ASSUME NEW s \in Subscribers, RegisterSubscriberService(s)
      PROVE  /\ applications' \in [Connectors -> Seq(Subscribers)]
             /\ Attached' /\ UNCHANGED publisherConnectors
             /\ \A c \in Connectors : applications[c] # <<>> =>
                  applications'[c] # <<>> /\ Head(applications'[c]) = Head(applications[c])
  <2> DEFINE c == ConnectorOf(s)
             longer == Append(applications[c], s)
  <2>1. c \in Connectors  BY DEF Connectors
  <2>2. applications' = [applications EXCEPT ![c] = longer]
    BY <1>3, <2>1 DEF RegisterSubscriberService, AddApplication
  <2>3. applications \in [Connectors -> Seq(Subscribers)]  BY DEF TypeOK
  <2>4. longer \in Seq(Subscribers) /\ longer # <<>>
    BY <2>1, <2>3, AppendIs
  <2>5. \A i \in DOMAIN longer : 
        longer[i] = s \/ (i \in DOMAIN applications[c] /\ longer[i] = applications[c][i])
    BY <2>1, <2>3, AppendIs
  <2>6. applications[c] # <<>> => Head(longer) = Head(applications[c])
    BY <2>1, <2>3, AppendHead
  <2> HIDE DEF longer
  <2>7. \A d \in Connectors : applications'[d] = IF d = c THEN longer ELSE applications[d]
    BY <2>2, <2>3
  <2>8. \A i \in DOMAIN longer : ConnectorOf(longer[i]) = c
    BY <2>1, <2>5 DEF Attached
  <2>9. Attached'  BY <2>7, <2>8 DEF Attached
  <2>10. applications' \in [Connectors -> Seq(Subscribers)]  BY <2>1, <2>2, <2>3, <2>4
  <2> HIDE DEF c
  <2> QED  BY <1>3, <2>4, <2>6, <2>7, <2>9, <2>10 DEF RegisterSubscriberService
<1>4. \/ UNCHANGED registryVars
      \/ \E p \in Publishers : RegisterPublisherService(p)
      \/ \E s \in Subscribers : RegisterSubscriberService(s)
  BY DEF Step, ServeSubscription, Listen, Establish, SendMessage, ProcessScheduledMessage,
     HandleConnectorIn, HandleTransportIn, Arrive, Lose, ConnectionFails, registryVars
<1>5. CASE \E p \in Publishers : RegisterPublisherService(p)
  BY <1>2, <1>5 DEF TypeOK, Attached
<1>6. CASE \E s \in Subscribers : RegisterSubscriberService(s)
  BY <1>3, <1>6 DEF TypeOK, Registered
<1> QED  BY <1>1, <1>4, <1>5, <1>6

-----------------------------------------------------------------------------
(* Queues and remotes.                                                     *)

LEMMA WaitingTail ==
    ASSUME NEW S, NEW k, NEW items \in Seq(S), Waiting(k, items), items # <<>>
    PROVE  /\ Waiting(k, Tail(items))
           /\ Head(items).type = "ACCEPT" =>
                /\ Unknown(k, Head(items).remote)
                /\ \A i \in DOMAIN Tail(items) :
                      Tail(items)[i].type = "ACCEPT" =>
                        Tail(items)[i].remote # Head(items).remote
<1> DEFINE rest == Tail(items)
<1>1. /\ \A i \in DOMAIN rest : i \in Nat /\ i + 1 \in DOMAIN items /\ i + 1 # 1
                                /\ rest[i] = items[i + 1]
      /\ 1 \in DOMAIN items /\ Head(items) = items[1]
  BY TailIs
<1> HIDE DEF rest
<1>2. ASSUME NEW i \in DOMAIN rest, rest[i].type = "ACCEPT"
      PROVE  /\ Unknown(k, rest[i].remote)
             /\ \A j \in DOMAIN rest :
                   rest[j].type = "ACCEPT" /\ rest[j].remote = rest[i].remote => i = j
             /\ Head(items).type = "ACCEPT" => rest[i].remote # Head(items).remote
  <2>1. /\ i \in Nat /\ i + 1 \in DOMAIN items /\ i + 1 # 1 /\ rest[i] = items[i + 1]
    BY <1>1
  <2>2. Unknown(k, rest[i].remote)  BY <1>2, <2>1 DEF Waiting
  <2>3. \A j \in DOMAIN items :
          items[j].type = "ACCEPT" /\ items[j].remote = rest[i].remote => i + 1 = j
    BY <1>2, <2>1 DEF Waiting
  <2>4. ASSUME NEW j \in DOMAIN rest, rest[j].type = "ACCEPT", rest[j].remote = rest[i].remote
        PROVE  i = j
    <3>1. j \in Nat /\ j + 1 \in DOMAIN items /\ rest[j] = items[j + 1]  BY <1>1
    <3>2. i + 1 = j + 1  BY <2>3, <2>4, <3>1
    <3> QED  BY <2>1, <3>1, <3>2
  <2>5. Head(items).type = "ACCEPT" => rest[i].remote # Head(items).remote
    BY <1>1, <2>1, <2>3
  <2> QED  BY <2>2, <2>4, <2>5
<1>3. Waiting(k, rest)  BY <1>2 DEF Waiting
<1>4. Head(items).type = "ACCEPT" => Unknown(k, Head(items).remote)
  BY <1>1 DEF Waiting
<1> QED  BY <1>2, <1>3, <1>4 DEF rest

LEMMA WaitingLonger ==
    ASSUME NEW S, NEW k, NEW items \in Seq(S), NEW item \in S, Waiting(k, items),
           \A a : Unknown(k, a) => Unknown(k, a)',
           item.type = "ACCEPT" =>
             \A i \in DOMAIN items : items[i].type = "ACCEPT" => items[i].remote # item.remote,
           \A a : item.type = "ACCEPT" /\ a = item.remote => Unknown(k, a)'
    PROVE  Waiting(k, Append(items, item))'
<1> DEFINE longer == Append(items, item)
<1>1. \A i \in DOMAIN longer :
        \/ i \in DOMAIN items /\ longer[i] = items[i]
        \/ i = Len(items) + 1 /\ i \notin DOMAIN items /\ longer[i] = item
  BY AppendIs
<1> HIDE DEF longer
<1>2. ASSUME NEW i \in DOMAIN longer, longer[i].type = "ACCEPT"
      PROVE  /\ Unknown(k, longer[i].remote)'
             /\ \A j \in DOMAIN longer :
                   longer[j].type = "ACCEPT" /\ longer[j].remote = longer[i].remote => i = j
  <2>1. CASE i \in DOMAIN items /\ longer[i] = items[i]
    BY <1>1, <1>2, <2>1 DEF Waiting
  <2>2. CASE i = Len(items) + 1 /\ i \notin DOMAIN items /\ longer[i] = item
    BY <1>1, <1>2, <2>2
  <2> QED  BY <1>1, <2>1, <2>2
<1> QED  BY <1>2 DEF Waiting, longer

\* Connections wait as before as long as the endpoint does not change.
LEMMA WaitingStays ==
    ASSUME \A c \in Connectors : Stays(c), NEW k, publisherEndpoint'[k] = publisherEndpoint[k],
           NEW items, Waiting(k, items)
    PROVE  Waiting(k, items)'
<1>1. \A a : Unknown(k, a) => Unknown(k, a)'  BY ServedStays DEF Unknown
<1> QED  BY <1>1 DEF Waiting

LEMMA RemotesStay ==
    ASSUME \A c \in Connectors : Stays(c), RemotesServed, UNCHANGED publisherEndpoint
    PROVE  RemotesServed'
BY ServedStays DEF RemotesServed

LEMMA AcceptingStays ==
    ASSUME \A c \in Connectors : Stays(c), Accepting, UNCHANGED <<publisherEndpoint, queue>>
    PROVE  Accepting'
<1>1. ASSUME NEW k \in Endpoints  PROVE  Waiting(k, queue[k])'
  <2>1. Waiting(k, queue[k])  BY DEF Accepting
  <2>2. publisherEndpoint'[k] = publisherEndpoint[k] /\ queue'[k] = queue[k]  OBVIOUS
  <2> QED  BY <2>1, <2>2, WaitingStays DEF Waiting
<1> QED  BY <1>1 DEF Accepting

-----------------------------------------------------------------------------
(* The steps of the managers.                                              *)

LEMMA RegisterStep ==
    ASSUME IInv, Step,
           \/ \E p \in Publishers : RegisterPublisherService(p)
           \/ \E s \in Subscribers : RegisterSubscriberService(s)
    PROVE  Made' /\ Listening' /\ RemotesServed' /\ Accepting' /\ Queued'
<1>1. UNCHANGED <<publisherEndpoint, subscriberEndpoint, queue>>
  BY DEF RegisterPublisherService, RegisterSubscriberService, endpointVars, messageVars
<1>2. /\ publisherConnectors \subseteq publisherConnectors'
      /\ \A c \in Connectors : applications[c] # <<>> =>
           applications'[c] # <<>> /\ Head(applications'[c]) = Head(applications[c])
  BY RegistryStep
<1>3. \A c \in Connectors : Stays(c)  BY <1>1, <1>2 DEF Stays
<1>4. RemotesServed' /\ Accepting'  BY <1>1, <1>3, RemotesStay, AcceptingStays DEF IInv
<1>5. Made'  BY <1>1, <1>2 DEF IInv, Made
<1>6. \A c, p : ConnectsTo(c, p) => ConnectsTo(c, p)'  BY <1>1, <1>2 DEF ConnectsTo
<1>7. Listening'  BY <1>1, <1>2, <1>6 DEF IInv, Listening
<1>8. Queued'  BY <1>1 DEF IInv, Queued
<1> QED  BY <1>4, <1>5, <1>7, <1>8

LEMMA CreatedOrFound ==
    ASSUME TypeOK, Made, NEW p \in Publishers, NEW q \in QoSGroups, <<p, q>> \in Endpoints
    PROVE  LET e == CreateOrFindPublisherEndpoint(p, q)
           IN  /\ MadeFor(e, p, q)
               /\ publisherEndpoint[<<p, q>>] # None => e = publisherEndpoint[<<p, q>>]
               /\ publisherEndpoint[<<p, q>>] = None => e.remotes = <<>>
<1> DEFINE e == CreateOrFindPublisherEndpoint(p, q)
           created == InitializePublisherTransport(
                         q, CreateQoSSpecificPublisherEndpoint(q, PublisherApp[p]))
           k == <<p, q>>
<1>1. MadeFor(created, p, q) /\ created.remotes = <<>>  BY PublisherEndpointCreated
<1> HIDE DEF created
<1>2. e = IF publisherEndpoint[k] # None THEN publisherEndpoint[k] ELSE created
  BY DEF CreateOrFindPublisherEndpoint, FindPublisherEndpoint, created
<1>3. publisherEndpoint[k] # None => MadeFor(publisherEndpoint[k], p, q)
  BY DEF Made
<1> HIDE DEF e
<1> QED  BY <1>1, <1>2, <1>3 DEF e

LEMMA ServeSubscriptionStep ==
    ASSUME IInv, NEW p \in Publishers, NEW c \in Connectors, ServeSubscription(p, c)
    PROVE  /\ publisherEndpoint' \in [Endpoints -> PublisherEndpoint \cup {None}]
           /\ Made' /\ Listening' /\ RemotesServed' /\ Accepting' /\ Queued'
<1> USE DEF IInv
<1> DEFINE q == c.qos
           k == <<p, q>>
           e == CreateOrFindPublisherEndpoint(p, q)
           remote == <<c.host, SubscribedPort(c)>>
           new == IF TakesRemotes(q) THEN AddRemote(e, remote) ELSE e
<1>1. /\ p \in publisherConnectors /\ applications[c] # <<>> /\ Fits(c, p)
      /\ publisherEndpoint' = [publisherEndpoint EXCEPT ![k] = new]
      /\ UNCHANGED <<publisherConnectors, applications, subscriberEndpoint, queue>>
  BY DEF ServeSubscription, registryVars, messageVars
<1>2. q \in QoSGroups /\ c.host \in Hosts  BY ConnectorIs
<1>3. k \in Endpoints /\ k[1] = p /\ k[2] = q  BY <1>1, EndpointIs
<1>4. publisherEndpoint \in [Endpoints -> PublisherEndpoint \cup {None}]  BY DEF TypeOK
<1>5. /\ MadeFor(e, p, q)
      /\ publisherEndpoint[k] # None => e = publisherEndpoint[k]
      /\ publisherEndpoint[k] = None => e.remotes = <<>>
  BY <1>2, <1>3, CreatedOrFound
<1> HIDE DEF e
<1>6. e \in PublisherEndpoint /\ e.remotes \in Remotes
  BY <1>5 DEF MadeFor, PublisherEndpoint, Remotes
<1>7. remote \in (Hosts \X Ports) \cup (Hosts \X {None})
  BY <1>1, <1>2, ConnectorOfFirst DEF SubscribedPort
<1>8. Append(e.remotes, remote) \in Remotes  BY <1>6, <1>7 DEF Remotes
<1>9. /\ MadeFor(new, p, q)
      /\ \/ new.remotes = e.remotes
         \/ /\ q \notin TCP
            /\ new.remotes = Append(e.remotes, remote)
            /\ \A i \in DOMAIN e.remotes : e.remotes[i] # remote
  <2>1. CASE new = e  BY <1>5, <2>1
  <2>2. CASE /\ TakesRemotes(q) /\ remote \notin Range(e.remotes)
             /\ new = [e EXCEPT !.remotes = Append(e.remotes, remote)]
    <3>1. q \notin TCP  BY <2>2 DEF TakesRemotes, TCP, UDP, MCAST
    <3>2. \A i \in DOMAIN e.remotes : e.remotes[i] # remote  BY <2>2 DEF Range
    <3> HIDE DEF new, remote
    <3> QED  BY <1>5, <1>6, <1>8, <2>2, <3>1, <3>2, EndpointWithRemotes DEF MadeFor
  <2> QED  BY <2>1, <2>2 DEF AddRemote
<1>10. new \in PublisherEndpoint /\ new # None
  BY <1>9, EndpointAssumption DEF MadeFor
<1>11. Serves(k, remote, c) \/ q \in TCP
  <2>1. q \in UDP => remote = LocalAddress(SubscriberConnector(c))
    <3> SUFFICES ASSUME q \in UDP PROVE remote = LocalAddress(SubscriberConnector(c))
      OBVIOUS
    <3>1. q \notin TCP /\ q \notin MCAST  BY DEF TCP, UDP, MCAST
    <3>2. SubscriberConnector(c).host = c.host /\ SubscriberConnector(c).qos = q
      BY <1>1, ConnectorOfFirst
    <3> QED  BY <3>1, <3>2 DEF LocalAddress, SubscribedPort
  <2> HIDE DEF remote
  <2>2. remote[1] = c.host  BY DEF remote
  <2> QED  BY <1>1, <1>3, <2>1, <2>2 DEF Serves
<1> HIDE DEF new, k, remote, q
<1>12. publisherEndpoint' \in [Endpoints -> PublisherEndpoint \cup {None}]
  BY <1>1, <1>3, <1>4, <1>10
<1>13. /\ publisherEndpoint'[k] = new
       /\ \A m \in Endpoints : m # k => publisherEndpoint'[m] = publisherEndpoint[m]
  BY <1>1, <1>3, <1>4
<1>14. Made'  BY <1>1, <1>3, <1>9, <1>13 DEF Made
<1>15. Listening'  BY <1>1 DEF Listening, ConnectsTo
<1>16. \A d \in Connectors : Stays(d)  BY <1>1 DEF Stays
<1>17. \A m, a : Served(m, a) => Served(m, a)'  BY <1>16, ServedStays
<1>18. RemotesServed'
  <2>1. ASSUME NEW m \in Endpoints, m # k, publisherEndpoint'[m] # None
        PROVE  /\ IsInjective(publisherEndpoint'[m].remotes)
               /\ \A i, a : /\ i \in DOMAIN publisherEndpoint'[m].remotes
                            /\ a = publisherEndpoint'[m].remotes[i]
                            => Served(m, a)'
    <3>1. /\ publisherEndpoint'[m] = publisherEndpoint[m]
          /\ IsInjective(publisherEndpoint[m].remotes)
          /\ \A i \in DOMAIN publisherEndpoint[m].remotes :
                Served(m, publisherEndpoint[m].remotes[i])
      BY <1>13, <2>1 DEF RemotesServed
    <3> QED  BY <1>17, <3>1
  <2>2. IsInjective(e.remotes) /\ \A i \in DOMAIN e.remotes : Served(k, e.remotes[i])
    <3>1. CASE publisherEndpoint[k] = None
      BY <1>5, <3>1, DOMAIN <<>> = {} DEF IsInjective
    <3>2. CASE publisherEndpoint[k] # None
      BY <1>3, <1>5, <3>2 DEF RemotesServed
    <3> QED  BY <3>1, <3>2
  <2>3. /\ IsInjective(new.remotes)
        /\ \A i \in DOMAIN new.remotes : Served(k, new.remotes[i])
    <3>1. CASE new.remotes = e.remotes  BY <2>2, <3>1
    <3>2. CASE /\ q \notin TCP /\ new.remotes = Append(e.remotes, remote)
               /\ \A i \in DOMAIN e.remotes : e.remotes[i] # remote
      <4>1. IsInjective(new.remotes)  BY <1>6, <1>7, <2>2, <3>2, AppendOther DEF Remotes
      <4>2. Served(k, remote)  BY <1>11, <3>2 DEF Served
      <4>3. \A i \in DOMAIN new.remotes :
              new.remotes[i] = remote \/ (i \in DOMAIN e.remotes /\ new.remotes[i] = e.remotes[i])
        BY <1>6, <1>7, <3>2, AppendIs DEF Remotes
      <4> QED  BY <2>2, <4>1, <4>2, <4>3
    <3> QED  BY <1>9, <3>1, <3>2
  <2> QED  BY <1>13, <1>17, <2>1, <2>3 DEF RemotesServed
<1>19. Accepting'
  <2>1. ASSUME NEW m \in Endpoints, NEW a, Unknown(m, a)
        PROVE  Unknown(m, a)'
    <3>1. CASE m # k  BY <1>13, <1>17, <2>1, <3>1 DEF Unknown
    <3>2. CASE m = k
      <4>1. q \in TCP /\ publisherEndpoint[k] # None
        BY <1>3, <2>1, <3>2 DEF Unknown, k
      <4>2. new.remotes = publisherEndpoint[k].remotes  BY <1>5, <1>9, <4>1
      <4> QED  BY <1>10, <1>13, <1>17, <2>1, <3>2, <4>2 DEF Unknown
    <3> QED  BY <3>1, <3>2
  <2> QED  BY <1>1, <2>1 DEF Accepting, Waiting
<1>20. Queued'  BY <1>1, <1>10, <1>13 DEF Queued
<1> QED  BY <1>12, <1>14, <1>15, <1>18, <1>19, <1>20

\* What the subscriber's side of connector c creates.
LEMMA ListenIs ==
    ASSUME IInv, NEW p \in Publishers, NEW c \in Connectors, Listen(c, p)
    PROVE  LET pe == publisherEndpoint[<<p, c.qos>>]
           IN  \E new \in SubscriberEndpoint :
                  /\ applications[c] # <<>> /\ Fits(c, p)
                  /\ c.qos \in TCP \cup MCAST => /\ p \in publisherConnectors
                                                /\ MadeFor(pe, p, c.qos)
                  /\ subscriberEndpoint[c] = None
                  /\ subscriberEndpoint' = [subscriberEndpoint EXCEPT ![c] = new]
                  /\ c.qos \notin MCAST => new.local = LocalAddress(SubscriberConnector(c))
                  /\ c.qos \in TCP => new.remote = <<pe.address, pe.port>>
                  /\ c.qos \in MCAST => new.local = pe.dest
<1> DEFINE q == c.qos
           k == <<p, q>>
           pe == publisherEndpoint[k]
           csi == ConnectionSpecificInformation(q, pe)
           new == InitializeSubscriberTransport(
                     q, CreateConnectionSpecificSubscriberEndpoint(csi, SubscriberConnector(c)))
<1>1. /\ applications[c] # <<>> /\ Fits(c, p)
      /\ pe = None => q = "IP_UDP"
  BY DEF Listen
<1>2. k \in Endpoints /\ k[1] = p /\ k[2] = q  BY <1>1, EndpointIs
<1>3. q \in TCP \cup MCAST => pe # None  BY <1>1 DEF TCP, MCAST
<1>4. pe # None => p \in publisherConnectors /\ MadeFor(pe, p, q)
  BY <1>2 DEF IInv, Made
<1>5. /\ subscriberEndpoint[c] = None
      /\ subscriberEndpoint' = [subscriberEndpoint EXCEPT ![c] = new]
  <2>1. PICK d \in FindSubscriberConnector(
                      c.host, c.service, QoSGroupForConnectionType(c, csi.type)) :
          /\ subscriberEndpoint[d] = None
          /\ subscriberEndpoint' = [subscriberEndpoint EXCEPT ![d] =
                InitializeSubscriberTransport(d.qos,
                    CreateConnectionSpecificSubscriberEndpoint(csi, SubscriberConnector(d)))]
    BY DEF Listen, FindSubscriberEndpoint
  <2>2. QoSGroupForConnectionType(c, csi.type) = q  BY GroupOfConnection
  <2>3. d = c
    BY <2>1, <2>2, ConnectorIs DEF FindSubscriberConnector, GetSubscriberConnectors
  <2> QED  BY <2>1, <2>3
<1>6. PICK s \in Subscribers : ConnectorOf(s) = c /\ SubscriberConnector(c) = SubscriberApp[s]
  BY <1>1, ConnectorOfFirst DEF IInv
<1>7. /\ new \in SubscriberEndpoint
      /\ q \in TCP => /\ new.local = <<c.host, SubscriberApp[s].tcpPort>>
                      /\ new.remote = <<pe.address, pe.port>>
      /\ q \in UDP => new.local = <<c.host, SubscriberApp[s].udpPort>>
      /\ q \in MCAST => new.local = pe.dest
  <2>1. q \in TCP => pe.address \in Hosts /\ pe.port \in Ports
    BY <1>3, <1>4, Parameters DEF MadeFor
  <2>2. q \in MCAST => pe.dest \in Addresses
    BY <1>3, <1>4, GroupIsAddress DEF MadeFor
  <2>3. LET made == InitializeSubscriberTransport(
                        q, CreateConnectionSpecificSubscriberEndpoint(csi, SubscriberApp[s]))
        IN  /\ made \in SubscriberEndpoint
            /\ q \in TCP => /\ made.local = <<c.host, SubscriberApp[s].tcpPort>>
                            /\ made.remote = <<pe.address, pe.port>>
            /\ q \in UDP => made.local = <<c.host, SubscriberApp[s].udpPort>>
            /\ q \in MCAST => made.local = pe.dest
    BY <1>6, <2>1, <2>2, SubscriberEndpointCreated
  <2> QED  BY <1>6, <2>3
<1>8. q \notin MCAST => new.local = LocalAddress(SubscriberConnector(c))
  <2>1. SubscriberApp[s].qos = q /\ SubscriberApp[s].host = c.host  BY <1>6 DEF ConnectorOf
  <2>2. q \in QoSGroups  BY ConnectorIs
  <2>3. \/ q \in TCP
        \/ q \in UDP /\ q \notin TCP
        \/ q \in MCAST
    BY <2>2, GroupIsOneKind
  <2> QED  BY <1>6, <1>7, <2>1, <2>3 DEF LocalAddress
<1> HIDE DEF new
<1> QED  BY <1>1, <1>3, <1>4, <1>5, <1>7, <1>8

LEMMA ListenStep ==
    ASSUME IInv, NEW p \in Publishers, NEW c \in Connectors, Listen(c, p)
    PROVE  /\ subscriberEndpoint' \in [Connectors -> SubscriberEndpoint \cup {None}]
           /\ Made' /\ Listening' /\ RemotesServed' /\ Accepting' /\ Queued'
<1> USE DEF IInv
<1> DEFINE q == c.qos
           k == <<p, q>>
           pe == publisherEndpoint[k]
<1>1. UNCHANGED <<publisherConnectors, applications, publisherEndpoint, queue>>
  BY DEF Listen, registryVars, messageVars
<1>2. PICK new \in SubscriberEndpoint :
        /\ applications[c] # <<>> /\ Fits(c, p)
        /\ q \in TCP \cup MCAST => p \in publisherConnectors /\ MadeFor(pe, p, q)
        /\ subscriberEndpoint[c] = None
        /\ subscriberEndpoint' = [subscriberEndpoint EXCEPT ![c] = new]
        /\ q \notin MCAST => new.local = LocalAddress(SubscriberConnector(c))
        /\ q \in TCP => new.remote = <<pe.address, pe.port>>
  BY ListenIs
<1> HIDE DEF k
<1>3. subscriberEndpoint \in [Connectors -> SubscriberEndpoint \cup {None}]  BY DEF TypeOK
<1>4. subscriberEndpoint' \in [Connectors -> SubscriberEndpoint \cup {None}]
  BY <1>2, <1>3
<1>5. /\ subscriberEndpoint'[c] = new
       /\ \A d \in Connectors : d # c => subscriberEndpoint'[d] = subscriberEndpoint[d]
  BY <1>2, <1>3
<1>6. \A d \in Connectors : Stays(d)  BY <1>1, <1>2, <1>5 DEF Stays
<1>7. RemotesServed' /\ Accepting'  BY <1>1, <1>6, RemotesStay, AcceptingStays
<1>8. Made'  BY <1>1 DEF Made
<1>9. Listening'
  <2>1. ASSUME NEW d \in Connectors, d # c, d.qos \in TCP, subscriberEndpoint'[d] # None
        PROVE  /\ applications'[d] # <<>>
               /\ subscriberEndpoint'[d].local \in Hosts \X Ports
               /\ subscriberEndpoint'[d].local[1] = d.host
               /\ \E r \in Publishers : ConnectsTo(d, r)'
    BY <1>1, <1>5, <2>1 DEF Listening, ConnectsTo
  <2>2. ASSUME q \in TCP
        PROVE  /\ applications'[c] # <<>>
               /\ subscriberEndpoint'[c].local \in Hosts \X Ports
               /\ subscriberEndpoint'[c].local[1] = c.host
               /\ \E r \in Publishers : ConnectsTo(c, r)'
    <3>1. p \in publisherConnectors /\ MadeFor(pe, p, q)  BY <1>2, <2>2
    <3>2. new.remote = <<PublisherApp[p].host, PublisherApp[p].tcpPort>>
      BY <1>2, <2>2, <3>1 DEF MadeFor
    <3>3. ConnectsTo(c, p)'  BY <1>1, <1>2, <1>5, <3>1, <3>2 DEF ConnectsTo
    <3>4. new.local \in Hosts \X Ports /\ new.local[1] = c.host
      <4>1. /\ SubscriberConnector(c).host = c.host /\ SubscriberConnector(c).qos = q
            /\ SubscriberConnector(c).tcpPort \in Ports
        BY <1>2, ConnectorOfFirst
      <4>2. q \notin MCAST  BY <2>2 DEF TCP, MCAST
      <4>3. new.local = <<c.host, SubscriberConnector(c).tcpPort>>
        BY <1>2, <2>2, <4>1, <4>2 DEF LocalAddress
      <4> QED  BY <4>1, <4>3, ConnectorIs
    <3> QED  BY <1>1, <1>2, <1>5, <3>3, <3>4
  <2> QED  BY <2>1, <2>2 DEF Listening
<1>10. Queued'  BY <1>1 DEF Queued
<1> QED  BY <1>4, <1>7, <1>8, <1>9, <1>10

\* A TCP subscriber endpoint finds the publisher it was created for: no other
\* one's endpoint listens at its address.
LEMMA ConnectsToItsPublisher ==
    ASSUME IInv, NEW p \in Publishers, NEW c \in Connectors, c.qos \in TCP,
           <<p, c.qos>> \in Endpoints, publisherEndpoint[<<p, c.qos>>] # None,
           subscriberEndpoint[c] # None,
           subscriberEndpoint[c].remote
             = <<publisherEndpoint[<<p, c.qos>>].address, publisherEndpoint[<<p, c.qos>>].port>>
    PROVE  Fits(c, p)
<1> DEFINE k == <<p, c.qos>>
<1>1. p \in publisherConnectors /\ MadeFor(publisherEndpoint[k], p, c.qos)
  BY DEF IInv, Made
<1>2. PICK r \in Publishers : ConnectsTo(c, r)  BY DEF IInv, Listening
<1>3. /\ PublisherApp[p].host = PublisherApp[r].host
      /\ PublisherApp[p].tcpPort = PublisherApp[r].tcpPort
  BY <1>1, <1>2 DEF ConnectsTo, MadeFor
<1>4. <<r, c.qos>> \in Endpoints  BY <1>2, EndpointIs DEF ConnectsTo
<1>5. \E j, m \in Endpoints : j[1] = p /\ m[1] = r /\ {j[2], m[2]} \subseteq TCP
  BY <1>4
<1>6. PublisherApp[p].service = PublisherApp[r].service
  BY <1>3, <1>5, EndpointAssumption
<1>7. p = r  BY <1>1, <1>2, <1>3, <1>6 DEF IInv, Registered, ConnectsTo
<1> QED  BY <1>2, <1>7 DEF ConnectsTo

LEMMA EstablishStep ==
    ASSUME IInv, NEW p \in Publishers, NEW c \in Connectors, Establish(c, p)
    PROVE  /\ subscriberEndpoint' \in [Connectors -> SubscriberEndpoint \cup {None}]
           /\ queue' \in [Endpoints -> Seq(Item)]
           /\ Made' /\ Listening' /\ RemotesServed' /\ Accepting' /\ Queued'
<1> USE DEF IInv
<1> DEFINE q == c.qos
           k == <<p, q>>
           old == subscriberEndpoint[c]
           new == [old EXCEPT !.isConnected = TRUE]
           item == [type |-> "ACCEPT", remote |-> old.local]
<1>1. /\ k \in Endpoints /\ q \in TCP
      /\ old # None /\ ~old.isConnected
      /\ publisherEndpoint[k] # None
      /\ old.remote = <<publisherEndpoint[k].address, publisherEndpoint[k].port>>
      /\ subscriberEndpoint' = [subscriberEndpoint EXCEPT ![c] = new]
      /\ queue' = [queue EXCEPT ![k] = Append(queue[k], item)]
      /\ UNCHANGED <<publisherConnectors, applications, publisherEndpoint>>
  BY DEF Establish, registryVars
<1>2. Fits(c, p)  BY <1>1, ConnectsToItsPublisher
<1>3. /\ applications[c] # <<>> /\ old.local \in Hosts \X Ports /\ old.local[1] = c.host
  BY <1>1 DEF Listening
<1>4. /\ subscriberEndpoint \in [Connectors -> SubscriberEndpoint \cup {None}]
      /\ queue \in [Endpoints -> Seq(Item)]
  BY DEF TypeOK
<1>5. /\ new \in SubscriberEndpoint /\ new # None /\ new.isConnected
      /\ new.local = old.local /\ new.remote = old.remote
  <2>1. old \in SubscriberEndpoint  BY <1>1, <1>4
  <2> HIDE DEF old
  <2> QED  BY <2>1, SubscriberEndpointWith, EndpointAssumption
<1>6. item \in Item /\ item.type = "ACCEPT" /\ item.remote = old.local
  BY <1>3 DEF Item, Addresses
<1> HIDE DEF new, item
<1>7. /\ subscriberEndpoint'[c] = new
      /\ \A d \in Connectors : d # c => subscriberEndpoint'[d] = subscriberEndpoint[d]
      /\ subscriberEndpoint' \in [Connectors -> SubscriberEndpoint \cup {None}]
  BY <1>1, <1>4, <1>5
<1>8. \A d \in Connectors : Stays(d)  BY <1>1, <1>7 DEF Stays
<1>9. Made'  BY <1>1 DEF Made
<1>10. RemotesServed'  BY <1>1, <1>8, RemotesStay
<1>11. Listening'
  <2>1. \A d, r : d \in Connectors /\ ConnectsTo(d, r) => ConnectsTo(d, r)'
    BY <1>1, <1>5, <1>7 DEF ConnectsTo
  <2>2. \A d \in Connectors :
          /\ subscriberEndpoint'[d] # None => subscriberEndpoint[d] # None
          /\ subscriberEndpoint'[d].local = subscriberEndpoint[d].local
    BY <1>1, <1>5, <1>7
  <2> QED  BY <1>1, <2>1, <2>2 DEF Listening
<1>12. ~Served(k, old.local)
  <2> SUFFICES ASSUME NEW d \in Connectors, Serves(k, old.local, d)  PROVE  FALSE
    BY DEF Served
  <2>1. /\ Fits(d, p) /\ d.qos = q /\ d.host = c.host /\ subscriberEndpoint[d].isConnected
    BY <1>1, <1>3 DEF Serves
  <2>2. d.service = c.service  BY <1>2, <2>1 DEF Fits
  <2>3. d = c  BY <2>1, <2>2, ConnectorIs
  <2> QED  BY <1>1, <2>1, <2>3
<1>13. \A m, a : Unknown(m, a) => Unknown(m, a)'
  BY <1>1, <1>8, ServedStays DEF Unknown
<1>14. ASSUME NEW a, a = old.local  PROVE  Unknown(k, a)'
  <2>1. Serves(k, a, c)'
    <3>1. q \notin UDP  BY <1>1 DEF TCP, UDP
    <3> QED  BY <1>1, <1>2, <1>3, <1>5, <1>7, <1>14, <3>1 DEF Serves
  <2>2. Served(k, a)'  BY <2>1 DEF Served
  <2>3. \A i \in DOMAIN publisherEndpoint[k].remotes : publisherEndpoint[k].remotes[i] # a
    BY <1>1, <1>12, <1>14 DEF RemotesServed
  <2> QED  BY <1>1, <1>3, <1>14, <2>2, <2>3 DEF Unknown
<1>15. ASSUME NEW m \in Endpoints  PROVE  Waiting(m, queue[m])'
  <2>1. Waiting(m, queue[m])  BY DEF Accepting
  <2>2. CASE m = k
    <3>1. \A i \in DOMAIN queue[k] : queue[k][i].type = "ACCEPT" => queue[k][i].remote # old.local
      BY <1>12, <2>1, <2>2 DEF Waiting, Unknown
    <3>2. queue[k] \in Seq(Item)  BY <1>1, <1>4
    <3> HIDE DEF k, old
    <3>3. PICK items, late : items = queue[k] /\ late = item  OBVIOUS
    <3>4. \A a : late.type = "ACCEPT" /\ a = late.remote => Unknown(k, a)'
      BY <1>6, <1>14, <3>3
    <3>5. items \in Seq(Item) /\ late \in Item /\ Waiting(k, items)
      BY <1>6, <2>1, <2>2, <3>2, <3>3
    <3>6. \A i \in DOMAIN items : items[i].type = "ACCEPT" => items[i].remote # late.remote
      BY <1>6, <3>1, <3>3
    <3>7. Waiting(k, Append(items, late))'
      BY <1>13, <3>4, <3>5, <3>6, WaitingLonger
    <3>8. queue'[m] = Append(items, late)  BY <1>1, <1>4, <2>2, <3>3
    <3> QED  BY <2>2, <3>7, <3>8 DEF Waiting
  <2>3. CASE m # k
    <3>1. queue'[m] = queue[m]  BY <1>1, <1>4, <2>3
    <3> QED  BY <1>13, <2>1, <3>1 DEF Waiting
  <2> QED  BY <2>2, <2>3
<1>16. queue' \in [Endpoints -> Seq(Item)]
  <2>1. Append(queue[k], item) \in Seq(Item)  BY <1>1, <1>4, <1>6
  <2> QED  BY <1>1, <1>4, <2>1
<1>17. Queued'  BY <1>1, <1>4 DEF Queued
<1> QED  BY <1>7, <1>9, <1>10, <1>11, <1>15, <1>16, <1>17 DEF Accepting

-----------------------------------------------------------------------------
(* The steps of the endpoints.                                             *)

Packets == [n : Nat, someip : BOOLEAN]

LEMMA SendMessageStep ==
    ASSUME IInv, NEW p \in Publishers, SendMessage(p)
    PROVE  /\ published' \in [Publishers -> Nat]
           /\ queue' \in [Endpoints -> Seq(Item)]
           /\ Made' /\ Listening' /\ RemotesServed' /\ Accepting' /\ Queued'
<1> USE DEF IInv
<1> DEFINE item == [type |-> "PUBLISH", n |-> published[p] + 1]
<1>1. /\ published' = [published EXCEPT ![p] = @ + 1]
      /\ queue' = [k \in Endpoints |->
            IF k[1] # p \/ publisherEndpoint[k] = None THEN queue[k]
            ELSE Append(queue[k], item)]
      /\ UNCHANGED <<publisherConnectors, applications, publisherEndpoint, subscriberEndpoint>>
  BY DEF SendMessage, registryVars, endpointVars
<1>2. published \in [Publishers -> Nat] /\ queue \in [Endpoints -> Seq(Item)]
  BY DEF TypeOK
<1>3. item \in Item /\ item.type # "ACCEPT"  BY <1>2 DEF Item
<1> HIDE DEF item
<1>4. \A c \in Connectors : Stays(c)  BY <1>1 DEF Stays
<1>5. Made' /\ Listening'  BY <1>1 DEF Made, Listening, ConnectsTo
<1>6. RemotesServed'  BY <1>1, <1>4, RemotesStay
<1>7. \A m, a : Unknown(m, a) => Unknown(m, a)'
  BY <1>1, <1>4, ServedStays DEF Unknown
<1>8. ASSUME NEW k \in Endpoints  PROVE  Waiting(k, queue[k])'
  <2>1. Waiting(k, queue[k]) /\ queue[k] \in Seq(Item)  BY <1>2 DEF Accepting
  <2>2. PICK items, late : items = queue[k] /\ late = item  OBVIOUS
  <2>3. items \in Seq(Item) /\ late \in Item /\ late.type # "ACCEPT" /\ Waiting(k, items)
    BY <1>3, <2>1, <2>2
  <2>4. Waiting(k, Append(items, late))'  BY <1>7, <2>3, WaitingLonger
  <2>5. queue'[k] = items \/ queue'[k] = Append(items, late)  BY <1>1, <2>2
  <2> QED  BY <1>7, <2>3, <2>4, <2>5 DEF Waiting
<1>9. queue' \in [Endpoints -> Seq(Item)]
  <2>1. \A k \in Endpoints : Append(queue[k], item) \in Seq(Item)
    BY <1>2, <1>3, AppendIs
  <2> QED  BY <1>1, <1>2, <2>1
<1>10. published' \in [Publishers -> Nat]  BY <1>1, <1>2
<1>11. Queued'  BY <1>1, <1>2 DEF Queued
<1> QED  BY <1>5, <1>6, <1>8, <1>9, <1>10, <1>11 DEF Accepting

\* What an endpoint puts on a link is packets.
LEMMA CopiesArePackets ==
    ASSUME NEW e \in PublisherEndpoint, NEW p, NEW q, NEW l, NEW n \in Nat
    PROVE  Copies(e, p, q, l, n) \in Seq(Packets)
<1> DEFINE targets == IF l.from = p /\ l.qos = q THEN Targets(e) ELSE <<>>
           here == {k \in DOMAIN targets : targets[k] = l.to}
<1>1. \E m \in Nat : DOMAIN targets = 1..m
  <2>1. e.remotes \in Remotes  BY DEF PublisherEndpoint, Remotes
  <2>2. DOMAIN e.remotes = 1..Len(e.remotes) /\ Len(e.remotes) \in Nat
    BY <2>1 DEF Remotes
  <2>3. DOMAIN <<>> = 1..0 /\ DOMAIN <<e.dest>> = 1..1  OBVIOUS
  <2>4. targets = <<>> \/ targets = e.remotes \/ targets = <<e.dest>>  BY DEF Targets
  <2> QED  BY <2>2, <2>3, <2>4
<1>2. IsFiniteSet(DOMAIN targets)  BY <1>1, FS_Interval
<1>3. IsFiniteSet(here)  BY <1>2, FS_Subset
<1>4. Cardinality(here) \in Nat  BY <1>3, FS_CardinalityType
<1>5. Packet(e, n) \in Packets
  BY DEF Packet, Packets, CreateSomeIpPacket
<1>6. Copies(e, p, q, l, n) = [i \in 1..Cardinality(here) |-> Packet(e, n)]
  BY DEF Copies
<1> HIDE DEF here
<1> QED  BY <1>4, <1>5, <1>6

LEMMA HandleConnectorInStep ==
    ASSUME IInv, NEW k \in Endpoints, HandleConnectorIn(k[1], k[2])
    PROVE  /\ queue' \in [Endpoints -> Seq(Item)]
           /\ net' \in [Links -> Seq(Packets)]
           /\ aborted' \in BOOLEAN
           /\ Made' /\ Listening' /\ RemotesServed' /\ Accepting' /\ Queued'
<1> USE DEF IInv
<1> DEFINE e == publisherEndpoint[k]
           n == Head(queue[k]).n
<1>1. k = <<k[1], k[2]>>  BY EndpointIs
<1>2. /\ queue[k] # <<>> /\ Head(queue[k]).type = "PUBLISH"
      /\ queue' = [queue EXCEPT ![k] = Tail(queue[k])]
      /\ \/ aborted' = TRUE /\ UNCHANGED net
         \/ /\ e.isConnected
            /\ net' = [l \in Links |-> net[l] \o Copies(e, k[1], k[2], l, n)]
            /\ UNCHANGED aborted
         \/ UNCHANGED <<net, aborted>>
      /\ UNCHANGED <<publisherConnectors, applications, publisherEndpoint, subscriberEndpoint>>
  BY <1>1 DEF HandleConnectorIn, registryVars, endpointVars
<1>3. /\ queue \in [Endpoints -> Seq(Item)] /\ net \in [Links -> Seq(Packets)]
      /\ aborted \in BOOLEAN /\ e \in PublisherEndpoint \cup {None}
  BY DEF TypeOK, Packets
<1>4. Head(queue[k]) \in Item /\ Tail(queue[k]) \in Seq(Item)  BY <1>2, <1>3, TailIs
<1>5. n \in Nat  BY <1>2, <1>4 DEF Item
<1>6. queue' \in [Endpoints -> Seq(Item)]  BY <1>2, <1>3, <1>4
<1>7. \A c \in Connectors : Stays(c)  BY <1>2 DEF Stays
<1>8. Made' /\ Listening'  BY <1>2 DEF Made, Listening, ConnectsTo
<1>9. RemotesServed'  BY <1>2, <1>7, RemotesStay
<1>10. \A m, a : Unknown(m, a) => Unknown(m, a)'
  BY <1>2, <1>7, ServedStays DEF Unknown
<1>11. ASSUME NEW m \in Endpoints  PROVE  Waiting(m, queue[m])'
  <2>1. Waiting(m, queue[m])  BY DEF Accepting
  <2>2. Waiting(m, Tail(queue[k])) \/ m # k  BY <1>2, <1>3, <2>1, WaitingTail
  <2>3. queue'[m] = IF m = k THEN Tail(queue[k]) ELSE queue[m]  BY <1>2, <1>3
  <2> QED  BY <1>10, <2>1, <2>2, <2>3 DEF Waiting
<1>12. net' \in [Links -> Seq(Packets)]
  <2>1. CASE UNCHANGED net  BY <1>3, <2>1
  <2>2. CASE net' = [l \in Links |-> net[l] \o Copies(e, k[1], k[2], l, n)]
    <3>1. e \in PublisherEndpoint  BY <1>2, <1>3 DEF Queued
    <3>2. \A l \in Links : Copies(e, k[1], k[2], l, n) \in Seq(Packets)
      BY <1>5, <3>1, CopiesArePackets
    <3>3. \A l \in Links : net[l] \o Copies(e, k[1], k[2], l, n) \in Seq(Packets)
      BY <1>3, <3>2
    <3> QED  BY <2>2, <3>3
  <2> QED  BY <1>2, <2>1, <2>2
<1>13. aborted' \in BOOLEAN  BY <1>2, <1>3
<1>14. Queued'  BY <1>2, <1>3 DEF Queued
<1> QED  BY <1>6, <1>8, <1>9, <1>11, <1>12, <1>13, <1>14 DEF Accepting

LEMMA HandleTransportInStep ==
    ASSUME IInv, NEW p, NEW q, <<p, q>> \in Endpoints, HandleTransportIn(p, q)
    PROVE  /\ publisherEndpoint' \in [Endpoints -> PublisherEndpoint \cup {None}]
           /\ queue' \in [Endpoints -> Seq(Item)]
           /\ Made' /\ Listening' /\ RemotesServed' /\ Accepting' /\ Queued'
<1> USE DEF IInv
<1> DEFINE k == <<p, q>>
           e == publisherEndpoint[k]
           a == Head(queue[k]).remote
           new == [e EXCEPT !.remotes = Append(e.remotes, a), !.isConnected = TRUE]
<1>1. k \in Endpoints /\ k[1] \in Publishers /\ k[2] \in QoSGroups  BY EndpointIs
<1>2. /\ queue[k] # <<>> /\ Head(queue[k]).type = "ACCEPT"
      /\ queue' = [queue EXCEPT ![k] = Tail(queue[k])]
      /\ publisherEndpoint' = [publisherEndpoint EXCEPT ![k] = new]
      /\ UNCHANGED <<publisherConnectors, applications, subscriberEndpoint>>
  BY DEF HandleTransportIn, AddSocket, registryVars
<1>3. /\ queue \in [Endpoints -> Seq(Item)]
      /\ publisherEndpoint \in [Endpoints -> PublisherEndpoint \cup {None}]
  BY DEF TypeOK
<1>4. queue[k] \in Seq(Item) /\ Tail(queue[k]) \in Seq(Item)  BY <1>2, <1>3, TailIs
<1>5. /\ Waiting(k, Tail(queue[k])) /\ Unknown(k, a)
      /\ \A i \in DOMAIN Tail(queue[k]) :
            Tail(queue[k])[i].type = "ACCEPT" => Tail(queue[k])[i].remote # a
  BY <1>2, <1>4, WaitingTail DEF Accepting
<1>6. /\ e # None /\ a \in Hosts \X Ports
      /\ \A i \in DOMAIN e.remotes : e.remotes[i] # a
      /\ Served(k, a)
  BY <1>5 DEF Unknown
<1>7. /\ e \in PublisherEndpoint /\ e.remotes \in Remotes /\ MadeFor(e, k[1], k[2])
      /\ k[1] \in publisherConnectors
  BY <1>3, <1>6 DEF Made, PublisherEndpoint, Remotes
<1> HIDE DEF k
<1>8. a \in (Hosts \X Ports) \cup (Hosts \X {None})  BY <1>6
<1>9. Append(e.remotes, a) \in Remotes  BY <1>7, <1>8 DEF Remotes
<1> HIDE DEF e, a
<1>10. /\ new \in PublisherEndpoint /\ new.address = e.address /\ new.port = e.port
       /\ new.dest = e.dest /\ new.remotes = Append(e.remotes, a)
  BY <1>7, <1>9, EndpointWithSockets
<1>11. MadeFor(new, k[1], k[2]) /\ new # None
  BY <1>7, <1>10, EndpointAssumption DEF MadeFor
<1> HIDE DEF new
<1>12. /\ publisherEndpoint'[k] = new /\ queue'[k] = Tail(queue[k])
       /\ \A m \in Endpoints : m # k =>
             publisherEndpoint'[m] = publisherEndpoint[m] /\ queue'[m] = queue[m]
       /\ publisherEndpoint' \in [Endpoints -> PublisherEndpoint \cup {None}]
       /\ queue' \in [Endpoints -> Seq(Item)]
  BY <1>1, <1>2, <1>3, <1>4, <1>10
<1>13. Made'  BY <1>2, <1>7, <1>11, <1>12 DEF Made
<1>14. Listening'  BY <1>2 DEF Listening, ConnectsTo
<1>15. Queued'  BY <1>11, <1>12 DEF Queued
<1>16. \A c \in Connectors : Stays(c)  BY <1>2 DEF Stays
<1>17. \A m, b : Served(m, b) => Served(m, b)'  BY <1>16, ServedStays
<1>18. RemotesServed'
  <2>1. ASSUME NEW m \in Endpoints, m # k, publisherEndpoint'[m] # None
        PROVE  /\ IsInjective(publisherEndpoint'[m].remotes)
               /\ \A i, b : /\ i \in DOMAIN publisherEndpoint'[m].remotes
                            /\ b = publisherEndpoint'[m].remotes[i]
                            => Served(m, b)'
    <3>1. /\ publisherEndpoint'[m] = publisherEndpoint[m]
          /\ IsInjective(publisherEndpoint[m].remotes)
          /\ \A i \in DOMAIN publisherEndpoint[m].remotes :
                Served(m, publisherEndpoint[m].remotes[i])
      BY <1>12, <2>1 DEF RemotesServed
    <3> QED  BY <1>17, <3>1
  <2>2. IsInjective(e.remotes) /\ \A i \in DOMAIN e.remotes : Served(k, e.remotes[i])
    BY <1>1, <1>6 DEF RemotesServed, e
  <2>3. IsInjective(new.remotes)
    BY <1>6, <1>7, <1>8, <1>10, <2>2, AppendOther DEF Remotes
  <2>4. \A i \in DOMAIN new.remotes :
          new.remotes[i] = a \/ (i \in DOMAIN e.remotes /\ new.remotes[i] = e.remotes[i])
    BY <1>7, <1>8, <1>10, AppendIs DEF Remotes
  <2>5. \A i \in DOMAIN new.remotes : Served(k, new.remotes[i])
    BY <1>6, <2>2, <2>4
  <2>6. \A i, b : i \in DOMAIN new.remotes /\ b = new.remotes[i] => Served(k, b)'
    BY <1>17, <2>5
  <2> QED  BY <1>12, <2>1, <2>3, <2>6 DEF RemotesServed
<1>19. Accepting'
  <2>1. ASSUME NEW m \in Endpoints, m # k  PROVE  Waiting(m, queue[m])'
    <3>1. \A b : Unknown(m, b) => Unknown(m, b)'  BY <1>12, <1>17, <2>1 DEF Unknown
    <3> QED  BY <1>12, <2>1, <3>1 DEF Accepting, Waiting
  <2>2. \A b : Unknown(k, b) /\ b # a => Unknown(k, b)'
    <3> SUFFICES ASSUME NEW b, Unknown(k, b), b # a  PROVE  Unknown(k, b)'  OBVIOUS
    <3>1. /\ k[2] \in TCP /\ b \in Hosts \X Ports /\ Served(k, b)
          /\ \A i \in DOMAIN e.remotes : e.remotes[i] # b
      BY DEF Unknown, e
    <3>2. \A i \in DOMAIN new.remotes :
            new.remotes[i] = a \/ (i \in DOMAIN e.remotes /\ new.remotes[i] = e.remotes[i])
      BY <1>7, <1>8, <1>10, AppendIs DEF Remotes
    <3>3. \A i \in DOMAIN new.remotes : new.remotes[i] # b  BY <3>1, <3>2
    <3>4. Served(k, b)'  BY <1>17, <3>1
    <3> QED  BY <1>11, <1>12, <3>1, <3>3, <3>4 DEF Unknown
  <2>3. Waiting(k, queue[k])'
    <3>1. PICK rest, gone : rest = Tail(queue[k]) /\ gone = a  OBVIOUS
    <3>2. /\ Waiting(k, rest)
          /\ \A i \in DOMAIN rest : rest[i].type = "ACCEPT" => rest[i].remote # gone
      BY <1>5, <3>1
    <3>3. \A b : Unknown(k, b) /\ b # gone => Unknown(k, b)'  BY <2>2, <3>1
    <3>4. queue'[k] = rest  BY <1>12, <3>1
    <3> QED  BY <3>2, <3>3, <3>4 DEF Waiting
  <2> QED  BY <2>1, <2>3 DEF Accepting
<1> QED  BY <1>12, <1>13, <1>14, <1>15, <1>18, <1>19

-----------------------------------------------------------------------------
(* The steps of the network.                                               *)

LEMMA LinkIs == ASSUME NEW l \in Links PROVE l.from \in Publishers
BY DEF Links

LEMMA ArriveStep ==
    ASSUME TypeOK, NEW l \in Links, Arrive(l)
    PROVE  /\ net' \in [Links -> Seq(Packets)]
           /\ received' \in [Subscribers -> Seq(Message)]
           /\ aborted' \in BOOLEAN
<1> DEFINE message == [from |-> l.from, n |-> Head(net[l]).n]
<1>1. /\ net[l] # <<>> /\ net \in [Links -> Seq(Packets)]
      /\ net' = [net EXCEPT ![l] = Tail(net[l])]
      /\ received \in [Subscribers -> Seq(Message)]
  BY DEF Arrive, TypeOK, Packets
<1>2. Tail(net[l]) \in Seq(Packets) /\ Head(net[l]) \in Packets  BY <1>1, TailIs
<1>3. net' \in [Links -> Seq(Packets)]  BY <1>1, <1>2
<1>4. message \in Message  BY <1>2, LinkIs DEF Message, Packets
<1>5. \A s \in Subscribers : Append(received[s], message) \in Seq(Message)
  BY <1>1, <1>4, AppendIs
<1>6. ASSUME NEW D, ForwardToApplications(D, l)
      PROVE  received' \in [Subscribers -> Seq(Message)]
  BY <1>1, <1>5, <1>6 DEF ForwardToApplications
<1>7. (\E D : ForwardToApplications(D, l)) \/ UNCHANGED received
  BY DEF Arrive
<1>8. received' \in [Subscribers -> Seq(Message)]  BY <1>1, <1>6, <1>7
<1>9. aborted' \in BOOLEAN  BY DEF Arrive
<1> QED  BY <1>3, <1>8, <1>9

LEMMA LoseStep ==
    ASSUME TypeOK, NEW l \in Links, Lose(l) \/ ConnectionFails(l)
    PROVE  /\ net' \in [Links -> Seq(Packets)]
           /\ failed' \subseteq Links /\ losses' \in 0..MaxLosses
<1>1. net \in [Links -> Seq(Packets)] /\ failed \subseteq Links /\ losses \in 0..MaxLosses
  BY DEF TypeOK, Packets
<1>2. CASE Lose(l)
  <2>1. net[l] # <<>> /\ net' = [net EXCEPT ![l] = Tail(net[l])]  BY <1>2 DEF Lose
  <2>2. Tail(net[l]) \in Seq(Packets)  BY <1>1, <2>1, TailIs
  <2>3. losses < MaxLosses /\ losses' = losses + 1 /\ UNCHANGED failed  BY <1>2 DEF Lose
  <2>4. losses' \in 0..MaxLosses  BY <1>1, <2>3, DataPlaneAssumption
  <2> QED  BY <1>1, <2>1, <2>2, <2>3, <2>4
<1>3. CASE ConnectionFails(l)
  <2>1. /\ net' = [net EXCEPT ![l] = <<>>] /\ failed' = failed \cup {l}
        /\ UNCHANGED losses
    BY <1>3 DEF ConnectionFails
  <2>2. <<>> \in Seq(Packets)  OBVIOUS
  <2> QED  BY <1>1, <2>1, <2>2
<1> QED  BY <1>2, <1>3

\* What the network does leaves the endpoints and their queues alone.
LEMMA NetworkStep ==
    ASSUME IInv, UNCHANGED <<registryVars, endpointVars, queue>>
    PROVE  Made' /\ Listening' /\ RemotesServed' /\ Accepting' /\ Queued'
<1>1. UNCHANGED <<publisherConnectors, applications, publisherEndpoint, subscriberEndpoint,
                  queue>>
  BY DEF registryVars, endpointVars
<1>2. \A c \in Connectors : Stays(c)  BY <1>1 DEF Stays
<1>3. RemotesServed' /\ Accepting'  BY <1>1, <1>2, RemotesStay, AcceptingStays DEF IInv
<1>4. Made' /\ Listening' /\ Queued'
  BY <1>1 DEF IInv, Made, Listening, ConnectsTo, Queued
<1> QED  BY <1>3, <1>4

-----------------------------------------------------------------------------
(* The theorems.                                                           *)

LEMMA StepInvariant == IInv /\ Step => IInv'
<1> SUFFICES ASSUME IInv, Step  PROVE IInv'  OBVIOUS
<1>1. /\ publisherConnectors' \subseteq Publishers
      /\ applications' \in [Connectors -> Seq(Subscribers)]
      /\ Attached' /\ Registered'
  BY RegistryStep
<1> DEFINE Rest ==
        /\ publisherEndpoint' \in [Endpoints -> PublisherEndpoint \cup {None}]
        /\ subscriberEndpoint' \in [Connectors -> SubscriberEndpoint \cup {None}]
        /\ published' \in [Publishers -> Nat]
        /\ queue' \in [Endpoints -> Seq(Item)]
        /\ net' \in [Links -> Seq(Packets)]
        /\ received' \in [Subscribers -> Seq(Message)]
        /\ failed' \subseteq Links
        /\ losses' \in 0..MaxLosses
        /\ aborted' \in BOOLEAN
        /\ Made' /\ Listening' /\ RemotesServed' /\ Accepting' /\ Queued'
<1>2. /\ publisherEndpoint \in [Endpoints -> PublisherEndpoint \cup {None}]
      /\ subscriberEndpoint \in [Connectors -> SubscriberEndpoint \cup {None}]
      /\ published \in [Publishers -> Nat]
      /\ queue \in [Endpoints -> Seq(Item)]
      /\ net \in [Links -> Seq(Packets)]
      /\ received \in [Subscribers -> Seq(Message)]
      /\ failed \subseteq Links
      /\ losses \in 0..MaxLosses
      /\ aborted \in BOOLEAN
      /\ TypeOK
  BY DEF IInv, TypeOK, Packets
<1>3. ASSUME \E p \in Publishers : RegisterPublisherService(p)
      PROVE  Rest
  <2>1. aborted' \in BOOLEAN
        /\ UNCHANGED <<endpointVars, messageVars, failed, losses>>
    BY <1>3 DEF RegisterPublisherService
  <2>2. Made' /\ Listening' /\ RemotesServed' /\ Accepting' /\ Queued'
    BY <1>3, RegisterStep
  <2>3. UNCHANGED <<publisherEndpoint, subscriberEndpoint, published, queue, net, received,
                    failed, losses>>
    BY <2>1 DEF endpointVars, messageVars
  <2>4. aborted' \in BOOLEAN  BY <1>2, <2>1
  <2> QED  BY <1>2, <2>2, <2>3, <2>4
<1>4. ASSUME \E s \in Subscribers : RegisterSubscriberService(s)
      PROVE  Rest
  <2>1. UNCHANGED <<endpointVars, messageVars, failed, losses, aborted>>
    BY <1>4 DEF RegisterSubscriberService
  <2>2. Made' /\ Listening' /\ RemotesServed' /\ Accepting' /\ Queued'
    BY <1>4, RegisterStep
  <2>3. UNCHANGED <<publisherEndpoint, subscriberEndpoint, published, queue, net, received,
                    failed, losses>>
    BY <2>1 DEF endpointVars, messageVars
  <2>4. aborted' \in BOOLEAN  BY <1>2, <2>1
  <2> QED  BY <1>2, <2>2, <2>3, <2>4
<1>5. ASSUME NEW p \in Publishers, NEW c \in Connectors, ServeSubscription(p, c)
      PROVE  Rest
  <2>1. UNCHANGED <<subscriberEndpoint, messageVars, failed, losses, aborted>>
    BY <1>5 DEF ServeSubscription
  <2> QED  BY <1>2, <1>5, <2>1, ServeSubscriptionStep DEF messageVars
<1>6. ASSUME NEW p \in Publishers, NEW c \in Connectors, Listen(c, p)
      PROVE  Rest
  <2>1. UNCHANGED <<publisherEndpoint, messageVars, failed, losses, aborted>>
    BY <1>6 DEF Listen
  <2> QED  BY <1>2, <1>6, <2>1, ListenStep DEF messageVars
<1>7. ASSUME NEW p \in Publishers, NEW c \in Connectors, Establish(c, p)
      PROVE  Rest
  <2>1. UNCHANGED <<publisherEndpoint, published, net, received, failed, losses, aborted>>
    BY <1>7 DEF Establish
  <2> QED  BY <1>2, <1>7, <2>1, EstablishStep
<1>8. ASSUME NEW p \in Publishers, SendMessage(p)
      PROVE  Rest
  <2>1. UNCHANGED <<publisherEndpoint, subscriberEndpoint, net, received, failed, losses,
                    aborted>>
    BY <1>8 DEF SendMessage, endpointVars
  <2> QED  BY <1>2, <1>8, <2>1, SendMessageStep
<1>9. ASSUME NEW k \in Endpoints, HandleConnectorIn(k[1], k[2])
      PROVE  Rest
  <2>1. UNCHANGED <<publisherEndpoint, subscriberEndpoint, published, received, failed,
                    losses>>
    BY <1>9 DEF HandleConnectorIn, endpointVars
  <2> QED  BY <1>2, <1>9, <2>1, HandleConnectorInStep
<1>10. ASSUME NEW k \in Endpoints, HandleTransportIn(k[1], k[2])
       PROVE  Rest
  <2>1. UNCHANGED <<subscriberEndpoint, published, net, received, failed, losses, aborted>>
    BY <1>10 DEF HandleTransportIn
  <2>2. <<k[1], k[2]>> \in Endpoints  BY EndpointIs
  <2> QED  BY <1>2, <1>10, <2>1, <2>2, HandleTransportInStep
<1>11. ASSUME NEW l \in Links, Arrive(l)
       PROVE  Rest
  <2>1. UNCHANGED <<registryVars, endpointVars, published, queue, failed, losses>>
    BY <1>11 DEF Arrive
  <2>2. Made' /\ Listening' /\ RemotesServed' /\ Accepting' /\ Queued'
    BY <2>1, NetworkStep
  <2> QED  BY <1>2, <1>11, <2>1, <2>2, ArriveStep DEF endpointVars
<1>12. ASSUME NEW l \in Links, Lose(l) \/ ConnectionFails(l)
       PROVE  Rest
  <2>1. UNCHANGED <<registryVars, endpointVars, published, queue, received, aborted>>
    BY <1>12 DEF Lose, ConnectionFails
  <2>2. Made' /\ Listening' /\ RemotesServed' /\ Accepting' /\ Queued'
    BY <2>1, NetworkStep
  <2> QED  BY <1>2, <1>12, <2>1, <2>2, LoseStep DEF endpointVars
<1>13. Rest
  <2> HIDE DEF Rest
  <2> QED  BY <1>3, <1>4, <1>5, <1>6, <1>7, <1>8, <1>9, <1>10, <1>11, <1>12
           DEF Step, ProcessScheduledMessage
<1> QED  BY <1>1, <1>13 DEF IInv, TypeOK, Packets

LEMMA NextInvariant == IInv /\ [Next]_vars => IInv'
<1> SUFFICES ASSUME IInv, [Next]_vars  PROVE IInv'  OBVIOUS
<1>1. CASE Step  BY <1>1, StepInvariant
<1>2. CASE UNCHANGED vars
  <2>1. /\ UNCHANGED <<registryVars, endpointVars, queue>>
        /\ UNCHANGED <<publisherConnectors, applications, publisherEndpoint,
                       subscriberEndpoint, published, queue, net, received, failed, losses,
                       aborted>>
    BY <1>2 DEF vars, registryVars, endpointVars, messageVars
  <2>2. Made' /\ Listening' /\ RemotesServed' /\ Accepting' /\ Queued'
    BY <2>1, NetworkStep
  <2>3. TypeOK'  BY <2>1 DEF IInv, TypeOK
  <2>4. Attached' /\ Registered'  BY <2>1 DEF IInv, Attached, Registered
  <2> QED  BY <2>2, <2>3, <2>4 DEF IInv
<1> QED  BY <1>1, <1>2 DEF Next, Terminated

LEMMA Invariant == Spec => []IInv
BY InitInvariant, NextInvariant, PTL DEF Spec

\* Every variable stays in its declared range: what the managers make of an
\* application's parameters, and the transports of an endpoint, is an
\* endpoint, and what goes through queues and links is items and packets.
THEOREM TypeCorrect == Spec => []TypeOK
<1>1. IInv => TypeOK  BY DEF IInv
<1> QED  BY <1>1, Invariant, PTL

\* The remotes and sockets of a publisher's endpoint are those of connectors
\* with a subscriber of its service and QoS group, each of them once, however
\* subscriptions, registrations and connections are interleaved.
THEOREM RemotesAreSubscribersCorrect == Spec => []RemotesAreSubscribers
<1>1. IInv => RemotesAreSubscribers
  <2> SUFFICES ASSUME IInv, NEW k \in Endpoints, publisherEndpoint[k] # None
      PROVE  LET p == k[1]
                 q == k[2]
                 e == publisherEndpoint[k]
             IN  /\ p \in publisherConnectors
                 /\ IsInjective(e.remotes)
                 /\ \A i \in DOMAIN e.remotes : \E c \in Connectors :
                       /\ Fits(c, p) /\ c.qos = q
                       /\ applications[c] # <<>>
                       /\ c.host = e.remotes[i][1]
                       /\ q \in UDP => e.remotes[i] = LocalAddress(SubscriberConnector(c))
                       /\ q \in TCP => /\ subscriberEndpoint[c] # None
                                       /\ subscriberEndpoint[c].isConnected
                                       /\ subscriberEndpoint[c].local = e.remotes[i]
    BY DEF RemotesAreSubscribers
  <2> QED  BY DEF IInv, Made, RemotesServed, Served, Serves
<1> QED  BY <1>1, Invariant, PTL

-----------------------------------------------------------------------------
(* Messages in order: what they are numbered by, on any list.              *)

Publishes == [type : {"PUBLISH"}, n : Nat]

\* Of the members of S that a list has: all are after number n, they rise,
\* and none is beyond the last number.
Later(n, seq, S) == \A i \in DOMAIN seq : seq[i] \in S => n < seq[i].n
Rising(seq, S) ==
    \A i, j \in DOMAIN seq : i < j /\ seq[i] \in S /\ seq[j] \in S => seq[i].n < seq[j].n
Within(seq, S, last) == \A i \in DOMAIN seq : seq[i] \in S => seq[i].n \in 1..last

LEMMA ItemIs ==
    /\ \A item \in Item : item.type = "PUBLISH" => item \in Publishes
    /\ \A item : item.type # "PUBLISH" => item \notin Publishes
BY DEF Item, Publishes

LEMMA EmptyRises ==
    ASSUME NEW S
    PROVE  /\ \A n : Later(n, <<>>, S)
           /\ Rising(<<>>, S)
           /\ \A last : Within(<<>>, S, last)
BY DOMAIN <<>> = {} DEF Later, Rising, Within

LEMMA TailRises ==
    ASSUME NEW T, NEW seq \in Seq(T), seq # <<>>, NEW S
    PROVE  /\ \A n : Later(n, seq, S) => Later(n, Tail(seq), S)
           /\ Rising(seq, S) => Rising(Tail(seq), S)
           /\ \A last : Within(seq, S, last) => Within(Tail(seq), S, last)
           /\ Rising(seq, S) /\ Head(seq) \in S => Later(Head(seq).n, Tail(seq), S)
<1> DEFINE rest == Tail(seq)
<1>1. /\ \A i \in DOMAIN rest : i \in Nat /\ i + 1 \in DOMAIN seq /\ rest[i] = seq[i + 1]
      /\ 1 \in DOMAIN seq /\ Head(seq) = seq[1]
  BY TailIs
<1>2. \A i \in DOMAIN rest : i # 0  OBVIOUS
<1> HIDE DEF rest
<1>3. \A n : Later(n, seq, S) => Later(n, rest, S)  BY <1>1 DEF Later
<1>4. Rising(seq, S) => Rising(rest, S)
  <2> SUFFICES ASSUME Rising(seq, S), NEW i \in DOMAIN rest, NEW j \in DOMAIN rest,
                      i < j, rest[i] \in S, rest[j] \in S
               PROVE  rest[i].n < rest[j].n
    BY DEF Rising
  <2>1. i + 1 < j + 1  BY <1>1
  <2> QED  BY <1>1, <2>1 DEF Rising
<1>5. \A last : Within(seq, S, last) => Within(rest, S, last)  BY <1>1 DEF Within
<1>6. Rising(seq, S) /\ Head(seq) \in S => Later(Head(seq).n, rest, S)
  <2> SUFFICES ASSUME Rising(seq, S), Head(seq) \in S, NEW i \in DOMAIN rest, rest[i] \in S
               PROVE  Head(seq).n < rest[i].n
    BY DEF Later
  <2>1. 1 < i + 1  BY <1>1, <1>2
  <2> QED  BY <1>1, <2>1 DEF Rising
<1> QED  BY <1>3, <1>4, <1>5, <1>6 DEF rest

LEMMA AppendRises ==
    ASSUME NEW T, NEW seq \in Seq(T), NEW e \in T, NEW S
    PROVE  /\ \A n : Later(n, seq, S) /\ (e \in S => n < e.n) => Later(n, Append(seq, e), S)
           /\ /\ Rising(seq, S)
              /\ e \in S => \A i \in DOMAIN seq : seq[i] \in S => seq[i].n < e.n
              => Rising(Append(seq, e), S)
           /\ \A last : Within(seq, S, last) /\ (e \in S => e.n \in 1..last)
                          => Within(Append(seq, e), S, last)
<1> DEFINE longer == Append(seq, e)
<1>1. \A i \in DOMAIN longer :
        \/ i \in DOMAIN seq /\ longer[i] = seq[i]
        \/ i = Len(seq) + 1 /\ longer[i] = e
  BY AppendIs
<1>2. \A i \in DOMAIN seq : i \in Nat /\ i < Len(seq) + 1  OBVIOUS
<1>3. Len(seq) \in Nat  OBVIOUS
<1> HIDE DEF longer
<1>4. \A n : Later(n, seq, S) /\ (e \in S => n < e.n) => Later(n, longer, S)
  BY <1>1 DEF Later
<1>5. ASSUME Rising(seq, S),
             e \in S => \A i \in DOMAIN seq : seq[i] \in S => seq[i].n < e.n
      PROVE  Rising(longer, S)
  <2> SUFFICES ASSUME NEW i \in DOMAIN longer, NEW j \in DOMAIN longer,
                      i < j, longer[i] \in S, longer[j] \in S
               PROVE  longer[i].n < longer[j].n
    BY DEF Rising
  <2>1. CASE j \in DOMAIN seq /\ longer[j] = seq[j]
    <3>1. i # Len(seq) + 1
      <4>1. j < Len(seq) + 1 /\ j \in Nat  BY <1>2, <2>1
      <4> QED  BY <1>3, <4>1
    <3>2. i \in DOMAIN seq /\ longer[i] = seq[i]  BY <1>1, <3>1
    <3> QED  BY <1>5, <2>1, <3>2 DEF Rising
  <2>2. CASE j = Len(seq) + 1 /\ longer[j] = e
    <3>1. i # Len(seq) + 1  BY <1>3, <2>2
    <3>2. i \in DOMAIN seq /\ longer[i] = seq[i]  BY <1>1, <3>1
    <3> QED  BY <1>5, <2>2, <3>2
  <2> QED  BY <1>1, <2>1, <2>2
<1>6. \A last : Within(seq, S, last) /\ (e \in S => e.n \in 1..last) => Within(longer, S, last)
  BY <1>1 DEF Within
<1> QED  BY <1>4, <1>5, <1>6 DEF longer

LEMMA WithinMore ==
    ASSUME NEW seq, NEW S, NEW last \in Nat, NEW more \in Nat, last <= more,
           Within(seq, S, last)
    PROVE  Within(seq, S, more)
<1>1. \A x \in 1..last : x \in 1..more  OBVIOUS
<1> QED  BY <1>1 DEF Within

-----------------------------------------------------------------------------
(* The invariant of the messages under way.                                *)

\* The socket of a subscriber endpoint is bound where its connector's first
\* application wants it, or to the group of a publisher it fits.
Bound ==
    \A c \in Connectors :
        subscriberEndpoint[c] # None =>
          /\ applications[c] # <<>>
          /\ c.qos \notin MCAST =>
               subscriberEndpoint[c].local = LocalAddress(SubscriberConnector(c))
          /\ c.qos \in MCAST =>
               \E p \in Publishers :
                  Fits(c, p) /\ subscriberEndpoint[c].local = GroupAddress(p)

\* What is on a link was sent by an endpoint which has the link's end as a
\* remote.
Reaches(l) ==
    LET e == publisherEndpoint[<<l.from, l.qos>>]
    IN  /\ e # None
        /\ l.qos \notin MCAST => l.to \in Range(e.remotes)
Carrying == \A l \in Links : net[l] # <<>> => Reaches(l)

\* Numbers rise in a queue and on a link, and what is on the link of an
\* endpoint was published before what waits in its queue.
QueueRises(k) ==
    Rising(queue[k], Publishes) /\ Within(queue[k], Publishes, published[k[1]])
QueuesRise == \A k \in Endpoints : QueueRises(k)

LinkRises(l) ==
    /\ Rising(net[l], Packets) /\ Within(net[l], Packets, published[l.from])
    /\ \A i \in DOMAIN net[l] : Later(net[l][i].n, queue[<<l.from, l.qos>>], Publishes)
LinksRise == \A l \in Links : LinkRises(l)

\* The link by which connector c gets messages of its publisher.
Way(c, l) == l.qos = c.qos /\ l.host = c.host /\ l.to = subscriberEndpoint[c].local

\* Number n of publisher p came to subscriber s before all that is under way
\* to its connector.
Past(s, p, n) ==
    LET c == ConnectorOf(s)
    IN  /\ subscriberEndpoint[c] # None
        /\ n <= published[p]
        /\ \A k \in Endpoints : k[1] = p /\ k[2] = c.qos => Later(n, queue[k], Publishes)
        /\ \A l \in Links : l.from = p /\ Way(c, l) => Later(n, net[l], Packets)
ReceivedRises ==
    \A s \in Subscribers : \A i \in DOMAIN received[s] :
        Past(s, received[s][i].from, received[s][i].n)

InOrder == Carrying /\ QueuesRise /\ LinksRise /\ ReceivedRises

Delivering == IInv /\ Bound /\ InOrder

LEMMA DeliveringInit == Init => Delivering
<1> SUFFICES ASSUME Init PROVE Delivering  OBVIOUS
<1>1. IInv  BY InitInvariant
<1>2. Bound  BY DEF Init, Bound
<1>3. Carrying  BY DEF Init, Carrying
<1>4. QueuesRise  BY EmptyRises DEF Init, QueuesRise, QueueRises
<1>5. LinksRise
  <2> SUFFICES ASSUME NEW l \in Links PROVE LinkRises(l)  BY DEF LinksRise
  <2>1. net[l] = <<>>  BY DEF Init
  <2> QED  BY <2>1, EmptyRises, DOMAIN <<>> = {} DEF LinkRises
<1>6. ReceivedRises  BY DOMAIN <<>> = {} DEF Init, ReceivedRises
<1> QED  BY <1>1, <1>2, <1>3, <1>4, <1>5, <1>6 DEF Delivering, InOrder

LEMMA LinkFacts ==
    ASSUME NEW l \in Links
    PROVE  /\ l = [from |-> l.from, qos |-> l.qos, to |-> l.to, host |-> l.host]
           /\ l.from \in Publishers /\ l.qos \in QoSGroups
           /\ <<l.from, l.qos>> \in Endpoints
           /\ l.qos \in MCAST => l.to = GroupAddress(l.from)
BY DEF Links, GroupAddress, QoSGroups, TCP, UDP, MCAST

-----------------------------------------------------------------------------
(* How the invariant is kept.                                              *)

\* Endpoints keep their remotes, and bound sockets their address.
EndpointsStay ==
    /\ \A k \in Endpoints :
          publisherEndpoint[k] # None =>
            /\ publisherEndpoint'[k] # None
            /\ Range(publisherEndpoint[k].remotes) \subseteq Range(publisherEndpoint'[k].remotes)
    /\ \A c \in Connectors :
          subscriberEndpoint[c] # None =>
            /\ subscriberEndpoint'[c] # None
            /\ subscriberEndpoint'[c].local = subscriberEndpoint[c].local

LEMMA ReachesStays ==
    ASSUME EndpointsStay, NEW l \in Links, Reaches(l)
    PROVE  Reaches(l)'
<1>1. publisherEndpoint[<<l.from, l.qos>>] # None /\ <<l.from, l.qos>> \in Endpoints
  BY LinkFacts DEF Reaches
<1> QED  BY <1>1 DEF Reaches, EndpointsStay

\* What a step has to keep of the ways to a subscriber's connector.
LEMMA PastStays ==
    ASSUME EndpointsStay, NEW s \in Subscribers, NEW p \in Publishers, NEW n,
           Past(s, p, n), n <= published[p] => n <= published'[p],
           \A k \in Endpoints :
              k[1] = p /\ k[2] = ConnectorOf(s).qos /\ Later(n, queue[k], Publishes)
                => Later(n, queue'[k], Publishes),
           \A l \in Links :
              l.from = p /\ l.qos = ConnectorOf(s).qos /\ Later(n, net[l], Packets)
                => Later(n, net'[l], Packets)
    PROVE  Past(s, p, n)'
<1> DEFINE c == ConnectorOf(s)
<1>1. c \in Connectors  BY DEF Connectors
<1> HIDE DEF c
<1>2. /\ subscriberEndpoint[c] # None /\ subscriberEndpoint'[c] # None
      /\ subscriberEndpoint'[c].local = subscriberEndpoint[c].local
  BY <1>1 DEF Past, EndpointsStay, c
<1>3. \A l \in Links : Way(c, l)' => Way(c, l)  BY <1>2 DEF Way
<1>4. n <= published'[p]  BY DEF Past
<1>5. \A k \in Endpoints : k[1] = p /\ k[2] = c.qos => Later(n, queue'[k], Publishes)
  BY DEF Past, c
<1>6. \A l \in Links : l.from = p /\ Way(c, l) => Later(n, net'[l], Packets)
  BY DEF Past, Way, c
<1> QED  BY <1>2, <1>3, <1>4, <1>5, <1>6 DEF Past, c

LEMMA ReceivedIs ==
    ASSUME TypeOK, NEW s \in Subscribers, NEW i \in DOMAIN received[s]
    PROVE  received[s][i].from \in Publishers /\ received[s][i].n \in Nat
<1>1. received[s] \in Seq(Message)  BY DEF TypeOK
<1>2. received[s][i] \in Message  BY <1>1
<1> QED  BY <1>2 DEF Message

LEMMA PacketIs ==
    ASSUME TypeOK, NEW l \in Links
    PROVE  /\ net[l] \in Seq(Packets)
           /\ \A i \in DOMAIN net[l] : net[l][i] \in Packets /\ net[l][i].n \in Nat
<1>1. net[l] \in Seq(Packets)  BY DEF TypeOK, Packets
<1>2. \A i \in DOMAIN net[l] : net[l][i] \in Packets  BY <1>1
<1> QED  BY <1>1, <1>2 DEF Packets

\* What may happen to the queue of an endpoint as long as nothing leaves it
\* for the network.
QueueSteps(k) ==
    /\ published[k[1]] <= published'[k[1]]
    /\ \A n \in Nat :
          n <= published[k[1]] /\ Later(n, queue[k], Publishes) => Later(n, queue'[k], Publishes)
    /\ QueueRises(k)'

LEMMA QueueStep ==
    ASSUME IInv, InOrder, EndpointsStay, UNCHANGED <<net, received>>,
           published' \in [Publishers -> Nat],
           \A p \in Publishers : published[p] <= published'[p],
           \A k \in Endpoints : QueueSteps(k)
    PROVE  InOrder'
<1> USE DEF InOrder
<1>1. TypeOK /\ published \in [Publishers -> Nat]  BY DEF IInv, TypeOK
<1>2. Carrying'
  <2>1. \A l \in Links : Reaches(l) => Reaches(l)'  BY ReachesStays
  <2> QED  BY <2>1 DEF Carrying
<1>3. QueuesRise'  BY DEF QueuesRise, QueueSteps
<1>4. LinksRise'
  <2> SUFFICES ASSUME NEW l \in Links PROVE LinkRises(l)'  BY DEF LinksRise
  <2>1. LinkRises(l)  BY DEF LinksRise
  <2>2. l.from \in Publishers /\ <<l.from, l.qos>> \in Endpoints  BY LinkFacts
  <2>3. net[l] \in Seq(Packets)
        /\ \A i \in DOMAIN net[l] : net[l][i] \in Packets /\ net[l][i].n \in Nat
    BY <1>1, PacketIs
  <2>4. Within(net[l], Packets, published'[l.from])
    <3>1. published[l.from] \in Nat /\ published'[l.from] \in Nat
      BY <1>1, <2>2
    <3>2. published[l.from] <= published'[l.from]  BY <2>2
    <3> QED  BY <2>1, <3>1, <3>2, WithinMore DEF LinkRises
  <2>5. ASSUME NEW i \in DOMAIN net[l]
        PROVE  Later(net[l][i].n, queue'[<<l.from, l.qos>>], Publishes)
    <3>1. net[l][i].n \in 1..published[l.from]  BY <2>1, <2>3 DEF LinkRises, Within
    <3>2. published[l.from] \in Nat  BY <1>1, <2>2
    <3>3. net[l][i].n \in Nat /\ net[l][i].n <= published[l.from]  BY <3>1, <3>2
    <3>4. Later(net[l][i].n, queue[<<l.from, l.qos>>], Publishes)  BY <2>1 DEF LinkRises
    <3>5. QueueSteps(<<l.from, l.qos>>)  BY <2>2
    <3> QED  BY <3>3, <3>4, <3>5 DEF QueueSteps
  <2>6. Rising(net[l], Packets)  BY <2>1 DEF LinkRises
  <2> QED  BY <2>4, <2>5, <2>6 DEF LinkRises
<1>5. ReceivedRises'
  <2> SUFFICES ASSUME NEW s \in Subscribers, NEW i \in DOMAIN received[s],
                      NEW p, p = received[s][i].from, NEW n, n = received[s][i].n
               PROVE  Past(s, p, n)'
    BY DEF ReceivedRises
  <2>1. p \in Publishers /\ n \in Nat  BY <1>1, ReceivedIs
  <2>2. Past(s, p, n)  BY DEF ReceivedRises
  <2>3. n <= published[p] => n <= published'[p]  BY <1>1, <2>1
  <2>4. n <= published[p]  BY <2>2 DEF Past
  <2>5. \A k \in Endpoints :
          k[1] = p /\ Later(n, queue[k], Publishes) => Later(n, queue'[k], Publishes)
    BY <2>1, <2>4 DEF QueueSteps
  <2> QED  BY <2>1, <2>2, <2>3, <2>5, PastStays
<1> QED  BY <1>2, <1>3, <1>4, <1>5

\* Messages leave a link at its end, or all of them with their connection.
Shrinks(l) ==
    \/ net'[l] = net[l]
    \/ net[l] # <<>> /\ net'[l] = Tail(net[l])
    \/ net'[l] = <<>>

LEMMA ShrinkStep ==
    ASSUME IInv, InOrder, UNCHANGED <<endpointVars, published, queue>>,
           \A l \in Links : Shrinks(l)
    PROVE  /\ Carrying' /\ QueuesRise' /\ LinksRise'
           /\ \A s \in Subscribers, p \in Publishers, n \in Nat :
                 Past(s, p, n) => Past(s, p, n)'
<1> USE DEF InOrder
<1>1. TypeOK /\ UNCHANGED <<publisherEndpoint, subscriberEndpoint>>
  BY DEF IInv, endpointVars
<1>2. EndpointsStay  BY <1>1 DEF EndpointsStay
<1>3. ASSUME NEW l \in Links
      PROVE  /\ net'[l] # <<>> => net[l] # <<>>
             /\ \A n : Later(n, net[l], Packets) => Later(n, net'[l], Packets)
             /\ Rising(net[l], Packets) => Rising(net'[l], Packets)
             /\ \A last : Within(net[l], Packets, last) => Within(net'[l], Packets, last)
             /\ \A i \in DOMAIN net'[l] : \E j \in DOMAIN net[l] : net'[l][i] = net[l][j]
  <2>1. Shrinks(l) /\ net[l] \in Seq(Packets)  BY <1>1, PacketIs
  <2>2. PICK old, new : old = net[l] /\ new = net'[l]  OBVIOUS
  <2>3. CASE new = old  BY <2>2, <2>3
  <2>4. CASE old # <<>> /\ new = Tail(old)
    BY <2>1, <2>2, <2>4, TailRises, TailIs
  <2>5. CASE new = <<>>
    BY <2>2, <2>5, EmptyRises, DOMAIN <<>> = {}
  <2> QED  BY <2>1, <2>2, <2>3, <2>4, <2>5 DEF Shrinks
<1>4. Carrying'
  <2>1. \A l \in Links : Reaches(l) => Reaches(l)'  BY <1>2, ReachesStays
  <2> QED  BY <1>3, <2>1 DEF Carrying
<1>5. QueuesRise'  BY DEF QueuesRise, QueueRises
<1>6. LinksRise'
  <2> SUFFICES ASSUME NEW l \in Links PROVE LinkRises(l)'  BY DEF LinksRise
  <2>1. LinkRises(l)  BY DEF LinksRise
  <2>2. \A i \in DOMAIN net'[l] : Later(net'[l][i].n, queue[<<l.from, l.qos>>], Publishes)
    BY <1>3, <2>1 DEF LinkRises
  <2> QED  BY <1>3, <2>1, <2>2 DEF LinkRises
<1>7. ASSUME NEW s \in Subscribers, NEW p \in Publishers, NEW n \in Nat, Past(s, p, n)
      PROVE  Past(s, p, n)'
  <2>1. \A l \in Links : Later(n, net[l], Packets) => Later(n, net'[l], Packets)  BY <1>3
  <2> QED  BY <1>2, <1>7, <2>1, PastStays
<1> QED  BY <1>4, <1>5, <1>6, <1>7

-----------------------------------------------------------------------------
(* The steps of the managers keep the messages in order.                   *)

LEMMA SameQueues ==
    ASSUME IInv, InOrder, UNCHANGED <<published, queue>>
    PROVE  /\ published' \in [Publishers -> Nat]
           /\ \A p \in Publishers : published[p] <= published'[p]
           /\ \A k \in Endpoints : QueueSteps(k)
<1>1. published \in [Publishers -> Nat]  BY DEF IInv, TypeOK
<1>2. \A p \in Publishers : published[p] <= published'[p]  BY <1>1
<1>3. ASSUME NEW k \in Endpoints  PROVE  QueueSteps(k)
  <2>1. k[1] \in Publishers  BY EndpointIs
  <2>2. QueueRises(k)  BY DEF InOrder, QueuesRise
  <2>3. QueueRises(k)'  BY <2>2 DEF QueueRises
  <2> QED  BY <1>2, <2>1, <2>3 DEF QueueSteps
<1> QED  BY <1>1, <1>2, <1>3

LEMMA BoundStays ==
    ASSUME Bound,
           \A c \in Connectors : subscriberEndpoint'[c] # None =>
              /\ subscriberEndpoint[c] # None
              /\ subscriberEndpoint'[c].local = subscriberEndpoint[c].local
              /\ applications'[c] # <<>> /\ Head(applications'[c]) = Head(applications[c])
    PROVE  Bound'
BY DEF Bound, SubscriberConnector

LEMMA RegisterDelivers ==
    ASSUME IInv, Bound, InOrder, Step,
           \/ \E p \in Publishers : RegisterPublisherService(p)
           \/ \E s \in Subscribers : RegisterSubscriberService(s)
    PROVE  Bound' /\ InOrder'
<1>1. UNCHANGED <<publisherEndpoint, subscriberEndpoint, published, queue, net, received>>
  BY DEF RegisterPublisherService, RegisterSubscriberService, endpointVars, messageVars
<1>2. \A c \in Connectors : applications[c] # <<>> =>
        applications'[c] # <<>> /\ Head(applications'[c]) = Head(applications[c])
  BY RegistryStep
<1>3. Bound'  BY <1>1, <1>2, BoundStays DEF Bound
<1>4. EndpointsStay  BY <1>1 DEF EndpointsStay
<1>5. InOrder'  BY <1>1, <1>4, SameQueues, QueueStep
<1> QED  BY <1>3, <1>5

LEMMA ServeSubscriptionDelivers ==
    ASSUME IInv, Bound, InOrder,
           NEW p \in Publishers, NEW c \in Connectors, ServeSubscription(p, c)
    PROVE  Bound' /\ InOrder'
<1> DEFINE q == c.qos
           k == <<p, q>>
           e == CreateOrFindPublisherEndpoint(p, q)
           remote == <<c.host, SubscribedPort(c)>>
           new == IF TakesRemotes(q) THEN AddRemote(e, remote) ELSE e
<1>1. /\ applications[c] # <<>> /\ Fits(c, p)
      /\ publisherEndpoint' = [publisherEndpoint EXCEPT ![k] = new]
      /\ UNCHANGED <<applications, subscriberEndpoint, published, queue, net, received>>
  BY DEF ServeSubscription, registryVars, messageVars
<1>2. k \in Endpoints /\ k[1] = p /\ k[2] = q /\ q \in QoSGroups
  BY <1>1, EndpointIs, ConnectorIs
<1>3. publisherEndpoint' \in [Endpoints -> PublisherEndpoint \cup {None}] /\ Made'
  BY ServeSubscriptionStep
<1>4. /\ TypeOK /\ Made
      /\ publisherEndpoint \in [Endpoints -> PublisherEndpoint \cup {None}]
  BY DEF IInv, TypeOK
<1>5. /\ MadeFor(e, p, q)
      /\ publisherEndpoint[k] # None => e = publisherEndpoint[k]
  BY <1>2, <1>4, CreatedOrFound
<1> HIDE DEF e
<1>6. e \in PublisherEndpoint /\ e.remotes \in Remotes /\ e # None
  BY <1>5, EndpointAssumption DEF MadeFor, PublisherEndpoint, Remotes
<1>7. new # None /\ Range(e.remotes) \subseteq Range(new.remotes)
  <2>1. CASE new = e  BY <1>6, <2>1
  <2>2. CASE new = [e EXCEPT !.remotes = Append(e.remotes, remote)]
    <3>1. remote \in (Hosts \X Ports) \cup (Hosts \X {None})
      BY <1>1, <1>4, ConnectorIs, ConnectorOfFirst DEF SubscribedPort, IInv
    <3> HIDE DEF remote, new
    <3>2. Append(e.remotes, remote) \in Remotes  BY <1>6, <3>1 DEF Remotes
    <3>3. new \in PublisherEndpoint /\ new.remotes = Append(e.remotes, remote)
      BY <1>6, <2>2, <3>2, EndpointWithRemotes
    <3>4. Range(Append(e.remotes, remote)) = Range(e.remotes) \cup {remote}
      BY <1>6, <3>1, AppendRange DEF Remotes
    <3> QED  BY <3>3, <3>4, EndpointAssumption
  <2> QED  BY <2>1, <2>2 DEF AddRemote
<1> HIDE DEF new, k, q, remote
<1>8. /\ publisherEndpoint'[k] = new
      /\ \A m \in Endpoints : m # k => publisherEndpoint'[m] = publisherEndpoint[m]
  BY <1>1, <1>2, <1>4
<1>9. EndpointsStay  BY <1>1, <1>5, <1>7, <1>8 DEF EndpointsStay
<1>10. Bound'  BY <1>1 DEF Bound, SubscriberConnector
<1>11. InOrder'  BY <1>1, <1>9, SameQueues, QueueStep
<1> QED  BY <1>10, <1>11

LEMMA ListenDelivers ==
    ASSUME IInv, Bound, InOrder, NEW p \in Publishers, NEW c \in Connectors, Listen(c, p)
    PROVE  Bound' /\ InOrder'
<1> DEFINE pe == publisherEndpoint[<<p, c.qos>>]
<1>1. PICK new \in SubscriberEndpoint :
        /\ applications[c] # <<>> /\ Fits(c, p)
        /\ c.qos \in TCP \cup MCAST => p \in publisherConnectors /\ MadeFor(pe, p, c.qos)
        /\ subscriberEndpoint[c] = None
        /\ subscriberEndpoint' = [subscriberEndpoint EXCEPT ![c] = new]
        /\ c.qos \notin MCAST => new.local = LocalAddress(SubscriberConnector(c))
        /\ c.qos \in MCAST => new.local = pe.dest
  BY ListenIs
<1>2. UNCHANGED <<applications, publisherEndpoint, published, queue, net, received>>
  BY DEF Listen, registryVars, messageVars
<1>3. subscriberEndpoint \in [Connectors -> SubscriberEndpoint \cup {None}]
  BY DEF IInv, TypeOK
<1>4. /\ subscriberEndpoint'[c] = new
      /\ \A d \in Connectors : d # c => subscriberEndpoint'[d] = subscriberEndpoint[d]
  BY <1>1, <1>3
<1>5. c.qos \in MCAST => new.local = GroupAddress(p)
  BY <1>1 DEF MadeFor
<1>6. ASSUME NEW d \in Connectors, subscriberEndpoint'[d] # None
      PROVE  /\ applications'[d] # <<>>
             /\ d.qos \notin MCAST =>
                  subscriberEndpoint'[d].local = LocalAddress(SubscriberConnector(d)')
             /\ d.qos \in MCAST =>
                  \E r \in Publishers :
                     Fits(d, r) /\ subscriberEndpoint'[d].local = GroupAddress(r)
  <2>1. CASE d = c
    BY <1>1, <1>2, <1>4, <1>5, <2>1 DEF SubscriberConnector
  <2>2. CASE d # c
    BY <1>2, <1>4, <1>6, <2>2 DEF Bound, SubscriberConnector
  <2> QED  BY <2>1, <2>2
<1>7. Bound'  BY <1>6 DEF Bound
<1>8. EndpointsStay  BY <1>1, <1>2, <1>4 DEF EndpointsStay
<1>9. InOrder'  BY <1>2, <1>8, SameQueues, QueueStep
<1> QED  BY <1>7, <1>9

LEMMA EstablishDelivers ==
    ASSUME IInv, Bound, InOrder, NEW p \in Publishers, NEW c \in Connectors, Establish(c, p)
    PROVE  Bound' /\ InOrder'
<1> DEFINE k == <<p, c.qos>>
           old == subscriberEndpoint[c]
           new == [old EXCEPT !.isConnected = TRUE]
           item == [type |-> "ACCEPT", remote |-> old.local]
<1>1. /\ k \in Endpoints /\ old # None
      /\ subscriberEndpoint' = [subscriberEndpoint EXCEPT ![c] = new]
      /\ queue' = [queue EXCEPT ![k] = Append(queue[k], item)]
      /\ UNCHANGED <<applications, publisherEndpoint, published, net, received>>
  BY DEF Establish, registryVars
<1>2. /\ subscriberEndpoint \in [Connectors -> SubscriberEndpoint \cup {None}]
      /\ queue \in [Endpoints -> Seq(Item)] /\ published \in [Publishers -> Nat]
  BY DEF IInv, TypeOK
<1>3. new \in SubscriberEndpoint /\ new # None /\ new.local = old.local
  <2>1. old \in SubscriberEndpoint  BY <1>1, <1>2
  <2> HIDE DEF old
  <2> QED  BY <2>1, SubscriberEndpointWith, EndpointAssumption
<1>4. item \in Item /\ item \notin Publishes
  <2>1. old.local \in Addresses  BY <1>1, <1>2 DEF SubscriberEndpoint
  <2> QED  BY <2>1, ItemIs DEF Item
<1> HIDE DEF new, item, k
<1>5. /\ subscriberEndpoint'[c] = new
      /\ \A d \in Connectors : d # c => subscriberEndpoint'[d] = subscriberEndpoint[d]
  BY <1>1, <1>2
<1>6. EndpointsStay  BY <1>1, <1>3, <1>5 DEF EndpointsStay
<1>7. ASSUME NEW d \in Connectors, subscriberEndpoint'[d] # None
      PROVE  /\ subscriberEndpoint[d] # None
             /\ subscriberEndpoint'[d].local = subscriberEndpoint[d].local
             /\ applications'[d] = applications[d] /\ applications[d] # <<>>
  BY <1>1, <1>3, <1>5, <1>7 DEF Bound
<1>8. Bound'  BY <1>7, BoundStays
<1>9. ASSUME NEW m \in Endpoints  PROVE  QueueSteps(m)
  <2>1. m[1] \in Publishers /\ published[m[1]] <= published'[m[1]]
    BY <1>1, <1>2, EndpointIs
  <2>2. QueueRises(m) /\ queue[m] \in Seq(Item)  BY <1>2 DEF InOrder, QueuesRise
  <2>3. CASE queue'[m] = queue[m]
    BY <1>1, <2>1, <2>2, <2>3 DEF QueueSteps, QueueRises
  <2>4. CASE queue'[m] = Append(queue[m], item)
    <3>1. PICK items, late : items = queue[m] /\ late = item  OBVIOUS
    <3>2. items \in Seq(Item) /\ late \in Item /\ late \notin Publishes
      BY <1>4, <2>2, <3>1
    <3>3. /\ \A n : Later(n, items, Publishes) => Later(n, Append(items, late), Publishes)
          /\ Rising(items, Publishes) => Rising(Append(items, late), Publishes)
          /\ \A last : Within(items, Publishes, last)
                         => Within(Append(items, late), Publishes, last)
      BY <3>2, AppendRises
    <3> QED  BY <1>1, <2>1, <2>2, <2>4, <3>1, <3>3 DEF QueueSteps, QueueRises
  <2> QED  BY <1>1, <1>2, <2>3, <2>4
<1>10. InOrder'
  <2>1. \A r \in Publishers : published[r] <= published'[r]  BY <1>1, <1>2
  <2> QED  BY <1>1, <1>2, <1>6, <1>9, <2>1, QueueStep
<1> QED  BY <1>8, <1>10

-----------------------------------------------------------------------------
(* The steps of the endpoints.                                             *)

LEMMA SendMessageDelivers ==
    ASSUME IInv, Bound, InOrder, NEW p \in Publishers, SendMessage(p)
    PROVE  Bound' /\ InOrder'
<1> DEFINE item == [type |-> "PUBLISH", n |-> published[p] + 1]
<1>1. /\ published' = [published EXCEPT ![p] = published[p] + 1]
      /\ queue' = [k \in Endpoints |->
            IF k[1] # p \/ publisherEndpoint[k] = None THEN queue[k]
            ELSE Append(queue[k], item)]
      /\ UNCHANGED <<applications, publisherEndpoint, subscriberEndpoint, net, received>>
  BY DEF SendMessage, registryVars, endpointVars
<1>2. queue \in [Endpoints -> Seq(Item)] /\ published \in [Publishers -> Nat]
  BY DEF IInv, TypeOK
<1>3. item \in Item /\ item.n = published[p] + 1  BY <1>2 DEF Item
<1> HIDE DEF item
<1>4. /\ published' \in [Publishers -> Nat] /\ published'[p] = published[p] + 1
      /\ \A r \in Publishers : published[r] <= published'[r]
  BY <1>1, <1>2
<1>5. EndpointsStay  BY <1>1 DEF EndpointsStay
<1>6. Bound'  BY <1>1 DEF Bound, SubscriberConnector
<1>7. ASSUME NEW m \in Endpoints  PROVE  QueueSteps(m)
  <2>1. /\ m[1] \in Publishers /\ published[m[1]] <= published'[m[1]]
        /\ published[m[1]] \in Nat /\ published'[m[1]] \in Nat
    BY <1>2, <1>4, EndpointIs
  <2>2. QueueRises(m) /\ queue[m] \in Seq(Item)  BY <1>2 DEF InOrder, QueuesRise
  <2>3. PICK items, late : items = queue[m] /\ late = item  OBVIOUS
  <2>4. items \in Seq(Item) /\ late \in Item /\ late.n = published[p] + 1
    BY <1>3, <2>2, <2>3
  <2>5. /\ Rising(items, Publishes) /\ Within(items, Publishes, published[m[1]])
        /\ Within(items, Publishes, published'[m[1]])
    BY <2>1, <2>2, <2>3, WithinMore DEF QueueRises
  <2>6. CASE queue'[m] = items
    BY <2>1, <2>3, <2>5, <2>6 DEF QueueSteps, QueueRises
  <2>7. CASE queue'[m] = Append(items, late) /\ m[1] = p
    <3>1. \A n \in Nat : n <= published[p] => n < late.n  BY <1>2, <2>4
    <3>2. \A n \in Nat :
            n <= published[p] /\ Later(n, items, Publishes)
              => Later(n, Append(items, late), Publishes)
      BY <2>4, <3>1, AppendRises
    <3>3. ASSUME NEW i \in DOMAIN items, items[i] \in Publishes  PROVE  items[i].n < late.n
      <4>1. items[i].n \in 1..published[p]  BY <2>5, <2>7, <3>3 DEF Within
      <4> QED  BY <1>2, <2>4, <4>1
    <3>4. Rising(Append(items, late), Publishes)  BY <2>4, <2>5, <3>3, AppendRises
    <3>5. late.n \in 1..published'[p]  BY <1>2, <1>4, <2>4
    <3>6. Within(Append(items, late), Publishes, published'[p])
      BY <2>4, <2>5, <2>7, <3>5, AppendRises
    <3> QED  BY <2>1, <2>3, <2>7, <3>2, <3>4, <3>6 DEF QueueSteps, QueueRises
  <2> QED  BY <1>1, <2>3, <2>6, <2>7
<1>8. InOrder'  BY <1>1, <1>4, <1>5, <1>7, QueueStep
<1> QED  BY <1>6, <1>8

\* The oldest item leaves the queue of endpoint k.
LEMMA TakeItem ==
    ASSUME IInv, InOrder, NEW k \in Endpoints, queue[k] # <<>>,
           queue' = [queue EXCEPT ![k] = Tail(queue[k])], UNCHANGED published
    PROVE  /\ \A m \in Endpoints : m # k => queue'[m] = queue[m]
           /\ \A m \in Endpoints : QueueSteps(m)
           /\ \A m \in Endpoints : \A n :
                 Later(n, queue[m], Publishes) => Later(n, queue'[m], Publishes)
           /\ Head(queue[k]).type = "PUBLISH" =>
                /\ Head(queue[k]) \in Publishes
                /\ Head(queue[k]).n \in 1..published[k[1]]
                /\ Later(Head(queue[k]).n, queue'[k], Publishes)
                /\ \A n : Later(n, queue[k], Publishes) => n < Head(queue[k]).n
<1>1. queue \in [Endpoints -> Seq(Item)] /\ published \in [Publishers -> Nat]
  BY DEF IInv, TypeOK
<1>2. PICK items, head : items = queue[k] /\ head = Head(queue[k])  OBVIOUS
<1>3. /\ items \in Seq(Item) /\ items # <<>> /\ head = Head(items)
      /\ queue'[k] = Tail(items)
      /\ \A m \in Endpoints : m # k => queue'[m] = queue[m]
  BY <1>1, <1>2
<1>4. /\ \A n : Later(n, items, Publishes) => Later(n, Tail(items), Publishes)
      /\ Rising(items, Publishes) => Rising(Tail(items), Publishes)
      /\ \A last : Within(items, Publishes, last) => Within(Tail(items), Publishes, last)
      /\ Rising(items, Publishes) /\ head \in Publishes
           => Later(head.n, Tail(items), Publishes)
  BY <1>3, TailRises
<1>5. 1 \in DOMAIN items /\ head = items[1] /\ head \in Item  BY <1>3, TailIs
<1>6. ASSUME NEW m \in Endpoints
      PROVE  /\ QueueSteps(m)
             /\ \A n : Later(n, queue[m], Publishes) => Later(n, queue'[m], Publishes)
  <2>1. m[1] \in Publishers /\ published[m[1]] <= published'[m[1]]  BY <1>1, EndpointIs
  <2>2. QueueRises(m)  BY DEF InOrder, QueuesRise
  <2>3. CASE m = k
    BY <1>2, <1>3, <1>4, <2>1, <2>2, <2>3 DEF QueueSteps, QueueRises
  <2>4. CASE m # k
    BY <1>3, <2>1, <2>2, <2>4 DEF QueueSteps, QueueRises
  <2> QED  BY <2>3, <2>4
<1>7. ASSUME head.type = "PUBLISH"
      PROVE  /\ head \in Publishes /\ head.n \in 1..published[k[1]]
             /\ Later(head.n, Tail(items), Publishes)
             /\ \A n : Later(n, items, Publishes) => n < head.n
  <2>1. head \in Publishes  BY <1>5, <1>7, ItemIs
  <2>2. Rising(items, Publishes) /\ Within(items, Publishes, published[k[1]])
    BY <1>2 DEF InOrder, QueuesRise, QueueRises
  <2> QED  BY <1>4, <1>5, <2>1, <2>2 DEF Within, Later
<1> QED  BY <1>2, <1>3, <1>6, <1>7

LEMMA HandleTransportInDelivers ==
    ASSUME IInv, Bound, InOrder, NEW k \in Endpoints, HandleTransportIn(k[1], k[2])
    PROVE  Bound' /\ InOrder'
<1> DEFINE e == publisherEndpoint[k]
           a == Head(queue[k]).remote
           new == [e EXCEPT !.remotes = Append(e.remotes, a), !.isConnected = TRUE]
<1>1. k = <<k[1], k[2]>>  BY EndpointIs
<1>2. /\ queue[k] # <<>> /\ Head(queue[k]).type = "ACCEPT"
      /\ queue' = [queue EXCEPT ![k] = Tail(queue[k])]
      /\ publisherEndpoint' = [publisherEndpoint EXCEPT ![k] = new]
      /\ UNCHANGED <<applications, subscriberEndpoint, published, net, received>>
  BY <1>1 DEF HandleTransportIn, AddSocket, registryVars
<1>3. /\ queue \in [Endpoints -> Seq(Item)] /\ published \in [Publishers -> Nat]
      /\ publisherEndpoint \in [Endpoints -> PublisherEndpoint \cup {None}]
  BY DEF IInv, TypeOK
<1>4. e # None /\ a \in Hosts \X Ports
  <2>1. queue[k] \in Seq(Item)  BY <1>3
  <2>2. Unknown(k, a)  BY <1>2, <2>1, WaitingTail DEF IInv, Accepting
  <2> QED  BY <2>2 DEF Unknown
<1>5. e \in PublisherEndpoint /\ e.remotes \in Remotes
  BY <1>3, <1>4 DEF PublisherEndpoint, Remotes
<1> HIDE DEF e, a
<1>6. a \in (Hosts \X Ports) \cup (Hosts \X {None})  BY <1>4
<1>7. Append(e.remotes, a) \in Remotes  BY <1>5, <1>6 DEF Remotes
<1>8. new \in PublisherEndpoint /\ new.remotes = Append(e.remotes, a)
  BY <1>5, <1>7, EndpointWithSockets
<1>9. Range(Append(e.remotes, a)) = Range(e.remotes) \cup {a}
  BY <1>5, <1>6, AppendRange DEF Remotes
<1>10. new # None /\ Range(e.remotes) \subseteq Range(new.remotes)
  BY <1>8, <1>9, EndpointAssumption
<1> HIDE DEF new
<1>11. /\ publisherEndpoint'[k] = new
       /\ \A m \in Endpoints : m # k => publisherEndpoint'[m] = publisherEndpoint[m]
  BY <1>2, <1>3
<1>12. EndpointsStay  BY <1>2, <1>10, <1>11 DEF EndpointsStay, e
<1>13. Bound'  BY <1>2 DEF Bound, SubscriberConnector
<1>14. InOrder'
  <2>1. \A m \in Endpoints : QueueSteps(m)  BY <1>2, TakeItem
  <2>2. \A r \in Publishers : published[r] <= published'[r]  BY <1>2, <1>3
  <2> QED  BY <1>2, <1>3, <1>12, <2>1, <2>2, QueueStep
<1> QED  BY <1>13, <1>14

LEMMA NoneOf == ASSUME NEW x PROVE [i \in 1..0 |-> x] = <<>>
<1>1. [i \in 1..0 |-> x] \in Seq({x})  OBVIOUS
<1>2. Len([i \in 1..0 |-> x]) = 0  OBVIOUS
<1> QED  BY <1>1, <1>2

LEMMA OneOf == ASSUME NEW x, NEW f, f = [i \in 1..1 |-> x] PROVE f = <<x>>
<1>1. f \in Seq({x})  OBVIOUS
<1>2. Len(f) = 1 /\ f[1] = x  OBVIOUS
<1> QED  BY <1>1, <1>2

\* An endpoint puts a message once on the link to a remote of it, and on that
\* to its group.
LEMMA CopiesAre ==
    ASSUME NEW e \in PublisherEndpoint, IsInjective(e.remotes), NEW p, NEW q, NEW l, NEW n
    PROVE  \/ Copies(e, p, q, l, n) = <<>>
           \/ /\ Copies(e, p, q, l, n) = <<Packet(e, n)>>
              /\ l.from = p /\ l.qos = q
              /\ e.dest = None => l.to \in Range(e.remotes)
<1> DEFINE targets == IF l.from = p /\ l.qos = q THEN Targets(e) ELSE <<>>
           here == {k \in DOMAIN targets : targets[k] = l.to}
<1>1. Copies(e, p, q, l, n) = [i \in 1..Cardinality(here) |-> Packet(e, n)]
  BY DEF Copies
<1>2. \A i, j \in here : i = j
  <2>1. CASE targets = <<>>  BY <2>1, DOMAIN <<>> = {}
  <2>2. CASE targets = e.remotes  BY <2>2 DEF IsInjective
  <2>3. CASE targets = <<e.dest>>  BY <2>3, DOMAIN <<e.dest>> = {1}
  <2> QED  BY <2>1, <2>2, <2>3 DEF Targets
<1>3. CASE here = {}
  <2>1. Cardinality(here) = 0  BY <1>3, FS_EmptySet
  <2>2. Copies(e, p, q, l, n) = <<>>
    <3> HIDE DEF here
    <3> QED  BY <1>1, <2>1, NoneOf
  <2> QED  BY <2>2
<1>4. CASE here # {}
  <2>1. PICK i \in here : here = {i}  BY <1>2, <1>4
  <2>2. Cardinality(here) = 1  BY <2>1, FS_Singleton
  <2>3. Copies(e, p, q, l, n) = <<Packet(e, n)>>
    <3> HIDE DEF here
    <3> QED  BY <1>1, <2>2, OneOf
  <2>4. l.from = p /\ l.qos = q  BY <2>1, DOMAIN <<>> = {}
  <2>5. e.dest = None => l.to \in Range(e.remotes)
    BY <2>1, <2>4 DEF Targets, Range
  <2> QED  BY <2>3, <2>4, <2>5
<1> QED  BY <1>3, <1>4

LEMMA HandleConnectorInDelivers ==
    ASSUME IInv, Bound, InOrder, NEW k \in Endpoints, HandleConnectorIn(k[1], k[2])
    PROVE  Bound' /\ InOrder'
<1> DEFINE e == publisherEndpoint[k]
           n == Head(queue[k]).n
           sent(l) == net[l] \o Copies(e, k[1], k[2], l, n)
<1>1. k = <<k[1], k[2]>> /\ k[1] \in Publishers /\ k[2] \in QoSGroups  BY EndpointIs
<1>2. /\ queue[k] # <<>> /\ Head(queue[k]).type = "PUBLISH"
      /\ queue' = [queue EXCEPT ![k] = Tail(queue[k])]
      /\ UNCHANGED net \/ net' = [l \in Links |-> sent(l)]
      /\ UNCHANGED <<applications, publisherEndpoint, subscriberEndpoint, published, received>>
  BY <1>1 DEF HandleConnectorIn, registryVars, endpointVars
<1>3. /\ queue \in [Endpoints -> Seq(Item)] /\ published \in [Publishers -> Nat] /\ TypeOK
      /\ publisherEndpoint \in [Endpoints -> PublisherEndpoint \cup {None}]
  BY DEF IInv, TypeOK
<1>4. EndpointsStay  BY <1>2 DEF EndpointsStay
<1>5. Bound'  BY <1>2 DEF Bound, SubscriberConnector
<1>6. /\ \A m \in Endpoints : QueueSteps(m)
      /\ \A m \in Endpoints : m # k => queue'[m] = queue[m]
      /\ \A m \in Endpoints : \A x :
            Later(x, queue[m], Publishes) => Later(x, queue'[m], Publishes)
      /\ n \in 1..published[k[1]]
      /\ Later(n, queue'[k], Publishes)
      /\ \A x : Later(x, queue[k], Publishes) => x < n
  BY <1>2, TakeItem
<1>7. CASE UNCHANGED net
  <2>1. \A r \in Publishers : published[r] <= published'[r]  BY <1>2, <1>3
  <2> QED  BY <1>2, <1>3, <1>4, <1>5, <1>6, <1>7, <2>1, QueueStep
<1>8. CASE net' = [l \in Links |-> sent(l)]
  <2>1. /\ e \in PublisherEndpoint /\ e # None /\ MadeFor(e, k[1], k[2])
        /\ IsInjective(e.remotes)
    BY <1>2, <1>3 DEF IInv, Queued, Made, RemotesServed
  <2>2. PICK packet : packet = Packet(e, n)  OBVIOUS
  <2>3. packet \in Packets /\ packet.n = n
    <3>1. n \in Nat  BY <1>3, <1>6, <1>1
    <3> HIDE DEF n, e
    <3> QED  BY <2>1, <2>2, <3>1 DEF Packet, Packets, CreateSomeIpPacket, PublisherEndpoint
  <2> HIDE DEF n
  <2>4. ASSUME NEW l \in Links
        PROVE  \/ net'[l] = net[l]
               \/ /\ net'[l] = Append(net[l], packet)
                  /\ <<l.from, l.qos>> = k
                  /\ e.dest = None => l.to \in Range(e.remotes)
    <3>1. net[l] \in Seq(Packets)  BY <1>3, PacketIs
    <3>2. net'[l] = net[l] \o Copies(e, k[1], k[2], l, n)  BY <1>8
    <3>3. CASE Copies(e, k[1], k[2], l, n) = <<>>
      BY <3>1, <3>2, <3>3
    <3>4. CASE /\ Copies(e, k[1], k[2], l, n) = <<packet>>
               /\ l.from = k[1] /\ l.qos = k[2]
               /\ e.dest = None => l.to \in Range(e.remotes)
      <4>1. net[l] \o <<packet>> = Append(net[l], packet)  BY <2>3, <3>1
      <4>2. <<l.from, l.qos>> = k  BY <1>1, <3>4
      <4> QED  BY <3>2, <3>4, <4>1, <4>2
    <3> HIDE DEF e
    <3> QED  BY <2>1, <2>2, <3>3, <3>4, CopiesAre
  <2> HIDE DEF sent
  <2>5. Carrying'
    <3> SUFFICES ASSUME NEW l \in Links, net'[l] # <<>>  PROVE Reaches(l)'
      BY DEF Carrying
    <3>1. CASE net[l] # <<>>
      BY <1>4, <3>1, ReachesStays DEF InOrder, Carrying
    <3>2. CASE net[l] = <<>>
      <4>1. <<l.from, l.qos>> = k /\ (e.dest = None => l.to \in Range(e.remotes))
        BY <2>4, <3>2
      <4>2. l.qos = k[2]  BY <1>1, <4>1
      <4>3. l.qos \notin MCAST => e.dest = None  BY <2>1, <4>2 DEF MadeFor
      <4> QED  BY <1>2, <2>1, <4>1, <4>3 DEF Reaches, e
    <3> QED  BY <3>1, <3>2
  <2>6. QueuesRise'  BY <1>6 DEF QueuesRise, QueueSteps
  <2>7. LinksRise'
    <3> SUFFICES ASSUME NEW l \in Links PROVE LinkRises(l)'  BY DEF LinksRise
    <3>1. LinkRises(l) /\ net[l] \in Seq(Packets) /\ <<l.from, l.qos>> \in Endpoints
      BY <1>3, PacketIs, LinkFacts DEF InOrder, LinksRise
    <3>2. PICK old, new : old = net[l] /\ new = net'[l]  OBVIOUS
    <3>3. /\ Rising(old, Packets) /\ Within(old, Packets, published[l.from])
          /\ \A i \in DOMAIN old : Later(old[i].n, queue[<<l.from, l.qos>>], Publishes)
          /\ \A i \in DOMAIN old : Later(old[i].n, queue'[<<l.from, l.qos>>], Publishes)
      BY <1>6, <3>1, <3>2 DEF LinkRises
    <3>4. CASE new = old
      BY <1>2, <3>2, <3>3, <3>4 DEF LinkRises
    <3>5. CASE new = Append(old, packet) /\ <<l.from, l.qos>> = k
      <4>1. l.from = k[1]  BY <1>1, <3>5
      <4>2. \A i \in DOMAIN old : old[i].n < packet.n  BY <1>6, <2>3, <3>3, <3>5
      <4>3. Rising(new, Packets)  BY <2>3, <3>1, <3>2, <3>3, <3>5, <4>2, AppendRises
      <4>4. Within(new, Packets, published[l.from])
        BY <1>6, <2>3, <3>1, <3>2, <3>3, <3>5, <4>1, AppendRises
      <4>5. \A i \in DOMAIN new : (i \in DOMAIN old /\ new[i] = old[i]) \/ new[i] = packet
        BY <2>3, <3>1, <3>2, <3>5, AppendIs
      <4>6. Later(packet.n, queue'[k], Publishes)  BY <1>6, <2>3
      <4>7. \A i \in DOMAIN new : Later(new[i].n, queue'[<<l.from, l.qos>>], Publishes)
        BY <3>3, <3>5, <4>5, <4>6
      <4> QED  BY <1>2, <3>2, <4>3, <4>4, <4>7 DEF LinkRises
    <3> QED  BY <2>4, <3>2, <3>4, <3>5
  <2>8. ReceivedRises'
    <3> SUFFICES ASSUME NEW s \in Subscribers, NEW i \in DOMAIN received[s],
                        NEW p, p = received[s][i].from, NEW x, x = received[s][i].n
                 PROVE  Past(s, p, x)'
      BY <1>2 DEF ReceivedRises
    <3>1. p \in Publishers  BY <1>3, ReceivedIs
    <3>2. Past(s, p, x)  BY DEF InOrder, ReceivedRises
    <3>3. ASSUME NEW l \in Links, l.from = p, l.qos = ConnectorOf(s).qos,
                 Later(x, net[l], Packets)
          PROVE  Later(x, net'[l], Packets)
      <4>1. CASE net'[l] = net[l]  BY <3>3, <4>1
      <4>2. CASE net'[l] = Append(net[l], packet) /\ <<l.from, l.qos>> = k
        <5>1. k[1] = p /\ k[2] = ConnectorOf(s).qos  BY <1>1, <3>3, <4>2
        <5>2. x < packet.n  BY <1>6, <2>3, <3>2, <5>1 DEF Past
        <5>3. net[l] \in Seq(Packets)  BY <1>3, PacketIs
        <5> QED  BY <2>3, <3>3, <4>2, <5>2, <5>3, AppendRises
      <4> QED  BY <2>4, <4>1, <4>2
    <3>4. x <= published'[p]  BY <1>2, <3>2 DEF Past
    <3> QED  BY <1>4, <1>6, <3>1, <3>2, <3>3, <3>4, PastStays
  <2> QED  BY <1>5, <2>5, <2>6, <2>7, <2>8 DEF InOrder
<1> QED  BY <1>2, <1>7, <1>8

LEMMA LoseDelivers ==
    ASSUME IInv, Bound, InOrder, NEW l \in Links, Lose(l) \/ ConnectionFails(l)
    PROVE  Bound' /\ InOrder'
<1>1. /\ UNCHANGED <<registryVars, endpointVars, published, queue, received>>
      /\ \/ net[l] # <<>> /\ net' = [net EXCEPT ![l] = Tail(net[l])]
         \/ net' = [net EXCEPT ![l] = <<>>]
  BY DEF Lose, ConnectionFails
<1>2. TypeOK /\ net \in [Links -> Seq(Packets)]  BY DEF IInv, TypeOK, Packets
<1>3. \A m \in Links : Shrinks(m)  BY <1>1, <1>2 DEF Shrinks
<1>4. /\ Carrying' /\ QueuesRise' /\ LinksRise'
      /\ \A s \in Subscribers, p \in Publishers, n \in Nat : Past(s, p, n) => Past(s, p, n)'
  BY <1>1, <1>3, ShrinkStep
<1>5. ReceivedRises'
  <2> SUFFICES ASSUME NEW s \in Subscribers, NEW i \in DOMAIN received[s],
                      NEW p, p = received[s][i].from, NEW n, n = received[s][i].n
               PROVE  Past(s, p, n)'
    BY <1>1 DEF ReceivedRises
  <2>1. p \in Publishers /\ n \in Nat  BY <1>2, ReceivedIs
  <2>2. Past(s, p, n)  BY DEF InOrder, ReceivedRises
  <2> QED  BY <1>4, <2>1, <2>2
<1>6. Bound'  BY <1>1 DEF Bound, SubscriberConnector, registryVars, endpointVars
<1> QED  BY <1>4, <1>5, <1>6 DEF InOrder

-----------------------------------------------------------------------------
(* A message arrives.                                                      *)

\* One QoS group of a publisher has an endpoint for each transport.
LEMMA OneTCPGroup ==
    ASSUME NEW p \in Publishers, NEW c \in Connectors, NEW d \in Connectors,
           Fits(c, p), Fits(d, p), c.qos \in TCP, d.qos \in TCP
    PROVE  c.qos = d.qos
<1>1. PublisherApp[p].manager = "SomeIpManager" => PublisherApp[p].qos \subseteq SOMEIP
  BY DataPlaneAssumption
<1>2. /\ c.qos \in {"IP_TCP", "SOMEIP_TCP"} /\ d.qos \in {"IP_TCP", "SOMEIP_TCP"}
  BY DEF TCP
<1>3. "SOMEIP_TCP" \in SOMEIP /\ "IP_TCP" \notin SOMEIP  BY DEF SOMEIP
<1> QED  BY <1>1, <1>2, <1>3 DEF Fits

\* Connectors of one service and QoS group fit the same publishers.
LEMMA FitsAlike ==
    ASSUME NEW c, NEW d, NEW p, Fits(d, p), c.qos = d.qos, c.service = d.service
    PROVE  Fits(c, p)
BY DEF Fits

\* The endpoints which a socket gives a message to are on its way.
LEMMA ListensTo ==
    ASSUME AddressesApart, IInv, Bound, InOrder,
           NEW l \in Links, net[l] # <<>>, NEW c \in Listeners(l)
    PROVE  Fits(c, l.from) /\ Way(c, l)
<1> DEFINE p == l.from
           k == <<l.from, l.qos>>
<1>1. /\ c \in Connectors /\ subscriberEndpoint[c] # None /\ c.host = l.host
      /\ subscriberEndpoint[c].local = l.to
      /\ \/ /\ l.qos \in TCP /\ c.qos \in TCP
            /\ subscriberEndpoint[c].remote = <<PublisherApp[p].host, PublisherApp[p].tcpPort>>
         \/ l.qos \in UDP /\ c.qos \in UDP
         \/ l.qos \in MCAST /\ c.qos \in MCAST
  BY DEF Listeners
<1>2. /\ k \in Endpoints /\ k[1] = p /\ k[2] = l.qos /\ p \in Publishers
      /\ l.qos \in MCAST => l.to = GroupAddress(p)
  BY LinkFacts
<1>3. /\ publisherEndpoint[k] # None
      /\ l.qos \notin MCAST => l.to \in Range(publisherEndpoint[k].remotes)
  BY DEF InOrder, Carrying, Reaches
<1>4. PICK d \in Connectors : d.qos = l.qos /\ Fits(d, p)
  BY <1>2 DEF Endpoints
<1>5. TypeOK /\ Attached  BY DEF IInv
<1>6. Fits(c, p) /\ c.qos = l.qos
  <2>1. CASE l.qos \in TCP /\ c.qos \in TCP
    <3>1. subscriberEndpoint[c].remote = <<PublisherApp[p].host, PublisherApp[p].tcpPort>>
      BY <1>1, <2>1 DEF TCP, UDP, MCAST
    <3>2. PICK r \in Publishers : ConnectsTo(c, r)  BY <1>1, <2>1 DEF IInv, Listening
    <3>3. p \in publisherConnectors  BY <1>2, <1>3 DEF IInv, Made
    <3>4. <<r, c.qos>> \in Endpoints  BY <1>1, <3>2, EndpointIs DEF ConnectsTo
    <3>5. /\ PublisherApp[p].host = PublisherApp[r].host
          /\ PublisherApp[p].tcpPort = PublisherApp[r].tcpPort
      BY <3>1, <3>2 DEF ConnectsTo
    <3>6. \E j, m \in Endpoints : j[1] = p /\ m[1] = r /\ {j[2], m[2]} \subseteq TCP
      BY <1>2, <2>1, <3>4
    <3>7. PublisherApp[p].service = PublisherApp[r].service
      BY <1>2, <3>5, <3>6, EndpointAssumption
    <3>8. r = p  BY <3>2, <3>3, <3>5, <3>7 DEF IInv, Registered, ConnectsTo
    <3>9. Fits(c, p)  BY <3>2, <3>8 DEF ConnectsTo
    <3> QED  BY <1>1, <1>2, <1>4, <2>1, <3>9, OneTCPGroup
  <2>2. CASE l.qos \in UDP /\ c.qos \in UDP
    <3>1. l.qos \notin MCAST /\ c.qos \notin MCAST  BY <2>2 DEF UDP, MCAST
    <3>2. Served(k, l.to)  BY <1>2, <1>3, <3>1 DEF IInv, RemotesServed, Range
    <3>3. PICK o \in Connectors : Serves(k, l.to, o)  BY <3>2 DEF Served
    <3>4. /\ Fits(o, p) /\ o.qos = l.qos /\ applications[o] # <<>>
          /\ l.to = LocalAddress(SubscriberConnector(o))
      BY <1>2, <2>2, <3>3 DEF Serves
    <3>5. /\ applications[c] # <<>>
          /\ l.to = LocalAddress(SubscriberConnector(c))
      BY <1>1, <3>1 DEF Bound
    <3>6. PICK s \in Subscribers :
             /\ ConnectorOf(s) = c
             /\ SubscriberConnector(c) = SubscriberApp[s]
             /\ SubscriberApp[s].qos = c.qos
      BY <1>1, <1>5, <3>5, ConnectorOfFirst
    <3>7. PICK t \in Subscribers :
             /\ ConnectorOf(t) = o
             /\ SubscriberConnector(o) = SubscriberApp[t]
             /\ SubscriberApp[t].qos = o.qos
      BY <1>5, <3>4, ConnectorOfFirst
    <3>8. /\ {SubscriberApp[s].qos, SubscriberApp[t].qos} \subseteq UDP
          /\ LocalAddress(SubscriberApp[s]) = LocalAddress(SubscriberApp[t])
      BY <2>2, <3>4, <3>5, <3>6, <3>7
    <3>9. c = o  BY <3>6, <3>7, <3>8 DEF AddressesApart
    <3> QED  BY <3>4, <3>9
  <2>3. CASE l.qos \in MCAST /\ c.qos \in MCAST
    <3>1. PICK r \in Publishers : Fits(c, r) /\ subscriberEndpoint[c].local = GroupAddress(r)
      BY <1>1, <2>3 DEF Bound
    <3>2. <<r, c.qos>> \in Endpoints  BY <1>1, <3>1, EndpointIs
    <3>3. GroupAddress(p) = GroupAddress(r)  BY <1>1, <1>2, <2>3, <3>1
    <3>4. l.qos = c.qos /\ PublisherApp[p].service = PublisherApp[r].service
      <4>1. PICK m \in Endpoints : m = <<r, c.qos>>  BY <3>2
      <4>2. {k[2], m[2]} \subseteq MCAST /\ GroupAddress(k[1]) = GroupAddress(m[1])
        BY <1>2, <2>3, <3>3, <4>1
      <4>3. k[2] = m[2] /\ PublisherApp[k[1]].service = PublisherApp[m[1]].service
        BY <1>2, <4>2 DEF AddressesApart
      <4> QED  BY <1>2, <4>1, <4>3
    <3>5. c.service = d.service  BY <1>4, <3>1, <3>4 DEF Fits
    <3> QED  BY <1>4, <3>4, <3>5, FitsAlike
  <2> QED  BY <1>1, <2>1, <2>2, <2>3
<1> QED  BY <1>1, <1>6 DEF Way

\* Two links by which a connector gets messages of one publisher are one.
LEMMA OneWay ==
    ASSUME NEW c, NEW l \in Links, NEW m \in Links, Way(c, l), Way(c, m), l.from = m.from
    PROVE  l = m
BY LinkFacts DEF Way

\* A subscriber that gets a message.
LEMMA TakerIs ==
    ASSUME IInv, NEW c \in Connectors, NEW s \in Range(applications[c])
    PROVE  s \in Subscribers /\ ConnectorOf(s) = c
<1>1. applications[c] \in Seq(Subscribers) /\ Attached  BY DEF IInv, TypeOK
<1>2. PICK i \in DOMAIN applications[c] : s = applications[c][i]  BY DEF Range
<1> QED  BY <1>1, <1>2 DEF Attached

\* What a message's arrival does to the applications.
LEMMA ArriveIs ==
    ASSUME NEW l \in Links, Arrive(l)
    PROVE  /\ net[l] # <<>>
           /\ net' = [net EXCEPT ![l] = Tail(net[l])]
           /\ UNCHANGED <<registryVars, endpointVars, published, queue>>
           /\ \/ UNCHANGED received
              \/ \E D \in SUBSET Listeners(l) : ForwardToApplications(D, l)
<1> DEFINE takers == {c \in Listeners(l) : Decapsulates(c, Head(net[l]))}
<1>1. \/ ForwardToApplications(takers, l)
      \/ \E c \in Listeners(l) : ForwardToApplications({c} \cap takers, l)
      \/ UNCHANGED received
  BY DEF Arrive
<1>2. takers \in SUBSET Listeners(l) /\ \A c : {c} \cap takers \in SUBSET Listeners(l)
  OBVIOUS
<1> HIDE DEF takers
<1>3. \/ UNCHANGED received
      \/ \E D \in SUBSET Listeners(l) : ForwardToApplications(D, l)
  BY <1>1, <1>2
<1> QED  BY <1>3 DEF Arrive

LEMMA HeadPacket ==
    ASSUME IInv, InOrder, NEW l \in Links, net[l] # <<>>
    PROVE  LET n == Head(net[l]).n
           IN  /\ n \in Nat /\ n \in 1..published[l.from]
               /\ Later(n, Tail(net[l]), Packets)
               /\ Later(n, queue[<<l.from, l.qos>>], Publishes)
               /\ \A x : Later(x, net[l], Packets) => x < n
<1>1. TypeOK /\ LinkRises(l)  BY DEF IInv, InOrder, LinksRise
<1>2. /\ net[l] \in Seq(Packets)
      /\ \A i \in DOMAIN net[l] : net[l][i] \in Packets /\ net[l][i].n \in Nat
  BY <1>1, PacketIs
<1>3. PICK packets : packets = net[l]  OBVIOUS
<1>4. /\ packets \in Seq(Packets) /\ packets # <<>> /\ Rising(packets, Packets)
      /\ Within(packets, Packets, published[l.from])
  BY <1>1, <1>2, <1>3 DEF LinkRises
<1>5. 1 \in DOMAIN packets /\ Head(packets) = packets[1] /\ Head(packets) \in Packets
  BY <1>4, TailIs
<1>6. Later(Head(packets).n, Tail(packets), Packets)  BY <1>4, <1>5, TailRises
<1>7. Later(packets[1].n, queue[<<l.from, l.qos>>], Publishes)
  BY <1>1, <1>3, <1>5 DEF LinkRises
<1>8. \A x : Later(x, packets, Packets) => x < packets[1].n  BY <1>5 DEF Later
<1>9. packets[1].n \in 1..published[l.from]  BY <1>4, <1>5 DEF Within
<1> QED  BY <1>2, <1>3, <1>5, <1>6, <1>7, <1>8, <1>9

LEMMA ArriveDelivers ==
    ASSUME AddressesApart, IInv, Bound, InOrder, NEW l \in Links, Arrive(l)
    PROVE  Bound' /\ InOrder'
<1>1. /\ net[l] # <<>> /\ net' = [net EXCEPT ![l] = Tail(net[l])]
      /\ UNCHANGED <<registryVars, endpointVars, published, queue>>
      /\ \/ UNCHANGED received
         \/ \E D \in SUBSET Listeners(l) : ForwardToApplications(D, l)
  BY ArriveIs
<1>2. TypeOK /\ net \in [Links -> Seq(Packets)] /\ received \in [Subscribers -> Seq(Message)]
  BY DEF IInv, TypeOK, Packets
<1>3. UNCHANGED <<applications, publisherEndpoint, subscriberEndpoint>>
  BY <1>1 DEF registryVars, endpointVars
<1>4. /\ net'[l] = Tail(net[l])
      /\ \A m \in Links : Shrinks(m)
  BY <1>1, <1>2 DEF Shrinks
<1>5. /\ Carrying' /\ QueuesRise' /\ LinksRise'
      /\ \A s \in Subscribers, p \in Publishers, n \in Nat : Past(s, p, n) => Past(s, p, n)'
  BY <1>1, <1>4, ShrinkStep
<1>6. Bound'  BY <1>3 DEF Bound, SubscriberConnector
<1> DEFINE message == [from |-> l.from, n |-> Head(net[l]).n]
<1>7. ASSUME NEW s \in Subscribers
      PROVE  \/ received'[s] = received[s]
             \/ /\ received'[s] = Append(received[s], message)
                /\ \E c \in Listeners(l) : s \in Range(applications[c])
  <2>1. ASSUME NEW D \in SUBSET Listeners(l), ForwardToApplications(D, l)
        PROVE  \/ received'[s] = received[s]
               \/ /\ received'[s] = Append(received[s], message)
                  /\ \E c \in Listeners(l) : s \in Range(applications[c])
    BY <2>1 DEF ForwardToApplications
  <2> QED  BY <1>1, <2>1
<1>8. /\ Head(net[l]).n \in Nat /\ Head(net[l]).n \in 1..published[l.from]
      /\ Later(Head(net[l]).n, Tail(net[l]), Packets)
      /\ Later(Head(net[l]).n, queue[<<l.from, l.qos>>], Publishes)
  BY <1>1, HeadPacket
<1>9. l.from \in Publishers /\ message \in Message
  BY <1>8, LinkFacts DEF Message
<1>10. ASSUME NEW s \in Subscribers, NEW c \in Listeners(l), s \in Range(applications[c]),
              NEW n, n = Head(net[l]).n
       PROVE  Past(s, l.from, n)'
  <2>1. c \in Connectors /\ subscriberEndpoint[c] # None  BY DEF Listeners
  <2>2. ConnectorOf(s) = c  BY <1>10, <2>1, TakerIs
  <2>3. Way(c, l)  BY <1>1, ListensTo
  <2>4. published[l.from] \in Nat  BY <1>9 DEF IInv, TypeOK
  <2>5. n <= published'[l.from]  BY <1>1, <1>8, <1>10, <2>4
  <2>6. ASSUME NEW k \in Endpoints, k[1] = l.from, k[2] = c.qos
        PROVE  Later(n, queue'[k], Publishes)
    <3>1. k = <<l.from, l.qos>>  BY <2>3, <2>6, EndpointIs DEF Way
    <3> QED  BY <1>1, <1>8, <1>10, <3>1
  <2>7. ASSUME NEW m \in Links, m.from = l.from, Way(c, m)'
        PROVE  Later(n, net'[m], Packets)
    <3>1. Way(c, m)  BY <1>3, <2>7 DEF Way
    <3>2. m = l  BY <2>3, <2>7, <3>1, OneWay
    <3> QED  BY <1>4, <1>8, <1>10, <3>2
  <2>8. subscriberEndpoint'[c] # None  BY <1>3, <2>1
  <2> QED  BY <2>2, <2>5, <2>6, <2>7, <2>8 DEF Past
<1>11. ReceivedRises'
  <2> SUFFICES ASSUME NEW s \in Subscribers, NEW i \in DOMAIN received'[s],
                      NEW p, p = received'[s][i].from, NEW n, n = received'[s][i].n
               PROVE  Past(s, p, n)'
    BY DEF ReceivedRises
  <2>1. CASE i \in DOMAIN received[s] /\ received'[s][i] = received[s][i]
    <3>1. p = received[s][i].from /\ n = received[s][i].n  BY <2>1
    <3>2. p \in Publishers /\ n \in Nat  BY <1>2, <2>1, <3>1, ReceivedIs
    <3>3. Past(s, p, n)  BY <2>1, <3>1 DEF InOrder, ReceivedRises
    <3> QED  BY <1>5, <3>2, <3>3
  <2>2. CASE /\ received'[s][i] = message
             /\ \E c \in Listeners(l) : s \in Range(applications[c])
    <3>1. p = l.from /\ n = Head(net[l]).n  BY <2>2
    <3> QED  BY <1>10, <2>2, <3>1
  <2>3. received[s] \in Seq(Message)  BY <1>2
  <2> HIDE DEF message
  <2>4. \/ i \in DOMAIN received[s] /\ received'[s][i] = received[s][i]
        \/ /\ received'[s][i] = message
           /\ \E c \in Listeners(l) : s \in Range(applications[c])
    <3>1. CASE received'[s] = received[s]  BY <3>1
    <3>2. CASE received'[s] = Append(received[s], message)
      BY <1>7, <1>9, <2>3, <3>2, AppendIs
    <3> QED  BY <1>7, <3>1, <3>2
  <2> QED  BY <2>1, <2>2, <2>4
<1> QED  BY <1>5, <1>6, <1>11 DEF InOrder

LEMMA StepDelivers ==
    ASSUME AddressesApart, IInv, Bound, InOrder, Step
    PROVE  Bound' /\ InOrder'
<1>1. CASE \/ \E p \in Publishers : RegisterPublisherService(p)
           \/ \E s \in Subscribers : RegisterSubscriberService(s)
  BY <1>1, RegisterDelivers
<1>2. CASE \E p \in Publishers, c \in Connectors :
             ServeSubscription(p, c) \/ Listen(c, p) \/ Establish(c, p)
  BY <1>2, ServeSubscriptionDelivers, ListenDelivers, EstablishDelivers
<1>3. CASE \E p \in Publishers : SendMessage(p)
  BY <1>3, SendMessageDelivers
<1>4. CASE \E k \in Endpoints : ProcessScheduledMessage(k[1], k[2])
  BY <1>4, HandleConnectorInDelivers, HandleTransportInDelivers DEF ProcessScheduledMessage
<1>5. CASE \E l \in Links : Arrive(l) \/ Lose(l) \/ ConnectionFails(l)
  BY <1>5, ArriveDelivers, LoseDelivers
<1> QED  BY <1>1, <1>2, <1>3, <1>4, <1>5 DEF Step

LEMMA DeliveringNext == AddressesApart /\ Delivering /\ [Next]_vars => Delivering'
<1> SUFFICES ASSUME AddressesApart, IInv, Bound, InOrder, [Next]_vars
             PROVE  Delivering'
  BY DEF Delivering
<1>1. IInv'  BY NextInvariant
<1>2. CASE Step  BY <1>1, <1>2, StepDelivers DEF Delivering
<1>3. CASE UNCHANGED vars
  <2>1. UNCHANGED <<applications, publisherEndpoint, subscriberEndpoint, published, queue,
                    net, received>>
    BY <1>3 DEF vars, registryVars, endpointVars, messageVars
  <2>2. Bound'  BY <2>1 DEF Bound, SubscriberConnector
  <2>3. EndpointsStay  BY <2>1 DEF EndpointsStay
  <2>4. InOrder'  BY <2>1, <2>3, SameQueues, QueueStep
  <2> QED  BY <1>1, <2>2, <2>4 DEF Delivering
<1> QED  BY <1>2, <1>3 DEF Next, Terminated

-----------------------------------------------------------------------------
(* The data plane is a channel.                                            *)

LEMMA JoinStep ==
    ASSUME NEW s \in Subscribers, RegisterSubscriberService(s)
    PROVE  \E c \in Connectors : Chan!Join(s, c)
<1> DEFINE c == ConnectorOf(s)
<1>1. c \in Connectors  BY DEF Connectors
<1>2. applications' = [applications EXCEPT ![c] = Append(applications[c], s)]
  BY <1>1 DEF RegisterSubscriberService, AddApplication
<1>3. \A d \in Connectors : s \notin Chan!Elements(applications[d])
  BY DEF RegisterSubscriberService, Chan!Elements, Range
<1>4. UNCHANGED <<published, received>>
  BY DEF RegisterSubscriberService, messageVars
<1> QED  BY <1>1, <1>2, <1>3, <1>4 DEF Chan!Join

LEMMA DeliverStep ==
    ASSUME AddressesApart, IInv, InOrder, Bound, NEW l \in Links, Arrive(l)
    PROVE  \/ UNCHANGED <<applications, published, received>>
           \/ \E p \in Publishers, D \in SUBSET Connectors :
                 \E n \in 1..published[p] : Chan!Deliver(p, n, D)
<1>1. /\ net[l] # <<>>
      /\ UNCHANGED <<registryVars, endpointVars, published, queue>>
      /\ \/ UNCHANGED received
         \/ \E D \in SUBSET Listeners(l) : ForwardToApplications(D, l)
  BY ArriveIs
<1>2. UNCHANGED <<applications, published>>  BY <1>1 DEF registryVars
<1>3. ASSUME NEW D \in SUBSET Listeners(l), ForwardToApplications(D, l)
      PROVE  Chan!Deliver(l.from, Head(net[l]).n, D) /\ D \subseteq Connectors
  <2> DEFINE p == l.from
             n == Head(net[l]).n
             takers == UNION {Chan!Elements(applications[c]) : c \in D}
  <2>1. D \subseteq Connectors  BY DEF Listeners
  <2>2. \A c \in D : Fits(c, p)  BY <1>1, ListensTo
  <2>3. \A s : s \in takers <=> \E c \in D : s \in Range(applications[c])
    BY DEF Chan!Elements, Range
  <2>4. ASSUME NEW s \in takers, NEW m \in Chan!Elements(received[s]), m.from = p
        PROVE  m.n < n
    <3>1. PICK c \in D : s \in Range(applications[c])  BY <2>3
    <3>2. s \in Subscribers /\ ConnectorOf(s) = c  BY <2>1, <3>1, TakerIs
    <3>3. Way(c, l)  BY <1>1, ListensTo
    <3>4. PICK i \in DOMAIN received[s] : m = received[s][i]  BY DEF Chan!Elements
    <3>5. Past(s, m.from, m.n)  BY <3>2, <3>4 DEF InOrder, ReceivedRises
    <3>6. Later(m.n, net[l], Packets)  BY <2>4, <3>2, <3>3, <3>5 DEF Past
    <3> QED  BY <1>1, <3>6, HeadPacket
  <2>5. received' = [s \in Subscribers |->
           IF s \in takers THEN Append(received[s], [from |-> p, n |-> n]) ELSE received[s]]
    BY <1>3, <2>3 DEF ForwardToApplications
  <2> QED  BY <1>2, <2>1, <2>2, <2>4, <2>5 DEF Chan!Deliver
<1>4. l.from \in Publishers /\ Head(net[l]).n \in 1..published[l.from]
  BY <1>1, LinkFacts, HeadPacket
<1> QED  BY <1>1, <1>2, <1>3, <1>4

LEMMA ChannelStep ==
    AddressesApart /\ Delivering /\ [Next]_vars => [Chan!Next]_(Chan!vars)
<1> SUFFICES ASSUME AddressesApart, IInv, Bound, InOrder, [Next]_vars
             PROVE  Chan!Next \/ UNCHANGED <<applications, published, received>>
  BY DEF Delivering, Chan!vars
<1>1. CASE \E s \in Subscribers : RegisterSubscriberService(s)
  BY <1>1, JoinStep DEF Chan!Next
<1>2. CASE \E p \in Publishers : SendMessage(p)
  BY <1>2 DEF SendMessage, registryVars, Chan!Next, Chan!Publish
<1>3. CASE \E l \in Links : Arrive(l)
  BY <1>3, DeliverStep DEF Chan!Next
<1>4. CASE \/ \E p \in Publishers : RegisterPublisherService(p)
           \/ \E p \in Publishers, c \in Connectors :
                 ServeSubscription(p, c) \/ Listen(c, p) \/ Establish(c, p)
           \/ \E k \in Endpoints : HandleConnectorIn(k[1], k[2]) \/ HandleTransportIn(k[1], k[2])
           \/ \E l \in Links : Lose(l) \/ ConnectionFails(l)
  BY <1>4 DEF RegisterPublisherService, ServeSubscription, Listen, Establish,
     HandleConnectorIn, HandleTransportIn, Lose, ConnectionFails, registryVars, messageVars
<1>5. CASE UNCHANGED vars
  BY <1>5 DEF vars, registryVars, messageVars
<1> QED  BY <1>1, <1>2, <1>3, <1>4, <1>5 DEF Next, Step, Terminated, ProcessScheduledMessage

\* Where addresses tell services apart, messages reach the subscribers of
\* their service only, in the order of publication and at most once: for any
\* applications, in any order of registrations, subscriptions, connections and
\* messages, and whatever is lost or fails.
THEOREM DataPlaneIsChannel == AddressesApart => (Spec => ImplementsChannel)
<1> SUFFICES ASSUME AddressesApart  PROVE Spec => ImplementsChannel
  OBVIOUS
<1>1. Init => Delivering  BY DeliveringInit
<1>2. Delivering /\ [Next]_vars => Delivering'  BY DeliveringNext
<1>3. Delivering /\ [Next]_vars => [Chan!Next]_(Chan!vars)  BY ChannelStep
<1>4. Init => Chan!Init  BY DEF Init, Chan!Init
<1> QED  BY <1>1, <1>2, <1>3, <1>4, PTL DEF Spec, ImplementsChannel, Chan!Spec
=============================================================================
