--------------------------- MODULE SomeIpSDMessages ---------------------------
(***************************************************************************)
(* What the messages of SOME/IP service discovery say: how a discovery     *)
(* notification becomes an entry with options, how the other host makes a  *)
(* notification of them, and how the managers on both sides copy from one  *)
(* notification to the next: from an offer to the subscription, from that  *)
(* to the acknowledgement and to the endpoint of the subscriber.           *)
(*                                                                         *)
(* One service instance, its publisher and the hosts that read its offers. *)
(* When offers and subscriptions are sent is left to SomeIpDiscovery.      *)
(***************************************************************************)
EXTENDS Naturals, Sequences, SequencesExt, Bags

CONSTANTS
    Publisher,         \* address of the publisher's host
    Readers,           \* addresses of the other hosts
    Groups,            \* multicast addresses
    Ports,
    Offering,          \* possible parameters of the publisher's host
    Requesting,        \* possible parameters of each reader
    MaxOffers,         \* bound: multicast offers
    MaxFinds,          \* bound: finds of each reader
    None

\* The order of QoSGroup, which is that of the options of an offer.
GroupOrder == <<"SOMEIP_TCP", "SOMEIP_UDP", "SOMEIP_UDP_MCAST">>
SOMEIP == Range(GroupOrder)
Configurations == {"8021Q", "Ressource", "RealTime"}

\* hasQoSNP: does the host have the QoS negotiation protocol.  values: the
\* configurations the application has parameters for, include: those that the
\* host puts into messages.
PublisherHost ==
    [manager : {"SomeIpManager", "QoSManager"}, hasQoSNP : BOOLEAN, qosGroups : SUBSET SOMEIP,
     tcpPort : Ports, udpPort : Ports, mcastDest : {None} \cup (Groups \X Ports),
     values : SUBSET Configurations, include : SUBSET Configurations,
     preventReservation : BOOLEAN]

\* tcpPort, udpPort: of the connector of each requested group.
ReaderHost(h) ==
    /\ h.manager \in {"SomeIpManager", "QoSManager"} /\ h.hasQoSNP \in BOOLEAN
    /\ h.requests \subseteq SOMEIP
    /\ h.tcpPort \in [h.requests -> Ports] /\ h.udpPort \in [h.requests -> Ports]
    /\ h.include \subseteq Configurations /\ h.deadline \in BOOLEAN

Hosts == Readers \cup {Publisher}
Protocols == {"TCP", "UDP"}

\* A QoSManager does not initialise without the negotiation protocol, and a
\* multicast service has a group.
ASSUME SomeIpSDMessagesAssumption ==
    /\ \A h \in Offering :
          /\ h \in PublisherHost
          /\ h.manager = "QoSManager" => h.hasQoSNP
          /\ "SOMEIP_UDP_MCAST" \in h.qosGroups => h.mcastDest # None
    /\ \A r \in Readers : \A h \in Requesting[r] :
          ReaderHost(h) /\ (h.manager = "QoSManager" => h.hasQoSNP)
    /\ Publisher \notin Readers
    /\ None \notin Ports \cup Groups \cup Hosts
    /\ None \notin Protocols
    /\ MaxOffers \in Nat /\ MaxFinds \in [Readers -> Nat]

VARIABLES
    publisher,   \* the publisher's host, chosen at the beginning
    reader,      \* the readers, chosen at the beginning
    net,         \* messages on their way
    requested,   \* requested, of the subscriptions of each reader
    csi,         \* what a reader knows of the endpoint it listens to, per QoS group
    found,       \* host at which a reader's QoSManager creates a broker, or None
    remotes,     \* remotes of the publisher's endpoints
    offers, finds, \* how many were sent
    aborted      \* has a handler thrown: the end of the simulation

hosts == <<publisher, reader>>
vars == <<hosts, net, requested, csi, found, remotes, offers, finds, aborted>>

-----------------------------------------------------------------------------
(* Notifications.                                                          *)

\* A notification without any information, with the defaults of the fields.
Notification ==
    [address |-> None, qosGroups |-> {}, qosGroup |-> None, tcpPort |-> None,
     udpPort |-> None, mcastDest |-> None, values |-> {}, preventReservation |-> FALSE]

\* What the manager of the publisher offers, with the address to send it to.
\* A QoSManager leaves out the multicast group and all other values.
ServiceOffering(address) ==
    LET n == [Notification EXCEPT !.address = address, !.qosGroups = publisher.qosGroups,
                                  !.tcpPort = publisher.tcpPort, !.udpPort = publisher.udpPort]
    IN  IF publisher.manager = "QoSManager" THEN n
        ELSE [n EXCEPT !.mcastDest = publisher.mcastDest, !.values = publisher.values,
                       !.preventReservation = publisher.preventReservation]

-----------------------------------------------------------------------------
(* Options.                                                                *)

UnicastOptions ==
    [type : {"IPV4ENDPOINT"}, address : Hosts, protocol : Protocols \cup {None},
     port : Ports \cup {None}]
MulticastOptions ==
    [type : {"IPV4MULTICAST"}, address : Groups, protocol : {"UDP"}, port : Ports]
ConfigurationOptions == [type : {"CONFIGURATION"}, kind : Configurations]
Option == UnicastOptions \cup MulticastOptions \cup ConfigurationOptions

EndpointOption(address, protocol, port) ==
    [type |-> "IPV4ENDPOINT", address |-> address, protocol |-> protocol, port |-> port]
MulticastOption(dest) ==
    [type |-> "IPV4MULTICAST", address |-> dest[1], protocol |-> "UDP", port |-> dest[2]]
ConfigurationOption(kind) == [type |-> "CONFIGURATION", kind |-> kind]

\* Mutant: the UDP option has the TCP port.
CreateIpv4Endpoint_TcpPort(local, n, group) ==
    CASE group = "SOMEIP_UDP_MCAST" -> MulticastOption(n.mcastDest)
      [] group = "SOMEIP_UDP"       -> EndpointOption(local, "UDP", n.tcpPort)
      [] group = "SOMEIP_TCP"       -> EndpointOption(local, "TCP", n.tcpPort)

\* The option for a QoS group, sent by the host local.
CreateIpv4Endpoint(local, n, group) ==
    CASE group = "SOMEIP_TCP"       -> EndpointOption(local, "TCP", n.tcpPort)
      [] group = "SOMEIP_UDP"       -> EndpointOption(local, "UDP", n.udpPort)
      [] group = "SOMEIP_UDP_MCAST" -> MulticastOption(n.mcastDest)

\* The subsequence of the order that is in set S.
InOrder(order, S) ==
    LET selected[i \in 0..Len(order)] ==
            IF i = 0 THEN <<>>
            ELSE IF order[i] \in S THEN Append(selected[i - 1], order[i]) ELSE selected[i - 1]
    IN  selected[Len(order)]

\* A message of one entry with its number of options: a header to which entry
\* and options were appended.
SomeIpSDHeader(type, from, to, num1stOptions, options) ==
    [type |-> type, from |-> from, to |-> to, num1stOptions |-> num1stOptions,
     options |-> options]

\* The configurations that the entry announces.
OfferedConfigurations(include, n) ==
    IF n.preventReservation THEN {} ELSE include \cap n.values

\* Mutant: counts what the host includes, for want of a value or not.
Offer_CountsIncluded(n, to) ==
    LET groups == InOrder(GroupOrder, n.qosGroups)
        configurations == OfferedConfigurations(publisher.include, n)
    IN  IF publisher.hasQoSNP
        THEN SomeIpSDHeader("OFFER", Publisher, to, 1,
                            <<EndpointOption(Publisher, None, None)>>)
        ELSE SomeIpSDHeader("OFFER", Publisher, to,
                Len(groups) + Cardinality(publisher.include),
                [i \in DOMAIN groups |-> CreateIpv4Endpoint(Publisher, n, groups[i])]
                  \o SetToSeq({ConfigurationOption(k) : k \in configurations}))

\* An offer has an option per QoS group and the configurations, with the
\* negotiation protocol an address only.
Offer(n, to) ==
    LET groups == InOrder(GroupOrder, n.qosGroups)
        configurations == OfferedConfigurations(publisher.include, n)
    IN  IF publisher.hasQoSNP
        THEN SomeIpSDHeader("OFFER", Publisher, to, 1,
                            <<EndpointOption(Publisher, None, None)>>)
        ELSE SomeIpSDHeader("OFFER", Publisher, to,
                Len(groups) + Cardinality(configurations),
                [i \in DOMAIN groups |-> CreateIpv4Endpoint(Publisher, n, groups[i])]
                  \o SetToSeq({ConfigurationOption(k) : k \in configurations}))

\* A subscription has the option of its QoS group and maybe a deadline.
SubscribeEventgroup(from, n) ==
    LET deadline == {"RealTime"} \cap reader[from].include \cap n.values
    IN  SomeIpSDHeader("SUBSCRIBE", from, n.address, 1 + Cardinality(deadline),
            <<CreateIpv4Endpoint(from, n, n.qosGroup)>>
              \o SetToSeq({ConfigurationOption(k) : k \in deadline}))

SubscribeEventgroupAck(n) ==
    SomeIpSDHeader("SUBSCRIBEACK", Publisher, n.address, 1,
                   <<CreateIpv4Endpoint(Publisher, n, n.qosGroup)>>)

\* A message without an address goes to the multicast group, so to all readers.
SendTo(address) == IF address = None THEN Readers ELSE {address}

\* What the discovery of host local sends for a signal of its manager.
ReceiveSignal(signal, local, n) ==
    CASE signal = "findResultSignal"   -> {Offer(n, to) : to \in SendTo(n.address)}
      [] signal = "subscribeSignal"    -> {SubscribeEventgroup(local, n)}
      [] signal = "subscribeAckSignal" -> {SubscribeEventgroupAck(n)}

\* Can this option not be read by UpdateFromEndpointOption, which throws?
GroupOf(option) ==
    CASE option.type = "IPV4MULTICAST" -> "SOMEIP_UDP_MCAST"
      [] option.type = "IPV4ENDPOINT" /\ option.protocol = "UDP" -> "SOMEIP_UDP"
      [] option.type = "IPV4ENDPOINT" /\ option.protocol = "TCP" -> "SOMEIP_TCP"
Unreadable(n, option) ==
    \/ option.type = "CONFIGURATION"
    \/ option.protocol = None
    \/ GroupOf(option) \in n.qosGroups

\* What an endpoint option adds to a notification.  That of TCP sets both
\* ports, so the one of UDP has to come after it.
UpdateFromEndpointOption(n, option) ==
    LET m == [n EXCEPT !.qosGroups = @ \cup {GroupOf(option)}]
    IN  CASE option.type = "IPV4MULTICAST" ->
                [m EXCEPT !.mcastDest = <<option.address, option.port>>]
          [] option.type = "IPV4ENDPOINT" /\ option.protocol = "UDP" ->
                [m EXCEPT !.address = option.address, !.udpPort = option.port]
          [] option.type = "IPV4ENDPOINT" /\ option.protocol = "TCP" ->
                [m EXCEPT !.address = option.address, !.tcpPort = option.port,
                          !.udpPort = option.port]

\* The options an entry refers to.
FirstOptions(m) == SubSeq(m.options, 1, m.num1stOptions)

\* Mutant: configurations are not left out.
EndpointOptions_All(m) == FirstOptions(m)

\* The endpoint options among them.
EndpointOptions(m) ==
    InOrder(FirstOptions(m), UnicastOptions \cup MulticastOptions)

\* The notification of these options: none if one of them cannot be read.
ReadOptions(options) ==
    LET read[i \in 0..Len(options)] ==
            IF i = 0 THEN {Notification}
            ELSE {UpdateFromEndpointOption(n, options[i]) :
                     n \in {x \in read[i - 1] : ~Unreadable(x, options[i])}}
    IN  read[Len(options)]

\* Mutant: the source does not matter.
AddressOrSource_None(n, m) == n

\* Without any other address that of the sender is used.
AddressOrSource(n, m) == IF n.address = None THEN [n EXCEPT !.address = m.from] ELSE n

-----------------------------------------------------------------------------
(* Sending offers and finds.                                               *)

Init ==
    /\ publisher \in Offering
    /\ reader \in [Readers -> UNION {Requesting[r] : r \in Readers}]
    /\ \A r \in Readers : reader[r] \in Requesting[r]
    /\ net = EmptyBag
    /\ requested = [r \in Readers |-> {}]
    /\ csi = [r \in Readers |-> [q \in reader[r].requests |-> None]]
    /\ found = [r \in Readers |-> None]
    /\ remotes = [q \in {"SOMEIP_UDP", "SOMEIP_UDP_MCAST"} |-> {}]
    /\ offers = 0
    /\ finds = [r \in Readers |-> 0]
    /\ aborted = FALSE

\* Message m is replaced by those that answer it.
Reply(m, sent) == net' = (net (-) SetToBag({m})) (+) SetToBag(sent)

\* A timer of the SomeIpManager: an offer to all.
ExecuteSdForServiceState ==
    /\ publisher.manager = "SomeIpManager"
    /\ offers < MaxOffers
    /\ offers' = offers + 1
    /\ net' = net (+) SetToBag(
                        ReceiveSignal("findResultSignal", Publisher, ServiceOffering(None)))
    /\ UNCHANGED <<hosts, requested, csi, found, remotes, finds, aborted>>

\* A reader looks for the service.
Find(r) ==
    /\ finds[r] < MaxFinds[r]
    /\ finds' = [finds EXCEPT ![r] = @ + 1]
    /\ net' = net (+) SetToBag({SomeIpSDHeader("FIND", r, Publisher, 0, <<>>)})
    /\ UNCHANGED <<hosts, requested, csi, found, remotes, offers, aborted>>

\* The publisher's manager answers a find, a SomeIpManager not before its
\* first offer.
ProcessFindEntry(m) ==
    /\ Reply(m, IF publisher.manager = "SomeIpManager" /\ offers = 0 THEN {}
                ELSE ReceiveSignal("findResultSignal", Publisher, ServiceOffering(m.from)))
    /\ UNCHANGED <<hosts, requested, csi, found, remotes, offers, finds, aborted>>

-----------------------------------------------------------------------------
(* The handshake.                                                          *)

\* What a host with the negotiation protocol takes from an offer.
ReadAddress(options) ==
    LET unicast == InOrder(options, UnicastOptions)
    IN  IF unicast = <<>> THEN Notification
        ELSE [Notification EXCEPT !.address = Last(unicast).address]

\* The notification of an offer, none if the reader throws.
ReadOffer(r, m) ==
    LET read == IF reader[r].hasQoSNP THEN {ReadAddress(EndpointOptions(m))}
                ELSE ReadOptions(EndpointOptions(m))
    IN  {AddressOrSource(n, m) : n \in {x \in read : x.address # None \/ x.mcastDest # None}}

\* A subscription for QoS group q of an offer, with the ports of the connector
\* and the offered multicast group.
Subscription(r, n, q) ==
    [Notification EXCEPT !.address = n.address, !.qosGroup = q,
                         !.tcpPort = reader[r].tcpPort[q], !.udpPort = reader[r].udpPort[q],
                         !.mcastDest = n.mcastDest,
                         !.values = IF reader[r].deadline THEN {"RealTime"} ELSE {}]

\* Those of an offer that are not requested already.
Pending(r, n) == (n.qosGroups \cap reader[r].requests) \ requested[r]

\* Mutant: the loop over the QoS groups ends with the first connector.
Subscriptions_First(r, n) ==
    {Subscription(r, n, q) :
        q \in {x \in Pending(r, n) : x = (CHOOSE y \in Pending(r, n) : TRUE)}}

Subscriptions(r, n) == {Subscription(r, n, q) : q \in Pending(r, n)}

ProcessOfferEntry(m) ==
    LET r == m.to
        read == ReadOffer(r, m)
    IN  \/ /\ read = {}
           /\ aborted' = TRUE
           /\ UNCHANGED <<hosts, net, requested, csi, found, remotes, offers, finds>>
        \/ /\ reader[r].manager = "SomeIpManager"
           /\ \E n \in read :
                 /\ Reply(m, UNION {ReceiveSignal("subscribeSignal", r, s) :
                                       s \in Subscriptions(r, n)})
                 /\ requested' = [requested EXCEPT ![r] = @ \cup Pending(r, n)]
           /\ UNCHANGED <<hosts, csi, found, remotes, offers, finds, aborted>>
        \/ /\ reader[r].manager = "QoSManager"
           /\ \E n \in read : found' = [found EXCEPT ![r] = n.address]
           /\ Reply(m, {})
           /\ UNCHANGED <<hosts, requested, csi, remotes, offers, finds, aborted>>

\* Endpoints of the SomeIpManager that are told a subscriber's address.
AddRemotes(S) ==
    remotes' = [q \in DOMAIN remotes |->
        remotes[q] \cup {<<n.address, n.udpPort>> : n \in {x \in S : x.qosGroup = q}}]

\* What the publisher acknowledges: its own ports and the subscriber's group.
Acknowledgement(n) ==
    [Notification EXCEPT !.address = n.address, !.qosGroup = n.qosGroup,
                         !.tcpPort = publisher.tcpPort, !.udpPort = publisher.udpPort,
                         !.mcastDest = n.mcastDest]

\* Each endpoint option is a subscription of its own, served by a SomeIpManager
\* that has the QoS group.
ProcessSubscribeEventGroupEntry(m) ==
    LET read == {ReadOptions(<<option>>) : option \in Range(EndpointOptions(m))}
        subscribed ==
            {[AddressOrSource(n, m) EXCEPT !.qosGroup = CHOOSE q \in n.qosGroups : TRUE] :
                n \in UNION read}
        served == {n \in subscribed : /\ publisher.manager = "SomeIpManager"
                                      /\ n.qosGroup \in publisher.qosGroups}
    IN  /\ Reply(m, UNION {ReceiveSignal("subscribeAckSignal", Publisher,
                                             Acknowledgement(n)) : n \in served})
        /\ AddRemotes(served)
        /\ aborted' = ({} \in read)
        /\ UNCHANGED <<hosts, requested, csi, offers, finds, found>>

\* What the subscriber's endpoint is created with.
ConnectionSpecificInformation(n, q) ==
    [address |-> n.address,
     port |-> IF q = "SOMEIP_TCP" THEN n.tcpPort ELSE n.udpPort,
     dest |-> IF q = "SOMEIP_UDP_MCAST" THEN n.mcastDest ELSE None]

\* The subscription is acknowledged: the first time an endpoint is created.
ProcessSubscribeEventGroupAckEntry(m) ==
    LET r == m.to
        read == {AddressOrSource(n, m) : n \in ReadOptions(FirstOptions(m))}
        acknowledged == (UNION {n.qosGroups : n \in read}) \cap requested[r]
    IN  /\ Reply(m, {})
        /\ csi' = [csi EXCEPT ![r] = [q \in DOMAIN @ |->
              IF q \in acknowledged /\ @[q] = None
              THEN ConnectionSpecificInformation(CHOOSE n \in read : TRUE, q) ELSE @[q]]]
        /\ requested' = [requested EXCEPT ![r] = @ \ acknowledged]
        /\ aborted' = (read = {})
        /\ UNCHANGED <<hosts, found, remotes, offers, finds>>

\* A message arrives: what each type is for.
ProcessSomeIpSDHeader(m) ==
    \/ m.type = "FIND" /\ ProcessFindEntry(m)
    \/ m.type = "OFFER" /\ ProcessOfferEntry(m)
    \/ m.type = "SUBSCRIBE" /\ m.to = Publisher /\ ProcessSubscribeEventGroupEntry(m)
    \/ m.type = "SUBSCRIBEACK" /\ ProcessSubscribeEventGroupAckEntry(m)

\* Timers of the publisher and messages that arrive.
Proceed ==
    \/ ExecuteSdForServiceState
    \/ \E m \in BagToSet(net) : ProcessSomeIpSDHeader(m)

Next == ~aborted /\ (Proceed \/ \E r \in Readers : Find(r))

Spec == Init /\ [][Next]_vars

\* The network delivers and the publisher's timers run.
FairSpec == Spec /\ WF_vars(~aborted /\ Proceed)

-----------------------------------------------------------------------------
(* Properties.                                                             *)

\* Every variable stays in its declared range: every message has a sender and
\* a receiver among the hosts, and every endpoint the address of a host.
TypeOK ==
    /\ publisher \in Offering
    /\ reader \in [Readers -> UNION {Requesting[r] : r \in Readers}]
    /\ IsABag(net)
    /\ \A m \in BagToSet(net) :
          /\ m.type \in {"FIND", "OFFER", "SUBSCRIBE", "SUBSCRIBEACK"}
          /\ m.from \in Hosts /\ m.to \in Hosts \ {m.from}
          /\ m.num1stOptions \in Nat
          /\ m.options \in Seq(Option)
    /\ requested \in [Readers -> SUBSET SOMEIP]
    /\ DOMAIN csi = Readers /\ DOMAIN finds = Readers
    /\ found \in [Readers -> {None, Publisher}]
    /\ \A r \in Readers :
          /\ requested[r] \subseteq reader[r].requests
          /\ csi[r] \in [reader[r].requests ->
                [address : Hosts, port : Ports \cup {None},
                 dest : {None} \cup (Groups \X Ports)] \cup {None}]
    /\ remotes \in [{"SOMEIP_UDP", "SOMEIP_UDP_MCAST"} ->
                       SUBSET (Readers \X (Ports \cup {None}))]
    /\ offers \in 0..MaxOffers
    /\ \A r \in Readers : finds[r] \in 0..MaxFinds[r]
    /\ aborted \in BOOLEAN

\* A reader finds as many options as the entry counts, and leaves none unread:
\* the writers count what they append, whatever the host includes and the
\* application has values for.  A reader would run over the end of the list.
CountsItsOptions ==
    \A m \in BagToSet(net) : m.num1stOptions = Len(m.options)

\* A handler throws only where hosts with and without the negotiation protocol
\* meet, or a publisher without it offers no QoS group at all (the default).
EndsOnlyWhenMixed ==
    aborted =>
        \/ \E r \in Readers : reader[r].hasQoSNP # publisher.hasQoSNP
        \/ publisher.qosGroups = {}

\* After three messages and four notifications both sides know each other:
\* a subscriber has the address, port and multicast group of the publisher's
\* parameters, and the publisher the address and port of the subscriber's
\* connector, for every QoS group although they are subscribed at once.
AddressesAgree ==
    /\ \A r \in Readers : \A q \in reader[r].requests : csi[r][q] # None =>
          /\ q \in publisher.qosGroups
          /\ csi[r][q].address = Publisher
          /\ csi[r][q].port = CASE q = "SOMEIP_TCP" -> publisher.tcpPort
                                [] q = "SOMEIP_UDP" -> publisher.udpPort
                                [] q = "SOMEIP_UDP_MCAST" -> None
          /\ csi[r][q].dest = IF q = "SOMEIP_UDP_MCAST" THEN publisher.mcastDest ELSE None
          /\ q \in DOMAIN remotes =>
                <<r, IF q = "SOMEIP_UDP" THEN reader[r].udpPort[q] ELSE None>> \in remotes[q]
    /\ \A x \in remotes["SOMEIP_UDP"] :
          /\ "SOMEIP_UDP" \in reader[x[1]].requests
          /\ x[2] = reader[x[1]].udpPort["SOMEIP_UDP"]

\* Between hosts of the SomeIpManager without the negotiation protocol, every
\* QoS group that is requested and offered is eventually given an endpoint.
Wanted(r, q) ==
    /\ publisher.manager = "SomeIpManager" /\ ~publisher.hasQoSNP
    /\ reader[r].manager = "SomeIpManager" /\ ~reader[r].hasQoSNP
    /\ q \in publisher.qosGroups \cap reader[r].requests
EventuallyTold ==
    <>(aborted \/ \A r \in Readers, q \in SOMEIP : Wanted(r, q) => csi[r][q] # None)
=============================================================================
