----------------------------- MODULE MCDataPlane -----------------------------
(* Instances of DataPlane for TLC.                                         *)
EXTENDS DataPlane, TLC

CONSTANTS h1, h2, h3, h4, g1, p1, p2, a, b, c, d

Pub(host, manager, service, qos, gateway) ==
    [host |-> host, manager |-> manager, service |-> service, tcpPort |-> 1,
     udpPort |-> 2, mcastDestAddr |-> g1, mcastDestPort |-> 3, qos |-> qos,
     gateway |-> gateway]

Sub(host, service, qos, udpPort, gateway) ==
    [host |-> host, service |-> service, qos |-> qos, tcpPort |-> 1, udpPort |-> udpPort,
     gateway |-> gateway]

\* One publisher of either manager, one of them a gateway.
TwoPublishers ==
    p1 :> Pub(h1, "QoSManager", 1, {"IP_TCP"}, FALSE)
    @@ p2 :> Pub(h3, "SomeIpManager", 2, {"SOMEIP_UDP_MCAST"}, TRUE)

TwoAndOne == p1 :> 2 @@ p2 :> 1

\* Two subscribers of the first share a UDP connector, a third one of that
\* host asks for TCP; the second has one by multicast.
FourSubscribers ==
    a :> Sub(h2, 1, "IP_UDP", 2, FALSE) @@ b :> Sub(h2, 1, "IP_UDP", 3, FALSE)
    @@ c :> Sub(h2, 1, "IP_TCP", 2, FALSE) @@ d :> Sub(h4, 2, "SOMEIP_UDP_MCAST", 2, TRUE)

\* The theorem on ImplementsChannel is about instances like this one.
ASSUME InstanceAssumption == AddressesApart
=============================================================================
