------------------------- MODULE MCSomeIpDiscovery -------------------------
(* Instances of SomeIpDiscovery for TLC.                                   *)
EXTENDS SomeIpDiscovery, TLC

CONSTANTS h1, h2, h3, p1, p2, a, b, c

App(host, service, instance, qos, static) ==
    [host |-> host, service |-> service, instance |-> instance, qos |-> qos,
     static |-> static]

\* Two instances of service 1 on two hosts, one of them with two QoS groups.
TwoInstances ==
    p1 :> App(h1, 1, 1, {TCP, UDP}, FALSE) @@ p2 :> App(h2, 1, 2, {UDP}, FALSE)

\* On the third host: any instance by UDP, instance 1 by TCP, instance 2 by
\* UDP, which shares the connector of whichever UDP subscriber came first.
ThreeSubscribers ==
    a :> App(h3, 1, AnyInstance, UDP, FALSE) @@ b :> App(h3, 1, 1, TCP, FALSE)
    @@ c :> App(h3, 1, 2, UDP, FALSE)

\* The two that share the UDP connector.
SharingSubscribers == a :> ThreeSubscribers[a] @@ c :> ThreeSubscribers[c]

\* One host publishes service 1 for discovery and service 2 statically.
OfferedAndStatic ==
    p1 :> App(h1, 1, 1, {UDP, MCAST}, FALSE) @@ p2 :> App(h1, 2, 1, {MCAST}, TRUE)

\* The other host subscribes service 1 by both groups and service 2 statically.
DiscoveringAndStatic ==
    a :> App(h2, 1, AnyInstance, UDP, FALSE) @@ b :> App(h2, 1, 1, MCAST, FALSE)
    @@ c :> App(h2, 2, 1, MCAST, TRUE)

\* One publisher, two hosts that subscribe it by UDP.
OnePublisher == p1 :> App(h1, 1, 1, {UDP}, FALSE)
TwoHostsSubscribe ==
    a :> App(h2, 1, AnyInstance, UDP, FALSE) @@ b :> App(h3, 1, 1, UDP, FALSE)

\* A single subscriber for any instance.
OneSubscriber == a :> App(h3, 1, AnyInstance, UDP, FALSE)
=============================================================================
