-------------------------- MODULE MCSomeIpSDMessages --------------------------
(* Instances of SomeIpSDMessages for TLC.                                  *)
EXTENDS SomeIpSDMessages, TLC

CONSTANTS h, r1, r2, g

Offers(manager, qosnp, groups, values, include, prevent) ==
    [manager |-> manager, hasQoSNP |-> qosnp, qosGroups |-> groups, tcpPort |-> 1,
     udpPort |-> 2, mcastDest |-> <<g, 3>>, values |-> values, include |-> include,
     preventReservation |-> prevent]

Requests(manager, qosnp, groups, include, deadline) ==
    [manager |-> manager, hasQoSNP |-> qosnp, requests |-> groups,
     tcpPort |-> [q \in groups |-> 4],
     udpPort |-> [q \in groups |-> IF q = "SOMEIP_UDP" THEN 5 ELSE 6],
     include |-> include, deadline |-> deadline]

\* Every set of QoS groups, every pair of a value and what is included, and
\* each manager and either setting of the negotiation protocol.
AllOfferings ==
    {Offers("SomeIpManager", FALSE, groups, {"RealTime"}, Configurations, FALSE) :
        groups \in SUBSET SOMEIP}
    \cup {Offers("SomeIpManager", FALSE, {"SOMEIP_UDP"}, values, include, prevent) :
             values \in {{"8021Q"}, {"Ressource", "RealTime"}},
             include \in {{}, {"8021Q", "Ressource"}}, prevent \in BOOLEAN}
    \cup {Offers(manager, TRUE, {"SOMEIP_TCP", "SOMEIP_UDP_MCAST"}, {}, {}, FALSE) :
             manager \in {"SomeIpManager", "QoSManager"}}

\* A host that wants everything, and others.
AllRequests ==
    r1 :> {Requests("SomeIpManager", FALSE, SOMEIP, {"RealTime"}, TRUE),
           Requests("SomeIpManager", TRUE, {"SOMEIP_UDP"}, {}, FALSE),
           Requests("QoSManager", TRUE, {}, {}, FALSE)}
    @@ r2 :> {Requests("SomeIpManager", FALSE, {"SOMEIP_UDP"}, {}, FALSE)}

OneFind == r1 :> 1 @@ r2 :> 0
=============================================================================
