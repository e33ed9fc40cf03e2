-------------------------- MODULE MCQoSNegotiation --------------------------
(* Instances of QoSNegotiation for TLC.                                    *)
EXTENDS QoSNegotiation, TLC

CONSTANTS h1, h2, h3, p1, p2, a, b, c, d

Pub(host, service) == [host |-> host, service |-> service]
Sub(host, service, qos) == [host |-> host, service |-> service, qos |-> qos]

\* The static map: the first host publishes everything.
FirstHost == [service \in Services |-> h1]

\* One host with both services.
TwoServices == p1 :> Pub(h1, 1) @@ p2 :> Pub(h1, 2)

\* One host negotiates the first service in one QoS group, the second in two.
Mixed == a :> Sub(h3, 1, "IP_TCP") @@ b :> Sub(h3, 2, UDP) @@ c :> Sub(h3, 2, "RT")

\* Two hosts with the same service.
TwoHosts == p1 :> Pub(h1, 1) @@ p2 :> Pub(h2, 1)

\* One host negotiates one service in two QoS groups, one of them for two
\* applications; the first publisher's host negotiates it with itself.
SharedIdentity ==
    a :> Sub(h3, 1, "RT") @@ b :> Sub(h3, 1, UDP) @@ c :> Sub(h3, 1, "RT")
    @@ d :> Sub(h1, 1, "IP_TCP")

OneService == p1 :> Pub(h1, 1)
TwoGroups == a :> Sub(h3, 1, "RT") @@ b :> Sub(h3, 1, UDP)
=============================================================================
