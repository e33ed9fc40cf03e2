-------------------------- MODULE MCRealTimeStream --------------------------
(* Instances of RealTimeStream for TLC.                                    *)
EXTENDS RealTimeStream, TLC

CONSTANTS h1, h2, p, q, g, sub, e1, e2, avb, udp, raw, st

App(kind, service, start, stop, min, payload) ==
    [kind |-> kind, serviceId |-> service, instanceId |-> 1, enabled |-> TRUE,
     startTime |-> start, stopTime |-> stop, intervalMin |-> min, intervalMax |-> min,
     intervalFrames |-> 1, payload |-> payload, payloadMax |-> payload, srClass |-> "A",
     preventReservation |-> FALSE, modulo |-> 2, canIds |-> {1}]

\* A stream of class A, one of a synchronous publisher and a gateway.
Apps4 ==
    p :> App("Publisher", 1, 0, 2, 1, 46)
    @@ q :> App("SyncPublisher", 2, 0, 0, 1, 3000)
    @@ g :> App("GatewayPublisher", 3, 1, 0, 1, 46)
    @@ sub :> App("Subscriber", 1, 0, 0, 1, 46)

AVB ==
    avb :> [host |-> h1, streamID |-> st, srClass |-> "A", payload |-> 46,
            intervalFrames |-> 1]

\* One service has a priority with an interval of its own and messages of more
\* than two frames, the other one reserves for its own interval; both have the
\* same subscriber.
SomeIp(service, payload) ==
    [host |-> h1, qos |-> "SOMEIP_UDP", serviceId |-> service, instanceId |-> 1,
     streamID |-> st, vlanID |-> 2, pcp |-> 5, registerStream |-> TRUE,
     advertise |-> FALSE, preventReservation |-> FALSE, streamIntervalAsCMI |-> FALSE,
     pcpCMIs |-> [x \in {5, 6} |-> IF x = 5 THEN 2 ELSE 1], intervalMin |-> 2,
     payload |-> payload]
IP ==
    udp :> SomeIp(2, 3000)
    @@ raw :> [SomeIp(1, 46) EXCEPT !.streamIntervalAsCMI = TRUE, !.intervalMin = 1]

\* A local listener and one of another node.
Listeners ==
    e1 :> [host |-> h1, streamID |-> st, updateInterval |-> 6, retryInterval |-> 1]
    @@ e2 :> [host |-> h2, streamID |-> st, updateInterval |-> 0, retryInterval |-> 1]

SameSubscriber == udp :> {<<1, 5>>} @@ raw :> {<<1, 5>>}
Owner == avb :> p @@ udp :> q @@ raw :> p @@ e1 :> sub @@ e2 :> sub
=============================================================================
