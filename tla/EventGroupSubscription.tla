----------------------- MODULE EventGroupSubscription -----------------------
(***************************************************************************)
(* What service discovery promises, without packets, phases and timers: a  *)
(* publisher first serves a host for a QoS group, only then does a         *)
(* subscriber there start to listen to it, and it stays with the publisher *)
(* it listens to.                                                          *)
(***************************************************************************)
CONSTANTS
    Hosts, Publishers, Subscribers, QoSGroups,
    PublisherApp,   \* [host, service, instance, qos (a set), ...]
    SubscriberApp,  \* [host, service, instance, qos, ...]
    AnyInstance,
    None            \* the subscriber does not listen

VARIABLES
    serves,         \* triples <<publisher, host, QoS group>>
    listensTo       \* for each subscriber the host it listens to, or None

vars == <<serves, listensTo>>

\* The publisher may stand for what the subscriber asked for.
Matches(s, p) ==
    /\ PublisherApp[p].service = SubscriberApp[s].service
    /\ PublisherApp[p].host # SubscriberApp[s].host
    /\ SubscriberApp[s].qos \in PublisherApp[p].qos
    /\ SubscriberApp[s].instance \in {PublisherApp[p].instance, AnyInstance}

Init ==
    /\ serves = {}
    /\ listensTo = [s \in Subscribers |-> None]

\* A publisher takes hosts as receivers of one of its QoS groups: a unicast
\* subscriber one by one, all hosts at once where no list of them is kept.
Serve(p, q) ==
    \E hosts \in SUBSET Hosts :
        /\ q \in PublisherApp[p].qos
        /\ serves' = serves \cup {<<p, h, q>> : h \in hosts}
        /\ UNCHANGED listensTo

\* A subscriber starts to listen to a publisher that serves it already.
Listen(s, p) ==
    /\ listensTo[s] = None
    /\ Matches(s, p)
    /\ <<p, SubscriberApp[s].host, SubscriberApp[s].qos>> \in serves
    /\ listensTo' = [listensTo EXCEPT ![s] = PublisherApp[p].host]
    /\ UNCHANGED serves

Next ==
    \/ \E p \in Publishers, q \in QoSGroups : Serve(p, q)
    \/ \E s \in Subscribers, p \in Publishers : Listen(s, p)

Spec == Init /\ [][Next]_vars
=============================================================================
