-------------------------- MODULE SomeIpDiscovery --------------------------
(***************************************************************************)
(* Service discovery and event-group subscription between hosts that run a *)
(* SomeIpManager on top of a SomeIpSD socket.                              *)
(*                                                                         *)
(* Every handler of the program runs to completion inside one simulation   *)
(* event (self message, received packet or direct call), and the signals   *)
(* between manager and SD module are synchronous calls: one action is one  *)
(* event, SD packets it emits included.  Packets are in flight in a bag,   *)
(* unordered; the order in which due timers expire is left open, so every  *)
(* choice of the delay parameters is covered.                              *)
(*                                                                         *)
(* A subscription state, its connector and its endpoint are named by the   *)
(* subscriber application whose registration created them.                 *)
(***************************************************************************)
EXTENDS Naturals, FiniteSets, Bags

CONSTANTS
    Hosts,           \* IP addresses, one manager and one SD socket each
    Services,        \* service ids
    Instances,       \* instance ids a publisher may carry
    AnyInstance,     \* 0xFFFF: the subscriber takes any instance
    Publishers,      \* publisher applications
    Subscribers,     \* subscriber applications
    PublisherApp,    \* their parameters: [host, service, instance, qos (a set), static]
    SubscriberApp,   \* their parameters: [host, service, instance, qos, static]
    RepetitionsMax,  \* parameter repetitionsMax
    InitialDelays,   \* outcomes of the volatile initialDelay: "zero", "positive"
    CyclicOffers,    \* is cyclicOfferDelay > 0
    MaxCopies,       \* bound: a cyclic offer finds fewer than this many copies in flight
    LossyTypes,      \* types of packets the network may drop
    MaxLosses,       \* bound: packets dropped in one behaviour
    None             \* no connector, no endpoint

TCP == "SOMEIP_TCP"
UDP == "SOMEIP_UDP"
MCAST == "SOMEIP_UDP_MCAST"
QoSGroups == {TCP, UDP, MCAST}

MessageTypes == {"FIND", "OFFER", "SUBSCRIBE", "ACK"}

ASSUME ConfigAssumption ==
    /\ AnyInstance \notin Instances
    /\ PublisherApp \in [Publishers ->
          [host : Hosts, service : Services, instance : Instances,
           qos : (SUBSET QoSGroups) \ {{}}, static : BOOLEAN]]
    /\ \A p \in Publishers : PublisherApp[p].static => MCAST \in PublisherApp[p].qos
    /\ SubscriberApp \in [Subscribers ->
          [host : Hosts, service : Services, instance : Instances \cup {AnyInstance},
           qos : QoSGroups, static : BOOLEAN]]
    /\ \A s \in Subscribers : SubscriberApp[s].static => SubscriberApp[s].qos = MCAST
    /\ RepetitionsMax \in Nat
    /\ InitialDelays \subseteq {"zero", "positive"} /\ InitialDelays # {}
    /\ CyclicOffers \in BOOLEAN
    /\ MaxCopies \in Nat \ {0}
    /\ LossyTypes \subseteq MessageTypes
    /\ MaxLosses \in Nat
    /\ None \notin Hosts \cup Subscribers

VARIABLES
    offer,         \* _offers: SD state of each discoverable publisher
    subscription,  \* _subscriptions: SD state of each discovering subscriber
    published,     \* publishers whose connector is in the registry
    connector,     \* the connector each started subscriber is attached to
    pubEndpoints,  \* QoS groups a publisher connector has an endpoint for
    remotes,       \* subscriber hosts in the remote list of the UDP endpoint
    subEndpoint,   \* address the endpoint of a subscriber connector was made for
    net,           \* bag of SD packets in flight
    losses         \* packets dropped so far

sdVars == <<offer, subscription>>
hostVars == <<published, connector, pubEndpoints, remotes, subEndpoint>>
vars == <<offer, subscription, published, connector, pubEndpoints, remotes,
          subEndpoint, net, losses>>

-----------------------------------------------------------------------------
(* Packets.  A multicast reaches every other host: the socket drops what   *)
(* comes from its own address and does not loop multicasts back.           *)

Message == [type : MessageTypes, from : Hosts, to : Hosts, service : Services,
            instance : Instances \cup {AnyInstance}, qos : SUBSET QoSGroups]

FindMessages(s) ==
    LET app == SubscriberApp[s] IN
    {[type |-> "FIND", from |-> app.host, to |-> h, service |-> app.service,
      instance |-> app.instance, qos |-> {}] : h \in Hosts \ {app.host}}

OfferMessage(p, h) ==
    LET app == PublisherApp[p] IN
    [type |-> "OFFER", from |-> app.host, to |-> h, service |-> app.service,
     instance |-> app.instance, qos |-> app.qos]

OfferMessages(p) ==
    {OfferMessage(p, h) : h \in Hosts \ {PublisherApp[p].host}}

\* The packet m is consumed and the packets of the set sent are put in flight.
Reply(m, sent) == net' = (net (-) SetToBag({m})) (+) SetToBag(sent)

Copies(m, bag) == IF BagIn(m, bag) THEN bag[m] ELSE 0

Send(sent) == net' = net (+) SetToBag(sent)

-----------------------------------------------------------------------------
(* The phases every SD state goes through.                                 *)

Phases == {"NONE", "INITIAL_WAIT", "REPETITION", "MAIN"}
Timers == {"NONE", "INITIAL_WAIT_OVER", "REPETITION", "CYCLIC_OFFER"}

OfferState == [phase : Phases, reps : 0..RepetitionsMax, timer : Timers,
               hasSubscription : BOOLEAN]

SubscriptionState == [phase : Phases, reps : 0..RepetitionsMax, timer : Timers,
                      seen : BOOLEAN, requested : BOOLEAN, active : BOOLEAN]

Start(state) == [state EXCEPT !.phase = "INITIAL_WAIT", !.timer = "INITIAL_WAIT_OVER"]

\* Mutant: the main phase of an offer is silent.
StartMainPhase_Silent(state, isOffer) ==
    [state EXCEPT !.phase = "MAIN", !.timer = "NONE"]

\* Only offers have a cyclic timer in the main phase.
StartMainPhase(state, isOffer) ==
    [state EXCEPT !.phase = "MAIN",
                  !.timer = IF isOffer /\ CyclicOffers THEN "CYCLIC_OFFER" ELSE "NONE"]

\* Mutant: one repetition too many.
NextRepetitionPhase_OffByOne(state, isOffer) ==
    IF RepetitionsMax >= state.reps
    THEN [state EXCEPT !.phase = "REPETITION", !.timer = "REPETITION", !.reps = @ + 1]
    ELSE StartMainPhase(state, isOffer)

NextRepetitionPhase(state, isOffer) ==
    IF RepetitionsMax > state.reps
    THEN [state EXCEPT !.phase = "REPETITION", !.timer = "REPETITION", !.reps = @ + 1]
    ELSE StartMainPhase(state, isOffer)

TimerConsumed(state) == [state EXCEPT !.timer = "NONE"]

Known(s) == subscription[s].phase # "NONE"

\* The subscription states of host h under [service][qos][instance].
Requests(h, service, q, instance) ==
    {s \in Subscribers : /\ Known(s)
                         /\ SubscriberApp[s].host = h
                         /\ SubscriberApp[s].service = service
                         /\ SubscriberApp[s].qos = q
                         /\ SubscriberApp[s].instance = instance}

Init ==
    /\ offer = [p \in Publishers |-> [phase |-> "NONE", reps |-> 0, timer |-> "NONE",
                                      hasSubscription |-> FALSE]]
    /\ subscription = [s \in Subscribers |->
                          [phase |-> "NONE", reps |-> 0, timer |-> "NONE",
                           seen |-> FALSE, requested |-> FALSE, active |-> FALSE]]
    /\ published = {}
    /\ connector = [s \in Subscribers |-> None]
    /\ pubEndpoints = [p \in Publishers |-> {}]
    /\ remotes = [p \in Publishers |-> {}]
    /\ subEndpoint = [s \in Subscribers |-> None]
    /\ net = EmptyBag
    /\ losses = 0

-----------------------------------------------------------------------------
(* Registration of applications.                                           *)

\* The connector of service on host h exists.
Provides(h, service) ==
    \E p \in published : PublisherApp[p].host = h /\ PublisherApp[p].service = service

\* A second publisher of a service on one host ends the simulation.  A static
\* publisher only gets its multicast endpoint and is never offered.
RegisterPublisherService(p) ==
    LET app == PublisherApp[p] IN
    /\ p \notin published
    /\ ~Provides(app.host, app.service)
    /\ published' = published \cup {p}
    /\ \/ /\ app.static
          /\ pubEndpoints' = [pubEndpoints EXCEPT ![p] = @ \cup {MCAST}]
          /\ UNCHANGED <<offer, net>>
       \/ /\ ~app.static /\ "positive" \in InitialDelays
          /\ offer' = [offer EXCEPT ![p] = Start(@)]
          /\ UNCHANGED <<pubEndpoints, net>>
       \/ /\ ~app.static /\ "zero" \in InitialDelays
          /\ offer' = [offer EXCEPT ![p] = NextRepetitionPhase(@, TRUE)]
          /\ Send(OfferMessages(p))
          /\ UNCHANGED pubEndpoints
    /\ UNCHANGED <<subscription, connector, remotes, subEndpoint, losses>>

\* Mutant: a connector is shared only for the same instance.
ConnectorsFor_SameInstance(s) ==
    {c \in Subscribers : /\ connector[c] = c
                         /\ [SubscriberApp[c] EXCEPT !.static = FALSE]
                            = [SubscriberApp[s] EXCEPT !.static = FALSE]}

\* Connectors on the host of s for its service and QoS group.
ConnectorsFor(s) ==
    {c \in Subscribers : /\ connector[c] = c
                         /\ SubscriberApp[c].host = SubscriberApp[s].host
                         /\ SubscriberApp[c].service = SubscriberApp[s].service
                         /\ SubscriberApp[c].qos = SubscriberApp[s].qos}

\* The service is already received on this host with this QoS: share it.
AttachSubscriber(s) ==
    /\ connector[s] = None
    /\ \E c \in ConnectorsFor(s) : connector' = [connector EXCEPT ![s] = c]
    /\ UNCHANGED <<sdVars, published, pubEndpoints, remotes, subEndpoint, net, losses>>

\* A new connector, and its discovery.  A static subscriber needs none.
SubscribeService(s) ==
    LET app == SubscriberApp[s] IN
    /\ connector[s] = None
    /\ ConnectorsFor(s) = {}
    /\ connector' = [connector EXCEPT ![s] = s]
    /\ \/ /\ app.static
          /\ subEndpoint' = [subEndpoint EXCEPT ![s] = app.host]
          /\ UNCHANGED <<subscription, net>>
       \/ /\ ~app.static /\ "positive" \in InitialDelays
          /\ subscription' = [subscription EXCEPT ![s] = Start(@)]
          /\ UNCHANGED <<subEndpoint, net>>
       \/ /\ ~app.static /\ "zero" \in InitialDelays
          /\ subscription' = [subscription EXCEPT ![s] = NextRepetitionPhase(@, FALSE)]
          /\ Send(FindMessages(s))
          /\ UNCHANGED subEndpoint
    /\ UNCHANGED <<offer, published, pubEndpoints, remotes, losses>>

-----------------------------------------------------------------------------
(* Timers.  The timer of a subscription that has seen its service is not   *)
(* cancelled: it expires without effect.                                   *)

PhaseTimers == {"INITIAL_WAIT_OVER", "REPETITION"}

\* INITIAL_WAIT_OVER and REPETITION of an offer: send it, then the next phase.
OfferTimer(p) ==
    /\ offer[p].timer \in PhaseTimers
    /\ offer' = [offer EXCEPT ![p] = NextRepetitionPhase(@, TRUE)]
    /\ Send(OfferMessages(p))
    /\ UNCHANGED <<subscription, hostVars, losses>>

CyclicOffer(p) ==
    /\ offer[p].timer = "CYCLIC_OFFER"
    /\ \A m \in OfferMessages(p) : Copies(m, net) < MaxCopies
    /\ Send(OfferMessages(p))
    /\ UNCHANGED <<sdVars, hostVars, losses>>

\* Mutant: a timer that expires late is not ignored.
FindTimer_IgnoreSeen(s) ==
    /\ subscription[s].timer \in PhaseTimers
    /\ subscription' = [subscription EXCEPT ![s] = NextRepetitionPhase(@, FALSE)]
    /\ Send(FindMessages(s))
    /\ UNCHANGED <<offer, hostVars, losses>>

\* The same timers of a subscription: send the find, then the next phase.
FindTimer(s) ==
    /\ subscription[s].timer \in PhaseTimers
    /\ \/ /\ subscription[s].seen
          /\ subscription' = [subscription EXCEPT ![s] = TimerConsumed(@)]
          /\ UNCHANGED net
       \/ /\ ~subscription[s].seen
          /\ subscription' = [subscription EXCEPT ![s] = NextRepetitionPhase(@, FALSE)]
          /\ Send(FindMessages(s))
    /\ UNCHANGED <<offer, hostVars, losses>>

-----------------------------------------------------------------------------
(* Received packets.                                                       *)

\* Mutant: offers in the initial wait phase answer too.
Answers_InitialWait(h, service, instance) ==
    {p \in Publishers : /\ offer[p].phase # "NONE"
                        /\ PublisherApp[p].host = h
                        /\ PublisherApp[p].service = service
                        /\ instance \in {PublisherApp[p].instance, AnyInstance}}

\* Offers of host h that answer a find for this service and instance: the
\* exact instance if it is offered, all instances if any will do.
Answers(h, service, instance) ==
    {p \in Publishers : /\ offer[p].phase \notin {"NONE", "INITIAL_WAIT"}
                        /\ PublisherApp[p].host = h
                        /\ PublisherApp[p].service = service
                        /\ instance \in {PublisherApp[p].instance, AnyInstance}}

LookForService(m) ==
    /\ m.type = "FIND"
    /\ Reply(m, {OfferMessage(p, m.from) : p \in Answers(m.to, m.service, m.instance)})
    /\ UNCHANGED <<sdVars, hostVars, losses>>

\* The request an offer is looked up for under QoS group q: one for exactly
\* this instance, or else one for any instance.
OfferedRequests(m, q) ==
    LET exact == Requests(m.to, m.service, q, m.instance)
    IN  IF exact # {} THEN exact ELSE Requests(m.to, m.service, q, AnyInstance)

\* Mutant: subscribe on every offer, also while a request is outstanding.
PendingRequests_Again(m) == UNION {OfferedRequests(m, q) : q \in m.qos}

\* The requests the offer m makes its receiver subscribe.
PendingRequests(m) ==
    {s \in UNION {OfferedRequests(m, q) : q \in m.qos} : ~subscription[s].requested}

SubscribeMessage(s, m) ==
    [type |-> "SUBSCRIBE", from |-> m.to, to |-> m.from, service |-> m.service,
     instance |-> m.instance, qos |-> {SubscriberApp[s].qos}]

SubscribeServiceIfThereIsAPendingRequest(m) ==
    LET pending == PendingRequests(m) IN
    /\ m.type = "OFFER"
    /\ subscription' = [s \in Subscribers |->
          IF s \in pending
          THEN [subscription[s] EXCEPT !.phase = "MAIN", !.seen = TRUE, !.requested = TRUE]
          ELSE subscription[s]]
    /\ Reply(m, {SubscribeMessage(s, m) : s \in pending})
    /\ UNCHANGED <<offer, hostVars, losses>>

\* The publisher whose connector takes the subscription m: the registry knows
\* services, not instances.
Subscribed(m) ==
    {p \in published : /\ PublisherApp[p].host = m.to
                       /\ PublisherApp[p].service = m.service
                       /\ m.qos \subseteq PublisherApp[p].qos}

AckMessage(p, m) ==
    [type |-> "ACK", from |-> m.to, to |-> m.from, service |-> m.service,
     instance |-> PublisherApp[p].instance, qos |-> m.qos]

\* Make or find the endpoint, add the UDP subscriber to its remotes (a TCP
\* subscriber connects by itself, a multicast endpoint serves the group), and
\* acknowledge.  What cannot be served is dropped without an answer.
AcknowledgeSubscription(m) ==
    LET takers == Subscribed(m) IN
    /\ m.type = "SUBSCRIBE"
    /\ pubEndpoints' = [p \in Publishers |->
          IF p \in takers THEN pubEndpoints[p] \cup m.qos ELSE pubEndpoints[p]]
    /\ remotes' = [p \in Publishers |->
          IF p \in takers /\ UDP \in m.qos THEN remotes[p] \cup {m.from} ELSE remotes[p]]
    /\ offer' = [p \in Publishers |->
          IF p \in takers /\ offer[p].phase # "NONE"
          THEN [offer[p] EXCEPT !.hasSubscription = TRUE] ELSE offer[p]]
    /\ Reply(m, {AckMessage(p, m) : p \in takers})
    /\ UNCHANGED <<subscription, published, connector, subEndpoint, losses>>

\* Mutant: the acknowledgement is looked up without its QoS group.
Acknowledged_AnyQoS(m) ==
    {s \in UNION {Requests(m.to, m.service, q, i) :
                     q \in QoSGroups, i \in {m.instance, AnyInstance}} :
        subscription[s].requested}

\* Mutant: a refresh of an active subscription leaves the request pending.
Acknowledged_FirstOnly(m) ==
    {s \in UNION {Requests(m.to, m.service, q, i) :
                     q \in m.qos, i \in {m.instance, AnyInstance}} :
        subscription[s].requested /\ ~subscription[s].active}

\* The outstanding requests the acknowledgement m answers: for its instance
\* and for any instance.
Acknowledged(m) ==
    {s \in UNION {Requests(m.to, m.service, q, i) :
                     q \in m.qos, i \in {m.instance, AnyInstance}} :
        subscription[s].requested}

\* Mutant: every acknowledgement makes the endpoint anew.
NeedsEndpoint_Always(s) == TRUE

\* A new established subscription, and no cyclic refresh; an endpoint the
\* connector has already is kept.
NeedsEndpoint(s) == ~subscription[s].active /\ subEndpoint[s] = None

\* The first acknowledgement makes the subscriber endpoint and activates.
ProcessAcknowledgedSubscription(m) ==
    LET answered == Acknowledged(m) IN
    /\ m.type = "ACK"
    /\ subscription' = [s \in Subscribers |->
          IF s \in answered
          THEN [subscription[s] EXCEPT !.requested = FALSE, !.active = TRUE]
          ELSE subscription[s]]
    /\ subEndpoint' = [s \in Subscribers |->
          IF s \in answered /\ NeedsEndpoint(s) THEN m.from ELSE subEndpoint[s]]
    /\ Reply(m, {})
    /\ UNCHANGED <<offer, published, connector, pubEndpoints, remotes, losses>>

Receive(m) ==
    \/ LookForService(m)
    \/ SubscribeServiceIfThereIsAPendingRequest(m)
    \/ AcknowledgeSubscription(m)
    \/ ProcessAcknowledgedSubscription(m)

\* SD runs over UDP: a full queue on the way drops the packet.
Lose(m) ==
    /\ m.type \in LossyTypes
    /\ losses < MaxLosses
    /\ losses' = losses + 1
    /\ Reply(m, {})
    /\ UNCHANGED <<sdVars, hostVars>>

\* Everybody is started and nothing is in flight or scheduled.
Terminated ==
    /\ \A p \in Publishers :
          p \in published \/ Provides(PublisherApp[p].host, PublisherApp[p].service)
    /\ \A s \in Subscribers : connector[s] # None
    /\ net = EmptyBag
    /\ \A p \in Publishers : offer[p].timer = "NONE"
    /\ \A s \in Subscribers : subscription[s].timer = "NONE"
    /\ UNCHANGED vars

Next ==
    \/ \E p \in Publishers :
          RegisterPublisherService(p) \/ OfferTimer(p) \/ CyclicOffer(p)
    \/ \E s \in Subscribers :
          AttachSubscriber(s) \/ SubscribeService(s) \/ FindTimer(s)
    \/ \E m \in BagToSet(net) : Receive(m) \/ Lose(m)
    \/ Terminated

Spec == Init /\ [][Next]_vars
\* Timers expire and packets that are not dropped arrive.
Fairness ==
    /\ \A p \in Publishers : /\ WF_vars(RegisterPublisherService(p))
                             /\ WF_vars(OfferTimer(p))
                             /\ WF_vars(CyclicOffer(p))
    /\ \A s \in Subscribers : /\ WF_vars(AttachSubscriber(s) \/ SubscribeService(s))
                              /\ WF_vars(FindTimer(s))
    /\ \A type \in MessageTypes, from, to \in Hosts :
          WF_vars(\E m \in BagToSet(net) :
                     /\ m.type = type /\ m.from = from /\ m.to = to
                     /\ Receive(m))

FairSpec == Spec /\ Fairness

-----------------------------------------------------------------------------
(* Properties.                                                             *)

\* Every variable stays in its declared range.
TypeOK ==
    /\ offer \in [Publishers -> OfferState]
    /\ subscription \in [Subscribers -> SubscriptionState]
    /\ published \subseteq Publishers
    /\ connector \in [Subscribers -> Subscribers \cup {None}]
    /\ pubEndpoints \in [Publishers -> SUBSET QoSGroups]
    /\ remotes \in [Publishers -> SUBSET Hosts]
    /\ subEndpoint \in [Subscribers -> Hosts \cup {None}]
    /\ BagToSet(net) \subseteq Message
    /\ losses \in 0..MaxLosses

\* Publisher p has taken a subscriber of QoS group q on host h: its endpoint
\* exists and, for UDP, has the host among its remotes.
Serves(p, h, q) ==
    /\ p \in published
    /\ q \in pubEndpoints[p]
    /\ q = UDP => h \in remotes[p]

\* The publisher may stand for what the subscriber asked for.
Matches(s, p) ==
    /\ PublisherApp[p].service = SubscriberApp[s].service
    /\ PublisherApp[p].host # SubscriberApp[s].host
    /\ SubscriberApp[s].qos \in PublisherApp[p].qos
    /\ SubscriberApp[s].instance \in {PublisherApp[p].instance, AnyInstance}

\* A subscription is active only when its endpoint points at a publisher of
\* the wanted service, instance and QoS which already serves that subscriber:
\* no order of offers, subscribes and acknowledgements makes a subscriber
\* listen to somebody who will not send.
ActiveIsServed ==
    \A s \in Subscribers : subscription[s].active =>
        \E p \in Publishers : /\ Matches(s, p)
                             /\ subEndpoint[s] = PublisherApp[p].host
                             /\ Serves(p, SubscriberApp[s].host, SubscriberApp[s].qos)

\* discoverService throws when an instance is requested twice or beside a
\* request for any instance ("this should never happen"): no host ever holds
\* two subscription states for one service and QoS group, however many
\* applications ask and in whatever order.
OneRequestPerQoSGroup ==
    \A s, t \in Subscribers :
        /\ Known(s) /\ Known(t) /\ s # t
        /\ SubscriberApp[s].host = SubscriberApp[t].host
        /\ SubscriberApp[s].service = SubscriberApp[t].service
        => SubscriberApp[s].qos # SubscriberApp[t].qos

\* The handshake packets in flight on behalf of request s.
Handshakes(s) ==
    LET app == SubscriberApp[s] IN
    {m \in BagToSet(net) : /\ m.service = app.service /\ m.qos = {app.qos}
                           /\ \/ m.type = "SUBSCRIBE" /\ m.from = app.host
                              \/ m.type = "ACK" /\ m.to = app.host}

\* When nothing is lost, "requested" says exactly whether a SUBSCRIBE or its
\* acknowledgement is under way, and there is never more than one of them, nor
\* a second copy: the flag that suppresses further subscriptions is always
\* cleared.
RequestedIsUnderWay ==
    LossyTypes = {} =>
        \A s \in Subscribers : Known(s) =>
            IF subscription[s].requested
            THEN \E m \in Handshakes(s) : Handshakes(s) = {m} /\ Copies(m, net) = 1
            ELSE Handshakes(s) = {}

\* Every offer in flight, answers to finds that arrive early included, is one
\* of a publisher that has left its initial wait phase [PRS_SOMEIPSD_00839].
OffersLeftInitialWait ==
    \A m \in BagToSet(net) : m.type = "OFFER" =>
        \E p \in published : /\ offer[p].phase \notin {"NONE", "INITIAL_WAIT"}
                             /\ m = OfferMessage(p, m.to)

PhaseRank(phase) ==
    CASE phase = "NONE" -> 0 [] phase = "INITIAL_WAIT" -> 1
      [] phase = "REPETITION" -> 2 [] phase = "MAIN" -> 3

\* No step takes a service back to an earlier phase, although the timers of a
\* subscription that skipped to the main phase still expire.
PhasesOnlyAdvance ==
    [][/\ \A p \in Publishers : PhaseRank(offer[p].phase) <= PhaseRank(offer'[p].phase)
       /\ \A s \in Subscribers :
             PhaseRank(subscription[s].phase) <= PhaseRank(subscription'[s].phase)]_vars

\* Finding stops when the service was seen [PRS_SOMEIPSD_00408]: a host all of
\* whose subscriptions have seen an offer puts no further find in flight.
FindsStop ==
    [][\A h \in Hosts :
          (\A s \in Subscribers : SubscriberApp[s].host = h =>
              /\ connector[s] # None
              /\ Known(s) => subscription[s].seen)
          => \A m \in BagToSet(net') :
                m.type = "FIND" /\ m.from = h => Copies(m, net') <= Copies(m, net)]_vars

\* The subscriber connectors that a discoverable publisher could serve.
Discoverable(s) ==
    /\ Known(s)
    /\ \E p \in Publishers : offer[p].phase # "NONE" /\ Matches(s, p)

SubscribeUnderWay(s) ==
    \E m \in BagToSet(net) : /\ m.type = "SUBSCRIBE"
                             /\ m.from = SubscriberApp[s].host
                             /\ m.service = SubscriberApp[s].service
                             /\ m.qos = {SubscriberApp[s].qos}

\* Such a subscriber becomes active, whoever starts first and whatever the
\* offers, finds and timers do meanwhile.
EventuallyActive == \A s \in Subscribers : Discoverable(s) ~> subscription[s].active

\* Offers that are sent cyclically keep triggering subscriptions, before and
\* after the first one was acknowledged [PRS_SOMEIPSD_00582].
KeepsSubscribing == \A s \in Subscribers : Discoverable(s) ~> SubscribeUnderWay(s)

\* discoverService refuses "any simultaneous any subscriptions and specific
\* subs": no two started subscribers of a host, service and QoS group ask, one
\* for any instance and the other for a specific one.
NoMixedInstances ==
    \A s, t \in Subscribers :
        /\ connector[s] # None /\ connector[t] = connector[s]
        /\ SubscriberApp[s].instance = AnyInstance
        => SubscriberApp[t].instance = AnyInstance

-----------------------------------------------------------------------------
(* What all this implements.                                               *)

Served == {t \in Publishers \X Hosts \X QoSGroups : Serves(t[1], t[2], t[3])}

ListensTo == [s \in Subscribers |->
                 IF subscription[s].active THEN subEndpoint[s] ELSE None]

Abstract == INSTANCE EventGroupSubscription
               WITH serves <- Served, listensTo <- ListensTo

\* Discovery, whatever its packets, phases and timers do, implements the plain
\* "serve first, then listen, and stay" of EventGroupSubscription.
ImplementsSubscription == Abstract!Spec
=============================================================================
