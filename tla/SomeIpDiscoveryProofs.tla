----------------------- MODULE SomeIpDiscoveryProofs -----------------------
(* Theorems about SomeIpDiscovery, for every configuration of applications. *)
EXTENDS SomeIpDiscovery, TLAPS

-----------------------------------------------------------------------------
(* Bags: what is in flight after a packet was consumed and others sent.    *)

LEMMA SendDomain ==
    ASSUME NEW sent, Send(sent)
    PROVE  BagToSet(net') = BagToSet(net) \cup sent
BY DEF Send, BagToSet, SetToBag, (+)

LEMMA ReplyDomain ==
    ASSUME NEW m, NEW sent, Reply(m, sent)
    PROVE  BagToSet(net') \subseteq BagToSet(net) \cup sent
BY DEF Reply, BagToSet, SetToBag, (+), (-)

-----------------------------------------------------------------------------
(* Types.                                                                  *)

LEMMA NextPhaseOfOffer ==
    ASSUME NEW state \in OfferState
    PROVE  NextRepetitionPhase(state, TRUE) \in OfferState
<1>1. StartMainPhase(state, TRUE) \in OfferState
  BY DEF StartMainPhase, OfferState, Phases, Timers
<1>2. ASSUME RepetitionsMax > state.reps
      PROVE  [state EXCEPT !.phase = "REPETITION", !.timer = "REPETITION", !.reps = @ + 1]
                \in OfferState
  <2>1. state.reps + 1 \in 0..RepetitionsMax
    BY <1>2, ConfigAssumption DEF OfferState
  <2> QED  BY <2>1 DEF OfferState, Phases, Timers
<1> QED  BY <1>1, <1>2 DEF NextRepetitionPhase

LEMMA NextPhaseOfSubscription ==
    ASSUME NEW state \in SubscriptionState
    PROVE  NextRepetitionPhase(state, FALSE) \in SubscriptionState
<1>1. StartMainPhase(state, FALSE) \in SubscriptionState
  BY DEF StartMainPhase, SubscriptionState, Phases, Timers
<1>2. ASSUME RepetitionsMax > state.reps
      PROVE  [state EXCEPT !.phase = "REPETITION", !.timer = "REPETITION", !.reps = @ + 1]
                \in SubscriptionState
  <2>1. state.reps + 1 \in 0..RepetitionsMax
    BY <1>2, ConfigAssumption DEF SubscriptionState
  <2> QED  BY <2>1 DEF SubscriptionState, Phases, Timers
<1> QED  BY <1>1, <1>2 DEF NextRepetitionPhase

LEMMA FindMessageType ==
    ASSUME NEW s \in Subscribers, NEW m \in FindMessages(s)
    PROVE  m \in Message /\ m.from # m.to /\ m.type = "FIND"
BY ConfigAssumption DEF FindMessages, Message, MessageTypes

LEMMA OfferMessageType ==
    ASSUME NEW p \in Publishers, NEW h \in Hosts
    PROVE  OfferMessage(p, h) \in Message
BY ConfigAssumption DEF OfferMessage, Message, MessageTypes

LEMMA SubscribeMessageType ==
    ASSUME NEW s \in Subscribers, NEW m \in Message
    PROVE  SubscribeMessage(s, m) \in Message
BY ConfigAssumption DEF SubscribeMessage, Message, MessageTypes

LEMMA AckMessageType ==
    ASSUME NEW p \in Publishers, NEW m \in Message
    PROVE  AckMessage(p, m) \in Message
BY ConfigAssumption DEF AckMessage, Message, MessageTypes

\* Every step keeps every variable in its range.
THEOREM TypeCorrect == Spec => []TypeOK
<1>1. Init => TypeOK
  BY ConfigAssumption
     DEF Init, TypeOK, OfferState, SubscriptionState, Phases, Timers,
         EmptyBag, SetToBag, BagToSet
<1>2. TypeOK /\ [Next]_vars => TypeOK'
  <2> SUFFICES ASSUME TypeOK, [Next]_vars PROVE TypeOK'
    OBVIOUS
  <2> USE DEF TypeOK
  <2>1. ASSUME NEW p \in Publishers, RegisterPublisherService(p)
        PROVE  TypeOK'
    <3>1. offer' \in [Publishers -> OfferState]
      <4>1. Start(offer[p]) \in OfferState
        BY DEF Start, OfferState, Phases, Timers
      <4>2. NextRepetitionPhase(offer[p], TRUE) \in OfferState
        BY NextPhaseOfOffer
      <4> QED  BY <2>1, <4>1, <4>2 DEF RegisterPublisherService
    <3>2. BagToSet(net') \subseteq Message
      <4>1. OfferMessages(p) \subseteq Message
        BY OfferMessageType DEF OfferMessages
      <4>2. CASE UNCHANGED net  BY <4>2
      <4>3. CASE Send(OfferMessages(p))  BY <4>1, <4>3, SendDomain
      <4> QED  BY <2>1, <4>2, <4>3 DEF RegisterPublisherService
    <3>3. pubEndpoints' \in [Publishers -> SUBSET QoSGroups]
      <4>1. pubEndpoints[p] \cup {MCAST} \in SUBSET QoSGroups  BY DEF QoSGroups
      <4>2. \/ UNCHANGED pubEndpoints
            \/ pubEndpoints' = [pubEndpoints EXCEPT ![p] = pubEndpoints[p] \cup {MCAST}]
        BY <2>1 DEF RegisterPublisherService
      <4> QED  BY <4>1, <4>2
    <3> QED  BY <2>1, <3>1, <3>2, <3>3 DEF RegisterPublisherService
  <2>2. ASSUME NEW p \in Publishers, OfferTimer(p) \/ CyclicOffer(p)
        PROVE  TypeOK'
    <3>1. offer' \in [Publishers -> OfferState]
      <4>1. NextRepetitionPhase(offer[p], TRUE) \in OfferState
        BY NextPhaseOfOffer
      <4> QED  BY <2>2, <4>1 DEF OfferTimer, CyclicOffer, sdVars
    <3>2. BagToSet(net') \subseteq Message
      <4>1. OfferMessages(p) \subseteq Message
        BY OfferMessageType DEF OfferMessages
      <4> QED  BY <2>2, <4>1, SendDomain DEF OfferTimer, CyclicOffer
    <3> QED  BY <2>2, <3>1, <3>2 DEF OfferTimer, CyclicOffer, sdVars, hostVars
  <2>3. ASSUME NEW s \in Subscribers, AttachSubscriber(s)
        PROVE  TypeOK'
    BY <2>3 DEF AttachSubscriber, ConnectorsFor, sdVars
  <2>4. ASSUME NEW s \in Subscribers, SubscribeService(s)
        PROVE  TypeOK'
    <3>1. subscription' \in [Subscribers -> SubscriptionState]
      <4>1. Start(subscription[s]) \in SubscriptionState
        BY DEF Start, SubscriptionState, Phases, Timers
      <4>2. NextRepetitionPhase(subscription[s], FALSE) \in SubscriptionState
        BY NextPhaseOfSubscription
      <4> QED  BY <2>4, <4>1, <4>2 DEF SubscribeService
    <3>2. BagToSet(net') \subseteq Message
      <4>1. FindMessages(s) \subseteq Message
        BY FindMessageType
      <4>2. CASE UNCHANGED net  BY <4>2
      <4>3. CASE Send(FindMessages(s))  BY <4>1, <4>3, SendDomain
      <4> QED  BY <2>4, <4>2, <4>3 DEF SubscribeService
    <3>3. subEndpoint' \in [Subscribers -> Hosts \cup {None}]
      <4>1. SubscriberApp[s].host \in Hosts  BY ConfigAssumption
      <4> QED  BY <2>4, <4>1 DEF SubscribeService
    <3>4. connector' \in [Subscribers -> Subscribers \cup {None}]
      BY <2>4 DEF SubscribeService
    <3> QED  BY <2>4, <3>1, <3>2, <3>3, <3>4 DEF SubscribeService
  <2>5. ASSUME NEW s \in Subscribers, FindTimer(s)
        PROVE  TypeOK'
    <3>1. subscription' \in [Subscribers -> SubscriptionState]
      <4>1. TimerConsumed(subscription[s]) \in SubscriptionState
        BY DEF TimerConsumed, SubscriptionState, Timers
      <4>2. NextRepetitionPhase(subscription[s], FALSE) \in SubscriptionState
        BY NextPhaseOfSubscription
      <4> QED  BY <2>5, <4>1, <4>2 DEF FindTimer
    <3>2. BagToSet(net') \subseteq Message
      <4>1. FindMessages(s) \subseteq Message
        BY FindMessageType
      <4>2. CASE UNCHANGED net  BY <4>2
      <4>3. CASE Send(FindMessages(s))  BY <4>1, <4>3, SendDomain
      <4> QED  BY <2>5, <4>2, <4>3 DEF FindTimer
    <3> QED  BY <2>5, <3>1, <3>2 DEF FindTimer, hostVars
  <2>6. ASSUME NEW m \in BagToSet(net), LookForService(m)
        PROVE  TypeOK'
    <3>1. BagToSet(net') \subseteq Message
      <4> DEFINE sent == {OfferMessage(p, m.from) : p \in Answers(m.to, m.service, m.instance)}
      <4>1. m \in Message  OBVIOUS
      <4>2. sent \subseteq Message
        BY <4>1, OfferMessageType DEF Answers, Message
      <4>3. Reply(m, sent)  BY <2>6 DEF LookForService
      <4> HIDE DEF sent
      <4> QED  BY <4>2, <4>3, ReplyDomain
    <3> QED  BY <2>6, <3>1 DEF LookForService, sdVars, hostVars
  <2>7. ASSUME NEW m \in BagToSet(net), SubscribeServiceIfThereIsAPendingRequest(m)
        PROVE  TypeOK'
    <3>1. BagToSet(net') \subseteq Message
      <4> DEFINE sent == {SubscribeMessage(s, m) : s \in PendingRequests(m)}
      <4>1. m \in Message  OBVIOUS
      <4>2. sent \subseteq Message
        BY <4>1, SubscribeMessageType DEF PendingRequests, OfferedRequests, Requests
      <4>3. Reply(m, sent)  BY <2>7 DEF SubscribeServiceIfThereIsAPendingRequest
      <4> HIDE DEF sent
      <4> QED  BY <4>2, <4>3, ReplyDomain
    <3>2. subscription' \in [Subscribers -> SubscriptionState]
      <4>1. \A s \in Subscribers :
               [subscription[s] EXCEPT !.phase = "MAIN", !.seen = TRUE, !.requested = TRUE]
                  \in SubscriptionState
        BY DEF SubscriptionState, Phases
      <4> QED  BY <2>7, <4>1 DEF SubscribeServiceIfThereIsAPendingRequest
    <3> QED  BY <2>7, <3>1, <3>2 DEF SubscribeServiceIfThereIsAPendingRequest, hostVars
  <2>8. ASSUME NEW m \in BagToSet(net), AcknowledgeSubscription(m)
        PROVE  TypeOK'
    <3>1. m \in Message  OBVIOUS
    <3>2. BagToSet(net') \subseteq Message
      <4> DEFINE sent == {AckMessage(p, m) : p \in Subscribed(m)}
      <4>1. sent \subseteq Message
        BY <3>1, AckMessageType DEF Subscribed
      <4>2. Reply(m, sent)  BY <2>8 DEF AcknowledgeSubscription
      <4> HIDE DEF sent
      <4> QED  BY <4>1, <4>2, ReplyDomain
    <3>3. offer' \in [Publishers -> OfferState]
      BY <2>8 DEF AcknowledgeSubscription, OfferState
    <3>4. pubEndpoints' \in [Publishers -> SUBSET QoSGroups]
      BY <2>8, <3>1 DEF AcknowledgeSubscription, Message
    <3>5. remotes' \in [Publishers -> SUBSET Hosts]
      BY <2>8, <3>1 DEF AcknowledgeSubscription, Message
    <3> QED  BY <2>8, <3>2, <3>3, <3>4, <3>5 DEF AcknowledgeSubscription
  <2>9. ASSUME NEW m \in BagToSet(net), ProcessAcknowledgedSubscription(m)
        PROVE  TypeOK'
    <3>1. m \in Message  OBVIOUS
    <3>2. BagToSet(net') \subseteq Message
      <4>1. Reply(m, {})  BY <2>9 DEF ProcessAcknowledgedSubscription
      <4> QED  BY <4>1, ReplyDomain
    <3>3. subscription' \in [Subscribers -> SubscriptionState]
      BY <2>9 DEF ProcessAcknowledgedSubscription, SubscriptionState
    <3>4. subEndpoint' \in [Subscribers -> Hosts \cup {None}]
      BY <2>9, <3>1 DEF ProcessAcknowledgedSubscription, Message
    <3> QED  BY <2>9, <3>2, <3>3, <3>4 DEF ProcessAcknowledgedSubscription
  <2>10. ASSUME NEW m \in BagToSet(net), Lose(m)
         PROVE  TypeOK'
    <3>1. BagToSet(net') \subseteq Message
      <4>1. Reply(m, {})  BY <2>10 DEF Lose
      <4> QED  BY <4>1, ReplyDomain
    <3>2. losses' \in 0..MaxLosses
      BY <2>10, ConfigAssumption DEF Lose
    <3> QED  BY <2>10, <3>1, <3>2 DEF Lose, sdVars, hostVars
  <2>11. CASE UNCHANGED vars
    BY <2>11 DEF vars, BagToSet
  <2> QED
    BY <2>1, <2>2, <2>3, <2>4, <2>5, <2>6, <2>7, <2>8, <2>9, <2>10, <2>11
       DEF Next, Receive, Terminated
<1> QED  BY <1>1, <1>2, PTL DEF Spec

-----------------------------------------------------------------------------
(* What a step can do to one subscription, one offer, the connectors and   *)
(* the packets: the invariants below are proved from these lemmas.         *)

\* Application s makes a connector and starts its discovery.
Starts(s) ==
    /\ connector[s] = None
    /\ ~SubscriberApp[s].static
    /\ connector' = [connector EXCEPT ![s] = s]
    /\ subEndpoint' = subEndpoint
    /\ \/ subscription'[s] = Start(subscription[s])
       \/ subscription'[s] = NextRepetitionPhase(subscription[s], FALSE)

\* A timer of the subscription of s expires.
Expires(s) ==
    /\ subscription[s].timer \in PhaseTimers
    /\ subEndpoint' = subEndpoint
    /\ subscription'[s] = IF subscription[s].seen
                          THEN TimerConsumed(subscription[s])
                          ELSE NextRepetitionPhase(subscription[s], FALSE)

\* An offer makes the subscription of s requested.
BecomesRequested(s) ==
    /\ Known(s)
    /\ subEndpoint' = subEndpoint
    /\ subscription'[s] =
          [subscription[s] EXCEPT !.phase = "MAIN", !.seen = TRUE, !.requested = TRUE]

\* An acknowledgement m in flight answers the request of s.
BecomesActive(s) ==
    \E m \in BagToSet(net) :
        /\ m.type = "ACK"
        /\ s \in Acknowledged(m)
        /\ UNCHANGED <<published, pubEndpoints, remotes>>
        /\ \A t \in Subscribers \ Acknowledged(m) :
              subscription'[t] = subscription[t] /\ subEndpoint'[t] = subEndpoint[t]
        /\ subEndpoint'[s] = IF NeedsEndpoint(s) THEN m.from ELSE subEndpoint[s]
        /\ subscription'[s] = [subscription[s] EXCEPT !.requested = FALSE, !.active = TRUE]

LEMMA SubscriptionStep ==
    ASSUME TypeOK, [Next]_vars, NEW s \in Subscribers
    PROVE  \/ subscription'[s] = subscription[s]
           \/ Starts(s) \/ Expires(s) \/ BecomesRequested(s) \/ BecomesActive(s)
<1> USE DEF TypeOK
<1>1. ASSUME NEW t \in Subscribers, SubscribeService(t)
      PROVE  subscription'[s] = subscription[s] \/ Starts(s)
  BY <1>1 DEF SubscribeService, Starts
<1>2. ASSUME NEW t \in Subscribers, FindTimer(t)
      PROVE  subscription'[s] = subscription[s] \/ Expires(s)
  BY <1>2 DEF FindTimer, Expires, hostVars
<1>3. ASSUME NEW m \in BagToSet(net), SubscribeServiceIfThereIsAPendingRequest(m)
      PROVE  subscription'[s] = subscription[s] \/ BecomesRequested(s)
  <2>1. \A t \in PendingRequests(m) : Known(t)
    BY DEF PendingRequests, OfferedRequests, Requests
  <2> QED
    BY <1>3, <2>1 DEF SubscribeServiceIfThereIsAPendingRequest, BecomesRequested, hostVars
<1>4. ASSUME NEW m \in BagToSet(net), ProcessAcknowledgedSubscription(m)
      PROVE  subscription'[s] = subscription[s] \/ BecomesActive(s)
  BY <1>4 DEF ProcessAcknowledgedSubscription, BecomesActive
<1>5. ASSUME NEW p \in Publishers,
             RegisterPublisherService(p) \/ OfferTimer(p) \/ CyclicOffer(p)
      PROVE  subscription' = subscription
  BY <1>5 DEF RegisterPublisherService, OfferTimer, CyclicOffer, sdVars
<1>6. ASSUME NEW t \in Subscribers, AttachSubscriber(t)
      PROVE  subscription' = subscription
  BY <1>6 DEF AttachSubscriber, sdVars
<1>7. ASSUME NEW m \in BagToSet(net), LookForService(m) \/ AcknowledgeSubscription(m) \/ Lose(m)
      PROVE  subscription' = subscription
  BY <1>7 DEF LookForService, AcknowledgeSubscription, Lose, sdVars
<1>8. CASE UNCHANGED vars
  BY <1>8 DEF vars
<1> QED
  BY <1>1, <1>2, <1>3, <1>4, <1>5, <1>6, <1>7, <1>8 DEF Next, Receive, Terminated

\* The endpoint of a connector changes by a static registration or by an
\* acknowledgement only.
LEMMA EndpointStep ==
    ASSUME TypeOK, [Next]_vars, NEW s \in Subscribers
    PROVE  \/ subEndpoint'[s] = subEndpoint[s]
           \/ /\ SubscriberApp[s].static
              /\ connector[s] = None /\ connector'[s] = s
              /\ subscription' = subscription
           \/ BecomesActive(s)
<1> USE DEF TypeOK
<1>1. ASSUME NEW t \in Subscribers, SubscribeService(t), ~UNCHANGED subEndpoint
      PROVE  \/ subEndpoint'[s] = subEndpoint[s]
             \/ /\ SubscriberApp[s].static
                /\ connector[s] = None /\ connector'[s] = s
                /\ subscription' = subscription
  BY <1>1 DEF SubscribeService
<1>2. ASSUME NEW t \in Subscribers, FindTimer(t) \/ AttachSubscriber(t)
      PROVE  UNCHANGED subEndpoint
  BY <1>2 DEF FindTimer, AttachSubscriber, hostVars
<1>3. ASSUME NEW p \in Publishers,
             RegisterPublisherService(p) \/ OfferTimer(p) \/ CyclicOffer(p)
      PROVE  UNCHANGED subEndpoint
  BY <1>3 DEF RegisterPublisherService, OfferTimer, CyclicOffer, hostVars
<1>4. ASSUME NEW m \in BagToSet(net),
             \/ LookForService(m) \/ AcknowledgeSubscription(m) \/ Lose(m)
             \/ SubscribeServiceIfThereIsAPendingRequest(m)
      PROVE  UNCHANGED subEndpoint
  BY <1>4 DEF LookForService, AcknowledgeSubscription, Lose, hostVars,
              SubscribeServiceIfThereIsAPendingRequest
<1>5. ASSUME NEW m \in BagToSet(net), ProcessAcknowledgedSubscription(m)
      PROVE  subEndpoint'[s] = subEndpoint[s] \/ BecomesActive(s)
  BY <1>5 DEF ProcessAcknowledgedSubscription, BecomesActive
<1>6. CASE UNCHANGED vars
  BY <1>6 DEF vars
<1> QED
  BY <1>1, <1>2, <1>3, <1>4, <1>5, <1>6 DEF Next, Receive, Terminated

\* Connectors are made for the applications that register; none is taken away.
LEMMA ConnectorStep ==
    ASSUME TypeOK, [Next]_vars
    PROVE  \/ UNCHANGED connector
           \/ \E s \in Subscribers :
                 /\ connector[s] = None
                 /\ \/ \E c \in ConnectorsFor(s) : connector' = [connector EXCEPT ![s] = c]
                    \/ /\ ConnectorsFor(s) = {}
                       /\ connector' = [connector EXCEPT ![s] = s]
<1>1. ASSUME NEW s \in Subscribers, SubscribeService(s) \/ AttachSubscriber(s)
      PROVE  /\ connector[s] = None
             /\ \/ \E c \in ConnectorsFor(s) : connector' = [connector EXCEPT ![s] = c]
                \/ /\ ConnectorsFor(s) = {}
                   /\ connector' = [connector EXCEPT ![s] = s]
  BY <1>1 DEF SubscribeService, AttachSubscriber
<1>2. ASSUME NEW s \in Subscribers, FindTimer(s)
      PROVE  UNCHANGED connector
  BY <1>2 DEF FindTimer, hostVars
<1>3. ASSUME NEW p \in Publishers,
             RegisterPublisherService(p) \/ OfferTimer(p) \/ CyclicOffer(p)
      PROVE  UNCHANGED connector
  BY <1>3 DEF RegisterPublisherService, OfferTimer, CyclicOffer, hostVars
<1>4. ASSUME NEW m \in BagToSet(net), Receive(m) \/ Lose(m)
      PROVE  UNCHANGED connector
  BY <1>4 DEF Receive, LookForService, AcknowledgeSubscription, Lose, hostVars,
              SubscribeServiceIfThereIsAPendingRequest, ProcessAcknowledgedSubscription
<1>5. CASE UNCHANGED vars
  BY <1>5 DEF vars
<1> QED
  BY <1>1, <1>2, <1>3, <1>4, <1>5 DEF Next, Terminated

\* What a step does to the SD state of publisher p.
LEMMA OfferStep ==
    ASSUME TypeOK, [Next]_vars, NEW p \in Publishers
    PROVE  \/ offer'[p] = offer[p]
           \/ /\ p \notin published /\ p \in published'
              /\ offer'[p] \in {Start(offer[p]), NextRepetitionPhase(offer[p], TRUE)}
           \/ /\ offer[p].timer \in PhaseTimers
              /\ offer'[p] = NextRepetitionPhase(offer[p], TRUE)
           \/ /\ offer[p].phase # "NONE"
              /\ offer'[p] = [offer[p] EXCEPT !.hasSubscription = TRUE]
<1> USE DEF TypeOK
<1>1. ASSUME NEW r \in Publishers, RegisterPublisherService(r)
      PROVE  \/ offer'[p] = offer[p]
             \/ /\ p \notin published /\ p \in published'
                /\ offer'[p] \in {Start(offer[p]), NextRepetitionPhase(offer[p], TRUE)}
  <2>1. CASE r = p  BY <1>1, <2>1 DEF RegisterPublisherService
  <2>2. CASE r # p  BY <1>1, <2>2 DEF RegisterPublisherService
  <2> QED  BY <2>1, <2>2
<1>2. ASSUME NEW r \in Publishers, OfferTimer(r)
      PROVE  \/ offer'[p] = offer[p]
             \/ /\ offer[p].timer \in PhaseTimers
                /\ offer'[p] = NextRepetitionPhase(offer[p], TRUE)
  BY <1>2 DEF OfferTimer
<1>3. ASSUME NEW r \in Publishers, CyclicOffer(r)
      PROVE  offer' = offer
  BY <1>3 DEF CyclicOffer, sdVars
<1>4. ASSUME NEW s \in Subscribers, AttachSubscriber(s) \/ SubscribeService(s) \/ FindTimer(s)
      PROVE  offer' = offer
  BY <1>4 DEF AttachSubscriber, SubscribeService, FindTimer, sdVars
<1>5. ASSUME NEW m \in BagToSet(net), AcknowledgeSubscription(m)
      PROVE  \/ offer'[p] = offer[p]
             \/ /\ offer[p].phase # "NONE"
                /\ offer'[p] = [offer[p] EXCEPT !.hasSubscription = TRUE]
  BY <1>5 DEF AcknowledgeSubscription
<1>6. ASSUME NEW m \in BagToSet(net),
             \/ LookForService(m) \/ SubscribeServiceIfThereIsAPendingRequest(m)
             \/ ProcessAcknowledgedSubscription(m) \/ Lose(m)
      PROVE  offer' = offer
  BY <1>6 DEF LookForService, SubscribeServiceIfThereIsAPendingRequest,
              ProcessAcknowledgedSubscription, Lose, sdVars
<1>7. CASE UNCHANGED vars
  BY <1>7 DEF vars
<1> QED
  BY <1>1, <1>2, <1>3, <1>4, <1>5, <1>6, <1>7 DEF Next, Receive, Terminated

\* A publisher never stops to serve whom it serves.
LEMMA ServesStep ==
    ASSUME TypeOK, [Next]_vars
    PROVE  /\ published \subseteq published'
           /\ \A p \in Publishers, h \in Hosts, q \in QoSGroups :
                 Serves(p, h, q) => Serves(p, h, q)'
<1> USE DEF TypeOK, Serves
<1>1. ASSUME NEW r \in Publishers, RegisterPublisherService(r)
      PROVE  /\ published \subseteq published' /\ remotes' = remotes
             /\ \A p \in Publishers : pubEndpoints[p] \subseteq pubEndpoints'[p]
  BY <1>1 DEF RegisterPublisherService
<1>2. ASSUME NEW r \in Publishers, OfferTimer(r) \/ CyclicOffer(r)
      PROVE  UNCHANGED <<published, pubEndpoints, remotes>>
  BY <1>2 DEF OfferTimer, CyclicOffer, hostVars
<1>3. ASSUME NEW s \in Subscribers, AttachSubscriber(s) \/ SubscribeService(s) \/ FindTimer(s)
      PROVE  UNCHANGED <<published, pubEndpoints, remotes>>
  BY <1>3 DEF AttachSubscriber, SubscribeService, FindTimer, hostVars
<1>4. ASSUME NEW m \in BagToSet(net), AcknowledgeSubscription(m)
      PROVE  /\ published' = published
             /\ \A p \in Publishers : /\ pubEndpoints[p] \subseteq pubEndpoints'[p]
                                      /\ remotes[p] \subseteq remotes'[p]
  BY <1>4 DEF AcknowledgeSubscription
<1>5. ASSUME NEW m \in BagToSet(net),
             \/ LookForService(m) \/ SubscribeServiceIfThereIsAPendingRequest(m)
             \/ ProcessAcknowledgedSubscription(m) \/ Lose(m)
      PROVE  UNCHANGED <<published, pubEndpoints, remotes>>
  BY <1>5 DEF LookForService, SubscribeServiceIfThereIsAPendingRequest,
              ProcessAcknowledgedSubscription, Lose, hostVars
<1>6. CASE UNCHANGED vars
  BY <1>6 DEF vars
<1> QED
  BY <1>1, <1>2, <1>3, <1>4, <1>5, <1>6 DEF Next, Receive, Terminated

\* Where a packet in flight after a step comes from.
IsAnnounced(m) ==
    \E p \in published' :
        /\ m \in OfferMessages(p)
        /\ \/ offer'[p] = NextRepetitionPhase(offer[p], TRUE)
           \/ offer'[p] = offer[p] /\ offer[p].timer = "CYCLIC_OFFER"

IsAnswer(m) ==
    \E n \in BagToSet(net) :
        \E p \in Answers(n.to, n.service, n.instance) :
            /\ m = OfferMessage(p, n.from)
            /\ n.type = "FIND"
            /\ offer' = offer

IsSubscribe(m) ==
    \E n \in BagToSet(net) : \E s \in PendingRequests(n) :
        n.type = "OFFER" /\ m = SubscribeMessage(s, n)

IsAck(m) ==
    \E n \in BagToSet(net) : \E p \in Subscribed(n) :
        /\ m = AckMessage(p, n)
        /\ n.type = "SUBSCRIBE"
        /\ n.qos \subseteq pubEndpoints'[p]
        /\ UDP \in n.qos => n.from \in remotes'[p]

LEMMA NetStep ==
    ASSUME TypeOK, [Next]_vars,
           \A p \in Publishers : offer[p].timer # "NONE" => p \in published,
           NEW m \in BagToSet(net')
    PROVE  \/ m \in BagToSet(net)
           \/ IsAnnounced(m) \/ IsAnswer(m) \/ IsSubscribe(m) \/ IsAck(m)
           \/ \E s \in Subscribers : m \in FindMessages(s)
<1> USE DEF TypeOK
<1>1. ASSUME NEW p \in Publishers, RegisterPublisherService(p)
      PROVE  m \in BagToSet(net) \/ IsAnnounced(m)
  <2>1. CASE UNCHANGED net  BY <2>1
  <2>2. CASE offer' = [offer EXCEPT ![p] = NextRepetitionPhase(@, TRUE)] /\ Send(OfferMessages(p))
    <3>1. m \in BagToSet(net) \/ m \in OfferMessages(p)
      BY <2>2, SendDomain
    <3>2. p \in published' /\ offer'[p] = NextRepetitionPhase(offer[p], TRUE)
      BY <1>1, <2>2 DEF RegisterPublisherService
    <3> QED  BY <3>1, <3>2 DEF IsAnnounced
  <2> QED  BY <1>1, <2>1, <2>2 DEF RegisterPublisherService
<1>2. ASSUME NEW p \in Publishers, OfferTimer(p) \/ CyclicOffer(p)
      PROVE  m \in BagToSet(net) \/ IsAnnounced(m)
  <2>1. m \in BagToSet(net) \/ m \in OfferMessages(p)
    BY <1>2, SendDomain DEF OfferTimer, CyclicOffer
  <2>2. published' = published
    BY <1>2 DEF OfferTimer, CyclicOffer, hostVars
  <2>3. \/ offer'[p] = NextRepetitionPhase(offer[p], TRUE)
        \/ offer'[p] = offer[p] /\ offer[p].timer = "CYCLIC_OFFER"
    BY <1>2 DEF OfferTimer, CyclicOffer, sdVars
  <2>4. p \in published
    BY <1>2 DEF OfferTimer, CyclicOffer, PhaseTimers
  <2> QED  BY <2>1, <2>2, <2>3, <2>4 DEF IsAnnounced
<1>3. ASSUME NEW s \in Subscribers, AttachSubscriber(s) \/ SubscribeService(s) \/ FindTimer(s)
      PROVE  m \in BagToSet(net) \/ m \in FindMessages(s)
  <2>1. UNCHANGED net \/ Send(FindMessages(s))
    BY <1>3 DEF AttachSubscriber, SubscribeService, FindTimer
  <2> QED  BY <2>1, SendDomain
<1>4. ASSUME NEW n \in BagToSet(net), LookForService(n)
      PROVE  m \in BagToSet(net) \/ IsAnswer(m)
  <2> DEFINE sent == {OfferMessage(p, n.from) : p \in Answers(n.to, n.service, n.instance)}
  <2>1. m \in BagToSet(net) \/ m \in sent
    <3>1. Reply(n, sent)  BY <1>4 DEF LookForService
    <3> HIDE DEF sent
    <3> QED  BY <3>1, ReplyDomain
  <2>2. n.type = "FIND" /\ offer' = offer
    BY <1>4 DEF LookForService, sdVars
  <2> QED  BY <2>1, <2>2 DEF IsAnswer
<1>5. ASSUME NEW n \in BagToSet(net), SubscribeServiceIfThereIsAPendingRequest(n)
      PROVE  m \in BagToSet(net) \/ IsSubscribe(m)
  <2> DEFINE sent == {SubscribeMessage(s, n) : s \in PendingRequests(n)}
  <2>1. m \in BagToSet(net) \/ m \in sent
    <3>1. Reply(n, sent)  BY <1>5 DEF SubscribeServiceIfThereIsAPendingRequest
    <3> HIDE DEF sent
    <3> QED  BY <3>1, ReplyDomain
  <2>2. n.type = "OFFER"
    BY <1>5 DEF SubscribeServiceIfThereIsAPendingRequest
  <2> QED  BY <2>1, <2>2 DEF IsSubscribe
<1>6. ASSUME NEW n \in BagToSet(net), AcknowledgeSubscription(n)
      PROVE  m \in BagToSet(net) \/ IsAck(m)
  <2> DEFINE sent == {AckMessage(p, n) : p \in Subscribed(n)}
  <2>1. m \in BagToSet(net) \/ m \in sent
    <3>1. Reply(n, sent)  BY <1>6 DEF AcknowledgeSubscription
    <3> HIDE DEF sent
    <3> QED  BY <3>1, ReplyDomain
  <2>2. n.type = "SUBSCRIBE"
    BY <1>6 DEF AcknowledgeSubscription
  <2>3. \A p \in Subscribed(n) : /\ n.qos \subseteq pubEndpoints'[p]
                                 /\ UDP \in n.qos => n.from \in remotes'[p]
    BY <1>6 DEF AcknowledgeSubscription, Subscribed
  <2> QED  BY <2>1, <2>2, <2>3 DEF IsAck
<1>7. ASSUME NEW n \in BagToSet(net), ProcessAcknowledgedSubscription(n) \/ Lose(n)
      PROVE  m \in BagToSet(net)
  <2>1. Reply(n, {})  BY <1>7 DEF ProcessAcknowledgedSubscription, Lose
  <2> QED  BY <2>1, ReplyDomain
<1>8. CASE UNCHANGED vars
  BY <1>8 DEF vars
<1> QED
  BY <1>1, <1>2, <1>3, <1>4, <1>5, <1>6, <1>7, <1>8 DEF Next, Receive, Terminated

-----------------------------------------------------------------------------
(* Registration: the connectors and subscription states of a host.         *)

\* A host has one connector per service and QoS group.
ConnectorsUnique ==
    \A s, t \in Subscribers :
        /\ connector[s] = s /\ connector[t] = t
        /\ SubscriberApp[s].host = SubscriberApp[t].host
        /\ SubscriberApp[s].service = SubscriberApp[t].service
        /\ SubscriberApp[s].qos = SubscriberApp[t].qos
        => s = t

\* Only the application a connector was made for has a subscription state, and
\* it discovers; nothing else of a subscription moves before.
RequestsOwnConnector ==
    \A s \in Subscribers :
        /\ Known(s) => connector[s] = s /\ ~SubscriberApp[s].static
        /\ ~Known(s) => subscription[s].timer = "NONE" /\ ~subscription[s].active
        /\ connector[s] = None => subEndpoint[s] = None

Registration == ConnectorsUnique /\ RequestsOwnConnector

LEMMA NextPhaseIsKnown ==
    ASSUME NEW state \in OfferState \cup SubscriptionState, NEW isOffer \in BOOLEAN
    PROVE  NextRepetitionPhase(state, isOffer).phase \in {"REPETITION", "MAIN"}
BY DEF NextRepetitionPhase, StartMainPhase, OfferState, SubscriptionState

LEMMA RegistrationInductive ==
    ASSUME TypeOK, Registration, [Next]_vars
    PROVE  Registration'
<1> USE DEF TypeOK, Registration
<1>0. None \notin Subscribers  BY ConfigAssumption
<1>1. \A t \in Subscribers : connector[t] = t => connector'[t] = t
  BY <1>0, ConnectorStep
<1>2. \A t \in Subscribers : connector'[t] = None => connector[t] = None
  <2>1. \A t \in Subscribers : \A c \in ConnectorsFor(t) : c # None
    BY <1>0 DEF ConnectorsFor
  <2> QED  BY <1>0, <2>1, ConnectorStep
<1>3. ConnectorsUnique'
  <2>1. CASE UNCHANGED connector
    BY <2>1 DEF ConnectorsUnique
  <2>2. ASSUME NEW s \in Subscribers, NEW c \in ConnectorsFor(s), connector[s] = None,
               connector' = [connector EXCEPT ![s] = c]
        PROVE  ConnectorsUnique'
    <3>1. c \in Subscribers /\ connector[c] = c /\ c # s
      BY <1>0, <2>2 DEF ConnectorsFor
    <3>2. \A t \in Subscribers : connector'[t] = t => connector[t] = t
      BY <2>2, <3>1
    <3> QED  BY <3>2 DEF ConnectorsUnique
  <2>3. ASSUME NEW s \in Subscribers, ConnectorsFor(s) = {},
               connector' = [connector EXCEPT ![s] = s]
        PROVE  ConnectorsUnique'
    <3>1. \A t \in Subscribers : connector'[t] = t => t = s \/ connector[t] = t
      BY <2>3
    <3> QED  BY <2>3, <3>1 DEF ConnectorsUnique, ConnectorsFor
  <2> QED  BY <2>1, <2>2, <2>3, ConnectorStep
<1>4. ASSUME NEW s \in Subscribers
      PROVE  /\ Known(s)' => connector'[s] = s /\ ~SubscriberApp[s].static
             /\ ~Known(s)' => subscription'[s].timer = "NONE" /\ ~subscription'[s].active
  <2> USE DEF RequestsOwnConnector, Known
  <2>0. subscription[s] \in SubscriptionState  OBVIOUS
  <2>1. CASE subscription'[s] = subscription[s]
    BY <1>1, <2>1
  <2>2. CASE Starts(s)
    <3>1. subscription'[s].phase # "NONE"
      <4>1. CASE subscription'[s] = Start(subscription[s])
        BY <2>0, <4>1 DEF Start, SubscriptionState
      <4>2. CASE subscription'[s] = NextRepetitionPhase(subscription[s], FALSE)
        BY <2>0, <4>2, NextPhaseIsKnown
      <4> QED  BY <2>2, <4>1, <4>2 DEF Starts
    <3> QED  BY <2>2, <3>1 DEF Starts
  <2>3. CASE Expires(s)
    <3>1. subscription[s].phase # "NONE"
      BY <2>3 DEF Expires, PhaseTimers
    <3>2. subscription'[s].phase # "NONE"
      <4>1. CASE subscription'[s] = TimerConsumed(subscription[s])
        BY <2>0, <3>1, <4>1 DEF TimerConsumed, SubscriptionState
      <4>2. CASE subscription'[s] = NextRepetitionPhase(subscription[s], FALSE)
        BY <2>0, <4>2, NextPhaseIsKnown
      <4> QED  BY <2>3, <4>1, <4>2 DEF Expires
    <3> QED  BY <1>1, <3>1, <3>2
  <2>4. CASE BecomesRequested(s)
    <3>1. subscription'[s].phase = "MAIN"
      BY <2>0, <2>4 DEF BecomesRequested, SubscriptionState
    <3> QED  BY <1>1, <2>4, <3>1 DEF BecomesRequested
  <2>5. CASE BecomesActive(s)
    <3>1. subscription[s].phase # "NONE"
      BY <2>5 DEF BecomesActive, Acknowledged, Requests
    <3>2. subscription'[s].phase = subscription[s].phase
      BY <2>0, <2>5 DEF BecomesActive, SubscriptionState
    <3> QED  BY <1>1, <3>1, <3>2
  <2> QED  BY <2>1, <2>2, <2>3, <2>4, <2>5, SubscriptionStep
<1>5. ASSUME NEW s \in Subscribers, connector'[s] = None
      PROVE  subEndpoint'[s] = None
  <2> USE DEF RequestsOwnConnector
  <2>1. connector[s] = None  BY <1>2, <1>5
  <2>2. ~BecomesActive(s)
    BY <1>0, <2>1 DEF BecomesActive, Acknowledged, Requests
  <2> QED  BY <1>0, <1>5, <2>1, <2>2, EndpointStep
<1>6. RequestsOwnConnector'
  BY <1>4, <1>5 DEF RequestsOwnConnector
<1> QED  BY <1>3, <1>6

THEOREM RegistrationInvariant == Spec => []Registration
<1>1. Init => Registration
  BY ConfigAssumption
     DEF Init, Registration, ConnectorsUnique, RequestsOwnConnector, Known
<1>2. TypeOK /\ Registration /\ [Next]_vars => Registration'
  BY RegistrationInductive
<1> QED  BY <1>1, <1>2, TypeCorrect, PTL DEF Spec

\* However many subscribers register, and in whatever order, a host never has
\* two subscription states for a service and QoS group: the errors that
\* discoverService raises for that case are unreachable.
THEOREM OneRequest == Spec => []OneRequestPerQoSGroup
<1>1. Registration => OneRequestPerQoSGroup
  BY DEF Registration, ConnectorsUnique, RequestsOwnConnector, OneRequestPerQoSGroup
<1> QED  BY <1>1, RegistrationInvariant, PTL

-----------------------------------------------------------------------------
(* Phases: a timer belongs to the phase it was armed in, unless the         *)
(* subscription has been seen meanwhile.                                    *)

OfferTimersFit ==
    \A p \in Publishers :
        /\ p \notin published => offer[p].phase = "NONE"
        /\ offer[p].phase = "NONE" => offer[p].timer = "NONE"
        /\ offer[p].timer = "INITIAL_WAIT_OVER" => offer[p].phase = "INITIAL_WAIT"
        /\ offer[p].timer = "REPETITION" => offer[p].phase = "REPETITION"
        /\ offer[p].timer = "CYCLIC_OFFER" => offer[p].phase = "MAIN"

FindTimersFit ==
    \A s \in Subscribers :
        /\ subscription[s].seen => subscription[s].phase = "MAIN"
        /\ ~subscription[s].seen =>
              /\ subscription[s].timer = "INITIAL_WAIT_OVER" =>
                    subscription[s].phase = "INITIAL_WAIT"
              /\ subscription[s].timer = "REPETITION" =>
                    subscription[s].phase = "REPETITION"

Phasing == OfferTimersFit /\ FindTimersFit /\ OffersLeftInitialWait

\* The next phase is the repetition phase, with its timer, or the main phase.
LEMMA NextPhaseFits ==
    ASSUME NEW state \in OfferState \cup SubscriptionState, NEW isOffer \in BOOLEAN
    PROVE  LET next == NextRepetitionPhase(state, isOffer)
           IN  \/ next.phase = "REPETITION" /\ next.timer = "REPETITION"
               \/ next.phase = "MAIN" /\ next.timer \in {"NONE", "CYCLIC_OFFER"}
BY DEF NextRepetitionPhase, StartMainPhase, OfferState, SubscriptionState

LEMMA NextPhaseKeepsFlags ==
    ASSUME NEW state \in SubscriptionState
    PROVE  /\ NextRepetitionPhase(state, FALSE).seen = state.seen
           /\ NextRepetitionPhase(state, FALSE).active = state.active
BY DEF NextRepetitionPhase, StartMainPhase, SubscriptionState

LEMMA PhasingInductive ==
    ASSUME TypeOK, TypeOK', Registration, Phasing, [Next]_vars
    PROVE  Phasing'
<1> USE DEF TypeOK, Phasing
<1>1. ASSUME NEW p \in Publishers
      PROVE  /\ p \notin published' => offer'[p].phase = "NONE"
             /\ offer'[p].phase = "NONE" => offer'[p].timer = "NONE"
             /\ offer'[p].timer = "INITIAL_WAIT_OVER" => offer'[p].phase = "INITIAL_WAIT"
             /\ offer'[p].timer = "REPETITION" => offer'[p].phase = "REPETITION"
             /\ offer'[p].timer = "CYCLIC_OFFER" => offer'[p].phase = "MAIN"
  <2>0. offer[p] \in OfferState /\ published \subseteq published'
    BY ServesStep
  <2>1. CASE offer'[p] = offer[p]
    BY <2>0, <2>1 DEF OfferTimersFit
  <2>2. CASE p \in published' /\ offer'[p] = Start(offer[p])
    BY <2>0, <2>2 DEF Start, OfferState
  <2>3. CASE p \in published' /\ offer'[p] = NextRepetitionPhase(offer[p], TRUE)
    BY <2>0, <2>3, NextPhaseFits
  <2>4. CASE /\ offer[p].phase # "NONE"
             /\ offer'[p] = [offer[p] EXCEPT !.hasSubscription = TRUE]
    BY <2>0, <2>4 DEF OfferTimersFit, OfferState
  <2>5. offer[p].timer \in PhaseTimers => p \in published'
    BY <2>0 DEF PhaseTimers, OfferTimersFit
  <2> QED  BY <2>1, <2>2, <2>3, <2>4, <2>5, OfferStep
<1>2. OfferTimersFit'
  BY <1>1 DEF OfferTimersFit
<1>3. ASSUME NEW s \in Subscribers
      PROVE  /\ subscription'[s].seen => subscription'[s].phase = "MAIN"
             /\ ~subscription'[s].seen =>
                  /\ subscription'[s].timer = "INITIAL_WAIT_OVER" =>
                        subscription'[s].phase = "INITIAL_WAIT"
                  /\ subscription'[s].timer = "REPETITION" =>
                        subscription'[s].phase = "REPETITION"
  <2>0. subscription[s] \in SubscriptionState  OBVIOUS
  <2>1. CASE subscription'[s] = subscription[s]
    BY <2>1 DEF FindTimersFit
  <2>2. CASE Starts(s)
    <3>1. ~subscription[s].seen
      <4>1. None \notin Subscribers  BY ConfigAssumption
      <4>2. ~Known(s)
        BY <2>2, <4>1 DEF Starts, Registration, RequestsOwnConnector
      <4> QED  BY <4>2 DEF Known, FindTimersFit
    <3>2. CASE subscription'[s] = Start(subscription[s])
      BY <2>0, <3>1, <3>2 DEF Start, SubscriptionState
    <3>3. CASE subscription'[s] = NextRepetitionPhase(subscription[s], FALSE)
      BY <2>0, <3>1, <3>3, NextPhaseFits, NextPhaseKeepsFlags
    <3> QED  BY <2>2, <3>2, <3>3 DEF Starts
  <2>3. CASE Expires(s)
    <3>1. CASE subscription[s].seen
      <4>1. subscription'[s] = TimerConsumed(subscription[s])
        BY <2>3, <3>1 DEF Expires
      <4> QED  BY <2>0, <3>1, <4>1 DEF TimerConsumed, SubscriptionState, FindTimersFit
    <3>2. CASE ~subscription[s].seen
      <4>1. subscription'[s] = NextRepetitionPhase(subscription[s], FALSE)
        BY <2>3, <3>2 DEF Expires
      <4> QED  BY <2>0, <3>2, <4>1, NextPhaseFits, NextPhaseKeepsFlags
    <3> QED  BY <3>1, <3>2
  <2>4. CASE BecomesRequested(s)
    BY <2>0, <2>4 DEF BecomesRequested, SubscriptionState
  <2>5. CASE BecomesActive(s)
    BY <2>0, <2>5 DEF BecomesActive, SubscriptionState, FindTimersFit
  <2> QED  BY <2>1, <2>2, <2>3, <2>4, <2>5, SubscriptionStep
<1>4. FindTimersFit'
  BY <1>3 DEF FindTimersFit
<1>5. ASSUME NEW p \in published, offer[p].phase \notin {"NONE", "INITIAL_WAIT"}
      PROVE  p \in published' /\ offer'[p].phase \notin {"NONE", "INITIAL_WAIT"}
  <2>0. p \in Publishers /\ p \in published' /\ offer[p] \in OfferState
    BY ServesStep
  <2>1. CASE offer'[p] = NextRepetitionPhase(offer[p], TRUE)
    BY <2>0, <2>1, NextPhaseFits
  <2>2. CASE offer'[p] = [offer[p] EXCEPT !.hasSubscription = TRUE]
    BY <1>5, <2>0, <2>2 DEF OfferState
  <2> QED  BY <1>5, <2>0, <2>1, <2>2, OfferStep
<1>6. ASSUME NEW m \in BagToSet(net'), m.type = "OFFER"
      PROVE  \E p \in published' : /\ offer'[p].phase \notin {"NONE", "INITIAL_WAIT"}
                                    /\ m = OfferMessage(p, m.to)
  <2>1. CASE m \in BagToSet(net)
    BY <1>5, <1>6, <2>1 DEF OffersLeftInitialWait
  <2>2. CASE IsAnnounced(m)
    <3>1. PICK p \in published' :
             /\ m \in OfferMessages(p)
             /\ \/ offer'[p] = NextRepetitionPhase(offer[p], TRUE)
                \/ offer'[p] = offer[p] /\ offer[p].timer = "CYCLIC_OFFER"
      BY <2>2 DEF IsAnnounced
    <3>2. p \in Publishers  OBVIOUS
    <3>3. offer'[p].phase \notin {"NONE", "INITIAL_WAIT"}
      BY <3>1, <3>2, NextPhaseFits DEF OfferTimersFit
    <3>4. m = OfferMessage(p, m.to)
      BY <3>1 DEF OfferMessages, OfferMessage
    <3> QED  BY <3>3, <3>4
  <2>3. CASE IsAnswer(m)
    <3>1. PICK n \in BagToSet(net) : \E p \in Answers(n.to, n.service, n.instance) :
             m = OfferMessage(p, n.from)
      BY <2>3 DEF IsAnswer
    <3>2. PICK p \in Answers(n.to, n.service, n.instance) : m = OfferMessage(p, n.from)
      BY <3>1
    <3>3. p \in published /\ offer[p].phase \notin {"NONE", "INITIAL_WAIT"}
      BY DEF Answers, OfferTimersFit
    <3>4. m = OfferMessage(p, m.to)
      BY <3>2 DEF OfferMessage
    <3> QED  BY <1>5, <3>3, <3>4
  <2>4. CASE IsSubscribe(m) \/ IsAck(m)
    BY <1>6, <2>4 DEF IsSubscribe, IsAck, SubscribeMessage, AckMessage
  <2>5. CASE \E s \in Subscribers : m \in FindMessages(s)
    BY <1>6, <2>5 DEF FindMessages
  <2>6. \A p \in Publishers : offer[p].timer # "NONE" => p \in published
    BY DEF OfferTimersFit
  <2> QED  BY <2>1, <2>2, <2>3, <2>4, <2>5, <2>6, NetStep
<1>7. OffersLeftInitialWait'
  BY <1>6 DEF OffersLeftInitialWait
<1> QED  BY <1>2, <1>4, <1>7

THEOREM PhasingInvariant == Spec => []Phasing
<1>1. Init => Phasing
  BY DEF Init, Phasing, OfferTimersFit, FindTimersFit, OffersLeftInitialWait,
         EmptyBag, SetToBag, BagToSet
<1>2. TypeOK /\ TypeOK' /\ Registration /\ Phasing /\ [Next]_vars => Phasing'
  BY PhasingInductive
<1> QED  BY <1>1, <1>2, TypeCorrect, RegistrationInvariant, PTL DEF Spec

\* No offer leaves a host while its publisher is in the initial wait phase.
THEOREM InitialWaitIsSilent == Spec => []OffersLeftInitialWait
BY PhasingInvariant, PTL DEF Phasing

LEMMA PhasesStep ==
    ASSUME TypeOK, TypeOK', Registration, Phasing, [Next]_vars
    PROVE  /\ \A p \in Publishers :
                 PhaseRank(offer[p].phase) <= PhaseRank(offer'[p].phase)
           /\ \A s \in Subscribers :
                 PhaseRank(subscription[s].phase) <= PhaseRank(subscription'[s].phase)
<1> USE DEF TypeOK, Phasing
<1>1. ASSUME NEW p \in Publishers
      PROVE  PhaseRank(offer[p].phase) <= PhaseRank(offer'[p].phase)
  <2>0. offer[p] \in OfferState /\ offer'[p] \in OfferState  OBVIOUS
  <2>1. CASE offer'[p].phase = offer[p].phase
    BY <2>0, <2>1 DEF PhaseRank, OfferState, Phases
  <2>2. CASE offer[p].phase = "NONE"
    BY <2>0, <2>2 DEF PhaseRank, OfferState, Phases
  <2>3. CASE /\ offer[p].timer \in PhaseTimers
             /\ offer'[p] = NextRepetitionPhase(offer[p], TRUE)
    <3>1. offer[p].phase \in {"INITIAL_WAIT", "REPETITION"}
      BY <2>3 DEF PhaseTimers, OfferTimersFit
    <3>2. offer'[p].phase \in {"REPETITION", "MAIN"}
      BY <2>0, <2>3, NextPhaseIsKnown
    <3> QED  BY <3>1, <3>2 DEF PhaseRank
  <2>4. CASE offer'[p] = [offer[p] EXCEPT !.hasSubscription = TRUE]
    BY <2>0, <2>1, <2>4 DEF OfferState
  <2>5. p \notin published => offer[p].phase = "NONE"
    BY DEF OfferTimersFit
  <2> QED  BY <2>1, <2>2, <2>3, <2>4, <2>5, OfferStep
<1>2. ASSUME NEW s \in Subscribers
      PROVE  PhaseRank(subscription[s].phase) <= PhaseRank(subscription'[s].phase)
  <2>0. subscription[s] \in SubscriptionState /\ subscription'[s] \in SubscriptionState
    OBVIOUS
  <2>1. CASE subscription'[s].phase = subscription[s].phase
    BY <2>0, <2>1 DEF PhaseRank, SubscriptionState, Phases
  <2>2. CASE subscription'[s].phase = "MAIN" \/ subscription[s].phase = "NONE"
    BY <2>0, <2>2 DEF PhaseRank, SubscriptionState, Phases
  <2>3. CASE Starts(s)
    <3>1. None \notin Subscribers  BY ConfigAssumption
    <3>2. ~Known(s)
      BY <2>3, <3>1 DEF Starts, Registration, RequestsOwnConnector
    <3> QED  BY <2>2, <3>2 DEF Known
  <2>4. CASE Expires(s)
    <3>1. CASE subscription[s].seen
      <4>1. subscription'[s] = TimerConsumed(subscription[s])
        BY <2>4, <3>1 DEF Expires
      <4> QED  BY <2>0, <2>1, <4>1 DEF TimerConsumed, SubscriptionState
    <3>2. CASE ~subscription[s].seen
      <4>1. subscription[s].phase \in {"INITIAL_WAIT", "REPETITION"}
        BY <2>4, <3>2 DEF Expires, PhaseTimers, FindTimersFit
      <4>2. subscription'[s].phase \in {"REPETITION", "MAIN"}
        BY <2>0, <2>4, <3>2, NextPhaseIsKnown DEF Expires
      <4> QED  BY <4>1, <4>2 DEF PhaseRank
    <3> QED  BY <3>1, <3>2
  <2>5. CASE BecomesRequested(s)
    BY <2>0, <2>2, <2>5 DEF BecomesRequested, SubscriptionState
  <2>6. CASE BecomesActive(s)
    BY <2>0, <2>1, <2>6 DEF BecomesActive, SubscriptionState
  <2> QED  BY <2>1, <2>3, <2>4, <2>5, <2>6, SubscriptionStep
<1> QED  BY <1>1, <1>2

\* No service goes back to an earlier phase: the late timer of a subscription
\* that an offer took to the main phase has no effect.
THEOREM PhasesAdvance == Spec => PhasesOnlyAdvance
<1>1. /\ TypeOK /\ TypeOK' /\ Registration /\ Phasing /\ [Next]_vars
      => [/\ \A p \in Publishers : PhaseRank(offer[p].phase) <= PhaseRank(offer'[p].phase)
          /\ \A s \in Subscribers :
                PhaseRank(subscription[s].phase) <= PhaseRank(subscription'[s].phase)]_vars
  BY PhasesStep
<1> QED  BY <1>1, TypeCorrect, RegistrationInvariant, PhasingInvariant, PTL
            DEF Spec, PhasesOnlyAdvance

-----------------------------------------------------------------------------
(* Serving: an acknowledgement in flight stands for a publisher that serves *)
(* its receiver already, so the endpoint made for it will hear something.   *)

PacketsCross == \A m \in BagToSet(net) : m.from # m.to

AcksAreServed ==
    \A m \in BagToSet(net) : m.type = "ACK" =>
        \E p \in Publishers : /\ PublisherApp[p].host = m.from
                             /\ PublisherApp[p].service = m.service
                             /\ PublisherApp[p].instance = m.instance
                             /\ m.qos \subseteq PublisherApp[p].qos
                             /\ \A q \in m.qos : Serves(p, m.to, q)

\* A discovering connector gets its endpoint by the first acknowledgement.
EndpointIffActive ==
    \A s \in Subscribers : Known(s) => (subscription[s].active <=> subEndpoint[s] # None)

Serving == PacketsCross /\ AcksAreServed /\ EndpointIffActive /\ ActiveIsServed

\* What makes a request active for the first time fits it and serves it.
LEMMA AcknowledgedFits ==
    ASSUME TypeOK, Serving, NEW m \in BagToSet(net), m.type = "ACK",
           NEW s \in Acknowledged(m)
    PROVE  \E p \in Publishers : /\ Matches(s, p)
                                /\ PublisherApp[p].host = m.from
                                /\ Serves(p, SubscriberApp[s].host, SubscriberApp[s].qos)
<1>1. /\ SubscriberApp[s].host = m.to /\ SubscriberApp[s].service = m.service
      /\ SubscriberApp[s].qos \in m.qos
      /\ SubscriberApp[s].instance \in {m.instance, AnyInstance}
  BY DEF Acknowledged, Requests
<1>2. PICK p \in Publishers : /\ PublisherApp[p].host = m.from
                             /\ PublisherApp[p].service = m.service
                             /\ PublisherApp[p].instance = m.instance
                             /\ m.qos \subseteq PublisherApp[p].qos
                             /\ \A q \in m.qos : Serves(p, m.to, q)
  BY DEF Serving, AcksAreServed
<1>3. Matches(s, p)
  BY <1>1, <1>2 DEF Matches, Serving, PacketsCross
<1>4. Serves(p, SubscriberApp[s].host, SubscriberApp[s].qos)
  BY <1>1, <1>2
<1> QED  BY <1>2, <1>3, <1>4

LEMMA ServingInductive ==
    ASSUME TypeOK, TypeOK', Registration, Phasing, Serving, [Next]_vars
    PROVE  Serving'
<1> USE DEF TypeOK
<1>0. \A p \in Publishers : offer[p].timer # "NONE" => p \in published
  BY DEF Phasing, OfferTimersFit
<1>1. ASSUME NEW m \in BagToSet(net')
      PROVE  m.from # m.to
  <2>1. CASE m \in BagToSet(net)
    BY <2>1 DEF Serving, PacketsCross
  <2>2. CASE IsAnnounced(m)
    BY <2>2 DEF IsAnnounced, OfferMessages, OfferMessage
  <2>3. CASE IsAnswer(m)
    BY <2>3 DEF IsAnswer, Answers, OfferMessage, Serving, PacketsCross
  <2>4. CASE IsSubscribe(m)
    BY <2>4 DEF IsSubscribe, SubscribeMessage, Serving, PacketsCross
  <2>5. CASE IsAck(m)
    BY <2>5 DEF IsAck, AckMessage, Serving, PacketsCross
  <2>6. CASE \E s \in Subscribers : m \in FindMessages(s)
    BY <2>6, FindMessageType
  <2> QED  BY <1>0, <2>1, <2>2, <2>3, <2>4, <2>5, <2>6, NetStep
<1>2. PacketsCross'
  BY <1>1 DEF PacketsCross
<1>3. ASSUME NEW m \in BagToSet(net'), m.type = "ACK"
      PROVE  \E p \in Publishers : /\ PublisherApp[p].host = m.from
                                  /\ PublisherApp[p].service = m.service
                                  /\ PublisherApp[p].instance = m.instance
                                  /\ m.qos \subseteq PublisherApp[p].qos
                                  /\ \A q \in m.qos : Serves(p, m.to, q)'
  <2>1. CASE m \in BagToSet(net)
    <3>1. m.qos \subseteq QoSGroups /\ m.to \in Hosts
      BY <2>1 DEF Message
    <3>2. PICK p \in Publishers : /\ PublisherApp[p].host = m.from
                                 /\ PublisherApp[p].service = m.service
                                 /\ PublisherApp[p].instance = m.instance
                                 /\ m.qos \subseteq PublisherApp[p].qos
                                 /\ \A q \in m.qos : Serves(p, m.to, q)
      BY <1>3, <2>1 DEF Serving, AcksAreServed
    <3>3. \A q \in m.qos : Serves(p, m.to, q)'
      BY <3>1, <3>2, ServesStep
    <3> QED  BY <3>2, <3>3
  <2>2. CASE IsAck(m)
    <3>1. PICK n \in BagToSet(net) : \E p \in Subscribed(n) :
                /\ m = AckMessage(p, n)
                /\ n.qos \subseteq pubEndpoints'[p]
                /\ UDP \in n.qos => n.from \in remotes'[p]
      BY <2>2 DEF IsAck
    <3>2. PICK p \in Subscribed(n) : /\ m = AckMessage(p, n)
                                     /\ n.qos \subseteq pubEndpoints'[p]
                                     /\ UDP \in n.qos => n.from \in remotes'[p]
      BY <3>1
    <3>3. /\ p \in published /\ p \in Publishers
          /\ PublisherApp[p].host = n.to /\ PublisherApp[p].service = n.service
          /\ n.qos \subseteq PublisherApp[p].qos
      BY DEF Subscribed
    <3>4. /\ m.from = n.to /\ m.to = n.from /\ m.service = n.service
          /\ m.instance = PublisherApp[p].instance /\ m.qos = n.qos
      BY <3>2 DEF AckMessage
    <3>5. p \in published'
      BY <3>3, ServesStep
    <3>6. \A q \in m.qos : Serves(p, m.to, q)'
      BY <3>2, <3>4, <3>5 DEF Serves
    <3> QED  BY <3>3, <3>4, <3>6
  <2>3. ~(IsAnnounced(m) \/ IsAnswer(m))
    <3>1. ~IsAnnounced(m)
      <4>1. ASSUME NEW p \in published', NEW x \in OfferMessages(p)
            PROVE  x.type = "OFFER"
        BY DEF OfferMessages, OfferMessage
      <4> QED  BY <1>3, <4>1 DEF IsAnnounced
    <3>2. ~IsAnswer(m)
      BY <1>3 DEF IsAnswer, OfferMessage
    <3> QED  BY <3>1, <3>2
  <2>4. ~IsSubscribe(m)
    BY <1>3 DEF IsSubscribe, SubscribeMessage
  <2>5. ~\E s \in Subscribers : m \in FindMessages(s)
    BY <1>3, FindMessageType
  <2> QED  BY <1>0, <2>1, <2>2, <2>3, <2>4, <2>5, NetStep
<1>4. AcksAreServed'
  BY <1>3 DEF AcksAreServed
<1>5. ASSUME NEW s \in Subscribers
      PROVE  Known(s)' => (subscription'[s].active <=> subEndpoint'[s] # None)
  <2>0. subscription[s] \in SubscriptionState /\ None \notin Subscribers
    BY ConfigAssumption
  <2>1. CASE subscription'[s] = subscription[s] /\ subEndpoint'[s] = subEndpoint[s]
    BY <2>1 DEF Serving, EndpointIffActive, Known
  <2>2. CASE subscription'[s] = subscription[s] /\ SubscriberApp[s].static
    BY <2>2 DEF Registration, RequestsOwnConnector, Known
  <2>3. CASE Starts(s)
    <3>1. ~Known(s) /\ ~subscription[s].active /\ subEndpoint[s] = None
      BY <2>0, <2>3 DEF Starts, Registration, RequestsOwnConnector
    <3>2. subscription'[s].active = subscription[s].active
      <4>1. Start(subscription[s]).active = subscription[s].active
        BY <2>0 DEF Start, SubscriptionState
      <4> QED  BY <2>0, <2>3, <4>1, NextPhaseKeepsFlags DEF Starts
    <3> QED  BY <2>3, <3>1, <3>2 DEF Starts
  <2>4. CASE Expires(s)
    <3>1. Known(s)
      BY <2>4 DEF Expires, Registration, RequestsOwnConnector, PhaseTimers
    <3>2. subscription'[s].active = subscription[s].active
      BY <2>0, <2>4 DEF Expires, TimerConsumed, NextRepetitionPhase, StartMainPhase,
                        SubscriptionState
    <3> QED  BY <2>4, <3>1, <3>2 DEF Expires, Serving, EndpointIffActive
  <2>5. CASE BecomesRequested(s)
    BY <2>0, <2>5 DEF BecomesRequested, SubscriptionState, Serving, EndpointIffActive
  <2>6. CASE BecomesActive(s)
    <3>1. Known(s)
      BY <2>6 DEF BecomesActive, Acknowledged, Requests
    <3>2. subscription'[s].active
      BY <2>0, <2>6 DEF BecomesActive, SubscriptionState
    <3>3. PICK m \in BagToSet(net) :
             subEndpoint'[s] = IF NeedsEndpoint(s) THEN m.from ELSE subEndpoint[s]
      BY <2>6 DEF BecomesActive
    <3>4. m.from # None
      BY ConfigAssumption DEF Message
    <3>5. subEndpoint'[s] # None
      BY <3>1, <3>3, <3>4 DEF NeedsEndpoint, Serving, EndpointIffActive
    <3> QED  BY <3>2, <3>5
  <2> QED
    BY <2>1, <2>2, <2>3, <2>4, <2>5, <2>6, SubscriptionStep, EndpointStep
<1>6. EndpointIffActive'
  BY <1>5 DEF EndpointIffActive, Known
<1>7. ASSUME NEW s \in Subscribers, subscription'[s].active
      PROVE  \E p \in Publishers :
                /\ Matches(s, p)
                /\ subEndpoint'[s] = PublisherApp[p].host
                /\ Serves(p, SubscriberApp[s].host, SubscriberApp[s].qos)'
  <2>0. /\ subscription[s] \in SubscriptionState
        /\ SubscriberApp[s].host \in Hosts /\ SubscriberApp[s].qos \in QoSGroups
    BY ConfigAssumption
  <2>1. CASE subscription[s].active /\ subEndpoint'[s] = subEndpoint[s]
    <3>1. PICK p \in Publishers :
             /\ Matches(s, p)
             /\ subEndpoint[s] = PublisherApp[p].host
             /\ Serves(p, SubscriberApp[s].host, SubscriberApp[s].qos)
      BY <2>1 DEF Serving, ActiveIsServed
    <3> QED  BY <2>0, <2>1, <3>1, ServesStep
  <2>2. CASE BecomesActive(s)
    <3>1. PICK m \in BagToSet(net) :
             /\ m.type = "ACK" /\ s \in Acknowledged(m)
             /\ subEndpoint'[s] = IF NeedsEndpoint(s) THEN m.from ELSE subEndpoint[s]
      BY <2>2 DEF BecomesActive
    <3>2. CASE subscription[s].active
      <4>1. subEndpoint'[s] = subEndpoint[s]
        BY <3>1, <3>2 DEF NeedsEndpoint
      <4> QED  BY <2>1, <3>2, <4>1
    <3>3. CASE ~subscription[s].active
      <4>1. Known(s)
        BY <3>1 DEF Acknowledged, Requests
      <4>2. subEndpoint'[s] = m.from
        BY <3>1, <3>3, <4>1 DEF NeedsEndpoint, Serving, EndpointIffActive
      <4>3. PICK p \in Publishers :
               /\ Matches(s, p)
               /\ PublisherApp[p].host = m.from
               /\ Serves(p, SubscriberApp[s].host, SubscriberApp[s].qos)
        BY <3>1, AcknowledgedFits
      <4> QED  BY <2>0, <4>2, <4>3, ServesStep
    <3> QED  BY <3>2, <3>3
  <2>3. CASE ~BecomesActive(s)
    <3>1. subscription[s].active
      <4>1. CASE subscription'[s] = subscription[s]
        BY <1>7, <4>1
      <4>2. CASE Starts(s)
        BY <1>7, <2>0, <4>2 DEF Starts, Start, NextRepetitionPhase, StartMainPhase,
                                SubscriptionState
      <4>3. CASE Expires(s)
        BY <1>7, <2>0, <4>3 DEF Expires, TimerConsumed, NextRepetitionPhase, StartMainPhase,
                                SubscriptionState
      <4>4. CASE BecomesRequested(s)
        BY <1>7, <2>0, <4>4 DEF BecomesRequested, SubscriptionState
      <4> QED  BY <2>3, <4>1, <4>2, <4>3, <4>4, SubscriptionStep
    <3>2. Known(s) /\ ~SubscriberApp[s].static
      BY <3>1 DEF Registration, RequestsOwnConnector
    <3>3. subEndpoint'[s] = subEndpoint[s]
      BY <2>3, <3>2, EndpointStep
    <3> QED  BY <2>1, <3>1, <3>3
  <2> QED  BY <2>2, <2>3
<1>8. ActiveIsServed'
  BY <1>7 DEF ActiveIsServed, Matches
<1> QED  BY <1>2, <1>4, <1>6, <1>8 DEF Serving

THEOREM ServingInvariant == Spec => []Serving
<1>1. Init => Serving
  BY DEF Init, Serving, PacketsCross, AcksAreServed, EndpointIffActive, ActiveIsServed,
         Known, EmptyBag, SetToBag, BagToSet
<1>2. /\ TypeOK /\ TypeOK' /\ Registration /\ Phasing /\ Serving /\ [Next]_vars
      => Serving'
  BY ServingInductive
<1> QED  BY <1>1, <1>2, TypeCorrect, RegistrationInvariant, PhasingInvariant, PTL DEF Spec

\* Nobody listens to a publisher that will not send: whatever the order of the
\* packets, and whichever of them are lost or repeated.
THEOREM NobodyListensInVain == Spec => []ActiveIsServed
BY ServingInvariant, PTL DEF Serving

-----------------------------------------------------------------------------
(* Copies in flight: what sending and replying does to their number.       *)

LEMMA SendCopies ==
    ASSUME IsABag(net), NEW sent, Send(sent)
    PROVE  /\ IsABag(net')
           /\ \A x : x \in sent => Copies(x, net') = Copies(x, net) + 1
           /\ \A x : x \notin sent => Copies(x, net') = Copies(x, net)
BY DEF Send, IsABag, Copies, BagIn, BagToSet, SetToBag, (+)

LEMMA ReplyCopies ==
    ASSUME IsABag(net), NEW m \in BagToSet(net), NEW sent, m \notin sent, Reply(m, sent)
    PROVE  /\ IsABag(net')
           /\ Copies(m, net') = Copies(m, net) - 1
           /\ \A x : x \in sent => Copies(x, net') = Copies(x, net) + 1
           /\ \A x : x # m /\ x \notin sent => Copies(x, net') = Copies(x, net)
<1> DEFINE rest == net (-) SetToBag({m})
<1>1. /\ IsABag(rest)
      /\ Copies(m, rest) = Copies(m, net) - 1
      /\ \A x : x # m => Copies(x, rest) = Copies(x, net)
  BY DEF IsABag, Copies, BagIn, BagToSet, SetToBag, (-)
<1>2. net' = rest (+) SetToBag(sent)  BY DEF Reply
<1> HIDE DEF rest
<1>3. /\ IsABag(net')
      /\ \A x : x \in sent => Copies(x, net') = Copies(x, rest) + 1
      /\ \A x : x \notin sent => Copies(x, net') = Copies(x, rest)
  BY <1>1, <1>2 DEF IsABag, Copies, BagIn, BagToSet, SetToBag, (+)
<1> QED  BY <1>1, <1>3

LEMMA CopiesInFlight ==
    ASSUME NEW bag, IsABag(bag), NEW x
    PROVE  /\ Copies(x, bag) \in Nat
           /\ x \in BagToSet(bag) <=> Copies(x, bag) # 0
BY DEF IsABag, Copies, BagIn, BagToSet

-----------------------------------------------------------------------------
(* Handshakes: SUBSCRIBE, acknowledgement and the flag "requested".        *)

\* The packet m belongs to the handshake of request s.
OfRequest(s, m) ==
    /\ m.service = SubscriberApp[s].service /\ m.qos = {SubscriberApp[s].qos}
    /\ \/ m.type = "SUBSCRIBE" /\ m.from = SubscriberApp[s].host
       \/ m.type = "ACK" /\ m.to = SubscriberApp[s].host

\* A service has one publisher on a host.
PublishersUnique ==
    \A p, r \in published :
        /\ PublisherApp[p].host = PublisherApp[r].host
        /\ PublisherApp[p].service = PublisherApp[r].service
        => p = r

\* Only an offer makes a subscription requested.
UnknownIdle == \A s \in Subscribers : ~Known(s) => ~subscription[s].requested

\* A handshake packet belongs to a request that takes its instance, and a
\* SUBSCRIBE goes to a host whose publisher takes it and has that instance.
HandshakesMeet ==
    \A m \in BagToSet(net) :
        /\ m.type \in {"SUBSCRIBE", "ACK"} =>
              \E s \in Subscribers : /\ Known(s) /\ OfRequest(s, m)
                                     /\ SubscriberApp[s].instance \in {m.instance, AnyInstance}
        /\ m.type = "SUBSCRIBE" =>
              \E p \in Subscribed(m) : PublisherApp[p].instance = m.instance

Handshaking == IsABag(net) /\ PublishersUnique /\ UnknownIdle /\ HandshakesMeet

\* What RequestedIsUnderWay says of one request.
UnderWay(s) ==
    IF subscription[s].requested
    THEN \E m \in Handshakes(s) : Handshakes(s) = {m} /\ Copies(m, net) = 1
    ELSE Handshakes(s) = {}

LEMMA HandshakePackets ==
    \A s : Handshakes(s) = {m \in BagToSet(net) : OfRequest(s, m)}
BY DEF Handshakes, OfRequest

\* A packet belongs to the handshake of one request only.
LEMMA OneOwner ==
    ASSUME OneRequestPerQoSGroup, NEW s \in Subscribers, NEW t \in Subscribers, NEW m,
           Known(s), Known(t), OfRequest(s, m), OfRequest(t, m)
    PROVE  s = t
BY DEF OneRequestPerQoSGroup, OfRequest

LEMMA UnderWayKept ==
    ASSUME IsABag(net), IsABag(net'), NEW s, UnderWay(s),
           subscription'[s].requested = subscription[s].requested,
           \A m : OfRequest(s, m) => Copies(m, net') = Copies(m, net)
    PROVE  UnderWay(s)'
<1>1. Handshakes(s)' = {m \in BagToSet(net') : OfRequest(s, m)}
  BY HandshakePackets DEF Handshakes, OfRequest
<1>2. \A m : OfRequest(s, m) => (m \in BagToSet(net') <=> m \in BagToSet(net))
  BY CopiesInFlight
<1>3. Handshakes(s)' = Handshakes(s)
  BY <1>1, <1>2, HandshakePackets
<1>4. \A m \in Handshakes(s) : Copies(m, net') = Copies(m, net)
  BY HandshakePackets
<1> HIDE DEF Handshakes
<1> QED  BY <1>3, <1>4 DEF UnderWay

LEMMA KnownStays ==
    ASSUME TypeOK, TypeOK', Registration, Phasing, [Next]_vars, NEW s \in Subscribers, Known(s)
    PROVE  Known(s)'
<1>1. PhaseRank(subscription[s].phase) <= PhaseRank(subscription'[s].phase)
  BY PhasesStep
<1>2. subscription[s].phase \in Phases /\ subscription'[s].phase \in Phases
  BY DEF TypeOK, SubscriptionState
<1> QED  BY <1>1, <1>2 DEF Known, PhaseRank, Phases

\* An offer subscribes requests of its receiver, at a publisher that serves them.
LEMMA SubscribeMeets ==
    ASSUME TypeOK, Phasing, NEW m \in BagToSet(net), m.type = "OFFER",
           NEW s \in PendingRequests(m), NEW n, n = SubscribeMessage(s, m)
    PROVE  /\ s \in Subscribers /\ Known(s) /\ ~subscription[s].requested
           /\ OfRequest(s, n) /\ n.type = "SUBSCRIBE"
           /\ SubscriberApp[s].instance \in {n.instance, AnyInstance}
           /\ \E p \in Subscribed(n) : PublisherApp[p].instance = n.instance
<1>1. PICK q \in m.qos : s \in OfferedRequests(m, q) /\ ~subscription[s].requested
  BY DEF PendingRequests
<1>2. s \in Requests(m.to, m.service, q, m.instance) \cup Requests(m.to, m.service, q, AnyInstance)
  BY <1>1 DEF OfferedRequests
<1>3. /\ s \in Subscribers /\ Known(s) /\ SubscriberApp[s].host = m.to
      /\ SubscriberApp[s].service = m.service /\ SubscriberApp[s].qos = q
      /\ SubscriberApp[s].instance \in {m.instance, AnyInstance}
  BY <1>2 DEF Requests
<1>4. /\ n.type = "SUBSCRIBE" /\ n.from = m.to /\ n.to = m.from /\ n.service = m.service
      /\ n.instance = m.instance /\ n.qos = {SubscriberApp[s].qos}
  BY DEF SubscribeMessage
<1>5. PICK p \in published : m = OfferMessage(p, m.to)
  BY DEF Phasing, OffersLeftInitialWait
<1>6. /\ PublisherApp[p].host = m.from /\ PublisherApp[p].service = m.service
      /\ PublisherApp[p].instance = m.instance /\ PublisherApp[p].qos = m.qos
  BY <1>5 DEF OfferMessage
<1>7. p \in Subscribed(n)
  BY <1>1, <1>3, <1>4, <1>5, <1>6 DEF Subscribed
<1> QED  BY <1>1, <1>3, <1>4, <1>6, <1>7 DEF OfRequest

\* Who takes a SUBSCRIBE in flight.
LEMMA OneTaker ==
    ASSUME PublishersUnique, HandshakesMeet, NEW m \in BagToSet(net), m.type = "SUBSCRIBE"
    PROVE  \E p \in published : /\ Subscribed(m) = {p}
                               /\ PublisherApp[p].instance = m.instance
<1>1. PICK p \in Subscribed(m) : PublisherApp[p].instance = m.instance
  BY DEF HandshakesMeet
<1> QED  BY <1>1 DEF Subscribed, PublishersUnique

LEMMA AckBelongs ==
    ASSUME NEW m, m.type = "SUBSCRIBE", NEW p, NEW s, NEW n, n = AckMessage(p, m)
    PROVE  /\ n.type = "ACK" /\ n.instance = PublisherApp[p].instance
           /\ OfRequest(s, n) <=> OfRequest(s, m)
BY DEF AckMessage, OfRequest

\* The net step, as far as the handshakes are concerned.
LEMMA BagStep ==
    ASSUME IsABag(net), [Next]_vars,
           \A m \in BagToSet(net) : m.type \in MessageTypes
    PROVE  IsABag(net')
<1>1. ASSUME NEW sent, Send(sent)  PROVE IsABag(net')
  BY <1>1, SendCopies
<1>2. ASSUME NEW m \in BagToSet(net), NEW sent, m \notin sent, Reply(m, sent)
      PROVE  IsABag(net')
  BY <1>2, ReplyCopies
<1>3. CASE UNCHANGED net  BY <1>3
<1>4. ASSUME NEW p \in Publishers, RegisterPublisherService(p) \/ OfferTimer(p) \/ CyclicOffer(p)
      PROVE  IsABag(net')
  BY <1>1, <1>3, <1>4 DEF RegisterPublisherService, OfferTimer, CyclicOffer
<1>5. ASSUME NEW s \in Subscribers, AttachSubscriber(s) \/ SubscribeService(s) \/ FindTimer(s)
      PROVE  IsABag(net')
  BY <1>1, <1>3, <1>5 DEF AttachSubscriber, SubscribeService, FindTimer
<1>6. ASSUME NEW m \in BagToSet(net), LookForService(m)  PROVE IsABag(net')
  <2>1. m \notin {OfferMessage(p, m.from) : p \in Answers(m.to, m.service, m.instance)}
    BY <1>6 DEF LookForService, OfferMessage
  <2> QED  BY <1>2, <1>6, <2>1 DEF LookForService
<1>7. ASSUME NEW m \in BagToSet(net), SubscribeServiceIfThereIsAPendingRequest(m)
      PROVE  IsABag(net')
  <2>1. m.type = "OFFER" /\ \A s : SubscribeMessage(s, m).type = "SUBSCRIBE"
    BY <1>7 DEF SubscribeServiceIfThereIsAPendingRequest, SubscribeMessage
  <2>2. m \notin {SubscribeMessage(s, m) : s \in PendingRequests(m)}
    BY <2>1
  <2> QED  BY <1>2, <1>7, <2>2 DEF SubscribeServiceIfThereIsAPendingRequest
<1>8. ASSUME NEW m \in BagToSet(net), AcknowledgeSubscription(m)  PROVE IsABag(net')
  <2>1. m \notin {AckMessage(p, m) : p \in Subscribed(m)}
    BY <1>8 DEF AcknowledgeSubscription, AckMessage
  <2> QED  BY <1>2, <1>8, <2>1 DEF AcknowledgeSubscription
<1>9. ASSUME NEW m \in BagToSet(net), ProcessAcknowledgedSubscription(m) \/ Lose(m)
      PROVE  IsABag(net')
  BY <1>2, <1>9 DEF ProcessAcknowledgedSubscription, Lose
<1> QED  BY <1>3, <1>4, <1>5, <1>6, <1>7, <1>8, <1>9 DEF Next, Receive, Terminated, vars

LEMMA HandshakingInductive ==
    ASSUME TypeOK, TypeOK', Registration, Phasing, Handshaking, [Next]_vars
    PROVE  Handshaking'
<1> USE DEF Handshaking
<1>1. IsABag(net')
  BY BagStep DEF TypeOK, Message
<1>2. published \subseteq published'  BY ServesStep
<1>3. PublishersUnique'
  <2>1. ASSUME NEW r \in Publishers, RegisterPublisherService(r)  PROVE PublishersUnique'
    <3>1. /\ published' = published \cup {r}
          /\ ~Provides(PublisherApp[r].host, PublisherApp[r].service)
      BY <2>1 DEF RegisterPublisherService
    <3> QED  BY <3>1 DEF Provides, PublishersUnique
  <2>2. CASE UNCHANGED published  BY <2>2 DEF PublishersUnique
  <2>3. ASSUME NEW p \in Publishers, OfferTimer(p) \/ CyclicOffer(p)  PROVE UNCHANGED published
    BY <2>3 DEF OfferTimer, CyclicOffer, hostVars
  <2>4. ASSUME NEW s \in Subscribers, AttachSubscriber(s) \/ SubscribeService(s) \/ FindTimer(s)
        PROVE  UNCHANGED published
    BY <2>4 DEF AttachSubscriber, SubscribeService, FindTimer, hostVars
  <2>5. ASSUME NEW m, Receive(m) \/ Lose(m)  PROVE UNCHANGED published
    BY <2>5 DEF Receive, LookForService, SubscribeServiceIfThereIsAPendingRequest,
                AcknowledgeSubscription, ProcessAcknowledgedSubscription, Lose, hostVars
  <2> QED  BY <2>1, <2>2, <2>3, <2>4, <2>5 DEF Next, Terminated, vars
<1>4. UnknownIdle'
  <2> SUFFICES ASSUME NEW s \in Subscribers, ~Known(s)'
               PROVE  ~subscription'[s].requested
    BY DEF UnknownIdle
  <2>1. ~Known(s)  BY KnownStays
  <2>2. subscription[s] \in SubscriptionState /\ ~subscription[s].requested
    BY <2>1 DEF TypeOK, UnknownIdle
  <2>3. subscription[s].timer = "NONE"  BY <2>1 DEF Registration, RequestsOwnConnector
  <2>4. CASE subscription'[s] = subscription[s]  BY <2>2, <2>4
  <2>5. CASE Starts(s)
    <3>1. \/ subscription'[s].phase = "INITIAL_WAIT"
          \/ subscription'[s].phase \in {"REPETITION", "MAIN"}
      BY <2>2, <2>5, NextPhaseIsKnown DEF Starts, Start, SubscriptionState
    <3> QED  BY <3>1 DEF Known
  <2>6. ~Expires(s)  BY <2>3 DEF Expires, PhaseTimers
  <2>7. ~BecomesRequested(s)  BY <2>1 DEF BecomesRequested
  <2>8. ~BecomesActive(s)  BY <2>1 DEF BecomesActive, Acknowledged, Requests
  <2> QED  BY <2>4, <2>5, <2>6, <2>7, <2>8, SubscriptionStep
<1>5. HandshakesMeet'
  <2> SUFFICES ASSUME NEW m \in BagToSet(net')
               PROVE  /\ m.type \in {"SUBSCRIBE", "ACK"} =>
                            \E s \in Subscribers :
                               /\ Known(s)' /\ OfRequest(s, m)
                               /\ SubscriberApp[s].instance \in {m.instance, AnyInstance}
                      /\ m.type = "SUBSCRIBE" =>
                            \E p \in Subscribed(m)' : PublisherApp[p].instance = m.instance
    BY DEF HandshakesMeet, OfRequest
  <2>1. \A n : Subscribed(n) \subseteq Subscribed(n)'
    BY <1>2 DEF Subscribed
  <2>2. CASE m \in BagToSet(net)
    BY <2>1, <2>2, KnownStays DEF HandshakesMeet
  <2>3. CASE IsAnnounced(m)
    BY <2>3 DEF IsAnnounced, OfferMessages, OfferMessage
  <2>4. CASE IsAnswer(m)
    BY <2>4 DEF IsAnswer, OfferMessage
  <2>5. CASE IsSubscribe(m)
    <3>0. PICK n \in BagToSet(net) :
            \E s \in PendingRequests(n) : n.type = "OFFER" /\ m = SubscribeMessage(s, n)
      BY <2>5 DEF IsSubscribe
    <3>1. PICK s \in PendingRequests(n) : n.type = "OFFER" /\ m = SubscribeMessage(s, n)
      BY <3>0
    <3>2. /\ s \in Subscribers /\ Known(s)
          /\ OfRequest(s, m) /\ m.type = "SUBSCRIBE"
          /\ SubscriberApp[s].instance \in {m.instance, AnyInstance}
          /\ \E p \in Subscribed(m) : PublisherApp[p].instance = m.instance
      BY <3>1, SubscribeMeets
    <3> QED  BY <2>1, <3>2, KnownStays
  <2>6. CASE IsAck(m)
    <3>0. PICK n \in BagToSet(net) :
            \E p \in Subscribed(n) : m = AckMessage(p, n) /\ n.type = "SUBSCRIBE"
      BY <2>6 DEF IsAck
    <3>1. PICK p \in Subscribed(n) : m = AckMessage(p, n) /\ n.type = "SUBSCRIBE"
      BY <3>0
    <3>2. PublisherApp[p].instance = n.instance
      BY <3>1, OneTaker
    <3>3. PICK s \in Subscribers : /\ Known(s) /\ OfRequest(s, n)
                                   /\ SubscriberApp[s].instance \in {n.instance, AnyInstance}
      BY <3>1 DEF HandshakesMeet
    <3>4. m.type = "ACK" /\ m.instance = n.instance /\ OfRequest(s, m)
      BY <3>1, <3>2, <3>3, AckBelongs
    <3> QED  BY <3>3, <3>4, KnownStays
  <2>7. ASSUME NEW s \in Subscribers, m \in FindMessages(s)  PROVE m.type = "FIND"
    BY <2>7 DEF FindMessages
  <2>8. \A p \in Publishers : offer[p].timer # "NONE" => p \in published
    BY DEF Phasing, OfferTimersFit
  <2> QED  BY <2>2, <2>3, <2>4, <2>5, <2>6, <2>7, <2>8, NetStep
<1> QED  BY <1>1, <1>3, <1>4, <1>5

\* The packets a step sends are of no handshake, and no request is made.
LEMMA QuietStep ==
    ASSUME IsABag(net), NEW s, UnderWay(s),
           subscription'[s].requested = subscription[s].requested,
           NEW sent, \A m \in sent : m.type \notin {"SUBSCRIBE", "ACK"},
           \/ UNCHANGED net
           \/ Send(sent)
           \/ \E m \in BagToSet(net) : /\ m.type \notin {"SUBSCRIBE", "ACK"}
                                       /\ m \notin sent /\ Reply(m, sent)
    PROVE  UnderWay(s)'
<1>1. \A m : OfRequest(s, m) => m.type \in {"SUBSCRIBE", "ACK"}  BY DEF OfRequest
<1>2. CASE UNCHANGED net
  BY <1>2, UnderWayKept
<1>3. CASE Send(sent)
  <2>1. IsABag(net') /\ \A m : OfRequest(s, m) => Copies(m, net') = Copies(m, net)
    BY <1>1, <1>3, SendCopies
  <2> QED  BY <2>1, UnderWayKept
<1>4. CASE \E m \in BagToSet(net) : /\ m.type \notin {"SUBSCRIBE", "ACK"}
                                    /\ m \notin sent /\ Reply(m, sent)
  <2>1. IsABag(net') /\ \A m : OfRequest(s, m) => Copies(m, net') = Copies(m, net)
    BY <1>1, <1>4, ReplyCopies
  <2> QED  BY <2>1, UnderWayKept
<1> QED  BY <1>2, <1>3, <1>4

\* A packet m of the handshake of s is answered by one other, n.
LEMMA Handover ==
    ASSUME IsABag(net), NEW s, UnderWay(s), NEW m \in Handshakes(s),
           subscription'[s].requested = TRUE,
           NEW n, OfRequest(s, n), n # m, Reply(m, {n})
    PROVE  UnderWay(s)'
<1>1. Handshakes(s) = {m} /\ Copies(m, net) = 1
  BY DEF UnderWay
<1>2. m \in BagToSet(net) /\ OfRequest(s, m)  BY HandshakePackets
<1>3. /\ IsABag(net') /\ Copies(m, net') = 0 /\ Copies(n, net') = Copies(n, net) + 1
      /\ \A x : x # m /\ x # n => Copies(x, net') = Copies(x, net)
  BY <1>1, <1>2, ReplyCopies
<1>4. \A x : OfRequest(s, x) /\ x # m => Copies(x, net) = 0
  BY <1>1, HandshakePackets, CopiesInFlight
<1>5. Copies(n, net') = 1  BY <1>3, <1>4
<1>6. \A x : OfRequest(s, x) => (x \in BagToSet(net') <=> x = n)
  BY <1>3, <1>4, <1>5, CopiesInFlight
<1>7. Handshakes(s)' = {x \in BagToSet(net') : OfRequest(s, x)}
  BY DEF Handshakes, OfRequest
<1>8. Handshakes(s)' = {n}  BY <1>6, <1>7
<1> HIDE DEF Handshakes
<1> QED  BY <1>5, <1>8 DEF UnderWay

LEMMA UnderWayInductive ==
    ASSUME TypeOK, TypeOK', Registration, Registration', Phasing, Handshaking, Handshaking',
           LossyTypes = {}, \A s \in Subscribers : Known(s) => UnderWay(s),
           [Next]_vars, NEW s \in Subscribers, Known(s)'
    PROVE  UnderWay(s)'
<1> USE DEF Handshaking
<1>1. /\ OneRequestPerQoSGroup
      /\ \A t \in Subscribers : \A m : Known(t)' /\ OfRequest(t, m) /\ OfRequest(s, m) => t = s
  <2>1. OneRequestPerQoSGroup
    BY DEF Registration, ConnectorsUnique, RequestsOwnConnector, OneRequestPerQoSGroup
  <2>2. OneRequestPerQoSGroup'
    BY DEF Registration, ConnectorsUnique, RequestsOwnConnector, OneRequestPerQoSGroup, Known
  <2> QED  BY <2>1, <2>2 DEF OneRequestPerQoSGroup, OfRequest, Known
<1>2. ASSUME NEW p \in Publishers, RegisterPublisherService(p) \/ OfferTimer(p) \/ CyclicOffer(p)
      PROVE  UnderWay(s)'
  <2>1. subscription' = subscription
    BY <1>2 DEF RegisterPublisherService, OfferTimer, CyclicOffer, sdVars
  <2>2. UNCHANGED net \/ Send(OfferMessages(p))
    BY <1>2 DEF RegisterPublisherService, OfferTimer, CyclicOffer
  <2>3. \A m \in OfferMessages(p) : m.type = "OFFER"  BY DEF OfferMessages, OfferMessage
  <2> QED  BY <2>1, <2>2, <2>3, QuietStep DEF Known
<1>3. ASSUME NEW t \in Subscribers, AttachSubscriber(t) \/ SubscribeService(t) \/ FindTimer(t)
      PROVE  UnderWay(s)'
  <2>1. UNCHANGED net \/ Send(FindMessages(t))
    BY <1>3 DEF AttachSubscriber, SubscribeService, FindTimer
  <2>2. \A m \in FindMessages(t) : m.type = "FIND"  BY DEF FindMessages
  <2>3. subscription'[s].requested = subscription[s].requested
    <3>1. \A r \in Subscribers : subscription[r] \in SubscriptionState  BY DEF TypeOK
    <3>2. /\ Start(subscription[s]).requested = subscription[s].requested
          /\ NextRepetitionPhase(subscription[s], FALSE).requested = subscription[s].requested
          /\ TimerConsumed(subscription[s]).requested = subscription[s].requested
      BY <3>1 DEF Start, NextRepetitionPhase, StartMainPhase, TimerConsumed, SubscriptionState
    <3>3. \/ subscription'[s] = subscription[s]
          \/ subscription'[s] = Start(subscription[s])
          \/ subscription'[s] = NextRepetitionPhase(subscription[s], FALSE)
          \/ subscription'[s] = TimerConsumed(subscription[s])
      BY <1>3 DEF TypeOK, AttachSubscriber, SubscribeService, FindTimer, sdVars
    <3> QED  BY <3>2, <3>3
  <2>4. CASE Known(s)
    BY <2>1, <2>2, <2>3, <2>4, QuietStep
  <2>5. CASE ~Known(s)
    <3>1. ~subscription'[s].requested  BY <2>3, <2>5 DEF UnknownIdle
    <3>2. ASSUME NEW m \in BagToSet(net'), OfRequest(s, m)  PROVE FALSE
      <4>1. m.type \in {"SUBSCRIBE", "ACK"}  BY <3>2 DEF OfRequest
      <4>2. m \in BagToSet(net)  BY <2>1, <2>2, <4>1, SendDomain
      <4>3. PICK r \in Subscribers : Known(r) /\ OfRequest(r, m)
        BY <4>1, <4>2 DEF HandshakesMeet
      <4>4. r = s  BY <1>1, <3>2, <4>3, KnownStays
      <4> QED  BY <2>5, <4>3, <4>4
    <3>3. Handshakes(s)' = {}  BY <3>2 DEF Handshakes, OfRequest
    <3> QED  BY <3>1, <3>3 DEF UnderWay
  <2> QED  BY <2>4, <2>5
<1>4. ASSUME NEW m \in BagToSet(net), LookForService(m)  PROVE UnderWay(s)'
  <2> DEFINE sent == {OfferMessage(p, m.from) : p \in Answers(m.to, m.service, m.instance)}
  <2>1. m.type = "FIND" /\ Reply(m, sent) /\ subscription' = subscription
    BY <1>4 DEF LookForService, sdVars
  <2>2. \A n \in sent : n.type = "OFFER"  BY DEF OfferMessage
  <2> HIDE DEF sent
  <2>3. m \notin sent  BY <2>1, <2>2
  <2> QED  BY <2>1, <2>2, <2>3, QuietStep DEF Known
<1>5. ASSUME NEW m \in BagToSet(net), SubscribeServiceIfThereIsAPendingRequest(m)
      PROVE  UnderWay(s)'
  <2> DEFINE pending == PendingRequests(m)
             sent == {SubscribeMessage(t, m) : t \in pending}
  <2>1. m.type = "OFFER" /\ Reply(m, sent)
    BY <1>5 DEF SubscribeServiceIfThereIsAPendingRequest
  <2>2. subscription'[s] =
          IF s \in pending
          THEN [subscription[s] EXCEPT !.phase = "MAIN", !.seen = TRUE, !.requested = TRUE]
          ELSE subscription[s]
    BY <1>5 DEF SubscribeServiceIfThereIsAPendingRequest
  <2>3. \A t \in pending : /\ t \in Subscribers /\ Known(t) /\ ~subscription[t].requested
                           /\ OfRequest(t, SubscribeMessage(t, m))
                           /\ SubscribeMessage(t, m).type = "SUBSCRIBE"
    BY <2>1, SubscribeMeets
  <2>4. Known(s)  BY <2>2, <2>3 DEF Known
  <2>5. m \notin sent  BY <2>1, <2>3
  <2>6. \A x : x # m /\ x \notin sent => Copies(x, net') = Copies(x, net)
    BY <2>1, <2>5, ReplyCopies
  <2>7. ~OfRequest(s, m)  BY <2>1 DEF OfRequest
  <2>8. CASE s \notin pending
    <3>1. \A x : OfRequest(s, x) => x \notin sent
      BY <1>1, <2>3, <2>4, <2>8, OneOwner
    <3>2. \A x : OfRequest(s, x) => Copies(x, net') = Copies(x, net)
      BY <2>6, <2>7, <3>1
    <3> QED  BY <2>2, <2>4, <2>8, <3>2, UnderWayKept
  <2>9. CASE s \in pending
    <3> DEFINE n == SubscribeMessage(s, m)
    <3>1. OfRequest(s, n) /\ n \in sent  BY <2>3, <2>9
    <3>2. \A x : OfRequest(s, x) /\ x # n => x \notin sent
      BY <1>1, <2>3, <2>4, OneOwner
    <3>3. Handshakes(s) = {}  BY <2>3, <2>9 DEF UnderWay
    <3>4. \A x : OfRequest(s, x) => Copies(x, net) = 0
      BY <3>3, HandshakePackets, CopiesInFlight
    <3>5. Copies(n, net') = Copies(n, net) + 1
      BY <2>1, <2>5, <3>1, ReplyCopies
    <3> HIDE DEF n
    <3>6. \A x : OfRequest(s, x) => Copies(x, net') = IF x = n THEN 1 ELSE 0
      BY <2>6, <2>7, <3>1, <3>2, <3>4, <3>5
    <3>7. \A x : OfRequest(s, x) => (x \in BagToSet(net') <=> x = n)
      BY <3>6, CopiesInFlight
    <3>8. Handshakes(s)' = {x \in BagToSet(net') : OfRequest(s, x)}
      BY DEF Handshakes, OfRequest
    <3>9. Handshakes(s)' = {n}  BY <3>1, <3>7, <3>8
    <3>10. subscription'[s].requested
      BY <2>2, <2>9 DEF TypeOK, SubscriptionState
    <3> QED  BY <3>1, <3>6, <3>9, <3>10 DEF UnderWay
  <2> QED  BY <2>8, <2>9
<1>6. ASSUME NEW m \in BagToSet(net), AcknowledgeSubscription(m)  PROVE UnderWay(s)'
  <2>1. /\ m.type = "SUBSCRIBE" /\ subscription' = subscription
        /\ Reply(m, {AckMessage(p, m) : p \in Subscribed(m)})
    BY <1>6 DEF AcknowledgeSubscription
  <2>2. PICK p \in published : Subscribed(m) = {p} /\ PublisherApp[p].instance = m.instance
    BY <2>1, OneTaker
  <2>3. PICK n : n = AckMessage(p, m)  OBVIOUS
  <2>4. Reply(m, {n})  BY <2>1, <2>2, <2>3
  <2>5. n.type = "ACK" /\ \A t : OfRequest(t, n) <=> OfRequest(t, m)
    BY <2>1, <2>3, AckBelongs
  <2>6. n # m /\ Known(s)  BY <2>1, <2>5 DEF Known
  <2>7. CASE OfRequest(s, m)
    <3>1. m \in Handshakes(s)  BY <2>7, HandshakePackets
    <3>2. subscription'[s].requested = TRUE
      BY <2>1, <2>6, <3>1 DEF UnderWay, TypeOK, SubscriptionState
    <3> QED  BY <2>4, <2>5, <2>6, <2>7, <3>1, <3>2, Handover
  <2>8. CASE ~OfRequest(s, m)
    <3>1. \A x : x # m /\ x # n => Copies(x, net') = Copies(x, net)
      BY <2>4, <2>6, ReplyCopies
    <3> QED  BY <2>1, <2>5, <2>6, <2>8, <3>1, UnderWayKept
  <2> QED  BY <2>7, <2>8
<1>7. ASSUME NEW m \in BagToSet(net), ProcessAcknowledgedSubscription(m)  PROVE UnderWay(s)'
  <2>1. m.type = "ACK" /\ Reply(m, {})
    BY <1>7 DEF ProcessAcknowledgedSubscription
  <2>2. subscription'[s] = IF s \in Acknowledged(m)
                           THEN [subscription[s] EXCEPT !.requested = FALSE, !.active = TRUE]
                           ELSE subscription[s]
    BY <1>7 DEF ProcessAcknowledgedSubscription
  <2>3. Known(s)
    BY <2>2 DEF Known, TypeOK, SubscriptionState
  <2>4. PICK t \in Subscribers : /\ Known(t) /\ OfRequest(t, m)
                                 /\ SubscriberApp[t].instance \in {m.instance, AnyInstance}
    BY <2>1 DEF HandshakesMeet
  <2>5. m.qos = {SubscriberApp[t].qos} /\ m.service = SubscriberApp[t].service
        /\ m.to = SubscriberApp[t].host
    BY <2>1, <2>4 DEF OfRequest
  <2>6. /\ Copies(m, net') = Copies(m, net) - 1
        /\ \A x : x # m => Copies(x, net') = Copies(x, net)
    BY <2>1, ReplyCopies
  <2>7. CASE s = t
    <3>1. m \in Handshakes(s)  BY <2>4, <2>7, HandshakePackets
    <3>2. subscription[s].requested /\ Handshakes(s) = {m} /\ Copies(m, net) = 1
      BY <2>3, <3>1 DEF UnderWay
    <3>3. s \in Acknowledged(m)
      <4> DEFINE q == SubscriberApp[s].qos
                 i == SubscriberApp[s].instance
      <4>1. s \in Requests(m.to, m.service, q, i)  BY <2>3, <2>5, <2>7 DEF Requests
      <4>2. q \in m.qos /\ i \in {m.instance, AnyInstance}  BY <2>4, <2>5, <2>7
      <4> HIDE DEF q, i
      <4> QED  BY <3>2, <4>1, <4>2 DEF Acknowledged
    <3>4. ~subscription'[s].requested
      BY <2>2, <3>3 DEF TypeOK, SubscriptionState
    <3>5. \A x : OfRequest(s, x) => Copies(x, net') = 0
      BY <2>6, <3>2, HandshakePackets, CopiesInFlight
    <3>6. \A x \in BagToSet(net') : ~OfRequest(s, x)
      BY <3>5, CopiesInFlight
    <3>7. Handshakes(s)' = {}  BY <3>6 DEF Handshakes, OfRequest
    <3> QED  BY <3>4, <3>7 DEF UnderWay
  <2>8. CASE s # t
    <3>1. ~OfRequest(s, m)  BY <1>1, <2>3, <2>4, <2>8, OneOwner
    <3>2. s \notin Acknowledged(m)
      <4>1. SUFFICES ASSUME s \in Acknowledged(m)  PROVE OfRequest(s, m)
        BY <3>1
      <4> QED  BY <2>1, <2>5, <4>1 DEF Acknowledged, Requests, OfRequest
    <3>3. \A x : OfRequest(s, x) => Copies(x, net') = Copies(x, net)
      BY <2>6, <3>1
    <3> QED  BY <2>2, <2>3, <3>2, <3>3, UnderWayKept
  <2> QED  BY <2>7, <2>8
<1>8. \A m : ~Lose(m)  BY DEF Lose
<1>9. CASE UNCHANGED vars
  BY <1>9, QuietStep DEF vars, Known
<1> QED  BY <1>2, <1>3, <1>4, <1>5, <1>6, <1>7, <1>8, <1>9 DEF Next, Receive, Terminated

\* Handshake packets meet who expects them, whatever is lost.
THEOREM HandshakingInvariant == Spec => []Handshaking
<1>1. Init => Handshaking
  BY DEF Init, Handshaking, IsABag, PublishersUnique, UnknownIdle, HandshakesMeet,
         EmptyBag, SetToBag, BagToSet
<1>2. /\ TypeOK /\ TypeOK' /\ Registration /\ Phasing /\ Handshaking /\ [Next]_vars
      => Handshaking'
  BY HandshakingInductive
<1> QED  BY <1>1, <1>2, TypeCorrect, RegistrationInvariant, PhasingInvariant, PTL DEF Spec

\* RequestedIsUnderWay: the flag "requested" and the packets in flight agree.
THEOREM RequestsAreUnderWay == Spec => []RequestedIsUnderWay
<1> DEFINE Inv == LossyTypes = {} => \A s \in Subscribers : Known(s) => UnderWay(s)
<1>1. Init => Inv
  BY DEF Init, Known
<1>2. /\ TypeOK /\ TypeOK' /\ Registration /\ Registration' /\ Phasing
      /\ Handshaking /\ Handshaking' /\ Inv /\ [Next]_vars
      => Inv'
  <2> SUFFICES ASSUME TypeOK, TypeOK', Registration, Registration', Phasing,
                      Handshaking, Handshaking', Inv, [Next]_vars, LossyTypes = {},
                      NEW s \in Subscribers, Known(s)'
               PROVE  UnderWay(s)'
    OBVIOUS
  <2> QED  BY UnderWayInductive
<1>3. Inv => RequestedIsUnderWay
  BY DEF UnderWay, RequestedIsUnderWay
<1> QED  BY <1>1, <1>2, <1>3, TypeCorrect, RegistrationInvariant, PhasingInvariant,
            HandshakingInvariant, PTL DEF Spec

\* No find gains a copy on a host whose subscriptions have all been seen.
LEMMA FindsStep ==
    ASSUME TypeOK, Registration, Handshaking, [Next]_vars, NEW h \in Hosts,
           \A s \in Subscribers : SubscriberApp[s].host = h =>
              connector[s] # None /\ (Known(s) => subscription[s].seen),
           NEW m \in BagToSet(net'), m.type = "FIND", m.from = h
    PROVE  Copies(m, net') <= Copies(m, net)
<1> USE DEF Handshaking
<1>1. Copies(m, net) \in Nat  BY CopiesInFlight
<1>2. ASSUME NEW sent, \A x \in sent : x # m,
             \/ UNCHANGED net
             \/ Send(sent)
             \/ \E n \in BagToSet(net) : n \notin sent /\ Reply(n, sent)
      PROVE  Copies(m, net') <= Copies(m, net)
  <2>1. CASE UNCHANGED net  BY <1>1, <2>1
  <2>2. CASE Send(sent)  BY <1>1, <1>2, <2>2, SendCopies
  <2>3. CASE \E n \in BagToSet(net) : n \notin sent /\ Reply(n, sent)
    <3>1. PICK n \in BagToSet(net) : n \notin sent /\ Reply(n, sent)  BY <2>3
    <3>2. /\ Copies(n, net') = Copies(n, net) - 1
          /\ \A x : x # n /\ x \notin sent => Copies(x, net') = Copies(x, net)
      BY <3>1, ReplyCopies
    <3> QED  BY <1>1, <1>2, <3>2
  <2> QED  BY <1>2, <2>1, <2>2, <2>3
<1>3. ASSUME NEW p \in Publishers, RegisterPublisherService(p) \/ OfferTimer(p) \/ CyclicOffer(p)
      PROVE  Copies(m, net') <= Copies(m, net)
  <2>1. UNCHANGED net \/ Send(OfferMessages(p))
    BY <1>3 DEF RegisterPublisherService, OfferTimer, CyclicOffer
  <2>2. \A x \in OfferMessages(p) : x # m  BY DEF OfferMessages, OfferMessage
  <2> QED  BY <1>2, <2>1, <2>2
<1>4. ASSUME NEW s \in Subscribers, AttachSubscriber(s) \/ SubscribeService(s)
      PROVE  Copies(m, net') <= Copies(m, net)
  <2>1. SubscriberApp[s].host # h
    BY <1>4 DEF AttachSubscriber, SubscribeService
  <2>2. \A x \in FindMessages(s) : x # m  BY <2>1 DEF FindMessages
  <2>3. UNCHANGED net \/ Send(FindMessages(s))
    BY <1>4 DEF AttachSubscriber, SubscribeService
  <2> QED  BY <1>2, <2>2, <2>3
<1>5. ASSUME NEW s \in Subscribers, FindTimer(s)
      PROVE  Copies(m, net') <= Copies(m, net)
  <2>1. Known(s)
    BY <1>5 DEF FindTimer, PhaseTimers, Registration, RequestsOwnConnector
  <2>2. CASE SubscriberApp[s].host = h
    <3>1. UNCHANGED net  BY <1>5, <2>1, <2>2 DEF FindTimer
    <3> QED  BY <1>1, <3>1
  <2>3. CASE SubscriberApp[s].host # h
    <3>1. \A x \in FindMessages(s) : x # m  BY <2>3 DEF FindMessages
    <3>2. UNCHANGED net \/ Send(FindMessages(s))  BY <1>5 DEF FindTimer
    <3> QED  BY <1>2, <3>1, <3>2
  <2> QED  BY <2>2, <2>3
<1>6. ASSUME NEW n \in BagToSet(net), LookForService(n)
      PROVE  Copies(m, net') <= Copies(m, net)
  <2> DEFINE sent == {OfferMessage(p, n.from) : p \in Answers(n.to, n.service, n.instance)}
  <2>1. n.type = "FIND" /\ Reply(n, sent)  BY <1>6 DEF LookForService
  <2>2. \A x \in sent : x.type = "OFFER"  BY DEF OfferMessage
  <2> HIDE DEF sent
  <2> QED  BY <1>2, <2>1, <2>2
<1>7. ASSUME NEW n \in BagToSet(net), SubscribeServiceIfThereIsAPendingRequest(n)
      PROVE  Copies(m, net') <= Copies(m, net)
  <2> DEFINE sent == {SubscribeMessage(s, n) : s \in PendingRequests(n)}
  <2>1. n.type = "OFFER" /\ Reply(n, sent)
    BY <1>7 DEF SubscribeServiceIfThereIsAPendingRequest
  <2>2. \A x \in sent : x.type = "SUBSCRIBE"  BY DEF SubscribeMessage
  <2> HIDE DEF sent
  <2> QED  BY <1>2, <2>1, <2>2
<1>8. ASSUME NEW n \in BagToSet(net), AcknowledgeSubscription(n)
      PROVE  Copies(m, net') <= Copies(m, net)
  <2> DEFINE sent == {AckMessage(p, n) : p \in Subscribed(n)}
  <2>1. n.type = "SUBSCRIBE" /\ Reply(n, sent)  BY <1>8 DEF AcknowledgeSubscription
  <2>2. \A x \in sent : x.type = "ACK"  BY DEF AckMessage
  <2> HIDE DEF sent
  <2> QED  BY <1>2, <2>1, <2>2
<1>9. ASSUME NEW n \in BagToSet(net), ProcessAcknowledgedSubscription(n) \/ Lose(n)
      PROVE  Copies(m, net') <= Copies(m, net)
  <2>1. Reply(n, {})  BY <1>9 DEF ProcessAcknowledgedSubscription, Lose
  <2> QED  BY <1>2, <2>1
<1>10. CASE UNCHANGED vars  BY <1>1, <1>10 DEF vars
<1> QED  BY <1>3, <1>4, <1>5, <1>6, <1>7, <1>8, <1>9, <1>10 DEF Next, Receive, Terminated

\* FindsStop: a host that has seen its services puts no further find in flight.
THEOREM SeenHostsAreSilent == Spec => FindsStop
<1>1. TypeOK /\ Registration /\ Handshaking /\ [Next]_vars
      => [\A h \in Hosts :
             (\A s \in Subscribers : SubscriberApp[s].host = h =>
                 /\ connector[s] # None
                 /\ Known(s) => subscription[s].seen)
             => \A m \in BagToSet(net') :
                   m.type = "FIND" /\ m.from = h => Copies(m, net') <= Copies(m, net)]_vars
  BY FindsStep
<1> QED  BY <1>1, TypeCorrect, RegistrationInvariant, HandshakingInvariant, PTL
         DEF Spec, FindsStop
=============================================================================
