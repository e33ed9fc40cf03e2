--------------------- MODULE SomeIpDiscoveryRefinement ---------------------
(* SomeIpDiscovery implements EventGroupSubscription, for every             *)
(* configuration of applications.                                           *)
EXTENDS SomeIpDiscoveryProofs

-----------------------------------------------------------------------------
(* One publisher per host and service takes a subscription, for the one QoS *)
(* group it names.                                                          *)

NoEndpointBefore == \A p \in Publishers : p \notin published => pubEndpoints[p] = {}

OneGroupEach ==
    \A m \in BagToSet(net) :
        m.type \in {"SUBSCRIBE", "ACK"} => \E q \in QoSGroups : m.qos = {q}

Taking == PublishersUnique /\ NoEndpointBefore /\ OneGroupEach

\* The publishers and their endpoints change by a registration or by an
\* acknowledged subscription only.
LEMMA PublisherStep ==
    ASSUME [Next]_vars
    PROVE  \/ UNCHANGED <<published, pubEndpoints, remotes>>
           \/ \E p \in Publishers : RegisterPublisherService(p)
           \/ \E m \in BagToSet(net) : AcknowledgeSubscription(m)
<1>1. ASSUME NEW p \in Publishers, OfferTimer(p) \/ CyclicOffer(p)
      PROVE  UNCHANGED <<published, pubEndpoints, remotes>>
  BY <1>1 DEF OfferTimer, CyclicOffer, hostVars
<1>2. ASSUME NEW s \in Subscribers, AttachSubscriber(s) \/ SubscribeService(s) \/ FindTimer(s)
      PROVE  UNCHANGED <<published, pubEndpoints, remotes>>
  BY <1>2 DEF AttachSubscriber, SubscribeService, FindTimer, hostVars
<1>3. ASSUME NEW m \in BagToSet(net),
             \/ LookForService(m) \/ SubscribeServiceIfThereIsAPendingRequest(m)
             \/ ProcessAcknowledgedSubscription(m) \/ Lose(m)
      PROVE  UNCHANGED <<published, pubEndpoints, remotes>>
  BY <1>3 DEF LookForService, SubscribeServiceIfThereIsAPendingRequest,
              ProcessAcknowledgedSubscription, Lose, hostVars
<1>4. CASE UNCHANGED vars
  BY <1>4 DEF vars
<1> QED  BY <1>1, <1>2, <1>3, <1>4 DEF Next, Receive, Terminated

LEMMA TakingInductive ==
    ASSUME TypeOK, Phasing, Taking, [Next]_vars
    PROVE  Taking'
<1> USE DEF TypeOK, Taking
<1>1. PublishersUnique' /\ NoEndpointBefore'
  <2>1. CASE UNCHANGED <<published, pubEndpoints, remotes>>
    BY <2>1 DEF PublishersUnique, NoEndpointBefore
  <2>2. ASSUME NEW p \in Publishers, RegisterPublisherService(p)
        PROVE  PublishersUnique' /\ NoEndpointBefore'
    <3>1. /\ published' = published \cup {p}
          /\ \A r \in published : ~(/\ PublisherApp[r].host = PublisherApp[p].host
                                    /\ PublisherApp[r].service = PublisherApp[p].service)
      BY <2>2 DEF RegisterPublisherService, Provides
    <3>2. \A r \in Publishers : r # p => pubEndpoints'[r] = pubEndpoints[r]
      BY <2>2 DEF RegisterPublisherService
    <3> QED  BY <3>1, <3>2 DEF PublishersUnique, NoEndpointBefore
  <2>3. ASSUME NEW m \in BagToSet(net), AcknowledgeSubscription(m)
        PROVE  PublishersUnique' /\ NoEndpointBefore'
    <3>1. published' = published
      BY <2>3 DEF AcknowledgeSubscription
    <3>2. \A r \in Publishers : r \notin published => pubEndpoints'[r] = pubEndpoints[r]
      BY <2>3 DEF AcknowledgeSubscription, Subscribed
    <3> QED  BY <3>1, <3>2 DEF PublishersUnique, NoEndpointBefore
  <2> QED  BY <2>1, <2>2, <2>3, PublisherStep
<1>2. ASSUME NEW m \in BagToSet(net'), m.type \in {"SUBSCRIBE", "ACK"}
      PROVE  \E q \in QoSGroups : m.qos = {q}
  <2>0. \A p \in Publishers : offer[p].timer # "NONE" => p \in published
    BY DEF Phasing, OfferTimersFit
  <2>1. CASE m \in BagToSet(net)
    BY <1>2, <2>1 DEF OneGroupEach
  <2>2. CASE IsSubscribe(m)
    <3>1. PICK n \in BagToSet(net) : \E s \in PendingRequests(n) : m = SubscribeMessage(s, n)
      BY <2>2 DEF IsSubscribe
    <3>2. PICK s \in PendingRequests(n) : m = SubscribeMessage(s, n)
      BY <3>1
    <3>3. SubscriberApp[s].qos \in QoSGroups
      BY ConfigAssumption DEF PendingRequests, OfferedRequests, Requests
    <3> QED  BY <3>2, <3>3 DEF SubscribeMessage
  <2>3. CASE IsAck(m)
    <3>1. PICK n \in BagToSet(net) : n.type = "SUBSCRIBE" /\ m.qos = n.qos
      BY <2>3 DEF IsAck, AckMessage
    <3> QED  BY <3>1 DEF OneGroupEach
  <2>4. ~IsAnnounced(m)
    <3>1. ASSUME NEW p \in published', NEW x \in OfferMessages(p)
          PROVE  x.type = "OFFER"
      BY DEF OfferMessages, OfferMessage
    <3> QED  BY <1>2, <3>1 DEF IsAnnounced
  <2>5. ~IsAnswer(m)
    BY <1>2 DEF IsAnswer, OfferMessage
  <2>6. ~\E s \in Subscribers : m \in FindMessages(s)
    BY <1>2, FindMessageType
  <2> QED  BY <2>0, <2>1, <2>2, <2>3, <2>4, <2>5, <2>6, NetStep
<1>3. OneGroupEach'
  BY <1>2 DEF OneGroupEach
<1> QED  BY <1>1, <1>3

THEOREM TakingInvariant == Spec => []Taking
<1>1. Init => Taking
  BY DEF Init, Taking, PublishersUnique, NoEndpointBefore, OneGroupEach,
         EmptyBag, SetToBag, BagToSet
<1>2. TypeOK /\ Phasing /\ Taking /\ [Next]_vars => Taking'
  BY TakingInductive
<1> QED  BY <1>1, <1>2, TypeCorrect, PhasingInvariant, PTL DEF Spec

-----------------------------------------------------------------------------
(* Every step is a Serve, a Listen or a stutter.                            *)

\* Only publisher p can have got new receivers, and only for QoS group q.
ServesMore(p, q) ==
    /\ q \in PublisherApp[p].qos
    /\ \A r \in Publishers, h \in Hosts, g \in QoSGroups :
          <<r, g>> # <<p, q>> => (Serves(r, h, g)' <=> Serves(r, h, g))

LEMMA ServedStep ==
    ASSUME TypeOK, Taking, [Next]_vars
    PROVE  \/ \A r \in Publishers, h \in Hosts, g \in QoSGroups :
                 Serves(r, h, g)' <=> Serves(r, h, g)
           \/ \E p \in Publishers, q \in QoSGroups : ServesMore(p, q)
<1> USE DEF TypeOK, Taking
<1>1. CASE UNCHANGED <<published, pubEndpoints, remotes>>
  BY <1>1 DEF Serves
<1>2. ASSUME NEW p \in Publishers, RegisterPublisherService(p)
      PROVE  \/ \A r \in Publishers, h \in Hosts, g \in QoSGroups :
                   Serves(r, h, g)' <=> Serves(r, h, g)
             \/ \E q \in QoSGroups : ServesMore(p, q)
  <2>1. /\ pubEndpoints[p] = {} /\ remotes' = remotes
        /\ published' = published \cup {p}
    BY <1>2 DEF RegisterPublisherService, NoEndpointBefore
  <2>2. CASE pubEndpoints' = pubEndpoints
    BY <2>1, <2>2 DEF Serves
  <2>3. CASE /\ PublisherApp[p].static
             /\ pubEndpoints' = [pubEndpoints EXCEPT ![p] = @ \cup {MCAST}]
    <3>1. MCAST \in PublisherApp[p].qos /\ MCAST \in QoSGroups
      BY <2>3, ConfigAssumption DEF QoSGroups
    <3>2. ServesMore(p, MCAST)
      BY <2>1, <2>3, <3>1 DEF ServesMore, Serves
    <3> QED  BY <3>1, <3>2
  <2> QED  BY <1>2, <2>2, <2>3 DEF RegisterPublisherService
<1>3. ASSUME NEW m \in BagToSet(net), AcknowledgeSubscription(m)
      PROVE  \/ \A r \in Publishers, h \in Hosts, g \in QoSGroups :
                   Serves(r, h, g)' <=> Serves(r, h, g)
             \/ \E p \in Publishers, q \in QoSGroups : ServesMore(p, q)
  <2>1. PICK q \in QoSGroups : m.qos = {q}
    BY <1>3 DEF AcknowledgeSubscription, OneGroupEach
  <2>2. \A r \in Publishers \ Subscribed(m) :
           pubEndpoints'[r] = pubEndpoints[r] /\ remotes'[r] = remotes[r]
    BY <1>3 DEF AcknowledgeSubscription
  <2>3. published' = published
    BY <1>3 DEF AcknowledgeSubscription
  <2>4. CASE Subscribed(m) = {}
    BY <2>2, <2>3, <2>4 DEF Serves
  <2>5. ASSUME NEW p \in Subscribed(m)
        PROVE  p \in Publishers /\ ServesMore(p, q)
    <3>1. p \in Publishers /\ q \in PublisherApp[p].qos
      BY <2>1 DEF Subscribed
    <3>2. \A r \in Subscribed(m) : r = p
      BY DEF Subscribed, PublishersUnique
    <3>3. \A g \in QoSGroups : g # q => (g \in pubEndpoints'[p] <=> g \in pubEndpoints[p])
      BY <1>3, <2>1, <3>1 DEF AcknowledgeSubscription
    <3>4. q # UDP => remotes'[p] = remotes[p]
      BY <1>3, <2>1, <3>1 DEF AcknowledgeSubscription
    <3>5. ASSUME NEW r \in Publishers, NEW h \in Hosts, NEW g \in QoSGroups,
                 <<r, g>> # <<p, q>>
          PROVE  Serves(r, h, g)' <=> Serves(r, h, g)
      <4>1. CASE r # p
        BY <2>2, <2>3, <3>2, <4>1 DEF Serves
      <4>2. CASE r = p /\ g # q
        BY <2>3, <3>3, <3>4, <4>2 DEF Serves
      <4> QED  BY <3>5, <4>1, <4>2
    <3> QED  BY <3>1, <3>5 DEF ServesMore
  <2> QED  BY <2>4, <2>5
<1> QED  BY <1>1, <1>2, <1>3, PublisherStep

\* A step that makes no subscription active leaves everybody listening where
\* he listened.
LEMMA ListensToStep ==
    ASSUME TypeOK, Registration, Serving, [Next]_vars, NEW s \in Subscribers,
           ~BecomesActive(s) \/ subscription[s].active
    PROVE  /\ subscription'[s].active = subscription[s].active
           /\ subscription[s].active => subEndpoint'[s] = subEndpoint[s]
<1> USE DEF TypeOK
<1>0. subscription[s] \in SubscriptionState  OBVIOUS
<1>1. subscription[s].active => Known(s) /\ ~SubscriberApp[s].static
  BY DEF Registration, RequestsOwnConnector
<1>2. CASE BecomesActive(s)
  <2>1. subscription'[s].active /\ subscription[s].active
    BY <1>0, <1>2 DEF BecomesActive, SubscriptionState
  <2>2. subEndpoint'[s] = subEndpoint[s]
    BY <1>2, <2>1 DEF BecomesActive, NeedsEndpoint
  <2> QED  BY <1>0, <2>1, <2>2
<1>3. CASE ~BecomesActive(s)
  <2>1. subscription[s].active => subEndpoint'[s] = subEndpoint[s]
    BY <1>1, <1>3, EndpointStep
  <2>2. subscription'[s].active = subscription[s].active
    <3>1. CASE Starts(s)
      <4>1. Start(subscription[s]).active = subscription[s].active
        BY <1>0 DEF Start, SubscriptionState
      <4> QED  BY <1>0, <3>1, <4>1, NextPhaseKeepsFlags DEF Starts
    <3>2. CASE Expires(s)
      <4>1. TimerConsumed(subscription[s]).active = subscription[s].active
        BY <1>0 DEF TimerConsumed, SubscriptionState
      <4> QED  BY <1>0, <3>2, <4>1, NextPhaseKeepsFlags DEF Expires
    <3>3. CASE BecomesRequested(s)
      BY <1>0, <3>3 DEF BecomesRequested, SubscriptionState
    <3> QED  BY <1>3, <3>1, <3>2, <3>3, SubscriptionStep
  <2> QED  BY <2>1, <2>2
<1> QED  BY <1>2, <1>3

LEMMA ListenStep ==
    ASSUME TypeOK, Registration, Serving, Taking, [Next]_vars,
           NEW s \in Subscribers, BecomesActive(s), ~subscription[s].active
    PROVE  \E p \in Publishers : Abstract!Listen(s, p)
<1> USE DEF TypeOK
<1>1. PICK m \in BagToSet(net) :
         /\ m.type = "ACK"
         /\ s \in Acknowledged(m)
         /\ UNCHANGED <<published, pubEndpoints, remotes>>
         /\ \A t \in Subscribers \ Acknowledged(m) :
               subscription'[t] = subscription[t] /\ subEndpoint'[t] = subEndpoint[t]
         /\ subEndpoint'[s] = IF NeedsEndpoint(s) THEN m.from ELSE subEndpoint[s]
         /\ subscription'[s] = [subscription[s] EXCEPT !.requested = FALSE, !.active = TRUE]
  BY DEF BecomesActive
<1>2. PICK p \in Publishers : /\ Matches(s, p)
                             /\ PublisherApp[p].host = m.from
                             /\ Serves(p, SubscriberApp[s].host, SubscriberApp[s].qos)
  BY <1>1, AcknowledgedFits
<1>3. \A t \in Acknowledged(m) : t = s
  <2>1. PICK q \in QoSGroups : m.qos = {q}
    BY <1>1 DEF Taking, OneGroupEach
  <2>2. ASSUME NEW t \in Acknowledged(m)
        PROVE  /\ t \in Subscribers /\ connector[t] = t
               /\ SubscriberApp[t].host = m.to /\ SubscriberApp[t].service = m.service
               /\ SubscriberApp[t].qos = q
    BY <2>1 DEF Acknowledged, Requests, Registration, RequestsOwnConnector
  <2> QED  BY <1>1, <2>2 DEF Registration, ConnectorsUnique
<1>4. subEndpoint'[s] = m.from /\ subscription'[s].active
  <2>1. Known(s)
    BY <1>1 DEF Acknowledged, Requests
  <2>2. subscription[s] \in SubscriptionState
    OBVIOUS
  <2> QED  BY <1>1, <2>1, <2>2 DEF NeedsEndpoint, Serving, EndpointIffActive, SubscriptionState
<1>5. ListensTo' = [ListensTo EXCEPT ![s] = PublisherApp[p].host]
  <2>1. \A t \in Subscribers : t # s =>
           subscription'[t] = subscription[t] /\ subEndpoint'[t] = subEndpoint[t]
    BY <1>1, <1>3
  <2> QED  BY <1>2, <1>4, <2>1 DEF ListensTo
<1>6. ListensTo[s] = None
  BY DEF ListensTo
<1>7. Served' = Served
  BY <1>1 DEF Served, Serves
<1>8. <<p, SubscriberApp[s].host, SubscriberApp[s].qos>> \in Served
  BY <1>2, ConfigAssumption DEF Served
<1>9. Abstract!Matches(s, p)
  BY <1>2 DEF Abstract!Matches, Matches
<1> QED  BY <1>5, <1>6, <1>7, <1>8, <1>9 DEF Abstract!Listen

LEMMA ServeStep ==
    ASSUME TypeOK, [Next]_vars, ListensTo' = ListensTo,
           NEW p \in Publishers, NEW q \in QoSGroups, ServesMore(p, q)
    PROVE  Abstract!Serve(p, q)
<1> DEFINE hosts == {h \in Hosts : Serves(p, h, q)'}
<1>1. Served' = Served \cup {<<p, h, q>> : h \in hosts}
  <2>1. ASSUME NEW r \in Publishers, NEW h \in Hosts, NEW g \in QoSGroups
        PROVE  Serves(r, h, g)' <=> Serves(r, h, g) \/ (r = p /\ g = q /\ h \in hosts)
    <3>1. Serves(r, h, g) => Serves(r, h, g)'
      BY ServesStep
    <3>2. CASE r = p /\ g = q
      BY <3>1, <3>2
    <3>3. CASE <<r, g>> # <<p, q>>
      BY <3>3 DEF ServesMore
    <3> QED  BY <3>2, <3>3
  <2>2. Served' = {t \in Publishers \X Hosts \X QoSGroups : Serves(t[1], t[2], t[3])'}
    BY DEF Served
  <2>3. ASSUME NEW t \in Publishers \X Hosts \X QoSGroups
        PROVE  t \in Served' <=> t \in Served \cup {<<p, h, q>> : h \in hosts}
    <3>1. /\ t[1] \in Publishers /\ t[2] \in Hosts /\ t[3] \in QoSGroups
          /\ t = <<t[1], t[2], t[3]>>
      OBVIOUS
    <3>2. t \in Served' <=> Serves(t[1], t[2], t[3])'
      BY <2>2
    <3>3. t \in Served <=> Serves(t[1], t[2], t[3])
      BY DEF Served
    <3>4. t \in {<<p, h, q>> : h \in hosts} <=> t[1] = p /\ t[3] = q /\ t[2] \in hosts
      <4> HIDE DEF hosts
      <4> QED  BY <3>1
    <3>5. Serves(t[1], t[2], t[3])' <=>
             Serves(t[1], t[2], t[3]) \/ (t[1] = p /\ t[3] = q /\ t[2] \in hosts)
      BY <2>1, <3>1
    <3> QED  BY <3>2, <3>3, <3>4, <3>5
  <2>4. Served \cup {<<p, h, q>> : h \in hosts} \subseteq Publishers \X Hosts \X QoSGroups
    BY DEF Served
  <2>5. Served' \subseteq Publishers \X Hosts \X QoSGroups
    BY <2>2
  <2> QED  BY <2>3, <2>4, <2>5
<1>2. hosts \in SUBSET Hosts
  OBVIOUS
<1>3. q \in PublisherApp[p].qos
  BY DEF ServesMore
<1> HIDE DEF hosts
<1> QED  BY <1>1, <1>2, <1>3 DEF Abstract!Serve

LEMMA RefinementStep ==
    ASSUME TypeOK, Registration, Serving, Taking, [Next]_vars
    PROVE  [Abstract!Next]_(Abstract!vars)
<1>1. CASE \E s \in Subscribers : BecomesActive(s) /\ ~subscription[s].active
  BY <1>1, ListenStep DEF Abstract!Next
<1>2. CASE \A s \in Subscribers : ~BecomesActive(s) \/ subscription[s].active
  <2>1. ListensTo' = ListensTo
    BY <1>2, ListensToStep DEF ListensTo
  <2>2. CASE \E p \in Publishers, q \in QoSGroups : ServesMore(p, q)
    BY <2>1, <2>2, ServeStep DEF Abstract!Next
  <2>3. CASE \A r \in Publishers, h \in Hosts, g \in QoSGroups :
                Serves(r, h, g)' <=> Serves(r, h, g)
    <3>1. Served' = {t \in Publishers \X Hosts \X QoSGroups : Serves(t[1], t[2], t[3])'}
      BY DEF Served
    <3>2. \A t \in Publishers \X Hosts \X QoSGroups :
             Serves(t[1], t[2], t[3])' <=> Serves(t[1], t[2], t[3])
      BY <2>3
    <3>3. Served' = Served
      BY <3>1, <3>2 DEF Served
    <3> QED  BY <2>1, <3>3 DEF Abstract!vars
  <2> QED  BY <2>2, <2>3, ServedStep
<1> QED  BY <1>1, <1>2

LEMMA RefinementInit ==
    ASSUME Init
    PROVE  Abstract!Init
<1>1. Served = {}
  BY DEF Init, Served, Serves
<1>2. ListensTo = [s \in Subscribers |-> None]
  BY DEF Init, ListensTo
<1> QED  BY <1>1, <1>2 DEF Abstract!Init

\* Discovery implements "serve first, then listen, and stay": no subscriber
\* starts to listen before its publisher serves it, nor ever changes to
\* another one.
THEOREM Implements == Spec => ImplementsSubscription
<1>1. Init => Abstract!Init
  BY RefinementInit
<1>2. /\ TypeOK /\ Registration /\ Serving /\ Taking /\ [Next]_vars
      => [Abstract!Next]_(Abstract!vars)
  BY RefinementStep
<1> QED
  BY <1>1, <1>2, TypeCorrect, RegistrationInvariant, ServingInvariant, TakingInvariant, PTL
     DEF Spec, ImplementsSubscription, Abstract!Spec
=============================================================================
