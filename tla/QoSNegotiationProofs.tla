------------------------ MODULE QoSNegotiationProofs ------------------------
(* Theorems about QoSNegotiation, for every configuration of applications. *)
EXTENDS QoSNegotiation, FiniteSetTheorems, TLAPS

-----------------------------------------------------------------------------
(* Inductive invariants.                                                   *)

\* The packets on their way, and the brokers of a host, without their order.
Packets(from, to) == {channel[from][to][i] : i \in DOMAIN channel[from][to]}
BrokersOf(h) == {brokers[h][i] : i \in DOMAIN brokers[h]}

\* Whatever SomeIpSD has led to is about a host that has the publisher.
OffersHold ==
    \A m \in BagToSet(sdNet) : m.type = "OFFER" => Provides(m.from, m.service) # {}
JobsHold ==
    \A j \in jobs : Provides(j.peer, SubscriberApp[j.request].service) # {}
RequestsHold ==
    \A from, to \in Hosts : \A m \in Packets(from, to) :
        m.type = "REQUEST" => Provides(to, m.service) # {}
ServersHold ==
    \A h \in Hosts : \A broker \in BrokersOf(h) :
        broker.state = "SERVER_PENDING_ACCEPT" => Provides(h, broker.service) # {}
Discovered ==
    StaticHosts = {} => OffersHold /\ JobsHold /\ RequestsHold /\ ServersHold /\ ~aborted

\* A finalise comes from a host that has the endpoint.
Finalised ==
    \A from, to \in Hosts : \A m \in Packets(from, to) :
        m.type = "FINALISE" =>
            \E p \in Provides(from, m.service) : m.qos \in pubEndpoints[p]

\* Whoever looks for a service or negotiates for it has the connector.
Requesting ==
    /\ \A s \in pending : connector[s] = s
    /\ \A j \in jobs : connector[j.request] = j.request
    /\ \A from, to \in Hosts : \A m \in Packets(from, to) :
          /\ m.type = "REQUEST" => ConnectorsFor(from, m.service, m.qos) # {}
          /\ m.type = "RESPONSE" => ConnectorsFor(to, m.service, m.qos) # {}

\* An establish for UDP comes from a host whose endpoint exists.
Established ==
    \A from, to \in Hosts : \A m \in Packets(from, to) :
        m.type = "ESTABLISH" /\ m.qos = UDP =>
            \E s \in ConnectorsFor(from, m.service, UDP) : subEndpoint[s] # None

-----------------------------------------------------------------------------
(* Bags and sequences.                                                     *)

LEMMA SdSendDomain ==
    ASSUME NEW sent, sdNet' = sdNet (+) SetToBag(sent)
    PROVE  BagToSet(sdNet') = BagToSet(sdNet) \cup sent
BY DEF BagToSet, SetToBag, (+)

LEMMA SdReplyDomain ==
    ASSUME NEW m, NEW sent, SdReply(m, sent)
    PROVE  BagToSet(sdNet') \subseteq BagToSet(sdNet) \cup sent
BY DEF SdReply, BagToSet, SetToBag, (+), (-)

LEMMA AppendElements ==
    ASSUME NEW S, NEW seq \in Seq(S), NEW e \in S
    PROVE  /\ Append(seq, e) \in Seq(S)
           /\ \A i \in DOMAIN Append(seq, e) :
                 Append(seq, e)[i] = e \/ \E j \in DOMAIN seq : Append(seq, e)[i] = seq[j]
OBVIOUS

LEMMA TailElements ==
    ASSUME NEW S, NEW seq \in Seq(S), seq # <<>>
    PROVE  /\ Tail(seq) \in Seq(S)
           /\ \A i \in DOMAIN Tail(seq) : \E j \in DOMAIN seq : Tail(seq)[i] = seq[j]
           /\ Head(seq) \in S
           /\ \E j \in DOMAIN seq : Head(seq) = seq[j]
<1>1. Len(seq) \in Nat \ {0}  OBVIOUS
<1>2. \A i \in DOMAIN Tail(seq) : i + 1 \in DOMAIN seq /\ Tail(seq)[i] = seq[i + 1]
  OBVIOUS
<1>3. 1 \in DOMAIN seq /\ Head(seq) = seq[1]  BY <1>1
<1> QED  BY <1>2, <1>3

LEMMA RemoveElements ==
    ASSUME NEW S, NEW seq \in Seq(S), NEW n \in DOMAIN seq
    PROVE  /\ RemoveAt(seq, n) \in Seq(S)
           /\ \A i \in DOMAIN RemoveAt(seq, n) : \E j \in DOMAIN seq : RemoveAt(seq, n)[i] = seq[j]
<1> DEFINE before == SubSeq(seq, 1, n - 1)
           after == SubSeq(seq, n + 1, Len(seq))
<1>1. n \in 1..Len(seq) /\ Len(seq) \in Nat  OBVIOUS
<1>2. before \in Seq(S) /\ Len(before) = n - 1 /\ \A i \in 1..(n - 1) : before[i] = seq[i]
  BY <1>1
<1>3. after \in Seq(S) /\ Len(after) = Len(seq) - n
      /\ \A i \in 1..(Len(seq) - n) : after[i] = seq[n + i]
  BY <1>1
<1> HIDE DEF before, after
<1>4. before \o after \in Seq(S) /\ Len(before \o after) = Len(seq) - 1
  BY <1>1, <1>2, <1>3
<1>5. ASSUME NEW i \in 1..(Len(seq) - 1)
      PROVE  \E j \in DOMAIN seq : (before \o after)[i] = seq[j]
  <2>1. CASE i < n
    <3>1. (before \o after)[i] = before[i]  BY <1>1, <1>2, <1>3, <2>1
    <3>2. i \in 1..(n - 1) /\ i \in DOMAIN seq  BY <1>1, <2>1
    <3> QED  BY <3>1, <3>2, <1>2
  <2>2. CASE i >= n
    <3>1. (before \o after)[i] = after[i - (n - 1)]  BY <1>1, <1>2, <1>3, <2>2
    <3>2. i - (n - 1) \in 1..(Len(seq) - n) /\ n + (i - (n - 1)) = i + 1
          /\ i + 1 \in DOMAIN seq
      BY <1>1, <2>2
    <3> QED  BY <3>1, <3>2, <1>3
  <2>3. i < n \/ i >= n  BY <1>1
  <2> QED  BY <2>1, <2>2, <2>3
<1>6. RemoveAt(seq, n) = before \o after  BY DEF RemoveAt, before, after
<1>7. DOMAIN (before \o after) = 1..(Len(seq) - 1)  BY <1>4
<1> QED  BY <1>4, <1>5, <1>6, <1>7

-----------------------------------------------------------------------------
(* What the packets and brokers are after a step.                          *)

LEMMA SendPackets ==
    ASSUME TypeOK, NEW from \in Hosts, NEW to \in Hosts, NEW m \in NegotiationMessage,
           Send(from, to, m)
    PROVE  /\ channel' \in [Hosts -> [Hosts -> Seq(NegotiationMessage)]]
           /\ \A a, b \in Hosts : \A n \in Packets(a, b)' :
                 n \in Packets(a, b) \/ (a = from /\ b = to /\ n = m)
<1>1. \A a, b \in Hosts : channel[a][b] \in Seq(NegotiationMessage)  BY DEF TypeOK
<1>2. \A a, b \in Hosts : channel'[a][b] =
        IF a = from /\ b = to THEN Append(channel[a][b], m) ELSE channel[a][b]
  BY DEF TypeOK, Send
<1>3. ASSUME NEW a \in Hosts, NEW b \in Hosts
      PROVE  /\ channel'[a][b] \in Seq(NegotiationMessage)
             /\ \A n \in Packets(a, b)' : n \in Packets(a, b) \/ (a = from /\ b = to /\ n = m)
  <2>1. /\ Append(channel[a][b], m) \in Seq(NegotiationMessage)
        /\ \A i \in DOMAIN Append(channel[a][b], m) :
              \/ Append(channel[a][b], m)[i] = m
              \/ \E j \in DOMAIN channel[a][b] : Append(channel[a][b], m)[i] = channel[a][b][j]
    BY <1>1, AppendElements
  <2>2. CASE a = from /\ b = to
    <3>1. channel'[a][b] = Append(channel[a][b], m)  BY <1>2, <2>2
    <3> QED  BY <2>1, <2>2, <3>1 DEF Packets
  <2>3. CASE ~(a = from /\ b = to)
    <3>1. channel'[a][b] = channel[a][b]  BY <1>2, <2>3
    <3> QED  BY <1>1, <3>1 DEF Packets
  <2> QED  BY <2>2, <2>3
<1>4. channel' \in [Hosts -> [Hosts -> Seq(NegotiationMessage)]]
  BY <1>3 DEF TypeOK, Send
<1> QED  BY <1>3, <1>4

LEMMA ConsumePackets ==
    ASSUME TypeOK, NEW from \in Hosts, NEW to \in Hosts, channel[from][to] # <<>>,
           Consume(from, to)
    PROVE  /\ channel' \in [Hosts -> [Hosts -> Seq(NegotiationMessage)]]
           /\ \A a, b \in Hosts : \A n \in Packets(a, b)' : n \in Packets(a, b)
<1>1. \A a, b \in Hosts : channel[a][b] \in Seq(NegotiationMessage)  BY DEF TypeOK
<1>2. \A a, b \in Hosts : channel'[a][b] =
        IF a = from /\ b = to THEN Tail(channel[a][b]) ELSE channel[a][b]
  BY DEF TypeOK, Consume
<1>3. ASSUME NEW a \in Hosts, NEW b \in Hosts
      PROVE  /\ channel'[a][b] \in Seq(NegotiationMessage)
             /\ \A n \in Packets(a, b)' : n \in Packets(a, b)
  <2>1. CASE a = from /\ b = to
    <3>1. channel'[a][b] = Tail(channel[a][b])  BY <1>2, <2>1
    <3>2. /\ Tail(channel[a][b]) \in Seq(NegotiationMessage)
          /\ \A i \in DOMAIN Tail(channel[a][b]) :
                \E j \in DOMAIN channel[a][b] : Tail(channel[a][b])[i] = channel[a][b][j]
      BY <1>1, <2>1, TailElements
    <3> QED  BY <3>1, <3>2 DEF Packets
  <2>2. CASE ~(a = from /\ b = to)
    <3>1. channel'[a][b] = channel[a][b]  BY <1>2, <2>2
    <3> QED  BY <1>1, <3>1 DEF Packets
  <2> QED  BY <2>1, <2>2
<1>4. channel' \in [Hosts -> [Hosts -> Seq(NegotiationMessage)]]
  BY <1>3 DEF TypeOK, Consume
<1> QED  BY <1>3, <1>4

\* Also when the host answers itself: the packet is appended to what is left.
LEMMA AnswerPackets ==
    ASSUME TypeOK, NEW from \in Hosts, NEW to \in Hosts, channel[from][to] # <<>>,
           NEW m \in NegotiationMessage, Answer(from, to, m)
    PROVE  /\ channel' \in [Hosts -> [Hosts -> Seq(NegotiationMessage)]]
           /\ \A a, b \in Hosts : \A n \in Packets(a, b)' :
                 n \in Packets(a, b) \/ (a = to /\ b = from /\ n = m)
<1> DEFINE rest == [channel EXCEPT ![from][to] = Tail(@)]
<1>1. /\ rest \in [Hosts -> [Hosts -> Seq(NegotiationMessage)]]
      /\ \A a, b \in Hosts : \A i \in DOMAIN rest[a][b] :
            \E j \in DOMAIN channel[a][b] : rest[a][b][i] = channel[a][b][j]
  <2>1. \A a, b \in Hosts : channel[a][b] \in Seq(NegotiationMessage)  BY DEF TypeOK
  <2>2. \A a, b \in Hosts : rest[a][b] =
          IF a = from /\ b = to THEN Tail(channel[a][b]) ELSE channel[a][b]
    BY DEF TypeOK
  <2>3. /\ Tail(channel[from][to]) \in Seq(NegotiationMessage)
        /\ \A i \in DOMAIN Tail(channel[from][to]) :
              \E j \in DOMAIN channel[from][to] : Tail(channel[from][to])[i] = channel[from][to][j]
    BY <2>1, TailElements
  <2>4. rest \in [Hosts -> [Hosts -> Seq(NegotiationMessage)]]
    BY <2>3 DEF TypeOK
  <2> HIDE DEF rest
  <2>5. ASSUME NEW a \in Hosts, NEW b \in Hosts, NEW i \in DOMAIN rest[a][b]
        PROVE  \E j \in DOMAIN channel[a][b] : rest[a][b][i] = channel[a][b][j]
    <3>1. CASE a = from /\ b = to
      <4>1. rest[from][to] = Tail(channel[from][to])  BY <2>2, Zenon
      <4>2. i \in DOMAIN Tail(channel[from][to])  BY <3>1, <4>1, Zenon
      <4>3. \E j \in DOMAIN channel[from][to] : Tail(channel[from][to])[i] = channel[from][to][j]
        BY <2>3, <4>2, Zenon
      <4> QED  BY <3>1, <4>1, <4>3, Zenon
    <3>2. CASE ~(a = from /\ b = to)
      BY <2>2, <3>2
    <3> QED  BY <3>1, <3>2
  <2> QED  BY <2>4, <2>5
<1>2. channel' = [rest EXCEPT ![to][from] = Append(@, m)]
  BY DEF Answer
<1> HIDE DEF rest
<1>3. ASSUME NEW a \in Hosts, NEW b \in Hosts
      PROVE  /\ channel'[a][b] \in Seq(NegotiationMessage)
             /\ \A n \in Packets(a, b)' : n \in Packets(a, b) \/ (a = to /\ b = from /\ n = m)
  <2>1. /\ Append(rest[a][b], m) \in Seq(NegotiationMessage)
        /\ \A i \in DOMAIN Append(rest[a][b], m) :
              \/ Append(rest[a][b], m)[i] = m
              \/ \E j \in DOMAIN rest[a][b] : Append(rest[a][b], m)[i] = rest[a][b][j]
    <3>1. rest[a][b] \in Seq(NegotiationMessage)  BY <1>1
    <3> QED  BY <3>1, AppendElements
  <2>2. channel'[a][b] = IF a = to /\ b = from THEN Append(rest[a][b], m) ELSE rest[a][b]
    BY <1>1, <1>2
  <2>3. CASE a = to /\ b = from
    <3>1. channel'[a][b] = Append(rest[a][b], m)  BY <2>2, <2>3
    <3>2. ASSUME NEW n \in Packets(a, b)', n # m  PROVE n \in Packets(a, b)
      <4>1. PICK j \in DOMAIN rest[a][b] : n = rest[a][b][j]  BY <2>1, <3>1, <3>2 DEF Packets
      <4> QED  BY <1>1, <4>1 DEF Packets
    <3> QED  BY <2>1, <2>3, <3>1, <3>2
  <2>4. CASE ~(a = to /\ b = from)
    <3>1. channel'[a][b] = rest[a][b]  BY <2>2, <2>4
    <3>2. ASSUME NEW n \in Packets(a, b)'  PROVE n \in Packets(a, b)
      <4>1. PICK j \in DOMAIN rest[a][b] : n = rest[a][b][j]  BY <3>1, <3>2 DEF Packets
      <4> QED  BY <1>1, <4>1 DEF Packets
    <3> QED  BY <1>1, <3>1, <3>2
  <2> QED  BY <2>3, <2>4
<1>4. channel' \in [Hosts -> [Hosts -> Seq(NegotiationMessage)]]
  BY <1>1, <1>2, <1>3
<1> QED  BY <1>3, <1>4

LEMMA AppendBroker ==
    ASSUME TypeOK, NEW h \in Hosts, NEW broker \in Broker,
           brokers' = [brokers EXCEPT ![h] = Append(@, broker)]
    PROVE  /\ brokers' \in [Hosts -> Seq(Broker)]
           /\ \A k \in Hosts : \A x \in BrokersOf(k)' :
                 x \in BrokersOf(k) \/ (k = h /\ x = broker)
<1>1. \A k \in Hosts : brokers[k] \in Seq(Broker)  BY DEF TypeOK
<1>2. \A k \in Hosts : brokers'[k] = IF k = h THEN Append(brokers[k], broker) ELSE brokers[k]
  BY DEF TypeOK
<1>3. brokers' \in [Hosts -> Seq(Broker)]  BY <1>1, AppendElements DEF TypeOK
<1> QED  BY <1>1, <1>2, <1>3, AppendElements DEF BrokersOf

LEMMA RemoveBroker ==
    ASSUME TypeOK, NEW h \in Hosts, NEW n \in DOMAIN brokers[h],
           brokers' = [brokers EXCEPT ![h] = RemoveAt(@, n)]
    PROVE  /\ brokers' \in [Hosts -> Seq(Broker)]
           /\ \A k \in Hosts : \A x \in BrokersOf(k)' : x \in BrokersOf(k)
<1>1. \A k \in Hosts : brokers[k] \in Seq(Broker)  BY DEF TypeOK
<1>2. \A k \in Hosts : brokers'[k] = IF k = h THEN RemoveAt(brokers[k], n) ELSE brokers[k]
  BY DEF TypeOK
<1>3. brokers' \in [Hosts -> Seq(Broker)]  BY <1>1, RemoveElements DEF TypeOK
<1> QED  BY <1>1, <1>2, <1>3, RemoveElements DEF BrokersOf

LEMMA AdvanceBroker ==
    ASSUME TypeOK, NEW h \in Hosts, NEW n \in DOMAIN brokers[h],
           brokers' = [brokers EXCEPT ![h][n].state = "CLIENT_PENDING_CONNECTION"]
    PROVE  /\ brokers' \in [Hosts -> Seq(Broker)]
           /\ \A k \in Hosts : \A x \in BrokersOf(k)' :
                 x \in BrokersOf(k) \/ x.state = "CLIENT_PENDING_CONNECTION"
<1> DEFINE advanced == [brokers[h][n] EXCEPT !.state = "CLIENT_PENDING_CONNECTION"]
<1>1. brokers[h] \in Seq(Broker) /\ brokers[h][n] \in Broker  BY DEF TypeOK
<1>2. advanced \in Broker /\ advanced.state = "CLIENT_PENDING_CONNECTION"
  BY <1>1 DEF Broker, BrokerStates
<1>3. brokers' = [brokers EXCEPT ![h] = [brokers[h] EXCEPT ![n] = advanced]]
  BY DEF TypeOK
<1> HIDE DEF advanced
<1>4. [brokers[h] EXCEPT ![n] = advanced] \in Seq(Broker)  BY <1>1, <1>2
<1>5. brokers' \in [Hosts -> Seq(Broker)]  BY <1>3, <1>4 DEF TypeOK
<1>6. ASSUME NEW k \in Hosts, NEW x \in BrokersOf(k)'
      PROVE  x \in BrokersOf(k) \/ x.state = "CLIENT_PENDING_CONNECTION"
  <2>1. PICK i \in DOMAIN brokers'[k] : x = brokers'[k][i]  BY DEF BrokersOf
  <2>2. i \in DOMAIN brokers[k] /\ (x = brokers[k][i] \/ x = advanced)
    BY <2>1, <1>3, <1>1 DEF TypeOK
  <2> QED  BY <2>2, <1>2 DEF BrokersOf
<1> QED  BY <1>5, <1>6

LEMMA HeadPacket ==
    ASSUME TypeOK, NEW from \in Hosts, NEW to \in Hosts, channel[from][to] # <<>>
    PROVE  /\ Head(channel[from][to]) \in NegotiationMessage
           /\ Head(channel[from][to]) \in Packets(from, to)
<1>1. channel[from][to] \in Seq(NegotiationMessage)  BY DEF TypeOK
<1> QED  BY <1>1, TailElements DEF Packets

LEMMA HandlingBroker ==
    ASSUME NEW h, NEW peer, NEW service, NEW state, NEW n \in Handler(h, peer, service, state)
    PROVE  /\ n \in DOMAIN brokers[h]
           /\ brokers[h][n] \in BrokersOf(h)
           /\ brokers[h][n].state = state /\ brokers[h][n].service = service
BY DEF Handler, First, Responsible, BrokersOf

-----------------------------------------------------------------------------
(* Types.                                                                  *)

LEMMA EndpointType ==
    ASSUME TypeOK, NEW h, NEW service, NEW qos, NEW addr \in Hosts,
           MakeSubscriberEndpoint(h, service, qos, addr)
    PROVE  subEndpoint' \in [Subscribers -> Hosts \cup {None}]
BY DEF TypeOK, MakeSubscriberEndpoint

\* Every step keeps every variable in its range.
THEOREM TypeCorrect == Spec => []TypeOK
<1>1. Init => TypeOK
  <2>1. BagToSet(EmptyBag) = {}  BY DEF EmptyBag, SetToBag, BagToSet
  <2>2. /\ [h \in Hosts |-> <<>>] \in [Hosts -> Seq(Broker)]
        /\ [from \in Hosts |-> [to \in Hosts |-> <<>>]]
              \in [Hosts -> [Hosts -> Seq(NegotiationMessage)]]
    OBVIOUS
  <2>3. 0 \in 0..MaxLosses  BY NegotiationAssumption
  <2> QED  BY <2>1, <2>2, <2>3 DEF Init, TypeOK
<1>2. TypeOK /\ [Next]_vars => TypeOK'
  <2> SUFFICES ASSUME TypeOK, [Next]_vars PROVE TypeOK'
    OBVIOUS
  <2>1. ASSUME NEW p \in Publishers, RegisterPublisherService(p)  PROVE TypeOK'
    BY <2>1 DEF TypeOK, RegisterPublisherService, endpointVars
  <2>2. ASSUME NEW s \in Subscribers, AttachSubscriber(s)  PROVE TypeOK'
    BY <2>2 DEF TypeOK, AttachSubscriber, endpointVars, ConnectorsFor
  <2>3. ASSUME NEW s \in Subscribers, SubscribeService(s)  PROVE TypeOK'
    <3>1. FindMessages(s) \subseteq SdMessage
      BY NegotiationAssumption DEF FindMessages, SdMessage, SdTypes
    <3>2. BagToSet(sdNet') \subseteq SdMessage
      <4>1. CASE UNCHANGED sdNet  BY <4>1 DEF TypeOK
      <4>2. CASE sdNet' = sdNet (+) SetToBag(FindMessages(s))
        BY <3>1, <4>2, SdSendDomain DEF TypeOK
      <4> QED  BY <2>3, <4>1, <4>2 DEF SubscribeService
    <3>3. jobs' \subseteq [request : Subscribers, peer : Hosts]
      <4>1. [request |-> s, peer |-> Provider[SubscriberApp[s].service]]
              \in [request : Subscribers, peer : Hosts]
        BY NegotiationAssumption
      <4> QED  BY <2>3, <4>1 DEF TypeOK, SubscribeService, Discover
    <3>4. pending' \subseteq Subscribers
      BY <2>3 DEF TypeOK, SubscribeService
    <3> QED  BY <2>3, <3>2, <3>3, <3>4 DEF TypeOK, SubscribeService, endpointVars
  <2>4. ASSUME NEW m \in BagToSet(sdNet), LookForService(m)  PROVE TypeOK'
    <3>1. m \in SdMessage  BY DEF TypeOK
    <3>2. Answers(m) \subseteq SdMessage
      BY <3>1 DEF Answers, SdMessage, SdTypes
    <3>3. BagToSet(sdNet') \subseteq SdMessage
      BY <2>4, <3>2, SdReplyDomain DEF TypeOK, LookForService
    <3> QED  BY <2>4, <3>3 DEF TypeOK, LookForService, endpointVars
  <2>5. ASSUME NEW m \in BagToSet(sdNet), SubscribeOfferedService(m)  PROVE TypeOK'
    <3>1. m \in SdMessage  BY DEF TypeOK
    <3>2. BagToSet(sdNet') \subseteq SdMessage
      BY <2>5, SdReplyDomain DEF TypeOK, SubscribeOfferedService
    <3>3. jobs' \subseteq [request : Subscribers, peer : Hosts]
      BY <2>5, <3>1 DEF TypeOK, SubscribeOfferedService, SdMessage
    <3> QED  BY <2>5, <3>2, <3>3 DEF TypeOK, SubscribeOfferedService, endpointVars
  <2>6. ASSUME NEW m \in BagToSet(sdNet), LoseSd(m)  PROVE TypeOK'
    <3>1. BagToSet(sdNet') \subseteq SdMessage
      BY <2>6, SdReplyDomain DEF TypeOK, LoseSd
    <3>2. losses' \in 0..MaxLosses
      BY <2>6, NegotiationAssumption DEF TypeOK, LoseSd
    <3> QED  BY <2>6, <3>1, <3>2 DEF TypeOK, LoseSd, endpointVars
  <2>7. ASSUME NEW j \in jobs, StartNegotiation(j)  PROVE TypeOK'
    <3> DEFINE app == SubscriberApp[j.request]
               broker == [service |-> app.service, peer |-> j.peer,
                          state |-> "CLIENT_PENDING_REQUEST", request |-> j.request]
               m == Message("REQUEST", app.service, app.qos)
    <3>1. j.request \in Subscribers /\ j.peer \in Hosts  BY DEF TypeOK
    <3>2. app.host \in Hosts /\ app.service \in Services /\ app.qos \in QoSGroups
      BY <3>1, NegotiationAssumption
    <3>3. broker \in Broker  BY <3>1, <3>2 DEF Broker, BrokerStates
    <3>4. m \in NegotiationMessage
      BY <3>2 DEF Message, NegotiationMessage, NegotiationTypes
    <3>5. /\ brokers' = [brokers EXCEPT ![app.host] = Append(@, broker)]
          /\ Send(app.host, j.peer, m)
      BY <2>7 DEF StartNegotiation
    <3> HIDE DEF app, broker, m
    <3>6. brokers' \in [Hosts -> Seq(Broker)]  BY <3>2, <3>3, <3>5, AppendBroker
    <3>7. channel' \in [Hosts -> [Hosts -> Seq(NegotiationMessage)]]
      BY <3>1, <3>2, <3>4, <3>5, SendPackets
    <3> QED  BY <2>7, <3>6, <3>7 DEF TypeOK, StartNegotiation, endpointVars
  <2>8. ASSUME NEW from \in Hosts, NEW to \in Hosts, Lose(from, to)  PROVE TypeOK'
    <3>1. channel' \in [Hosts -> [Hosts -> Seq(NegotiationMessage)]]
      BY <2>8, ConsumePackets DEF Lose
    <3>2. losses' \in 0..MaxLosses
      BY <2>8, NegotiationAssumption DEF TypeOK, Lose
    <3> QED  BY <2>8, <3>1, <3>2 DEF TypeOK, Lose, endpointVars
  <2>9. ASSUME NEW from \in Hosts, NEW to \in Hosts, Receive(from, to)  PROVE TypeOK'
    <3> DEFINE m == Head(channel[from][to])
    <3>1. channel[from][to] # <<>>  BY <2>9 DEF Receive
    <3>2. m \in NegotiationMessage /\ m.service \in Services /\ m.qos \in QoSGroups
      BY <3>1, HeadPacket DEF NegotiationMessage
    <3>3. \A type \in NegotiationTypes : Message(type, m.service, m.qos) \in NegotiationMessage
      BY <3>2 DEF Message, NegotiationMessage
    <3>4. /\ "RESPONSE" \in NegotiationTypes
          /\ "ESTABLISH" \in NegotiationTypes
          /\ "FINALISE" \in NegotiationTypes
      BY DEF NegotiationTypes
    <3>5. \/ ReceiveRequest(from, to, m) \/ ReceiveResponse(from, to, m)
          \/ ReceiveEstablish(from, to, m) \/ ReceiveFinalise(from, to, m)
          \/ Ignore(from, to, m)
      BY <2>9 DEF Receive
    <3> HIDE DEF m
    <3>6. CASE ReceiveRequest(from, to, m)
      <4> DEFINE broker == [service |-> m.service, peer |-> from,
                            state |-> "SERVER_PENDING_ACCEPT", request |-> None]
      <4>1. broker \in Broker  BY <3>2 DEF Broker, BrokerStates
      <4>2. brokers' = [brokers EXCEPT ![to] = Append(@, broker)]
        BY <3>6 DEF ReceiveRequest
      <4> HIDE DEF broker
      <4>3. brokers' \in [Hosts -> Seq(Broker)]  BY <4>1, <4>2, AppendBroker
      <4>4. channel' \in [Hosts -> [Hosts -> Seq(NegotiationMessage)]]
        BY <3>1, <3>3, <3>4, <3>6, AnswerPackets DEF ReceiveRequest
      <4> QED  BY <3>6, <4>3, <4>4 DEF TypeOK, ReceiveRequest, endpointVars
    <3>7. CASE ReceiveResponse(from, to, m)
      <4>1. brokers' \in [Hosts -> Seq(Broker)]
        <5>1. PICK i \in Handler(to, from, m.service, "CLIENT_PENDING_REQUEST") :
                brokers' = [brokers EXCEPT ![to][i].state = "CLIENT_PENDING_CONNECTION"]
          BY <3>7 DEF ReceiveResponse
        <5>2. i \in DOMAIN brokers[to]  BY HandlingBroker
        <5> QED  BY <5>1, <5>2, AdvanceBroker
      <4>2. channel' \in [Hosts -> [Hosts -> Seq(NegotiationMessage)]]
        BY <3>1, <3>3, <3>4, <3>7, AnswerPackets DEF ReceiveResponse
      <4>3. subEndpoint' \in [Subscribers -> Hosts \cup {None}]
        <5>1. CASE UNCHANGED subEndpoint  BY <5>1 DEF TypeOK
        <5> QED  BY <3>7, <5>1, EndpointType DEF ReceiveResponse
      <4> QED  BY <3>7, <4>1, <4>2, <4>3 DEF TypeOK, ReceiveResponse
    <3>8. CASE ReceiveEstablish(from, to, m)
      <4>1. PICK i \in Handler(to, from, m.service, "SERVER_PENDING_ACCEPT") :
              \/ aborted' = TRUE /\ UNCHANGED <<brokers, channel, pubEndpoints, remotes>>
              \/ /\ brokers' = [brokers EXCEPT ![to] = RemoveAt(@, i)]
                 /\ pubEndpoints' = [p \in Publishers |->
                       IF p \in Provides(to, m.service) THEN pubEndpoints[p] \cup {m.qos}
                                                        ELSE pubEndpoints[p]]
                 /\ remotes' = [p \in Publishers |->
                       IF p \in Provides(to, m.service) /\ m.qos = UDP
                       THEN remotes[p] \cup {from} ELSE remotes[p]]
                 /\ Answer(from, to, Message("FINALISE", m.service, m.qos))
                 /\ UNCHANGED aborted
        BY <3>8 DEF ReceiveEstablish
      <4>2. UNCHANGED <<published, connector, pending, sdNet, jobs, subEndpoint, losses>>
        BY <3>8 DEF ReceiveEstablish
      <4>3. CASE aborted' = TRUE /\ UNCHANGED <<brokers, channel, pubEndpoints, remotes>>
        BY <4>2, <4>3 DEF TypeOK
      <4>4. CASE ~(aborted' = TRUE /\ UNCHANGED <<brokers, channel, pubEndpoints, remotes>>)
        <5>1. brokers' \in [Hosts -> Seq(Broker)]
          <6>1. i \in DOMAIN brokers[to]  BY HandlingBroker
          <6> QED  BY <4>1, <4>4, <6>1, RemoveBroker
        <5>2. channel' \in [Hosts -> [Hosts -> Seq(NegotiationMessage)]]
          BY <3>1, <3>3, <3>4, <4>1, <4>4, AnswerPackets
        <5>3. pubEndpoints' \in [Publishers -> SUBSET QoSGroups]
          <6>1. \A p \in Publishers : /\ pubEndpoints[p] \in SUBSET QoSGroups
                                      /\ pubEndpoints[p] \cup {m.qos} \in SUBSET QoSGroups
            BY <3>2 DEF TypeOK
          <6> QED  BY <4>1, <4>4, <6>1
        <5>4. remotes' \in [Publishers -> SUBSET Hosts]
          <6>1. \A p \in Publishers : /\ remotes[p] \in SUBSET Hosts
                                      /\ remotes[p] \cup {from} \in SUBSET Hosts
            BY DEF TypeOK
          <6> QED  BY <4>1, <4>4, <6>1
        <5>5. aborted' \in BOOLEAN  BY <4>1, <4>4 DEF TypeOK
        <5> QED  BY <4>2, <5>1, <5>2, <5>3, <5>4, <5>5 DEF TypeOK
      <4> QED  BY <4>1, <4>3, <4>4
    <3>9. CASE ReceiveFinalise(from, to, m)
      <4>1. brokers' \in [Hosts -> Seq(Broker)]
        <5>1. PICK i \in Handler(to, from, m.service, "CLIENT_PENDING_CONNECTION") :
                brokers' = [brokers EXCEPT ![to] = RemoveAt(@, i)]
          BY <3>9 DEF ReceiveFinalise
        <5>2. i \in DOMAIN brokers[to]  BY HandlingBroker
        <5> QED  BY <5>1, <5>2, RemoveBroker
      <4>2. channel' \in [Hosts -> [Hosts -> Seq(NegotiationMessage)]]
        BY <3>1, <3>9, ConsumePackets DEF ReceiveFinalise
      <4>3. subEndpoint' \in [Subscribers -> Hosts \cup {None}]
        <5>1. CASE UNCHANGED subEndpoint  BY <5>1 DEF TypeOK
        <5> QED  BY <3>9, <5>1, EndpointType DEF ReceiveFinalise
      <4> QED  BY <3>9, <4>1, <4>2, <4>3 DEF TypeOK, ReceiveFinalise
    <3>10. CASE Ignore(from, to, m)
      <4>1. channel' \in [Hosts -> [Hosts -> Seq(NegotiationMessage)]]
        BY <3>1, <3>10, ConsumePackets DEF Ignore
      <4> QED  BY <3>10, <4>1 DEF TypeOK, Ignore, endpointVars
    <3> QED  BY <3>5, <3>6, <3>7, <3>8, <3>9, <3>10
  <2>10. CASE UNCHANGED vars  BY <2>10 DEF TypeOK, vars
  <2> QED  BY <2>1, <2>2, <2>3, <2>4, <2>5, <2>6, <2>7, <2>8, <2>9, <2>10
           DEF Next, Step, Terminated
<1> QED  BY <1>1, <1>2, PTL DEF Spec

-----------------------------------------------------------------------------
(* What a step may add, and where it comes from.                           *)

\* What the actions leave alone.
LEMMA Frame ==
    /\ \A p : RegisterPublisherService(p) =>
          UNCHANGED <<connector, pending, sdNet, jobs, brokers, channel, pubEndpoints, remotes,
                      subEndpoint, aborted>>
    /\ \A s : AttachSubscriber(s) =>
          UNCHANGED <<published, pending, sdNet, jobs, brokers, channel, pubEndpoints, remotes,
                      subEndpoint, aborted>>
    /\ \A s : SubscribeService(s) =>
          UNCHANGED <<published, brokers, channel, pubEndpoints, remotes, subEndpoint, aborted>>
    /\ \A m : LookForService(m) =>
          UNCHANGED <<published, connector, pending, jobs, brokers, channel, pubEndpoints, remotes,
                      subEndpoint, aborted>>
    /\ \A m : SubscribeOfferedService(m) =>
          UNCHANGED <<published, connector, brokers, channel, pubEndpoints, remotes, subEndpoint,
                      aborted>>
    /\ \A m : LoseSd(m) =>
          UNCHANGED <<published, connector, pending, jobs, brokers, channel, pubEndpoints, remotes,
                      subEndpoint, aborted>>
    /\ \A j : StartNegotiation(j) =>
          UNCHANGED <<published, connector, pending, sdNet, pubEndpoints, remotes, subEndpoint,
                      aborted>>
    /\ \A from, to : Lose(from, to) =>
          UNCHANGED <<published, connector, pending, sdNet, jobs, brokers, pubEndpoints, remotes,
                      subEndpoint, aborted>>
    /\ \A from, to, m : ReceiveRequest(from, to, m) =>
          UNCHANGED <<published, connector, pending, sdNet, jobs, pubEndpoints, remotes,
                      subEndpoint, aborted>>
    /\ \A from, to, m : ReceiveResponse(from, to, m) =>
          UNCHANGED <<published, connector, pending, sdNet, jobs, pubEndpoints, remotes, aborted>>
    /\ \A from, to, m : ReceiveEstablish(from, to, m) =>
          UNCHANGED <<published, connector, pending, sdNet, jobs, subEndpoint>>
    /\ \A from, to, m : ReceiveFinalise(from, to, m) =>
          UNCHANGED <<published, connector, pending, sdNet, jobs, pubEndpoints, remotes, aborted>>
    /\ \A from, to, m : Ignore(from, to, m) =>
          UNCHANGED <<published, connector, pending, sdNet, jobs, brokers, pubEndpoints, remotes,
                      subEndpoint, aborted>>
<1> USE DEF endpointVars
<1>1. \A p : RegisterPublisherService(p) =>
        UNCHANGED <<connector, pending, sdNet, jobs, brokers, channel, pubEndpoints, remotes,
                    subEndpoint, aborted>>
  BY DEF RegisterPublisherService
<1>2. \A s : AttachSubscriber(s) =>
        UNCHANGED <<published, pending, sdNet, jobs, brokers, channel, pubEndpoints, remotes,
                    subEndpoint, aborted>>
  BY DEF AttachSubscriber
<1>3. \A s : SubscribeService(s) =>
        UNCHANGED <<published, brokers, channel, pubEndpoints, remotes, subEndpoint, aborted>>
  BY DEF SubscribeService
<1>4. \A m : LookForService(m) =>
        UNCHANGED <<published, connector, pending, jobs, brokers, channel, pubEndpoints, remotes,
                    subEndpoint, aborted>>
  BY DEF LookForService
<1>5. \A m : SubscribeOfferedService(m) =>
        UNCHANGED <<published, connector, brokers, channel, pubEndpoints, remotes, subEndpoint,
                    aborted>>
  BY DEF SubscribeOfferedService
<1>6. \A m : LoseSd(m) =>
        UNCHANGED <<published, connector, pending, jobs, brokers, channel, pubEndpoints, remotes,
                    subEndpoint, aborted>>
  BY DEF LoseSd
<1>7. \A j : StartNegotiation(j) =>
        UNCHANGED <<published, connector, pending, sdNet, pubEndpoints, remotes, subEndpoint,
                    aborted>>
  BY DEF StartNegotiation
<1>8. \A from, to : Lose(from, to) =>
        UNCHANGED <<published, connector, pending, sdNet, jobs, brokers, pubEndpoints, remotes,
                    subEndpoint, aborted>>
  BY DEF Lose
<1>9. \A from, to, m : ReceiveRequest(from, to, m) =>
        UNCHANGED <<published, connector, pending, sdNet, jobs, pubEndpoints, remotes,
                    subEndpoint, aborted>>
  BY DEF ReceiveRequest
<1>10. \A from, to, m : ReceiveResponse(from, to, m) =>
        UNCHANGED <<published, connector, pending, sdNet, jobs, pubEndpoints, remotes, aborted>>
  BY DEF ReceiveResponse
<1>11. \A from, to, m : ReceiveEstablish(from, to, m) =>
        UNCHANGED <<published, connector, pending, sdNet, jobs, subEndpoint>>
  BY DEF ReceiveEstablish
<1>12. \A from, to, m : ReceiveFinalise(from, to, m) =>
        UNCHANGED <<published, connector, pending, sdNet, jobs, pubEndpoints, remotes, aborted>>
  BY DEF ReceiveFinalise
<1>13. \A from, to, m : Ignore(from, to, m) =>
        UNCHANGED <<published, connector, pending, sdNet, jobs, brokers, pubEndpoints, remotes,
                    subEndpoint, aborted>>
  BY DEF Ignore
<1> QED  BY <1>1, <1>2, <1>3, <1>4, <1>5, <1>6, <1>7,
            <1>8, <1>9, <1>10, <1>11, <1>12, <1>13

\* What is registered or made stays.
LEMMA Growing ==
    ASSUME TypeOK, [Next]_vars
    PROVE  /\ published \subseteq published'
           /\ \A s \in Subscribers : connector[s] # None => connector'[s] = connector[s]
           /\ \A s \in Subscribers : subEndpoint[s] # None => subEndpoint'[s] = subEndpoint[s]
           /\ \A p \in Publishers : pubEndpoints[p] \subseteq pubEndpoints'[p]
<1>1. published \subseteq published'
  BY Frame DEF Next, Step, Receive, Terminated, vars, RegisterPublisherService
<1>2. ASSUME NEW s \in Subscribers, connector[s] # None
      PROVE  connector'[s] = connector[s]
  <2>1. CASE UNCHANGED connector  BY <2>1
  <2>2. ASSUME NEW t \in Subscribers, AttachSubscriber(t)  PROVE connector'[s] = connector[s]
    BY <1>2, <2>2 DEF TypeOK, AttachSubscriber
  <2>3. ASSUME NEW t \in Subscribers, SubscribeService(t)  PROVE connector'[s] = connector[s]
    BY <1>2, <2>3 DEF TypeOK, SubscribeService
  <2> QED
    BY <2>1, <2>2, <2>3, Frame DEF Next, Step, Receive, Terminated, vars
<1>3. ASSUME NEW s \in Subscribers, subEndpoint[s] # None
      PROVE  subEndpoint'[s] = subEndpoint[s]
  <2>1. CASE UNCHANGED subEndpoint  BY <2>1
  <2>2. ASSUME NEW h, NEW service, NEW qos, NEW addr, MakeSubscriberEndpoint(h, service, qos, addr)
        PROVE  subEndpoint'[s] = subEndpoint[s]
    BY <1>3, <2>2 DEF MakeSubscriberEndpoint
  <2>3. ASSUME NEW from, NEW to, NEW m, ReceiveResponse(from, to, m)
        PROVE  subEndpoint'[s] = subEndpoint[s]
    BY <2>1, <2>2, <2>3 DEF ReceiveResponse
  <2>4. ASSUME NEW from, NEW to, NEW m, ReceiveFinalise(from, to, m)
        PROVE  subEndpoint'[s] = subEndpoint[s]
    BY <2>1, <2>2, <2>4 DEF ReceiveFinalise
  <2> QED
    BY <2>1, <2>3, <2>4, Frame DEF Next, Step, Receive, Terminated, vars
<1>4. ASSUME NEW p \in Publishers
      PROVE  pubEndpoints[p] \subseteq pubEndpoints'[p]
  <2>1. CASE UNCHANGED pubEndpoints  BY <2>1
  <2>2. ASSUME NEW from \in Hosts, NEW to \in Hosts, NEW m, ReceiveEstablish(from, to, m)
        PROVE  pubEndpoints[p] \subseteq pubEndpoints'[p]
    BY <2>2 DEF ReceiveEstablish
  <2> QED
    BY <2>1, <2>2, Frame DEF Next, Step, Receive, Terminated, vars
<1> QED  BY <1>1, <1>2, <1>3, <1>4

LEMMA GrowingRegistry ==
    ASSUME TypeOK, [Next]_vars
    PROVE  /\ \A h, service : Provides(h, service) \subseteq Provides(h, service)'
           /\ \A h, service, qos :
                 ConnectorsFor(h, service, qos) \subseteq ConnectorsFor(h, service, qos)'
<1>1. \A h, service : Provides(h, service) \subseteq Provides(h, service)'
  BY Growing DEF Provides
<1>2. \A h, service, qos :
        ConnectorsFor(h, service, qos) \subseteq ConnectorsFor(h, service, qos)'
  BY Growing, NegotiationAssumption DEF ConnectorsFor
<1> QED  BY <1>1, <1>2

\* Only a host with the publisher's connector sends an offer.
LEMMA NewOffers ==
    ASSUME TypeOK, [Next]_vars, NEW m \in BagToSet(sdNet'), m.type = "OFFER"
    PROVE  m \in BagToSet(sdNet) \/ Provides(m.from, m.service) # {}
<1>1. CASE UNCHANGED sdNet  BY <1>1
<1>2. ASSUME NEW s \in Subscribers, SubscribeService(s)
      PROVE  m \in BagToSet(sdNet)
  <2>1. CASE UNCHANGED sdNet  BY <2>1
  <2>2. CASE sdNet' = sdNet (+) SetToBag(FindMessages(s))
    <3>1. m \notin FindMessages(s)  BY DEF FindMessages
    <3> QED  BY <2>2, <3>1, SdSendDomain
  <2> QED  BY <1>2, <2>1, <2>2 DEF SubscribeService
<1>3. ASSUME NEW n \in BagToSet(sdNet), LookForService(n)
      PROVE  m \in BagToSet(sdNet) \/ Provides(m.from, m.service) # {}
  <2>1. m \in BagToSet(sdNet) \cup Answers(n)  BY <1>3, SdReplyDomain DEF LookForService
  <2> QED  BY <2>1 DEF Answers
<1>4. ASSUME NEW n \in BagToSet(sdNet), SubscribeOfferedService(n) \/ LoseSd(n)
      PROVE  m \in BagToSet(sdNet)
  BY <1>4, SdReplyDomain DEF SubscribeOfferedService, LoseSd
<1> QED
  BY <1>1, <1>2, <1>3, <1>4, Frame DEF Next, Step, Receive, Terminated, vars

\* A negotiation comes from a new request and the static map, or from a pending
\* request and an offer.
LEMMA NewJobs ==
    ASSUME TypeOK, [Next]_vars, NEW j \in jobs', j \notin jobs
    PROVE  \/ StaticHosts # {} /\ connector'[j.request] = j.request
           \/ /\ j.request \in pending
              /\ \E m \in BagToSet(sdNet) :
                    /\ m.type = "OFFER" /\ m.from = j.peer
                    /\ m.service = SubscriberApp[j.request].service
<1>1. ASSUME NEW s \in Subscribers, SubscribeService(s)
      PROVE  StaticHosts # {} /\ connector'[j.request] = j.request
  BY <1>1 DEF TypeOK, SubscribeService
<1>2. ASSUME NEW m \in BagToSet(sdNet), SubscribeOfferedService(m)
      PROVE  /\ j.request \in pending
             /\ m.type = "OFFER" /\ m.from = j.peer
             /\ m.service = SubscriberApp[j.request].service
  BY <1>2 DEF SubscribeOfferedService
<1>3. ASSUME NEW i \in jobs, StartNegotiation(i)  PROVE FALSE
  BY <1>3 DEF StartNegotiation
<1>4. ~UNCHANGED jobs  OBVIOUS
<1> QED
  BY <1>1, <1>2, <1>3, <1>4, Frame DEF Next, Step, Receive, Terminated, vars

\* A packet answers the packet before it in the other direction.
LEMMA NewPackets ==
    ASSUME TypeOK, [Next]_vars, NEW a \in Hosts, NEW b \in Hosts, NEW n \in Packets(a, b)',
           n \notin Packets(a, b)
    PROVE  \/ /\ n.type = "REQUEST"
              /\ \E j \in jobs : /\ SubscriberApp[j.request] =
                                       [host |-> a, service |-> n.service, qos |-> n.qos]
                                 /\ j.peer = b
           \/ \E m \in Packets(b, a) :
                 /\ m.service = n.service /\ m.qos = n.qos
                 /\ \/ m.type = "REQUEST" /\ n.type = "RESPONSE"
                    \/ /\ m.type = "RESPONSE" /\ n.type = "ESTABLISH"
                       /\ n.qos = UDP => MakeSubscriberEndpoint(a, n.service, UDP, a)
                    \/ /\ m.type = "ESTABLISH" /\ n.type = "FINALISE"
                       /\ \E p \in Provides(a, n.service) : n.qos \in pubEndpoints'[p]
<1>1. ~UNCHANGED channel  BY DEF Packets
<1>2. ASSUME NEW j \in jobs, StartNegotiation(j)
      PROVE  /\ n.type = "REQUEST"
             /\ SubscriberApp[j.request] = [host |-> a, service |-> n.service, qos |-> n.qos]
             /\ j.peer = b
  <2> DEFINE app == SubscriberApp[j.request]
             m == Message("REQUEST", app.service, app.qos)
  <2>1. j.request \in Subscribers /\ j.peer \in Hosts  BY DEF TypeOK
  <2>2. app \in [host : Hosts, service : Services, qos : QoSGroups]
    BY <2>1, NegotiationAssumption
  <2>3. m \in NegotiationMessage
    BY <2>2 DEF Message, NegotiationMessage, NegotiationTypes
  <2>4. Send(app.host, j.peer, m)  BY <1>2 DEF StartNegotiation
  <2> HIDE DEF m
  <2>5. a = app.host /\ b = j.peer /\ n = m
    BY <2>1, <2>2, <2>3, <2>4, SendPackets
  <2> QED  BY <2>2, <2>5 DEF m, Message
<1>3. ASSUME NEW from \in Hosts, NEW to \in Hosts, Lose(from, to)  PROVE FALSE
  BY <1>3, ConsumePackets DEF Lose
<1>4. ASSUME NEW from \in Hosts, NEW to \in Hosts, Receive(from, to)
      PROVE  \E m \in Packets(b, a) :
                 /\ m.service = n.service /\ m.qos = n.qos
                 /\ \/ m.type = "REQUEST" /\ n.type = "RESPONSE"
                    \/ /\ m.type = "RESPONSE" /\ n.type = "ESTABLISH"
                       /\ n.qos = UDP => MakeSubscriberEndpoint(a, n.service, UDP, a)
                    \/ /\ m.type = "ESTABLISH" /\ n.type = "FINALISE"
                       /\ \E p \in Provides(a, n.service) : n.qos \in pubEndpoints'[p]
  <2> DEFINE m == Head(channel[from][to])
  <2>1. channel[from][to] # <<>>  BY <1>4 DEF Receive
  <2>2. m \in NegotiationMessage /\ m \in Packets(from, to)  BY <2>1, HeadPacket
  <2>3. \/ ReceiveRequest(from, to, m) \/ ReceiveResponse(from, to, m)
        \/ ReceiveEstablish(from, to, m) \/ ReceiveFinalise(from, to, m)
        \/ Ignore(from, to, m)
    BY <1>4 DEF Receive
  <2> HIDE DEF m
  <2>4. ASSUME NEW type \in NegotiationTypes, Answer(from, to, Message(type, m.service, m.qos))
        PROVE  a = to /\ b = from /\ n.type = type /\ n.service = m.service /\ n.qos = m.qos
    <3>1. Message(type, m.service, m.qos) \in NegotiationMessage
      BY <2>2 DEF Message, NegotiationMessage
    <3>2. a = to /\ b = from /\ n = Message(type, m.service, m.qos)
      BY <2>1, <2>4, <3>1, AnswerPackets
    <3> QED  BY <3>2 DEF Message
  <2>5. /\ "RESPONSE" \in NegotiationTypes
        /\ "ESTABLISH" \in NegotiationTypes
        /\ "FINALISE" \in NegotiationTypes
    BY DEF NegotiationTypes
  <2>6. CASE ReceiveRequest(from, to, m)
    <3>1. a = to /\ b = from /\ n.type = "RESPONSE" /\ n.service = m.service /\ n.qos = m.qos
      BY <2>4, <2>5, <2>6 DEF ReceiveRequest
    <3>2. m.type = "REQUEST"  BY <2>6 DEF ReceiveRequest
    <3> QED  BY <2>2, <3>1, <3>2
  <2>7. CASE ReceiveResponse(from, to, m)
    <3>1. a = to /\ b = from /\ n.type = "ESTABLISH" /\ n.service = m.service /\ n.qos = m.qos
      BY <2>4, <2>5, <2>7 DEF ReceiveResponse
    <3>2. m.type = "RESPONSE"  BY <2>7 DEF ReceiveResponse
    <3>3. m.qos = UDP => MakeSubscriberEndpoint(to, m.service, UDP, to)
      BY <2>7 DEF ReceiveResponse, Connectionless
    <3> QED  BY <2>2, <3>1, <3>2, <3>3
  <2>8. CASE ReceiveEstablish(from, to, m)
    <3>1. ~UNCHANGED channel  BY <1>1
    <3>2. /\ m.type = "ESTABLISH"
          /\ Provides(to, m.service) # {}
          /\ pubEndpoints' = [p \in Publishers |->
                IF p \in Provides(to, m.service) THEN pubEndpoints[p] \cup {m.qos}
                                                 ELSE pubEndpoints[p]]
          /\ Answer(from, to, Message("FINALISE", m.service, m.qos))
      BY <2>8, <3>1 DEF ReceiveEstablish
    <3>3. a = to /\ b = from /\ n.type = "FINALISE" /\ n.service = m.service /\ n.qos = m.qos
      BY <2>4, <2>5, <3>2
    <3>4. \E p \in Provides(to, m.service) : m.qos \in pubEndpoints'[p]
      BY <3>2 DEF Provides, TypeOK
    <3> QED  BY <2>2, <3>2, <3>3, <3>4
  <2>9. CASE ReceiveFinalise(from, to, m) \/ Ignore(from, to, m)
    BY <2>1, <2>9, ConsumePackets DEF ReceiveFinalise, Ignore
  <2> QED  BY <2>3, <2>6, <2>7, <2>8, <2>9
<1> QED
  BY <1>1, <1>2, <1>3, <1>4, Frame DEF Next, Step, Terminated, vars

\* A server waits because a request was received.
LEMMA NewServers ==
    ASSUME TypeOK, [Next]_vars, NEW h \in Hosts, NEW x \in BrokersOf(h)',
           x \notin BrokersOf(h), x.state = "SERVER_PENDING_ACCEPT"
    PROVE  \E from \in Hosts : \E m \in Packets(from, h) :
              m.type = "REQUEST" /\ m.service = x.service
<1>1. ~UNCHANGED brokers  BY DEF BrokersOf
<1>2. ASSUME NEW j \in jobs, StartNegotiation(j)  PROVE FALSE
  <2> DEFINE app == SubscriberApp[j.request]
             broker == [service |-> app.service, peer |-> j.peer,
                        state |-> "CLIENT_PENDING_REQUEST", request |-> j.request]
  <2>1. j.request \in Subscribers /\ j.peer \in Hosts  BY DEF TypeOK
  <2>2. app.host \in Hosts /\ app.service \in Services  BY <2>1, NegotiationAssumption
  <2>3. broker \in Broker /\ broker.state = "CLIENT_PENDING_REQUEST"
    BY <2>1, <2>2 DEF Broker, BrokerStates
  <2>4. brokers' = [brokers EXCEPT ![app.host] = Append(@, broker)]
    BY <1>2 DEF StartNegotiation
  <2> HIDE DEF broker
  <2> QED  BY <2>2, <2>3, <2>4, AppendBroker
<1>3. ASSUME NEW from \in Hosts, NEW to \in Hosts, Receive(from, to)
      PROVE  \E m \in Packets(from, h) : m.type = "REQUEST" /\ m.service = x.service
  <2> DEFINE m == Head(channel[from][to])
  <2>1. channel[from][to] # <<>>  BY <1>3 DEF Receive
  <2>2. m \in NegotiationMessage /\ m \in Packets(from, to)  BY <2>1, HeadPacket
  <2>3. \/ ReceiveRequest(from, to, m) \/ ReceiveResponse(from, to, m)
        \/ ReceiveEstablish(from, to, m) \/ ReceiveFinalise(from, to, m)
        \/ Ignore(from, to, m)
    BY <1>3 DEF Receive
  <2> HIDE DEF m
  <2>4. CASE ReceiveRequest(from, to, m)
    <3> DEFINE broker == [service |-> m.service, peer |-> from,
                          state |-> "SERVER_PENDING_ACCEPT", request |-> None]
    <3>1. broker \in Broker /\ broker.service = m.service
      BY <2>2 DEF Broker, BrokerStates, NegotiationMessage
    <3>2. brokers' = [brokers EXCEPT ![to] = Append(@, broker)] /\ m.type = "REQUEST"
      BY <2>4 DEF ReceiveRequest
    <3> HIDE DEF broker
    <3>3. h = to /\ x = broker  BY <3>1, <3>2, AppendBroker
    <3> QED  BY <2>2, <3>1, <3>2, <3>3
  <2>5. CASE ReceiveResponse(from, to, m)
    <3>1. PICK i \in Handler(to, from, m.service, "CLIENT_PENDING_REQUEST") :
            brokers' = [brokers EXCEPT ![to][i].state = "CLIENT_PENDING_CONNECTION"]
      BY <2>5 DEF ReceiveResponse
    <3>2. i \in DOMAIN brokers[to]  BY HandlingBroker
    <3> QED  BY <3>1, <3>2, AdvanceBroker
  <2>6. ASSUME NEW state, NEW i \in Handler(to, from, m.service, state),
               brokers' = [brokers EXCEPT ![to] = RemoveAt(@, i)]
        PROVE  FALSE
    <3>1. i \in DOMAIN brokers[to]  BY HandlingBroker
    <3> QED  BY <2>6, <3>1, RemoveBroker
  <2>7. CASE ReceiveEstablish(from, to, m)
    BY <1>1, <2>6, <2>7 DEF ReceiveEstablish
  <2>8. CASE ReceiveFinalise(from, to, m)
    BY <2>6, <2>8 DEF ReceiveFinalise
  <2> QED  BY <1>1, <2>3, <2>4, <2>5, <2>7, <2>8, Frame
<1> QED  BY <1>1, <1>2, <1>3, Frame DEF Next, Step, Terminated, vars

\* A handler throws when a server waits on a host without the publisher.
LEMMA Aborting ==
    ASSUME TypeOK, [Next]_vars, aborted' # aborted
    PROVE  \E h \in Hosts : \E x \in BrokersOf(h) :
              x.state = "SERVER_PENDING_ACCEPT" /\ Provides(h, x.service) = {}
<1>1. ASSUME NEW from \in Hosts, NEW to \in Hosts, NEW m, ReceiveEstablish(from, to, m)
      PROVE  \E x \in BrokersOf(to) :
                x.state = "SERVER_PENDING_ACCEPT" /\ Provides(to, x.service) = {}
  <2>1. PICK i \in Handler(to, from, m.service, "SERVER_PENDING_ACCEPT") :
          Provides(to, m.service) = {}
    BY <1>1 DEF ReceiveEstablish
  <2> QED  BY <2>1, HandlingBroker
<1> QED  BY <1>1, Frame DEF Next, Step, Receive, Terminated, vars

\* A connection-oriented endpoint is made on a finalise of its publisher.
LEMMA NewEndpoints ==
    ASSUME TypeOK, [Next]_vars, NEW s \in Subscribers, SubscriberApp[s].qos # UDP,
           subEndpoint'[s] # subEndpoint[s]
    PROVE  /\ subEndpoint'[s] \in Hosts
           /\ \E m \in Packets(subEndpoint'[s], SubscriberApp[s].host) :
                 /\ m.type = "FINALISE"
                 /\ m.service = SubscriberApp[s].service /\ m.qos = SubscriberApp[s].qos
<1>1. ASSUME NEW h, NEW service, NEW qos, NEW addr,
             MakeSubscriberEndpoint(h, service, qos, addr)
      PROVE  /\ SubscriberApp[s] = [host |-> h, service |-> service, qos |-> qos]
             /\ subEndpoint'[s] = addr
  BY <1>1 DEF MakeSubscriberEndpoint, ConnectorsFor
<1>2. ASSUME NEW from \in Hosts, NEW to \in Hosts, NEW m, ReceiveResponse(from, to, m)
      PROVE  FALSE
  <2>1. (m.qos = UDP /\ MakeSubscriberEndpoint(to, m.service, m.qos, to)) \/ UNCHANGED subEndpoint
    BY <1>2 DEF ReceiveResponse, Connectionless
  <2>2. ASSUME m.qos = UDP, MakeSubscriberEndpoint(to, m.service, m.qos, to)  PROVE FALSE
    <3>1. SubscriberApp[s] = [host |-> to, service |-> m.service, qos |-> m.qos]
      BY <1>1, <2>2
    <3> QED  BY <2>2, <3>1
  <2> QED  BY <2>1, <2>2
<1>3. ASSUME NEW from \in Hosts, NEW to \in Hosts, channel[from][to] # <<>>,
             ReceiveFinalise(from, to, Head(channel[from][to]))
      PROVE  /\ subEndpoint'[s] \in Hosts
             /\ \E m \in Packets(subEndpoint'[s], SubscriberApp[s].host) :
                   /\ m.type = "FINALISE"
                   /\ m.service = SubscriberApp[s].service /\ m.qos = SubscriberApp[s].qos
  <2> DEFINE m == Head(channel[from][to])
  <2>1. m \in Packets(from, to)  BY <1>3, HeadPacket
  <2> HIDE DEF m
  <2>2. m.type = "FINALISE" /\ MakeSubscriberEndpoint(to, m.service, m.qos, from)
    BY <1>3 DEF ReceiveFinalise, m
  <2>3. /\ SubscriberApp[s] = [host |-> to, service |-> m.service, qos |-> m.qos]
        /\ subEndpoint'[s] = from
    BY <1>1, <2>2
  <2> QED  BY <2>1, <2>2, <2>3
<1> QED  BY <1>2, <1>3, Frame DEF Next, Step, Receive, Terminated, vars

\* A remote is the sender of an establish for UDP.
LEMMA NewRemotes ==
    ASSUME TypeOK, [Next]_vars, NEW p \in Publishers, NEW h \in remotes'[p], h \notin remotes[p]
    PROVE  /\ h \in Hosts
           /\ \E to \in Hosts : \E m \in Packets(h, to) :
                 m.type = "ESTABLISH" /\ m.qos = UDP /\ m.service = PublisherApp[p].service
<1>1. ASSUME NEW from \in Hosts, NEW to \in Hosts, channel[from][to] # <<>>,
             ReceiveEstablish(from, to, Head(channel[from][to]))
      PROVE  /\ h = from
             /\ \E m \in Packets(from, to) :
                   m.type = "ESTABLISH" /\ m.qos = UDP /\ m.service = PublisherApp[p].service
  <2> DEFINE m == Head(channel[from][to])
  <2>1. m \in Packets(from, to)  BY <1>1, HeadPacket
  <2> HIDE DEF m
  <2>2. /\ m.type = "ESTABLISH"
        /\ remotes' = [q \in Publishers |->
              IF q \in Provides(to, m.service) /\ m.qos = UDP
              THEN remotes[q] \cup {from} ELSE remotes[q]]
    BY <1>1 DEF ReceiveEstablish, m
  <2>3. h = from /\ m.qos = UDP /\ p \in Provides(to, m.service)  BY <2>2
  <2> QED  BY <2>1, <2>2, <2>3 DEF Provides
<1> QED  BY <1>1, Frame DEF Next, Step, Receive, Terminated, vars

-----------------------------------------------------------------------------
(* Safety.                                                                 *)

LEMMA InitPackets ==
    Init => /\ \A a, b \in Hosts : Packets(a, b) = {}
            /\ \A h \in Hosts : BrokersOf(h) = {}
            /\ BagToSet(sdNet) = {}
BY DEF Init, Packets, BrokersOf, EmptyBag, SetToBag, BagToSet

\* What SomeIpSD leads to concerns a host that has the publisher, and goes on
\* doing so, since connectors stay in the registry.
LEMMA DiscoveredInductive ==
    ASSUME TypeOK, Discovered, [Next]_vars
    PROVE  Discovered'
<1> SUFFICES ASSUME StaticHosts = {}
             PROVE  (OffersHold /\ JobsHold /\ RequestsHold /\ ServersHold /\ ~aborted)'
  BY DEF Discovered
<1> USE DEF Discovered
<1>1. \A h, service : Provides(h, service) \subseteq Provides(h, service)'
  BY GrowingRegistry
<1>2. OffersHold'
  BY <1>1, NewOffers DEF OffersHold
<1>3. JobsHold'
  BY <1>1, NewJobs DEF JobsHold, OffersHold
<1>4. RequestsHold'
  <2> SUFFICES ASSUME NEW a \in Hosts, NEW b \in Hosts, NEW n \in Packets(a, b)',
                      n.type = "REQUEST"
               PROVE  Provides(b, n.service)' # {}
    BY DEF RequestsHold
  <2>1. CASE n \in Packets(a, b)
    BY <1>1, <2>1 DEF RequestsHold
  <2>2. CASE n \notin Packets(a, b)
    <3>1. PICK j \in jobs : SubscriberApp[j.request].service = n.service /\ j.peer = b
      <4>1. \E j \in jobs :
              /\ SubscriberApp[j.request] = [host |-> a, service |-> n.service, qos |-> n.qos]
              /\ j.peer = b
        BY <2>2, NewPackets
      <4> QED  BY <4>1
    <3> QED  BY <1>1, <3>1 DEF JobsHold
  <2> QED  BY <2>1, <2>2
<1>5. ServersHold'
  <2> SUFFICES ASSUME NEW h \in Hosts, NEW x \in BrokersOf(h)',
                      x.state = "SERVER_PENDING_ACCEPT"
               PROVE  Provides(h, x.service)' # {}
    BY DEF ServersHold
  <2>1. CASE x \in BrokersOf(h)
    BY <1>1, <2>1 DEF ServersHold
  <2>2. CASE x \notin BrokersOf(h)
    BY <1>1, <2>2, NewServers DEF RequestsHold
  <2> QED  BY <2>1, <2>2
<1>6. ~aborted'
  BY Aborting DEF ServersHold
<1> QED  BY <1>2, <1>3, <1>4, <1>5, <1>6

\* DiscoveredIsThere: no negotiation that follows an offer ends the simulation.
THEOREM DiscoveryIsSound == Spec => []DiscoveredIsThere
<1>1. Init => Discovered
  BY InitPackets
     DEF Init, Discovered, OffersHold, JobsHold, RequestsHold, ServersHold
<1>2. TypeOK /\ Discovered /\ [Next]_vars => Discovered'
  BY DiscoveredInductive
<1>3. Discovered => DiscoveredIsThere  BY DEF Discovered, DiscoveredIsThere
<1> QED  BY <1>1, <1>2, <1>3, TypeCorrect, PTL DEF Spec

LEMMA FinalisedInductive ==
    ASSUME TypeOK, Finalised, [Next]_vars
    PROVE  Finalised'
<1> SUFFICES ASSUME NEW a \in Hosts, NEW b \in Hosts, NEW n \in Packets(a, b)',
                    n.type = "FINALISE"
             PROVE  \E p \in Provides(a, n.service)' : n.qos \in pubEndpoints'[p]
  BY DEF Finalised
<1>1. Provides(a, n.service) \subseteq Provides(a, n.service)'  BY GrowingRegistry
<1>2. CASE n \in Packets(a, b)
  <2>1. PICK p \in Provides(a, n.service) : n.qos \in pubEndpoints[p]
    BY <1>2 DEF Finalised
  <2>2. p \in Publishers  BY DEF Provides, TypeOK
  <2> QED  BY <1>1, <2>1, <2>2, Growing
<1>3. CASE n \notin Packets(a, b)
  <2>1. \E p \in Provides(a, n.service) : n.qos \in pubEndpoints'[p]
    BY <1>3, NewPackets
  <2> QED  BY <1>1, <2>1
<1> QED  BY <1>2, <1>3

\* ConnectedIsServed, whatever is lost.
THEOREM ConnectionsAreServed == Spec => []ConnectedIsServed
<1>1. Init => Finalised /\ ConnectedIsServed
  BY InitPackets DEF Init, Finalised, ConnectedIsServed
<1>2. TypeOK /\ Finalised /\ ConnectedIsServed /\ [Next]_vars
        => Finalised' /\ ConnectedIsServed'
  <2> SUFFICES ASSUME TypeOK, Finalised, ConnectedIsServed, [Next]_vars
               PROVE  ConnectedIsServed'
    BY FinalisedInductive
  <2> SUFFICES ASSUME NEW s \in Subscribers, NEW h, h = subEndpoint'[s], h # None,
                      SubscriberApp[s].qos # UDP
               PROVE  \E p \in Provides(h, SubscriberApp[s].service)' :
                         SubscriberApp[s].qos \in pubEndpoints'[p]
    BY DEF ConnectedIsServed, Provides
  <2> DEFINE service == SubscriberApp[s].service
             qos == SubscriberApp[s].qos
  <2>1. Provides(h, service) \subseteq Provides(h, service)'  BY GrowingRegistry
  <2>2. \E p \in Provides(h, service) : qos \in pubEndpoints[p]
    <3>1. CASE h = subEndpoint[s]  BY <3>1 DEF ConnectedIsServed
    <3>2. CASE h # subEndpoint[s]
      <4>1. h \in Hosts /\ SubscriberApp[s].host \in Hosts
        BY <3>2, NewEndpoints, NegotiationAssumption
      <4> QED  BY <3>2, <4>1, NewEndpoints DEF Finalised
    <3> QED  BY <3>1, <3>2
  <2>3. PICK p \in Provides(h, service) : qos \in pubEndpoints[p]  BY <2>2
  <2>4. p \in Publishers  BY DEF Provides, TypeOK
  <2> QED  BY <2>1, <2>3, <2>4, Growing
<1> QED  BY <1>1, <1>2, TypeCorrect, PTL DEF Spec

LEMMA RequestingInductive ==
    ASSUME TypeOK, Requesting, [Next]_vars
    PROVE  Requesting'
<1>1. \A h, service, qos :
        ConnectorsFor(h, service, qos) \subseteq ConnectorsFor(h, service, qos)'
  BY GrowingRegistry
<1>2. ASSUME NEW s \in Subscribers, connector[s] = s
      PROVE  connector'[s] = s
  BY <1>2, Growing, NegotiationAssumption
<1>3. \A s \in pending' : connector'[s] = s
  <2> SUFFICES ASSUME NEW s \in pending'  PROVE connector'[s] = s
    OBVIOUS
  <2>1. CASE s \in pending  BY <1>2, <2>1 DEF Requesting, TypeOK
  <2>2. CASE s \notin pending
    <3>1. ASSUME NEW t \in Subscribers, SubscribeService(t)  PROVE connector'[s] = s
      BY <2>2, <3>1 DEF TypeOK, SubscribeService
    <3>2. ASSUME NEW m, SubscribeOfferedService(m)  PROVE FALSE
      BY <2>2, <3>2 DEF SubscribeOfferedService
    <3> QED  BY <2>2, <3>1, <3>2, Frame DEF Next, Step, Receive, Terminated, vars
  <2> QED  BY <2>1, <2>2
<1>4. \A j \in jobs' : connector'[j.request] = j.request
  <2> SUFFICES ASSUME NEW j \in jobs'  PROVE connector'[j.request] = j.request
    OBVIOUS
  <2>1. CASE j \in jobs  BY <1>2, <2>1 DEF Requesting, TypeOK
  <2>2. CASE j \notin jobs
    <3>1. connector'[j.request] = j.request \/ j.request \in pending
      BY <2>2, NewJobs
    <3> QED  BY <1>2, <3>1 DEF Requesting, TypeOK
  <2> QED  BY <2>1, <2>2
<1>5. ASSUME NEW a \in Hosts, NEW b \in Hosts, NEW n \in Packets(a, b)'
      PROVE  /\ n.type = "REQUEST" => ConnectorsFor(a, n.service, n.qos)' # {}
             /\ n.type = "RESPONSE" => ConnectorsFor(b, n.service, n.qos)' # {}
  <2>1. CASE n \in Packets(a, b)  BY <1>1, <2>1 DEF Requesting
  <2>2. CASE n \notin Packets(a, b)
    <3>1. ASSUME n.type = "REQUEST"  PROVE ConnectorsFor(a, n.service, n.qos)' # {}
      <4>1. PICK j \in jobs :
              SubscriberApp[j.request] = [host |-> a, service |-> n.service, qos |-> n.qos]
        BY <2>2, <3>1, NewPackets
      <4>2. j.request \in ConnectorsFor(a, n.service, n.qos)
        BY <4>1 DEF Requesting, TypeOK, ConnectorsFor
      <4> QED  BY <1>1, <4>2
    <3>2. ASSUME n.type = "RESPONSE"  PROVE ConnectorsFor(b, n.service, n.qos)' # {}
      <4>1. PICK m \in Packets(b, a) :
              m.type = "REQUEST" /\ m.service = n.service /\ m.qos = n.qos
        BY <2>2, <3>2, NewPackets
      <4> QED  BY <1>1, <4>1 DEF Requesting
    <3> QED  BY <3>1, <3>2
  <2> QED  BY <2>1, <2>2
<1> QED  BY <1>3, <1>4, <1>5 DEF Requesting

LEMMA EstablishedInductive ==
    ASSUME TypeOK, Requesting, Established, [Next]_vars
    PROVE  Established'
<1> SUFFICES ASSUME NEW a \in Hosts, NEW b \in Hosts, NEW n \in Packets(a, b)',
                    n.type = "ESTABLISH", n.qos = UDP
             PROVE  \E s \in ConnectorsFor(a, n.service, UDP)' : subEndpoint'[s] # None
  BY DEF Established
<1>1. ConnectorsFor(a, n.service, UDP) \subseteq ConnectorsFor(a, n.service, UDP)'
  BY GrowingRegistry
<1>2. CASE n \in Packets(a, b)
  <2>1. PICK s \in ConnectorsFor(a, n.service, UDP) : subEndpoint[s] # None
    BY <1>2 DEF Established
  <2>2. s \in Subscribers  BY DEF ConnectorsFor
  <2> QED  BY <1>1, <2>1, <2>2, Growing
<1>3. CASE n \notin Packets(a, b)
  <2>1. PICK m \in Packets(b, a) :
          /\ m.type = "RESPONSE" /\ m.service = n.service /\ m.qos = n.qos
          /\ MakeSubscriberEndpoint(a, n.service, UDP, a)
    BY <1>3, NewPackets
  <2>2. PICK s \in ConnectorsFor(a, n.service, UDP) : TRUE
    BY <2>1 DEF Requesting
  <2>3. s \in Subscribers  BY DEF ConnectorsFor
  <2>4. subEndpoint'[s] = IF subEndpoint[s] = None THEN a ELSE subEndpoint[s]
    BY <2>1, <2>2, <2>3 DEF MakeSubscriberEndpoint
  <2>5. subEndpoint'[s] # None  BY <2>4, NegotiationAssumption
  <2> QED  BY <1>1, <2>2, <2>5
<1> QED  BY <1>2, <1>3

\* RemotesListen: a UDP remote can receive, whatever is lost.
THEOREM RemotesAreListening == Spec => []RemotesListen
<1>1. Init => Requesting /\ Established /\ RemotesListen
  BY InitPackets DEF Init, Requesting, Established, RemotesListen
<1>2. TypeOK /\ Requesting /\ Established /\ RemotesListen /\ [Next]_vars
        => Requesting' /\ Established' /\ RemotesListen'
  <2> SUFFICES ASSUME TypeOK, Requesting, Established, RemotesListen, [Next]_vars
               PROVE  RemotesListen'
    BY RequestingInductive, EstablishedInductive
  <2> SUFFICES ASSUME NEW p \in Publishers, NEW h \in remotes'[p]
               PROVE  \E s \in ConnectorsFor(h, PublisherApp[p].service, UDP)' :
                         subEndpoint'[s] # None
    BY DEF RemotesListen
  <2>1. ConnectorsFor(h, PublisherApp[p].service, UDP)
          \subseteq ConnectorsFor(h, PublisherApp[p].service, UDP)'
    BY GrowingRegistry
  <2>2. \E s \in ConnectorsFor(h, PublisherApp[p].service, UDP) : subEndpoint[s] # None
    <3>1. CASE h \in remotes[p]  BY <3>1 DEF RemotesListen
    <3>2. CASE h \notin remotes[p]
      BY <3>2, NewRemotes DEF Established
    <3> QED  BY <3>1, <3>2
  <2>3. PICK s \in ConnectorsFor(h, PublisherApp[p].service, UDP) : subEndpoint[s] # None
    BY <2>2
  <2>4. s \in Subscribers  BY DEF ConnectorsFor
  <2> QED  BY <2>1, <2>3, <2>4, Growing
<1> QED  BY <1>1, <1>2, TypeCorrect, PTL DEF Spec

-----------------------------------------------------------------------------
(* What holds of the elements of a sequence that belong to a set, and what *)
(* the operations on sequences keep of it.                                 *)

\* No element of a sequence is in the set S; exactly one is, and it is in T too.
NoneIn(seq, S) == \A i \in DOMAIN seq : seq[i] \notin S
OneIn(seq, S, T) ==
    \E i \in DOMAIN seq : /\ seq[i] \in S /\ seq[i] \in T
                          /\ \A j \in DOMAIN seq : seq[j] \in S => j = i

\* Whatever one of these says of a sequence holds of the next one.
Keeps(seq, next, S) ==
    /\ NoneIn(seq, S) => NoneIn(next, S)
    /\ \A T : OneIn(seq, S, T) => OneIn(next, S, T)

LEMMA AppendKeeps ==
    ASSUME NEW E, NEW seq \in Seq(E), NEW e \in E, NEW S, e \notin S
    PROVE  Keeps(seq, Append(seq, e), S)
<1>1. /\ DOMAIN Append(seq, e) = 1..(Len(seq) + 1) /\ DOMAIN seq = 1..Len(seq)
      /\ Len(seq) \in Nat
      /\ \A i \in 1..Len(seq) : Append(seq, e)[i] = seq[i]
      /\ Append(seq, e)[Len(seq) + 1] = e
  OBVIOUS
<1> DEFINE next == Append(seq, e)
<1> HIDE DEF next
<1>2. \A i \in DOMAIN next : next[i] \in S => i \in DOMAIN seq /\ next[i] = seq[i]
  BY <1>1 DEF next
<1>3. \A i \in DOMAIN seq : i \in DOMAIN next /\ next[i] = seq[i]
  BY <1>1 DEF next
<1>4. Keeps(seq, next, S)  BY <1>2, <1>3 DEF Keeps, NoneIn, OneIn
<1> QED  BY <1>4 DEF next

LEMMA AppendNew ==
    ASSUME NEW E, NEW seq \in Seq(E), NEW e \in E, NEW S, NEW T, e \in S, e \in T,
           NoneIn(seq, S)
    PROVE  OneIn(Append(seq, e), S, T)
<1>1. /\ DOMAIN Append(seq, e) = 1..(Len(seq) + 1) /\ DOMAIN seq = 1..Len(seq)
      /\ Len(seq) \in Nat
      /\ \A i \in 1..Len(seq) : Append(seq, e)[i] = seq[i]
      /\ Append(seq, e)[Len(seq) + 1] = e
  OBVIOUS
<1> QED  BY <1>1 DEF NoneIn, OneIn

LEMMA TailIndex ==
    ASSUME NEW E, NEW seq \in Seq(E), seq # <<>>
    PROVE  /\ 1 \in DOMAIN seq /\ Head(seq) = seq[1]
           /\ \A i \in DOMAIN Tail(seq) :
                 i + 1 \in DOMAIN seq /\ Tail(seq)[i] = seq[i + 1] /\ i + 1 # 1
           /\ \A i \in DOMAIN seq : i # 1 => i - 1 \in DOMAIN Tail(seq) /\ (i - 1) + 1 = i
           /\ \A i, j \in DOMAIN Tail(seq) : i + 1 = j + 1 => i = j
<1>1. Len(seq) \in Nat \ {0}  OBVIOUS
<1>2. DOMAIN seq = 1..Len(seq) /\ DOMAIN Tail(seq) = 1..(Len(seq) - 1)  BY <1>1
<1>3. \A i \in DOMAIN Tail(seq) : Tail(seq)[i] = seq[i + 1]  BY <1>1
<1> QED  BY <1>1, <1>2, <1>3

LEMMA TailKeeps ==
    ASSUME NEW E, NEW seq \in Seq(E), seq # <<>>, NEW S, Head(seq) \notin S
    PROVE  Keeps(seq, Tail(seq), S)
<1> DEFINE next == Tail(seq)
<1>1. /\ 1 \in DOMAIN seq /\ Head(seq) = seq[1]
      /\ \A i \in DOMAIN next : i + 1 \in DOMAIN seq /\ next[i] = seq[i + 1] /\ i + 1 # 1
      /\ \A i \in DOMAIN seq : i # 1 => i - 1 \in DOMAIN next /\ (i - 1) + 1 = i
      /\ \A i, j \in DOMAIN next : i + 1 = j + 1 => i = j
  BY TailIndex
<1> HIDE DEF next
<1>2. NoneIn(seq, S) => NoneIn(next, S)  BY <1>1 DEF NoneIn
<1>3. ASSUME NEW T, OneIn(seq, S, T)  PROVE OneIn(next, S, T)
  <2>1. PICK i \in DOMAIN seq : /\ seq[i] \in S /\ seq[i] \in T
                                /\ \A j \in DOMAIN seq : seq[j] \in S => j = i
    BY <1>3 DEF OneIn
  <2>2. i # 1  BY <1>1, <2>1
  <2>3. i - 1 \in DOMAIN next /\ next[i - 1] = seq[i]  BY <1>1, <2>2
  <2>4. ASSUME NEW j \in DOMAIN next, next[j] \in S  PROVE j = i - 1
    BY <1>1, <2>1, <2>3, <2>4
  <2> QED  BY <2>1, <2>3, <2>4 DEF OneIn
<1> QED  BY <1>2, <1>3 DEF Keeps, next

LEMMA TailTakes ==
    ASSUME NEW E, NEW seq \in Seq(E), seq # <<>>, NEW S, NEW T,
           Head(seq) \in S, OneIn(seq, S, T)
    PROVE  Head(seq) \in T /\ NoneIn(Tail(seq), S)
BY TailIndex DEF OneIn, NoneIn

LEMMA RemoveIndex ==
    ASSUME NEW E, NEW seq \in Seq(E), NEW n \in DOMAIN seq
    PROVE  /\ DOMAIN RemoveAt(seq, n) = 1..(Len(seq) - 1)
           /\ \A i \in 1..(Len(seq) - 1) :
                 RemoveAt(seq, n)[i] = IF i < n THEN seq[i] ELSE seq[i + 1]
<1> DEFINE before == SubSeq(seq, 1, n - 1)
           after == SubSeq(seq, n + 1, Len(seq))
<1>1. n \in 1..Len(seq) /\ Len(seq) \in Nat  OBVIOUS
<1>2. before \in Seq(E) /\ Len(before) = n - 1 /\ \A i \in 1..(n - 1) : before[i] = seq[i]
  BY <1>1
<1>3. after \in Seq(E) /\ Len(after) = Len(seq) - n
      /\ \A i \in 1..(Len(seq) - n) : after[i] = seq[n + i]
  BY <1>1
<1>6. RemoveAt(seq, n) = before \o after  BY DEF RemoveAt, before, after
<1> HIDE DEF before, after
<1>4. before \o after \in Seq(E) /\ Len(before \o after) = Len(seq) - 1
      /\ DOMAIN (before \o after) = 1..(Len(seq) - 1)
  BY <1>1, <1>2, <1>3
<1>5. ASSUME NEW i \in 1..(Len(seq) - 1)
      PROVE  (before \o after)[i] = IF i < n THEN seq[i] ELSE seq[i + 1]
  <2>1. CASE i < n
    <3>1. (before \o after)[i] = before[i]  BY <1>1, <1>2, <1>3, <2>1
    <3>2. i \in 1..(n - 1)  BY <1>1, <2>1
    <3> QED  BY <2>1, <3>1, <3>2, <1>2
  <2>2. CASE ~(i < n)
    <3>1. (before \o after)[i] = after[i - (n - 1)]  BY <1>1, <1>2, <1>3, <2>2
    <3>2. i - (n - 1) \in 1..(Len(seq) - n) /\ n + (i - (n - 1)) = i + 1
      BY <1>1, <2>2
    <3> QED  BY <2>2, <3>1, <3>2, <1>3
  <2> QED  BY <2>1, <2>2
<1> QED  BY <1>4, <1>5, <1>6

LEMMA RemoveKeeps ==
    ASSUME NEW E, NEW seq \in Seq(E), NEW n \in DOMAIN seq, NEW S, seq[n] \notin S
    PROVE  Keeps(seq, RemoveAt(seq, n), S)
<1> DEFINE next == RemoveAt(seq, n)
<1>1. n \in 1..Len(seq) /\ Len(seq) \in Nat /\ DOMAIN seq = 1..Len(seq)  OBVIOUS
<1>2. /\ DOMAIN next = 1..(Len(seq) - 1)
      /\ \A i \in 1..(Len(seq) - 1) : next[i] = IF i < n THEN seq[i] ELSE seq[i + 1]
  BY RemoveIndex
<1> HIDE DEF next
<1>3. NoneIn(seq, S) => NoneIn(next, S)  BY <1>1, <1>2 DEF NoneIn
<1>4. ASSUME NEW T, OneIn(seq, S, T)  PROVE OneIn(next, S, T)
  <2>1. PICK i \in DOMAIN seq : /\ seq[i] \in S /\ seq[i] \in T
                                /\ \A j \in DOMAIN seq : seq[j] \in S => j = i
    BY <1>4 DEF OneIn
  <2> DEFINE k == IF i < n THEN i ELSE i - 1
  <2>2. k \in DOMAIN next /\ next[k] = seq[i]  BY <1>1, <1>2, <2>1
  <2>3. ASSUME NEW j \in DOMAIN next, next[j] \in S  PROVE j = k
    BY <1>1, <1>2, <2>1, <2>3
  <2> QED  BY <2>1, <2>2, <2>3 DEF OneIn
<1> QED  BY <1>3, <1>4 DEF Keeps, next

LEMMA RemoveTakes ==
    ASSUME NEW E, NEW seq \in Seq(E), NEW n \in DOMAIN seq, NEW S, NEW T,
           seq[n] \in S, OneIn(seq, S, T)
    PROVE  seq[n] \in T /\ NoneIn(RemoveAt(seq, n), S)
<1> DEFINE next == RemoveAt(seq, n)
<1>1. n \in 1..Len(seq) /\ Len(seq) \in Nat /\ DOMAIN seq = 1..Len(seq)  OBVIOUS
<1>2. /\ DOMAIN next = 1..(Len(seq) - 1)
      /\ \A i \in 1..(Len(seq) - 1) : next[i] = IF i < n THEN seq[i] ELSE seq[i + 1]
  BY RemoveIndex
<1> HIDE DEF next
<1>3. PICK i \in DOMAIN seq : /\ seq[i] \in S /\ seq[i] \in T
                              /\ \A j \in DOMAIN seq : seq[j] \in S => j = i
    BY DEF OneIn
<1>4. i = n  BY <1>3
<1>5. NoneIn(next, S)  BY <1>1, <1>2, <1>3, <1>4 DEF NoneIn
<1> QED  BY <1>3, <1>4, <1>5 DEF next

LEMMA ReplaceKeeps ==
    ASSUME NEW E, NEW seq \in Seq(E), NEW n \in DOMAIN seq, NEW e, NEW S,
           seq[n] \notin S, e \notin S
    PROVE  Keeps(seq, [seq EXCEPT ![n] = e], S)
BY DEF Keeps, NoneIn, OneIn

LEMMA ReplaceOne ==
    ASSUME NEW E, NEW seq \in Seq(E), NEW n \in DOMAIN seq, NEW e, NEW S, NEW T, NEW U,
           seq[n] \in S, e \in S, e \in U, OneIn(seq, S, T)
    PROVE  seq[n] \in T /\ OneIn([seq EXCEPT ![n] = e], S, U)
BY DEF OneIn

-----------------------------------------------------------------------------
(* Sessions: what the two hosts of a negotiation and the channels between  *)
(* them hold of it.                                                        *)

ForService(service) == {m \in NegotiationMessage : m.service = service}
OfType(type) == {m \in NegotiationMessage : m.type = type}
ForPeer(peer, service) == {x \in Broker : x.peer = peer /\ x.service = service}
InState(state) == {x \in Broker : x.state = state}

NoBroker(h, peer, service) == NoneIn(brokers[h], ForPeer(peer, service))
OneBroker(h, peer, service, state) ==
    OneIn(brokers[h], ForPeer(peer, service), InState(state))
NoPacket(from, to, service) == NoneIn(channel[from][to], ForService(service))
OnePacket(from, to, service, type) ==
    OneIn(channel[from][to], ForService(service), OfType(type))

\* The stages of the negotiation of a service by client h with server peer.
Idle(h, peer, service) ==
    /\ NoBroker(h, peer, service) /\ NoBroker(peer, h, service)
    /\ NoPacket(h, peer, service) /\ NoPacket(peer, h, service)
Requested(h, peer, service) ==
    /\ OneBroker(h, peer, service, "CLIENT_PENDING_REQUEST") /\ NoBroker(peer, h, service)
    /\ OnePacket(h, peer, service, "REQUEST") /\ NoPacket(peer, h, service)
Responded(h, peer, service) ==
    /\ OneBroker(h, peer, service, "CLIENT_PENDING_REQUEST")
    /\ OneBroker(peer, h, service, "SERVER_PENDING_ACCEPT")
    /\ NoPacket(h, peer, service) /\ OnePacket(peer, h, service, "RESPONSE")
Establishing(h, peer, service) ==
    /\ OneBroker(h, peer, service, "CLIENT_PENDING_CONNECTION")
    /\ OneBroker(peer, h, service, "SERVER_PENDING_ACCEPT")
    /\ OnePacket(h, peer, service, "ESTABLISH") /\ NoPacket(peer, h, service)
Finalising(h, peer, service) ==
    /\ OneBroker(h, peer, service, "CLIENT_PENDING_CONNECTION") /\ NoBroker(peer, h, service)
    /\ NoPacket(h, peer, service) /\ OnePacket(peer, h, service, "FINALISE")

Session(h, peer, service) ==
    \/ Idle(h, peer, service) \/ Requested(h, peer, service) \/ Responded(h, peer, service)
    \/ Establishing(h, peer, service) \/ Finalising(h, peer, service)

\* Some application of host h subscribes to the service.
Wants(h, service) ==
    \E s \in Subscribers : SubscriberApp[s].host = h /\ SubscriberApp[s].service = service

HasConnector(h, service) ==
    \E s \in Subscribers : /\ connector[s] = s
                           /\ SubscriberApp[s].host = h /\ SubscriberApp[s].service = service

AllIdle(h, service) == \A peer \in Hosts : Idle(h, peer, service)

\* One connector asks once for the service: it is pending, then to be negotiated,
\* then in a session with one host, which does not ask for the service itself.
OneConnector(service) ==
    \A s, t \in Subscribers :
        /\ connector[s] = s /\ connector[t] = t
        /\ SubscriberApp[s].host = SubscriberApp[t].host
        /\ SubscriberApp[s].service = service /\ SubscriberApp[t].service = service
        => s = t
UnaskedIdle(service) ==
    \A s \in Subscribers :
        /\ SubscriberApp[s].service = service
        /\ ~HasConnector(SubscriberApp[s].host, service) \/ s \in pending
        => AllIdle(SubscriberApp[s].host, service)
PendingOnce == \A s \in pending : connector[s] = s /\ \A j \in jobs : j.request # s
JobsOnce ==
    \A j \in jobs : /\ connector[j.request] = j.request
                    /\ \A k \in jobs : k.request = j.request => k = j
JobsIdle(service) ==
    \A j \in jobs : SubscriberApp[j.request].service = service =>
        AllIdle(SubscriberApp[j.request].host, service) /\ ~Wants(j.peer, service)
AskOnce(service) ==
    /\ OneConnector(service) /\ UnaskedIdle(service) /\ PendingOnce /\ JobsOnce
    /\ JobsIdle(service)

\* A packet goes between a host that wants the service and one that does not.
Sides(service) ==
    \A from, to \in Hosts : \A m \in Packets(from, to) :
        m.service = service => (Wants(from, service) <=> ~Wants(to, service))

AllSessions(service) ==
    \A h, peer \in Hosts : Wants(h, service) => Session(h, peer, service)

InSession(service) ==
    OffersHold /\ AskOnce(service) /\ Sides(service) /\ AllSessions(service)

\* Nothing a step does concerns this negotiation.
Undisturbed(h, peer, service) ==
    /\ Keeps(brokers[h], brokers'[h], ForPeer(peer, service))
    /\ Keeps(brokers[peer], brokers'[peer], ForPeer(h, service))
    /\ Keeps(channel[h][peer], channel'[h][peer], ForService(service))
    /\ Keeps(channel[peer][h], channel'[peer][h], ForService(service))

\* Nothing a step does concerns any other negotiation of the service.
OnlyDisturbs(h, peer, service) ==
    \A k, p \in Hosts : Wants(k, service) /\ ~(k = h /\ p = peer) => Undisturbed(k, p, service)

LEMMA SessionKept ==
    ASSUME NEW h, NEW peer, NEW service, Undisturbed(h, peer, service)
    PROVE  /\ Idle(h, peer, service) => Idle(h, peer, service)'
           /\ Session(h, peer, service) => Session(h, peer, service)'
<1> USE DEF Undisturbed, Keeps, NoBroker, OneBroker, NoPacket, OnePacket
<1>1. Idle(h, peer, service) => Idle(h, peer, service)'
  BY DEF Idle
<1>2. Requested(h, peer, service) => Requested(h, peer, service)'
  BY DEF Requested
<1>3. Responded(h, peer, service) => Responded(h, peer, service)'
  BY DEF Responded
<1>4. Establishing(h, peer, service) => Establishing(h, peer, service)'
  BY DEF Establishing
<1>5. Finalising(h, peer, service) => Finalising(h, peer, service)'
  BY DEF Finalising
<1> QED  BY <1>1, <1>2, <1>3, <1>4, <1>5 DEF Session

LEMMA KeepsSame == \A seq, S : Keeps(seq, seq, S)
BY DEF Keeps

LEMMA KeepsTwice ==
    ASSUME NEW a, NEW b, NEW c, NEW S, Keeps(a, b, S), Keeps(b, c, S)
    PROVE  Keeps(a, c, S)
BY DEF Keeps

-----------------------------------------------------------------------------
(* What sending, consuming and answering do to the packets of a service.   *)

LEMMA SendSession ==
    ASSUME TypeOK, NEW from \in Hosts, NEW to \in Hosts, NEW m \in NegotiationMessage,
           Send(from, to, m)
    PROVE  /\ channel'[from][to] = Append(channel[from][to], m)
           /\ \A service : \A a, b \in Hosts :
                 service # m.service \/ ~(a = from /\ b = to) =>
                     Keeps(channel[a][b], channel'[a][b], ForService(service))
<1>1. \A a, b \in Hosts : channel'[a][b] =
        IF a = from /\ b = to THEN Append(channel[a][b], m) ELSE channel[a][b]
  BY DEF TypeOK, Send
<1>2. \A a, b \in Hosts : channel[a][b] \in Seq(NegotiationMessage)  BY DEF TypeOK
<1>3. ASSUME NEW a \in Hosts, NEW b \in Hosts, NEW service,
             service # m.service \/ ~(a = from /\ b = to)
      PROVE  Keeps(channel[a][b], channel'[a][b], ForService(service))
  <2>1. CASE ~(a = from /\ b = to)
    BY <1>1, <2>1, KeepsSame
  <2>2. CASE a = from /\ b = to
    <3>1. channel'[a][b] = Append(channel[a][b], m)  BY <1>1, <2>2
    <3>2. m \notin ForService(service)  BY <1>3, <2>2 DEF ForService
    <3> QED  BY <1>2, <3>1, <3>2, AppendKeeps
  <2> QED  BY <2>1, <2>2
<1> QED  BY <1>1, <1>3

LEMMA ConsumeSession ==
    ASSUME TypeOK, NEW from \in Hosts, NEW to \in Hosts, channel[from][to] # <<>>,
           Consume(from, to)
    PROVE  /\ channel'[from][to] = Tail(channel[from][to])
           /\ \A service : \A a, b \in Hosts :
                 service # Head(channel[from][to]).service \/ ~(a = from /\ b = to) =>
                     Keeps(channel[a][b], channel'[a][b], ForService(service))
           /\ \A a, b \in Hosts : ~(a = from /\ b = to) => channel'[a][b] = channel[a][b]
<1> DEFINE m == Head(channel[from][to])
<1>1. \A a, b \in Hosts : channel'[a][b] =
        IF a = from /\ b = to THEN Tail(channel[a][b]) ELSE channel[a][b]
  BY DEF TypeOK, Consume
<1>2. \A a, b \in Hosts : channel[a][b] \in Seq(NegotiationMessage)  BY DEF TypeOK
<1>3. ASSUME NEW a \in Hosts, NEW b \in Hosts, NEW service,
             service # m.service \/ ~(a = from /\ b = to)
      PROVE  Keeps(channel[a][b], channel'[a][b], ForService(service))
  <2>1. CASE ~(a = from /\ b = to)
    BY <1>1, <2>1, KeepsSame
  <2>2. CASE a = from /\ b = to
    <3>1. channel'[a][b] = Tail(channel[a][b])  BY <1>1, <2>2
    <3>2. m \notin ForService(service)  BY <1>3, <2>2 DEF ForService
    <3> QED  BY <1>2, <2>2, <3>1, <3>2, TailKeeps
  <2> QED  BY <2>1, <2>2
<1> QED  BY <1>1, <1>3

LEMMA AnswerSession ==
    ASSUME TypeOK, NEW from \in Hosts, NEW to \in Hosts, from # to, channel[from][to] # <<>>,
           NEW m \in NegotiationMessage, m.service = Head(channel[from][to]).service,
           Answer(from, to, m)
    PROVE  /\ channel'[from][to] = Tail(channel[from][to])
           /\ channel'[to][from] = Append(channel[to][from], m)
           /\ \A service : \A a, b \in Hosts :
                 service # m.service \/ (~(a = from /\ b = to) /\ ~(a = to /\ b = from)) =>
                Keeps(channel[a][b], channel'[a][b], ForService(service))
<1> DEFINE rest == [channel EXCEPT ![from][to] = Tail(@)]
<1>5. /\ rest \in [Hosts -> [Hosts -> Seq(NegotiationMessage)]]
      /\ \A a, b \in Hosts : rest[a][b] =
            IF a = from /\ b = to THEN Tail(channel[a][b]) ELSE channel[a][b]
  <2>1. Tail(channel[from][to]) \in Seq(NegotiationMessage)
    BY TailElements DEF TypeOK
  <2> QED  BY <2>1 DEF TypeOK
<1>6. channel' = [rest EXCEPT ![to][from] = Append(@, m)]  BY DEF Answer
<1> HIDE DEF rest
<1>7. \A a, b \in Hosts : channel'[a][b] =
        IF a = to /\ b = from THEN Append(rest[a][b], m) ELSE rest[a][b]
  BY <1>5, <1>6
<1>1. \A a, b \in Hosts : channel'[a][b] =
        IF a = from /\ b = to THEN Tail(channel[a][b])
        ELSE IF a = to /\ b = from THEN Append(channel[a][b], m) ELSE channel[a][b]
  BY <1>5, <1>7
<1>2. \A a, b \in Hosts : channel[a][b] \in Seq(NegotiationMessage)  BY DEF TypeOK
<1>3. ASSUME NEW a \in Hosts, NEW b \in Hosts, NEW service,
             service # m.service \/ (~(a = from /\ b = to) /\ ~(a = to /\ b = from))
      PROVE  Keeps(channel[a][b], channel'[a][b], ForService(service))
  <2>1. CASE ~(a = from /\ b = to) /\ ~(a = to /\ b = from)
    BY <1>1, <2>1, KeepsSame
  <2>2. CASE a = from /\ b = to
    <3>1. channel'[a][b] = Tail(channel[a][b])  BY <1>1, <2>2
    <3>2. Head(channel[a][b]) \notin ForService(service)  BY <1>3, <2>2 DEF ForService
    <3> QED  BY <1>2, <2>2, <3>1, <3>2, TailKeeps
  <2>3. CASE a = to /\ b = from
    <3>1. channel'[a][b] = Append(channel[a][b], m)  BY <1>1, <2>3
    <3>2. m \notin ForService(service)  BY <1>3, <2>3 DEF ForService
    <3> QED  BY <1>2, <3>1, <3>2, AppendKeeps
  <2> QED  BY <2>1, <2>2, <2>3
<1> QED  BY <1>1, <1>3

-----------------------------------------------------------------------------
(* What creating, advancing and removing a broker does to the others.      *)

\* The brokers of all identities but one are kept.
OthersKept(h, peer, service) ==
    \A p, v : \A k \in Hosts : ~(k = h /\ p = peer /\ v = service) =>
        Keeps(brokers[k], brokers'[k], ForPeer(p, v))

LEMMA CreateSession ==
    ASSUME TypeOK, NEW h \in Hosts, NEW broker \in Broker,
           brokers' = [brokers EXCEPT ![h] = Append(@, broker)]
    PROVE  /\ brokers'[h] = Append(brokers[h], broker)
           /\ OthersKept(h, broker.peer, broker.service)
<1>1. \A k \in Hosts : brokers'[k] = IF k = h THEN Append(brokers[k], broker) ELSE brokers[k]
  BY DEF TypeOK
<1>2. \A k \in Hosts : brokers[k] \in Seq(Broker)  BY DEF TypeOK
<1>3. ASSUME NEW k \in Hosts, NEW p, NEW v,
             ~(k = h /\ p = broker.peer /\ v = broker.service)
      PROVE  Keeps(brokers[k], brokers'[k], ForPeer(p, v))
  <2>1. CASE k # h  BY <1>1, <2>1, KeepsSame
  <2>2. CASE k = h
    <3>1. broker \notin ForPeer(p, v)  BY <1>3, <2>2 DEF ForPeer
    <3>2. brokers'[k] = Append(brokers[k], broker)  BY <1>1, <2>2
    <3> QED  BY <1>2, <3>1, <3>2, AppendKeeps
  <2> QED  BY <2>1, <2>2
<1> QED  BY <1>1, <1>3 DEF OthersKept

LEMMA RemoveSession ==
    ASSUME TypeOK, NEW h \in Hosts, NEW n \in DOMAIN brokers[h],
           brokers' = [brokers EXCEPT ![h] = RemoveAt(@, n)]
    PROVE  /\ brokers'[h] = RemoveAt(brokers[h], n)
           /\ OthersKept(h, brokers[h][n].peer, brokers[h][n].service)
<1>1. \A k \in Hosts : brokers'[k] = IF k = h THEN RemoveAt(brokers[k], n) ELSE brokers[k]
  BY DEF TypeOK
<1>2. \A k \in Hosts : brokers[k] \in Seq(Broker)  BY DEF TypeOK
<1>3. ASSUME NEW k \in Hosts, NEW p, NEW v,
             ~(k = h /\ p = brokers[h][n].peer /\ v = brokers[h][n].service)
      PROVE  Keeps(brokers[k], brokers'[k], ForPeer(p, v))
  <2>1. CASE k # h  BY <1>1, <2>1, KeepsSame
  <2>2. CASE k = h
    <3>1. brokers[h][n] \notin ForPeer(p, v)  BY <1>3, <2>2 DEF ForPeer
    <3>2. brokers'[k] = RemoveAt(brokers[k], n)  BY <1>1, <2>2
    <3> QED  BY <1>2, <2>2, <3>1, <3>2, RemoveKeeps
  <2> QED  BY <2>1, <2>2
<1> QED  BY <1>1, <1>3 DEF OthersKept

LEMMA AdvanceSession ==
    ASSUME TypeOK, NEW h \in Hosts, NEW n \in DOMAIN brokers[h], NEW advanced \in Broker,
           advanced.peer = brokers[h][n].peer, advanced.service = brokers[h][n].service,
           \A k \in Hosts : brokers'[k] =
              IF k = h THEN [brokers[k] EXCEPT ![n] = advanced] ELSE brokers[k]
    PROVE  OthersKept(h, brokers[h][n].peer, brokers[h][n].service)
<1>1. \A k \in Hosts : brokers[k] \in Seq(Broker)  BY DEF TypeOK
<1>2. ASSUME NEW k \in Hosts, NEW p, NEW v,
             ~(k = h /\ p = brokers[h][n].peer /\ v = brokers[h][n].service)
      PROVE  Keeps(brokers[k], brokers'[k], ForPeer(p, v))
  <2>1. CASE k # h  BY <2>1, KeepsSame
  <2>2. CASE k = h
    <3>1. brokers[h][n] \notin ForPeer(p, v) /\ advanced \notin ForPeer(p, v)
      BY <1>2, <2>2 DEF ForPeer
    <3>2. brokers'[k] = [brokers[k] EXCEPT ![n] = advanced]  BY <2>2
    <3> QED  BY <1>1, <2>2, <3>1, <3>2, ReplaceKeeps
  <2> QED  BY <2>1, <2>2
<1> QED  BY <1>2 DEF OthersKept

\* The only broker of an identity handles what it waits for.
LEMMA OneHandles ==
    ASSUME TypeOK, NEW h \in Hosts, NEW peer, NEW service, NEW state,
           OneBroker(h, peer, service, state)
    PROVE  /\ Handler(h, peer, service, state) # {}
           /\ \A n \in Handler(h, peer, service, state) :
                 brokers[h][n] \in ForPeer(peer, service)
<1>1. brokers[h] \in Seq(Broker) /\ DOMAIN brokers[h] \subseteq Nat
  BY DEF TypeOK
<1>2. \A i \in DOMAIN brokers[h] : brokers[h][i] \in Broker  BY <1>1
<1>3. PICK n \in DOMAIN brokers[h] :
        /\ brokers[h][n] \in ForPeer(peer, service) /\ brokers[h][n] \in InState(state)
        /\ \A j \in DOMAIN brokers[h] : brokers[h][j] \in ForPeer(peer, service) => j = n
  BY DEF OneBroker, OneIn
<1>4. Responsible(h, peer, service) = {n}
  BY <1>2, <1>3 DEF Responsible, ForPeer
<1>5. First(h, peer, service) = {n}
  BY <1>1, <1>4 DEF First
<1>6. Handler(h, peer, service, state) = {n}
  BY <1>3, <1>5 DEF Handler, InState
<1> QED  BY <1>3, <1>6

\* The packets of all negotiations but that of these two hosts are kept.
PacketsKept(h, peer, service) ==
    \A v : \A a, b \in Hosts :
        ~(v = service /\ a = h /\ b = peer) /\ ~(v = service /\ a = peer /\ b = h) =>
            Keeps(channel[a][b], channel'[a][b], ForService(v))

LEMMA PacketsKeptTurned ==
    ASSUME NEW h, NEW peer, NEW service, PacketsKept(h, peer, service)
    PROVE  PacketsKept(peer, h, service)
BY DEF PacketsKept

\* A session with a packet under way: whose turn it is and what the packet is.
LEMMA PacketOfSession ==
    ASSUME TypeOK, NEW h \in Hosts, NEW peer \in Hosts, NEW service, Session(h, peer, service)
    PROVE  /\ channel[h][peer] # <<>> /\ Head(channel[h][peer]).service = service =>
                 /\ NoPacket(peer, h, service)
                 /\ OneIn(channel[h][peer], ForService(service),
                          OfType(Head(channel[h][peer]).type))
                 /\ \/ /\ Requested(h, peer, service)
                       /\ Head(channel[h][peer]).type = "REQUEST"
                    \/ /\ Establishing(h, peer, service)
                       /\ Head(channel[h][peer]).type = "ESTABLISH"
           /\ channel[peer][h] # <<>> /\ Head(channel[peer][h]).service = service =>
                 /\ NoPacket(h, peer, service)
                 /\ OneIn(channel[peer][h], ForService(service),
                          OfType(Head(channel[peer][h]).type))
                 /\ \/ /\ Responded(h, peer, service)
                       /\ Head(channel[peer][h]).type = "RESPONSE"
                    \/ /\ Finalising(h, peer, service)
                       /\ Head(channel[peer][h]).type = "FINALISE"
<1>1. ASSUME NEW a \in Hosts, NEW b \in Hosts, channel[a][b] # <<>>,
             Head(channel[a][b]).service = service
      PROVE  /\ ~NoPacket(a, b, service)
             /\ \A type : OnePacket(a, b, service, type) => Head(channel[a][b]).type = type
  <2>1. channel[a][b] \in Seq(NegotiationMessage)  BY DEF TypeOK
  <2>2. /\ Head(channel[a][b]) \in NegotiationMessage
        /\ \E i \in DOMAIN channel[a][b] : Head(channel[a][b]) = channel[a][b][i]
    BY <1>1, <2>1, TailElements
  <2>3. Head(channel[a][b]) \in ForService(service)
    BY <1>1, <2>2 DEF ForService
  <2>4. ~NoPacket(a, b, service)
    BY <2>2, <2>3 DEF NoPacket, NoneIn
  <2>5. ASSUME NEW type, OnePacket(a, b, service, type)
        PROVE  Head(channel[a][b]).type = type
    <3>1. Head(channel[a][b]) \in OfType(type)
      BY <1>1, <2>1, <2>3, <2>5, TailTakes DEF OnePacket
    <3> QED  BY <3>1 DEF OfType
  <2> QED  BY <2>4, <2>5
<1> USE DEF OnePacket
<1>2. ASSUME channel[h][peer] # <<>>, Head(channel[h][peer]).service = service
      PROVE  /\ NoPacket(peer, h, service)
             /\ OneIn(channel[h][peer], ForService(service), OfType(Head(channel[h][peer]).type))
             /\ \/ /\ Requested(h, peer, service)
                   /\ Head(channel[h][peer]).type = "REQUEST"
                \/ /\ Establishing(h, peer, service)
                   /\ Head(channel[h][peer]).type = "ESTABLISH"
  BY <1>1, <1>2 DEF Session, Idle, Requested, Responded, Establishing, Finalising
<1>3. ASSUME channel[peer][h] # <<>>, Head(channel[peer][h]).service = service
      PROVE  /\ NoPacket(h, peer, service)
             /\ OneIn(channel[peer][h], ForService(service), OfType(Head(channel[peer][h]).type))
             /\ \/ /\ Responded(h, peer, service)
                   /\ Head(channel[peer][h]).type = "RESPONSE"
                \/ /\ Finalising(h, peer, service)
                   /\ Head(channel[peer][h]).type = "FINALISE"
  BY <1>1, <1>3 DEF Session, Idle, Requested, Responded, Establishing, Finalising
<1> QED  BY <1>2, <1>3

\* Answered packets of a session: the one of "from" is gone, and "to" has sent
\* another one.
LEMMA AnswerPacket ==
    ASSUME TypeOK, NEW from \in Hosts, NEW to \in Hosts, from # to, channel[from][to] # <<>>,
           NEW m, m = Head(channel[from][to]),
           OneIn(channel[from][to], ForService(m.service), OfType(m.type)),
           NoPacket(to, from, m.service),
           NEW type \in NegotiationTypes, Answer(from, to, Message(type, m.service, m.qos))
    PROVE  /\ NoPacket(from, to, m.service)'
           /\ OnePacket(to, from, m.service, type)'
           /\ PacketsKept(from, to, m.service)
<1> DEFINE n == Message(type, m.service, m.qos)
<1>1. m \in NegotiationMessage  BY HeadPacket
<1>2. n \in NegotiationMessage /\ n.service = m.service /\ n.type = type
  BY <1>1 DEF Message, NegotiationMessage
<1>3. Answer(from, to, n)  OBVIOUS
<1> HIDE DEF n
<1>4. /\ channel'[from][to] = Tail(channel[from][to])
      /\ channel'[to][from] = Append(channel[to][from], n)
      /\ \A service : \A a, b \in Hosts :
            service # n.service \/ (~(a = from /\ b = to) /\ ~(a = to /\ b = from)) =>
                Keeps(channel[a][b], channel'[a][b], ForService(service))
  BY <1>2, <1>3, AnswerSession
<1>5. \A a, b \in Hosts : channel[a][b] \in Seq(NegotiationMessage)  BY DEF TypeOK
<1>6. NoPacket(from, to, m.service)'
  <2>1. m \in ForService(m.service)  BY <1>1 DEF ForService
  <2>2. NoneIn(Tail(channel[from][to]), ForService(m.service))
    BY <1>5, <2>1, TailTakes
  <2> QED  BY <1>4, <2>2 DEF NoPacket
<1>7. OnePacket(to, from, m.service, type)'
  <2>1. n \in ForService(m.service) /\ n \in OfType(type)  BY <1>2 DEF ForService, OfType
  <2>2. OneIn(Append(channel[to][from], n), ForService(m.service), OfType(type))
    BY <1>2, <1>5, <2>1, AppendNew DEF NoPacket
  <2> QED  BY <1>4, <2>2 DEF OnePacket
<1>8. PacketsKept(from, to, m.service)
  BY <1>2, <1>4 DEF PacketsKept
<1> QED  BY <1>6, <1>7, <1>8

\* No negotiation but that of client h with this peer is disturbed when only
\* its broker on one side and its packets change.
LEMMA OthersUndisturbed ==
    ASSUME NEW h \in Hosts, NEW peer \in Hosts, NEW service,
           Wants(h, service), ~Wants(peer, service),
           OthersKept(h, peer, service) \/ OthersKept(peer, h, service),
           PacketsKept(h, peer, service)
    PROVE  OnlyDisturbs(h, peer, service)
<1> SUFFICES ASSUME NEW k \in Hosts, NEW p \in Hosts, Wants(k, service),
                    ~(k = h /\ p = peer)
             PROVE  Undisturbed(k, p, service)
  BY DEF OnlyDisturbs
<1>1. ~(k = peer /\ p = h)  OBVIOUS
<1>2. /\ Keeps(channel[k][p], channel'[k][p], ForService(service))
      /\ Keeps(channel[p][k], channel'[p][k], ForService(service))
  BY <1>1 DEF PacketsKept
<1>3. /\ Keeps(brokers[k], brokers'[k], ForPeer(p, service))
      /\ Keeps(brokers[p], brokers'[p], ForPeer(k, service))
  BY <1>1 DEF OthersKept
<1> QED  BY <1>2, <1>3 DEF Undisturbed

\* A negotiation starts.
LEMMA StartSession ==
    ASSUME TypeOK, NEW j \in jobs, StartNegotiation(j),
           NEW h, NEW service, InSession(service),
           h = SubscriberApp[j.request].host, service = SubscriberApp[j.request].service
    PROVE  /\ Requested(h, j.peer, service)'
           /\ OnlyDisturbs(h, j.peer, service)
<1> DEFINE app == SubscriberApp[j.request]
           broker == [service |-> app.service, peer |-> j.peer,
                      state |-> "CLIENT_PENDING_REQUEST", request |-> j.request]
           m == Message("REQUEST", app.service, app.qos)
<1>1. j.request \in Subscribers /\ j.peer \in Hosts  BY DEF TypeOK
<1>2. app.host \in Hosts /\ app.service \in Services /\ app.qos \in QoSGroups
  BY <1>1, NegotiationAssumption
<1>3. /\ broker \in Broker /\ broker.peer = j.peer /\ broker.service = service
      /\ broker.state = "CLIENT_PENDING_REQUEST"
  BY <1>1, <1>2 DEF Broker, BrokerStates
<1>4. m \in NegotiationMessage /\ m.service = service /\ m.type = "REQUEST"
  BY <1>2 DEF Message, NegotiationMessage, NegotiationTypes
<1>5. /\ brokers' = [brokers EXCEPT ![h] = Append(@, broker)]
      /\ Send(h, j.peer, m)
  BY DEF StartNegotiation
<1> HIDE DEF broker, m
<1>6. h \in Hosts /\ Wants(h, service) /\ ~Wants(j.peer, service) /\ Idle(h, j.peer, service)
  BY <1>1, <1>2 DEF Wants, InSession, AskOnce, JobsIdle, AllIdle
<1>7. h # j.peer  BY <1>6
<1>8. /\ brokers'[h] = Append(brokers[h], broker)
      /\ OthersKept(h, j.peer, service)
  BY <1>3, <1>5, <1>6, CreateSession
<1>9. /\ channel'[h][j.peer] = Append(channel[h][j.peer], m)
      /\ \A v : \A a, b \in Hosts : v # service \/ ~(a = h /\ b = j.peer) =>
            Keeps(channel[a][b], channel'[a][b], ForService(v))
  <2>1. /\ channel'[h][j.peer] = Append(channel[h][j.peer], m)
        /\ \A v : \A a, b \in Hosts : v # m.service \/ ~(a = h /\ b = j.peer) =>
              Keeps(channel[a][b], channel'[a][b], ForService(v))
    BY <1>1, <1>4, <1>5, <1>6, SendSession
  <2> QED  BY <1>4, <2>1
<1>10. OneBroker(h, j.peer, service, "CLIENT_PENDING_REQUEST")'
  <2>1. brokers[h] \in Seq(Broker)  BY <1>6 DEF TypeOK
  <2>2. broker \in ForPeer(j.peer, service) /\ broker \in InState("CLIENT_PENDING_REQUEST")
    BY <1>3 DEF ForPeer, InState
  <2>3. OneIn(Append(brokers[h], broker), ForPeer(j.peer, service),
              InState("CLIENT_PENDING_REQUEST"))
    BY <1>3, <1>6, <2>1, <2>2, AppendNew DEF Idle, NoBroker
  <2> QED  BY <1>8, <2>3 DEF OneBroker
<1>11. NoBroker(j.peer, h, service)'
  <2>1. Keeps(brokers[j.peer], brokers'[j.peer], ForPeer(h, service))
    BY <1>1, <1>7, <1>8 DEF OthersKept
  <2> QED  BY <1>6, <2>1 DEF Keeps, Idle, NoBroker
<1>12. OnePacket(h, j.peer, service, "REQUEST")'
  <2>1. channel[h][j.peer] \in Seq(NegotiationMessage)  BY <1>1, <1>6 DEF TypeOK
  <2>2. m \in ForService(service) /\ m \in OfType("REQUEST")
    BY <1>4 DEF ForService, OfType
  <2>3. OneIn(Append(channel[h][j.peer], m), ForService(service), OfType("REQUEST"))
    BY <1>4, <1>6, <2>1, <2>2, AppendNew DEF Idle, NoPacket
  <2> QED  BY <1>9, <2>3 DEF OnePacket
<1>13. NoPacket(j.peer, h, service)'
  <2>1. Keeps(channel[j.peer][h], channel'[j.peer][h], ForService(service))
    BY <1>1, <1>6, <1>7, <1>9
  <2> QED  BY <1>6, <2>1 DEF Keeps, Idle, NoPacket
<1>14. Requested(h, j.peer, service)'
  BY <1>10, <1>11, <1>12, <1>13 DEF Requested
<1>15. PacketsKept(h, j.peer, service)  BY <1>9 DEF PacketsKept
<1>16. OnlyDisturbs(h, j.peer, service)
  BY <1>1, <1>6, <1>8, <1>15, OthersUndisturbed
<1> QED  BY <1>14, <1>16

\* A server receives a packet of its client.
LEMMA ServerSession ==
    ASSUME TypeOK, NEW from \in Hosts, NEW to \in Hosts, channel[from][to] # <<>>,
           NEW m, m = Head(channel[from][to]),
           Session(from, to, m.service), Wants(from, m.service), ~Wants(to, m.service),
           Receive(from, to), ~aborted'
    PROVE  /\ Responded(from, to, m.service)' \/ Finalising(from, to, m.service)'
           /\ OnlyDisturbs(from, to, m.service)
<1> DEFINE service == m.service
<1>0. from # to /\ m \in NegotiationMessage  BY HeadPacket
<1>1. /\ NoPacket(to, from, service)
      /\ OneIn(channel[from][to], ForService(service), OfType(m.type))
      /\ \/ Requested(from, to, service) /\ m.type = "REQUEST"
         \/ Establishing(from, to, service) /\ m.type = "ESTABLISH"
  BY PacketOfSession
<1>2. \A k \in Hosts : brokers[k] \in Seq(Broker)  BY DEF TypeOK
<1>3. CASE Requested(from, to, service) /\ m.type = "REQUEST"
  <2> DEFINE broker == [service |-> service, peer |-> from,
                        state |-> "SERVER_PENDING_ACCEPT", request |-> None]
  <2>1. ReceiveRequest(from, to, m)
    BY <1>3 DEF Receive, ReceiveResponse, ReceiveEstablish, ReceiveFinalise, Ignore
  <2>2. broker \in Broker  BY <1>0 DEF Broker, BrokerStates, NegotiationMessage
  <2>3. /\ brokers' = [brokers EXCEPT ![to] = Append(@, broker)]
        /\ Answer(from, to, Message("RESPONSE", service, m.qos))
    BY <2>1 DEF ReceiveRequest
  <2>4. broker \in ForPeer(from, service) /\ broker \in InState("SERVER_PENDING_ACCEPT")
    BY <2>2 DEF ForPeer, InState
  <2>5. broker.peer = from /\ broker.service = service  OBVIOUS
  <2> HIDE DEF broker
  <2>6. brokers'[to] = Append(brokers[to], broker) /\ OthersKept(to, from, service)
    BY <2>2, <2>3, <2>5, CreateSession
  <2>7. /\ NoPacket(from, to, service)'
        /\ OnePacket(to, from, service, "RESPONSE")'
        /\ PacketsKept(from, to, service)
    <3>1. "RESPONSE" \in NegotiationTypes  BY DEF NegotiationTypes
    <3> QED  BY <1>0, <1>1, <2>3, <3>1, AnswerPacket
  <2>8. OneBroker(to, from, service, "SERVER_PENDING_ACCEPT")'
    <3>1. OneIn(Append(brokers[to], broker), ForPeer(from, service),
                InState("SERVER_PENDING_ACCEPT"))
      BY <1>2, <1>3, <2>2, <2>4, AppendNew DEF Requested, NoBroker
    <3> QED  BY <2>6, <3>1 DEF OneBroker
  <2>9. OneBroker(from, to, service, "CLIENT_PENDING_REQUEST")'
    <3>1. Keeps(brokers[from], brokers'[from], ForPeer(to, service))
      BY <1>0, <2>6 DEF OthersKept
    <3> QED  BY <1>3, <3>1 DEF Keeps, Requested, OneBroker
  <2>10. Responded(from, to, service)'  BY <2>7, <2>8, <2>9 DEF Responded
  <2>11. OnlyDisturbs(from, to, service)
    BY <2>6, <2>7, OthersUndisturbed
  <2> QED  BY <2>10, <2>11
<1>4. CASE Establishing(from, to, service) /\ m.type = "ESTABLISH"
  <2>1. /\ Handler(to, from, service, "SERVER_PENDING_ACCEPT") # {}
        /\ \A n \in Handler(to, from, service, "SERVER_PENDING_ACCEPT") :
              brokers[to][n] \in ForPeer(from, service)
    BY <1>4, OneHandles DEF Establishing
  <2>2. Awaited(m.type) = "SERVER_PENDING_ACCEPT"  BY <1>4 DEF Awaited
  <2>3. ReceiveEstablish(from, to, m)
    BY <1>4, <2>1, <2>2
       DEF Receive, ReceiveRequest, ReceiveResponse, ReceiveFinalise, Ignore
  <2>4. PICK n \in Handler(to, from, service, "SERVER_PENDING_ACCEPT") :
          /\ brokers' = [brokers EXCEPT ![to] = RemoveAt(@, n)]
          /\ Answer(from, to, Message("FINALISE", service, m.qos))
    BY <2>3 DEF ReceiveEstablish
  <2>5. n \in DOMAIN brokers[to] /\ brokers[to][n] \in ForPeer(from, service)
    BY <2>1, HandlingBroker
  <2>6. brokers'[to] = RemoveAt(brokers[to], n) /\ OthersKept(to, from, service)
    <3>1. brokers[to][n].peer = from /\ brokers[to][n].service = service
      BY <2>5 DEF ForPeer
    <3> QED  BY <2>4, <2>5, <3>1, RemoveSession
  <2>7. /\ NoPacket(from, to, service)'
        /\ OnePacket(to, from, service, "FINALISE")'
        /\ PacketsKept(from, to, service)
    <3>1. "FINALISE" \in NegotiationTypes  BY DEF NegotiationTypes
    <3> QED  BY <1>0, <1>1, <2>4, <3>1, AnswerPacket
  <2>8. NoBroker(to, from, service)'
    <3>1. NoneIn(RemoveAt(brokers[to], n), ForPeer(from, service))
      BY <1>2, <1>4, <2>5, RemoveTakes DEF Establishing, OneBroker
    <3> QED  BY <2>6, <3>1 DEF NoBroker
  <2>9. OneBroker(from, to, service, "CLIENT_PENDING_CONNECTION")'
    <3>1. Keeps(brokers[from], brokers'[from], ForPeer(to, service))
      BY <1>0, <2>6 DEF OthersKept
    <3> QED  BY <1>4, <3>1 DEF Keeps, Establishing, OneBroker
  <2>10. Finalising(from, to, service)'  BY <2>7, <2>8, <2>9 DEF Finalising
  <2>11. OnlyDisturbs(from, to, service)
    BY <2>6, <2>7, OthersUndisturbed
  <2> QED  BY <2>10, <2>11
<1> QED  BY <1>1, <1>3, <1>4

\* A client receives a packet of its server.
LEMMA ClientSession ==
    ASSUME TypeOK, NEW from \in Hosts, NEW to \in Hosts, channel[from][to] # <<>>,
           NEW m, m = Head(channel[from][to]),
           Session(to, from, m.service), Wants(to, m.service), ~Wants(from, m.service),
           Receive(from, to)
    PROVE  /\ Establishing(to, from, m.service)' \/ Idle(to, from, m.service)'
           /\ OnlyDisturbs(to, from, m.service)
<1> DEFINE service == m.service
<1>0. from # to /\ m \in NegotiationMessage  BY HeadPacket
<1>1. /\ NoPacket(to, from, service)
      /\ OneIn(channel[from][to], ForService(service), OfType(m.type))
      /\ \/ Responded(to, from, service) /\ m.type = "RESPONSE"
         \/ Finalising(to, from, service) /\ m.type = "FINALISE"
  BY PacketOfSession
<1>2. \A k \in Hosts : brokers[k] \in Seq(Broker)  BY DEF TypeOK
<1>3. CASE Responded(to, from, service) /\ m.type = "RESPONSE"
  <2>1. /\ Handler(to, from, service, "CLIENT_PENDING_REQUEST") # {}
        /\ \A n \in Handler(to, from, service, "CLIENT_PENDING_REQUEST") :
              brokers[to][n] \in ForPeer(from, service)
    BY <1>3, OneHandles DEF Responded
  <2>2. Awaited(m.type) = "CLIENT_PENDING_REQUEST"  BY <1>3 DEF Awaited
  <2>3. ReceiveResponse(from, to, m)
    BY <1>3, <2>1, <2>2
       DEF Receive, ReceiveRequest, ReceiveEstablish, ReceiveFinalise, Ignore
  <2>4. PICK n \in Handler(to, from, service, "CLIENT_PENDING_REQUEST") :
          brokers' = [brokers EXCEPT ![to][n].state = "CLIENT_PENDING_CONNECTION"]
    BY <2>3 DEF ReceiveResponse
  <2>5. n \in DOMAIN brokers[to] /\ brokers[to][n] \in ForPeer(from, service)
    BY <2>1, HandlingBroker
  <2> DEFINE advanced == [brokers[to][n] EXCEPT !.state = "CLIENT_PENDING_CONNECTION"]
  <2>6. /\ brokers'[to] = [brokers[to] EXCEPT ![n] = advanced]
        /\ OthersKept(to, from, service)
    <3>1. brokers[to][n].peer = from /\ brokers[to][n].service = service
      BY <2>5 DEF ForPeer
    <3>2. brokers[to][n] \in Broker  BY <1>2, <2>5
    <3>3. /\ advanced \in Broker
          /\ advanced.peer = from /\ advanced.service = service
      BY <3>1, <3>2 DEF Broker, BrokerStates
    <3>4. \A k \in Hosts : brokers'[k] =
            IF k = to THEN [brokers[k] EXCEPT ![n] = advanced] ELSE brokers[k]
      BY <2>4 DEF TypeOK
    <3> HIDE DEF advanced
    <3> QED  BY <2>5, <3>1, <3>3, <3>4, AdvanceSession
  <2>7. /\ NoPacket(from, to, service)'
        /\ OnePacket(to, from, service, "ESTABLISH")'
        /\ PacketsKept(from, to, service)
    <3>1. "ESTABLISH" \in NegotiationTypes  BY DEF NegotiationTypes
    <3>2. Answer(from, to, Message("ESTABLISH", service, m.qos))
      BY <2>3 DEF ReceiveResponse
    <3> QED  BY <1>0, <1>1, <3>1, <3>2, AnswerPacket
  <2>8. OneBroker(to, from, service, "CLIENT_PENDING_CONNECTION")'
    <3>1. /\ advanced \in ForPeer(from, service)
          /\ advanced \in InState("CLIENT_PENDING_CONNECTION")
      <4>1. brokers[to][n] \in Broker  BY <1>2, <2>5
      <4> QED  BY <2>5, <4>1 DEF ForPeer, InState, Broker, BrokerStates
    <3> HIDE DEF advanced
    <3>2. OneIn([brokers[to] EXCEPT ![n] = advanced], ForPeer(from, service),
                InState("CLIENT_PENDING_CONNECTION"))
      BY <1>2, <1>3, <2>5, <3>1, ReplaceOne DEF Responded, OneBroker
    <3> QED  BY <2>6, <3>2 DEF OneBroker
  <2>9. OneBroker(from, to, service, "SERVER_PENDING_ACCEPT")'
    <3>1. Keeps(brokers[from], brokers'[from], ForPeer(to, service))
      BY <1>0, <2>6 DEF OthersKept
    <3> QED  BY <1>3, <3>1 DEF Keeps, Responded, OneBroker
  <2>10. Establishing(to, from, service)'  BY <2>7, <2>8, <2>9 DEF Establishing
  <2>11. PacketsKept(to, from, service)  BY <2>7, PacketsKeptTurned
  <2>12. OnlyDisturbs(to, from, service)
    BY <2>6, <2>11, OthersUndisturbed
  <2> QED  BY <2>10, <2>12
<1>4. CASE Finalising(to, from, service) /\ m.type = "FINALISE"
  <2>1. /\ Handler(to, from, service, "CLIENT_PENDING_CONNECTION") # {}
        /\ \A n \in Handler(to, from, service, "CLIENT_PENDING_CONNECTION") :
              brokers[to][n] \in ForPeer(from, service)
    BY <1>4, OneHandles DEF Finalising
  <2>2. Awaited(m.type) = "CLIENT_PENDING_CONNECTION"  BY <1>4 DEF Awaited
  <2>3. ReceiveFinalise(from, to, m)
    BY <1>4, <2>1, <2>2
       DEF Receive, ReceiveRequest, ReceiveResponse, ReceiveEstablish, Ignore
  <2>4. /\ Consume(from, to)
        /\ \E n \in Handler(to, from, service, "CLIENT_PENDING_CONNECTION") :
              brokers' = [brokers EXCEPT ![to] = RemoveAt(@, n)]
    BY <2>3 DEF ReceiveFinalise
  <2>5. PICK n \in Handler(to, from, service, "CLIENT_PENDING_CONNECTION") :
          brokers' = [brokers EXCEPT ![to] = RemoveAt(@, n)]
    BY <2>4
  <2>6. n \in DOMAIN brokers[to] /\ brokers[to][n] \in ForPeer(from, service)
    BY <2>1, HandlingBroker
  <2>7. brokers'[to] = RemoveAt(brokers[to], n) /\ OthersKept(to, from, service)
    <3>1. brokers[to][n].peer = from /\ brokers[to][n].service = service
      BY <2>6 DEF ForPeer
    <3> QED  BY <2>5, <2>6, <3>1, RemoveSession
  <2>8. /\ channel'[from][to] = Tail(channel[from][to])
        /\ \A v : \A a, b \in Hosts : v # service \/ ~(a = from /\ b = to) =>
              Keeps(channel[a][b], channel'[a][b], ForService(v))
    BY <2>4, ConsumeSession
  <2>9. NoPacket(from, to, service)'
    <3>1. channel[from][to] \in Seq(NegotiationMessage)  BY DEF TypeOK
    <3>2. m \in ForService(service)  BY <1>0 DEF ForService
    <3>3. NoneIn(Tail(channel[from][to]), ForService(service))
      BY <1>1, <3>1, <3>2, TailTakes
    <3> QED  BY <2>8, <3>3 DEF NoPacket
  <2>10. NoPacket(to, from, service)'
    BY <1>0, <1>1, <2>8 DEF Keeps, NoPacket
  <2>11. NoBroker(to, from, service)'
    <3>1. NoneIn(RemoveAt(brokers[to], n), ForPeer(from, service))
      BY <1>2, <1>4, <2>6, RemoveTakes DEF Finalising, OneBroker
    <3> QED  BY <2>7, <3>1 DEF NoBroker
  <2>12. NoBroker(from, to, service)'
    <3>1. Keeps(brokers[from], brokers'[from], ForPeer(to, service))
      BY <1>0, <2>7 DEF OthersKept
    <3> QED  BY <1>4, <3>1 DEF Keeps, Finalising, NoBroker
  <2>13. Idle(to, from, service)'  BY <2>9, <2>10, <2>11, <2>12 DEF Idle
  <2>14. PacketsKept(to, from, service)  BY <2>8 DEF PacketsKept
  <2>15. OnlyDisturbs(to, from, service)
    BY <2>7, <2>14, OthersUndisturbed
  <2> QED  BY <2>13, <2>15
<1> QED  BY <1>1, <1>3, <1>4

-----------------------------------------------------------------------------
(* What a step does to the sessions of a host.                             *)

\* No session is disturbed where brokers and packets stay as they are.
LEMMA NothingDisturbed ==
    ASSUME UNCHANGED <<brokers, channel>>, NEW service, AllSessions(service)
    PROVE  /\ AllSessions(service)'
           /\ \A h : AllIdle(h, service) => AllIdle(h, service)'
<1>1. \A h, peer : Undisturbed(h, peer, service)
  BY KeepsSame DEF Undisturbed
<1>2. \A h, peer :
        /\ Idle(h, peer, service) => Idle(h, peer, service)'
        /\ Session(h, peer, service) => Session(h, peer, service)'
  BY <1>1, SessionKept
<1> QED  BY <1>2 DEF AllSessions, AllIdle, Wants

\* The connector of s may still start a negotiation.
MayAsk(s) ==
    \/ ~HasConnector(SubscriberApp[s].host, SubscriberApp[s].service)
    \/ s \in pending
    \/ \E j \in jobs : j.request = s

\* No connector of host h may start a negotiation of this service.
NobodyAsks(h, service) ==
    \A s \in Subscribers :
        MayAsk(s) => ~(SubscriberApp[s].host = h /\ SubscriberApp[s].service = service)

\* Where no negotiation of the service is disturbed but this one, its idle hosts
\* stay idle, those of this client apart.
LEMMA IdleGoesOn ==
    ASSUME NEW h, NEW peer, NEW service, OnlyDisturbs(h, peer, service),
           NEW s \in Subscribers, SubscriberApp[s].service = service,
           SubscriberApp[s].host # h, AllIdle(SubscriberApp[s].host, service)
    PROVE  AllIdle(SubscriberApp[s].host, service)'
<1>1. SubscriberApp[s].host \in Hosts  BY NegotiationAssumption
<1>2. Wants(SubscriberApp[s].host, service)  BY DEF Wants
<1> QED  BY <1>1, <1>2, SessionKept DEF AllIdle, OnlyDisturbs

\* One session goes on, of a connector that asks for nothing more.
LEMMA SessionGoesOn ==
    ASSUME TypeOK, UNCHANGED <<connector, pending>>, jobs' \subseteq jobs,
           NEW h, NEW peer, NEW service, AskOnce(service), AllSessions(service),
           Session(h, peer, service)', OnlyDisturbs(h, peer, service),
           NobodyAsks(h, service)'
    PROVE  AskOnce(service)' /\ AllSessions(service)'
<1>1. AllSessions(service)'
  <2> SUFFICES ASSUME NEW k \in Hosts, NEW p \in Hosts, Wants(k, service)
               PROVE  Session(k, p, service)'
    BY DEF AllSessions, Wants
  <2>1. CASE k = h /\ p = peer  BY <2>1
  <2>2. CASE ~(k = h /\ p = peer)
    BY <2>2, SessionKept DEF AllSessions, OnlyDisturbs
  <2> QED  BY <2>1, <2>2
<1>2. ASSUME NEW s \in Subscribers, SubscriberApp[s].service = service, MayAsk(s)',
             AllIdle(SubscriberApp[s].host, service)
      PROVE  AllIdle(SubscriberApp[s].host, service)'
  <2>1. SubscriberApp[s].host # h  BY <1>2 DEF NobodyAsks
  <2> QED  BY <1>2, <2>1, IdleGoesOn
<1>3. OneConnector(service)'  BY DEF AskOnce, OneConnector
<1>4. UnaskedIdle(service)'
  <2> SUFFICES ASSUME NEW s \in Subscribers, SubscriberApp[s].service = service,
                      ~HasConnector(SubscriberApp[s].host, service) \/ s \in pending
               PROVE  AllIdle(SubscriberApp[s].host, service)'
    BY DEF UnaskedIdle, HasConnector
  <2>1. AllIdle(SubscriberApp[s].host, service)
    BY DEF AskOnce, UnaskedIdle
  <2>2. MayAsk(s)'  BY DEF MayAsk, HasConnector
  <2> QED  BY <1>2, <2>1, <2>2
<1>5. PendingOnce' /\ JobsOnce'  BY DEF AskOnce, PendingOnce, JobsOnce
<1>6. JobsIdle(service)'
  <2> SUFFICES ASSUME NEW j \in jobs', SubscriberApp[j.request].service = service
               PROVE  /\ AllIdle(SubscriberApp[j.request].host, service)'
                      /\ ~Wants(j.peer, service)
    BY DEF JobsIdle, Wants
  <2>1. AllIdle(SubscriberApp[j.request].host, service) /\ ~Wants(j.peer, service)
    BY DEF AskOnce, JobsIdle
  <2>2. j.request \in Subscribers  BY DEF TypeOK
  <2>3. MayAsk(j.request)'  BY DEF MayAsk
  <2> QED  BY <1>2, <2>1, <2>2, <2>3
<1> QED  BY <1>1, <1>3, <1>4, <1>5, <1>6 DEF AskOnce

\* A step of another service leaves all sessions of this one as they are.
LEMMA OtherSessionsGoOn ==
    ASSUME TypeOK, UNCHANGED <<connector, pending>>, jobs' \subseteq jobs,
           NEW service, AskOnce(service), AllSessions(service),
           \A k, p \in Hosts : Undisturbed(k, p, service)
    PROVE  AskOnce(service)' /\ AllSessions(service)'
<1>1. AllSessions(service)'  BY SessionKept DEF AllSessions, Wants
<1>2. \A k \in Hosts : AllIdle(k, service) => AllIdle(k, service)'
  BY SessionKept DEF AllIdle
<1>3. \A s \in Subscribers : SubscriberApp[s].host \in Hosts  BY NegotiationAssumption
<1>4. OneConnector(service)'  BY DEF AskOnce, OneConnector
<1>5. UnaskedIdle(service)'  BY <1>2, <1>3 DEF AskOnce, UnaskedIdle, HasConnector
<1>6. PendingOnce' /\ JobsOnce'  BY DEF AskOnce, PendingOnce, JobsOnce
<1>7. JobsIdle(service)'
  <2>1. \A j \in jobs' : j \in jobs /\ j.request \in Subscribers  BY DEF TypeOK
  <2> QED  BY <1>2, <1>3, <2>1 DEF AskOnce, JobsIdle, Wants
<1> QED  BY <1>1, <1>4, <1>5, <1>6, <1>7 DEF AskOnce

\* A negotiation that starts concerns its own service alone.
LEMMA StartOfOther ==
    ASSUME TypeOK, NEW j \in jobs, StartNegotiation(j),
           NEW service, SubscriberApp[j.request].service # service
    PROVE  \A k, p \in Hosts : Undisturbed(k, p, service)
<1> DEFINE app == SubscriberApp[j.request]
           broker == [service |-> app.service, peer |-> j.peer,
                      state |-> "CLIENT_PENDING_REQUEST", request |-> j.request]
           m == Message("REQUEST", app.service, app.qos)
<1>1. j.request \in Subscribers /\ j.peer \in Hosts  BY DEF TypeOK
<1>2. app.host \in Hosts /\ app.service \in Services /\ app.qos \in QoSGroups
  BY <1>1, NegotiationAssumption
<1>3. broker \in Broker /\ broker.service # service
  BY <1>1, <1>2 DEF Broker, BrokerStates
<1>4. m \in NegotiationMessage /\ m.service # service
  BY <1>2 DEF Message, NegotiationMessage, NegotiationTypes
<1>5. /\ brokers' = [brokers EXCEPT ![app.host] = Append(@, broker)]
      /\ Send(app.host, j.peer, m)
  BY DEF StartNegotiation
<1> HIDE DEF broker, m
<1>6. OthersKept(app.host, broker.peer, broker.service)
  BY <1>2, <1>3, <1>5, CreateSession
<1>7. \A v : \A a, b \in Hosts : v # m.service \/ ~(a = app.host /\ b = j.peer) =>
          Keeps(channel[a][b], channel'[a][b], ForService(v))
  BY <1>1, <1>2, <1>4, <1>5, SendSession
<1> QED  BY <1>3, <1>4, <1>6, <1>7 DEF OthersKept, Undisturbed

\* So does a packet that is received.
LEMMA ReceiveOfOther ==
    ASSUME TypeOK, NEW from \in Hosts, NEW to \in Hosts, Receive(from, to), ~aborted',
           NEW m, m = Head(channel[from][to]),
           NEW service, m.service # service
    PROVE  \A k, p \in Hosts : Undisturbed(k, p, service)
<1>1. channel[from][to] # <<>>  BY DEF Receive
<1>2. m \in NegotiationMessage  BY <1>1, HeadPacket
<1>3. m.service \in Services /\ m.qos \in QoSGroups  BY <1>2 DEF NegotiationMessage
<1>4. \A k \in Hosts : brokers[k] \in Seq(Broker)  BY DEF TypeOK
<1> DEFINE BrokersKept ==
             \A k, p \in Hosts : Keeps(brokers[k], brokers'[k], ForPeer(p, service))
           ChannelsKept ==
             \A a, b \in Hosts : Keeps(channel[a][b], channel'[a][b], ForService(service))
<1>5. ASSUME NEW type \in NegotiationTypes, Answer(from, to, Message(type, m.service, m.qos))
      PROVE  ChannelsKept
  <2>1. PICK n : n = Message(type, m.service, m.qos)  OBVIOUS
  <2>2. n \in NegotiationMessage /\ n.service = m.service
    BY <1>3, <2>1 DEF Message, NegotiationMessage
  <2>3. PICK rest : rest = [channel EXCEPT ![from][to] = Tail(@)]  OBVIOUS
  <2>4. \A a, b \in Hosts : channel[a][b] \in Seq(NegotiationMessage)  BY DEF TypeOK
  <2>5. /\ rest \in [Hosts -> [Hosts -> Seq(NegotiationMessage)]]
        /\ \A a, b \in Hosts : rest[a][b] =
              IF a = from /\ b = to THEN Tail(channel[a][b]) ELSE channel[a][b]
    <3>1. Tail(channel[from][to]) \in Seq(NegotiationMessage)
      BY <1>1, <2>4, TailElements
    <3> QED  BY <2>3, <3>1 DEF TypeOK
  <2>6. channel' = [rest EXCEPT ![to][from] = Append(@, n)]  BY <1>5, <2>1, <2>3 DEF Answer
  <2>7. \A a, b \in Hosts : channel'[a][b] =
          IF a = to /\ b = from THEN Append(rest[a][b], n) ELSE rest[a][b]
    BY <2>5, <2>6
  <2>8. ASSUME NEW a \in Hosts, NEW b \in Hosts
        PROVE  Keeps(channel[a][b], channel'[a][b], ForService(service))
    <3>1. Keeps(channel[a][b], rest[a][b], ForService(service))
      <4>1. CASE a = from /\ b = to
        <5>1. rest[a][b] = Tail(channel[a][b]) /\ channel[a][b] # <<>>
          BY <1>1, <2>5, <4>1
        <5>2. Head(channel[a][b]) \notin ForService(service)  BY <4>1 DEF ForService
        <5> QED  BY <2>4, <5>1, <5>2, TailKeeps
      <4>2. CASE ~(a = from /\ b = to)  BY <2>5, <4>2, KeepsSame
      <4> QED  BY <4>1, <4>2
    <3>2. Keeps(rest[a][b], channel'[a][b], ForService(service))
      <4>1. CASE a = to /\ b = from
        <5>1. channel'[a][b] = Append(rest[a][b], n)  BY <2>7, <4>1
        <5>2. n \notin ForService(service)  BY <2>2 DEF ForService
        <5>3. rest[a][b] \in Seq(NegotiationMessage)  BY <2>5
        <5> QED  BY <2>2, <5>1, <5>2, <5>3, AppendKeeps
      <4>2. CASE ~(a = to /\ b = from)  BY <2>7, <4>2, KeepsSame
      <4> QED  BY <4>1, <4>2
    <3> QED  BY <3>1, <3>2, KeepsTwice
  <2> QED  BY <2>8
<1>6. ASSUME Consume(from, to)  PROVE ChannelsKept
  BY <1>1, <1>6, ConsumeSession
<1>7. ASSUME UNCHANGED brokers  PROVE BrokersKept
  BY <1>7, KeepsSame
<1>8. ASSUME NEW state, NEW n \in Handler(to, from, m.service, state)
      PROVE  /\ n \in DOMAIN brokers[to]
             /\ brokers[to][n].peer = from /\ brokers[to][n].service = m.service
  BY DEF Handler, First, Responsible
<1>9. ASSUME NEW state, NEW n \in Handler(to, from, m.service, state),
             brokers' = [brokers EXCEPT ![to] = RemoveAt(@, n)]
      PROVE  BrokersKept
  <2>1. /\ n \in DOMAIN brokers[to]
        /\ brokers[to][n].peer = from /\ brokers[to][n].service = m.service
    BY <1>8
  <2>2. OthersKept(to, from, m.service)
    BY <1>9, <2>1, RemoveSession
  <2> QED  BY <2>2 DEF OthersKept
<1> HIDE DEF BrokersKept, ChannelsKept
<1>10. CASE ReceiveRequest(from, to, m)
  <2>1. PICK broker : broker = [service |-> m.service, peer |-> from,
                                state |-> "SERVER_PENDING_ACCEPT", request |-> None]
    OBVIOUS
  <2>2. broker \in Broker /\ broker.service = m.service
    BY <1>3, <2>1 DEF Broker, BrokerStates
  <2>3. /\ brokers' = [brokers EXCEPT ![to] = Append(@, broker)]
        /\ Answer(from, to, Message("RESPONSE", m.service, m.qos))
    BY <1>10, <2>1 DEF ReceiveRequest
  <2>4. BrokersKept
    <3>1. OthersKept(to, broker.peer, broker.service)
      BY <2>2, <2>3, CreateSession
    <3> QED  BY <2>2, <3>1 DEF OthersKept, BrokersKept
  <2>5. ChannelsKept  BY <1>5, <2>3 DEF NegotiationTypes
  <2> QED  BY <2>4, <2>5 DEF BrokersKept, ChannelsKept, Undisturbed
<1>11. CASE ReceiveResponse(from, to, m)
  <2>1. PICK n \in Handler(to, from, m.service, "CLIENT_PENDING_REQUEST") :
          brokers' = [brokers EXCEPT ![to][n].state = "CLIENT_PENDING_CONNECTION"]
    BY <1>11 DEF ReceiveResponse
  <2>2. /\ n \in DOMAIN brokers[to]
        /\ brokers[to][n].peer = from /\ brokers[to][n].service = m.service
    BY <1>8
  <2>3. PICK advanced :
          advanced = [brokers[to][n] EXCEPT !.state = "CLIENT_PENDING_CONNECTION"]
    OBVIOUS
  <2>4. /\ advanced \in Broker
        /\ advanced.peer = from /\ advanced.service = m.service
    <3>1. brokers[to][n] \in Broker  BY <1>4, <2>2
    <3> QED  BY <2>2, <2>3, <3>1 DEF Broker, BrokerStates
  <2>5. \A k \in Hosts : brokers'[k] =
          IF k = to THEN [brokers[k] EXCEPT ![n] = advanced] ELSE brokers[k]
    BY <2>1, <2>3 DEF TypeOK
  <2>6. BrokersKept
    <3>1. OthersKept(to, from, m.service)
      BY <2>2, <2>4, <2>5, AdvanceSession
    <3> QED  BY <3>1 DEF OthersKept, BrokersKept
  <2>7. ChannelsKept
    <3>1. Answer(from, to, Message("ESTABLISH", m.service, m.qos))
      BY <1>11 DEF ReceiveResponse
    <3> QED  BY <1>5, <3>1 DEF NegotiationTypes
  <2> QED  BY <2>6, <2>7 DEF BrokersKept, ChannelsKept, Undisturbed
<1>12. CASE ReceiveEstablish(from, to, m)
  <2>1. PICK n \in Handler(to, from, m.service, "SERVER_PENDING_ACCEPT") :
          /\ brokers' = [brokers EXCEPT ![to] = RemoveAt(@, n)]
          /\ Answer(from, to, Message("FINALISE", m.service, m.qos))
    BY <1>12 DEF ReceiveEstablish
  <2>2. BrokersKept  BY <1>9, <2>1
  <2>3. ChannelsKept  BY <1>5, <2>1 DEF NegotiationTypes
  <2> QED  BY <2>2, <2>3 DEF BrokersKept, ChannelsKept, Undisturbed
<1>13. CASE ReceiveFinalise(from, to, m)
  <2>1. PICK n \in Handler(to, from, m.service, "CLIENT_PENDING_CONNECTION") :
          brokers' = [brokers EXCEPT ![to] = RemoveAt(@, n)]
    BY <1>13 DEF ReceiveFinalise
  <2>2. BrokersKept  BY <1>9, <2>1
  <2>3. ChannelsKept  BY <1>6, <1>13 DEF ReceiveFinalise
  <2> QED  BY <2>2, <2>3 DEF BrokersKept, ChannelsKept, Undisturbed
<1>14. CASE Ignore(from, to, m)
  <2>1. BrokersKept  BY <1>7, <1>14 DEF Ignore
  <2>2. ChannelsKept  BY <1>6, <1>14 DEF Ignore
  <2> QED  BY <2>1, <2>2 DEF BrokersKept, ChannelsKept, Undisturbed
<1> QED  BY <1>10, <1>11, <1>12, <1>13, <1>14 DEF Receive

LEMMA StartKeepsSessions ==
    ASSUME TypeOK, NEW service, InSession(service), NEW j \in jobs, StartNegotiation(j)
    PROVE  AskOnce(service)' /\ AllSessions(service)'
<1>1. PICK h : h = SubscriberApp[j.request].host  OBVIOUS
<1>2. j.request \in Subscribers /\ connector[j.request] = j.request
  BY DEF TypeOK, InSession, AskOnce, JobsOnce
<1>3. jobs' = jobs \ {j} /\ UNCHANGED <<connector, pending>>  BY DEF StartNegotiation
<1>4. CASE SubscriberApp[j.request].service = service
  <2>1. /\ Requested(h, j.peer, service)'
        /\ OnlyDisturbs(h, j.peer, service)
    BY <1>1, <1>4, StartSession
  <2>2. ASSUME NEW s \in Subscribers,
               MayAsk(s)', SubscriberApp[s].host = h, SubscriberApp[s].service = service
        PROVE  FALSE
    <3>1. HasConnector(h, service)  BY <1>1, <1>2, <1>4 DEF HasConnector
    <3>2. ASSUME connector[s] = s  PROVE s = j.request
      BY <1>1, <1>2, <1>4, <2>2, <3>2 DEF InSession, AskOnce, OneConnector
    <3>3. CASE s \in pending
      BY <3>2, <3>3 DEF InSession, AskOnce, PendingOnce
    <3>4. CASE \E k \in jobs' : k.request = s
      BY <1>3, <3>2, <3>4 DEF InSession, AskOnce, JobsOnce
    <3> QED  BY <1>3, <2>2, <3>1, <3>3, <3>4 DEF MayAsk, HasConnector
  <2>3. Session(h, j.peer, service)'  BY <2>1 DEF Session
  <2>4. NobodyAsks(h, service)'  BY <2>2 DEF NobodyAsks
  <2> QED  BY <1>3, <2>1, <2>3, <2>4, SessionGoesOn DEF InSession
<1>5. CASE SubscriberApp[j.request].service # service
  BY <1>3, <1>5, StartOfOther, OtherSessionsGoOn DEF InSession
<1> QED  BY <1>4, <1>5

\* Packets belong to a session; nothing but this session is concerned.
LEMMA ReceiveKeepsSessions ==
    ASSUME TypeOK, NEW service, InSession(service),
           NEW from \in Hosts, NEW to \in Hosts, Receive(from, to), ~aborted'
    PROVE  AskOnce(service)' /\ AllSessions(service)'
<1>0. PICK m : m = Head(channel[from][to])  OBVIOUS
<1>1. channel[from][to] # <<>>  BY DEF Receive
<1>2. m \in NegotiationMessage /\ m \in Packets(from, to)  BY <1>0, <1>1, HeadPacket
<1>3. UNCHANGED <<connector, pending, jobs>>  BY Frame DEF Receive
<1>4. CASE m.service # service
  BY <1>0, <1>3, <1>4, ReceiveOfOther, OtherSessionsGoOn DEF InSession
<1>5. CASE m.service = service
  <2>1. Wants(from, service) <=> ~Wants(to, service)
    BY <1>2, <1>5 DEF InSession, Sides
  <2>2. ASSUME NEW h \in Hosts, NEW peer \in Hosts,
               (h = from /\ peer = to) \/ (h = to /\ peer = from)
        PROVE  NobodyAsks(h, service)'
    <3>1. ~Idle(h, peer, service)
      <4>1. ~NoPacket(from, to, service)
        BY <1>2, <1>5 DEF Packets, NoPacket, NoneIn, ForService
      <4> QED  BY <2>2, <4>1 DEF Idle
    <3>2. ~AllIdle(h, service)  BY <3>1 DEF AllIdle
    <3>3. ASSUME NEW s \in Subscribers, MayAsk(s)', SubscriberApp[s].service = service
          PROVE  AllIdle(SubscriberApp[s].host, service)
      BY <1>3, <3>3
         DEF MayAsk, HasConnector, InSession, AskOnce, UnaskedIdle, JobsIdle
    <3> QED  BY <3>2, <3>3 DEF NobodyAsks
  <2>3. CASE Wants(from, service)
    <3>1. Session(from, to, service)  BY <2>3 DEF InSession, AllSessions
    <3>2. /\ Responded(from, to, service)' \/ Finalising(from, to, service)'
          /\ OnlyDisturbs(from, to, service)
      BY <1>0, <1>1, <1>5, <2>1, <2>3, <3>1, ServerSession
    <3>3. Session(from, to, service)'  BY <3>2 DEF Session
    <3>4. NobodyAsks(from, service)'  BY <2>2
    <3> QED  BY <1>3, <3>2, <3>3, <3>4, SessionGoesOn DEF InSession
  <2>4. CASE Wants(to, service)
    <3>1. Session(to, from, service)  BY <2>4 DEF InSession, AllSessions
    <3>2. /\ Establishing(to, from, service)' \/ Idle(to, from, service)'
          /\ OnlyDisturbs(to, from, service)
      BY <1>0, <1>1, <1>5, <2>1, <2>4, <3>1, ClientSession
    <3>3. Session(to, from, service)'  BY <3>2 DEF Session
    <3>4. NobodyAsks(to, service)'  BY <2>2
    <3> QED  BY <1>3, <3>2, <3>3, <3>4, SessionGoesOn DEF InSession
  <2> QED  BY <2>1, <2>3, <2>4
<1> QED  BY <1>4, <1>5

\* Registering, subscribing and discovering concern no session.
LEMMA AskingKeepsSessions ==
    ASSUME TypeOK, NEW service, InSession(service), DistinctNegotiations(service),
           NEW s \in Subscribers, AttachSubscriber(s) \/ SubscribeService(s)
    PROVE  AskOnce(service)' /\ AllSessions(service)'
<1> DEFINE app == SubscriberApp[s]
<1>1. /\ AllSessions(service)'
      /\ \A h : AllIdle(h, service) => AllIdle(h, service)'
  BY Frame, NothingDisturbed DEF InSession
<1>2. app.host \in Hosts /\ app.service \in Services /\ app.qos \in QoSGroups
  BY NegotiationAssumption
<1>3. None \notin Subscribers  BY NegotiationAssumption
<1>4. CASE AttachSubscriber(s)
  <2>1. \A t \in Subscribers : connector'[t] = t <=> connector[t] = t
    BY <1>3, <1>4 DEF TypeOK, AttachSubscriber, ConnectorsFor
  <2>2. UNCHANGED <<pending, jobs>>  BY <1>4, Frame
  <2>3. \A h : HasConnector(h, service)' <=> HasConnector(h, service)
    BY <2>1 DEF HasConnector
  <2>4. OneConnector(service)'  BY <2>1 DEF InSession, AskOnce, OneConnector
  <2>5. UnaskedIdle(service)'  BY <1>1, <2>2, <2>3 DEF InSession, AskOnce, UnaskedIdle
  <2>6. PendingOnce'  BY <2>1, <2>2 DEF TypeOK, InSession, AskOnce, PendingOnce
  <2>7. JobsOnce'  BY <2>1, <2>2 DEF TypeOK, InSession, AskOnce, JobsOnce
  <2>8. JobsIdle(service)'  BY <1>1, <2>2 DEF InSession, AskOnce, JobsIdle, Wants
  <2> QED  BY <1>1, <2>4, <2>5, <2>6, <2>7, <2>8 DEF AskOnce
<1>5. CASE SubscribeService(s)
  <2>1. \A t \in Subscribers : connector'[t] = t <=> connector[t] = t \/ t = s
    BY <1>5 DEF TypeOK, SubscribeService
  <2>2. connector[s] # s  BY <1>3, <1>5 DEF SubscribeService
  <2>3. app.service = service => ~HasConnector(app.host, service)
    <3>1. SUFFICES ASSUME NEW t \in Subscribers, connector[t] = t, app.service = service,
                          SubscriberApp[t].host = app.host,
                          SubscriberApp[t].service = service
                   PROVE  FALSE
      BY DEF HasConnector
    <3>2. SubscriberApp[t].qos = app.qos  BY <3>1 DEF DistinctNegotiations
    <3>3. SubscriberApp[t] = [host |-> app.host, service |-> app.service, qos |-> app.qos]
      BY <3>1, <3>2, NegotiationAssumption
    <3> QED  BY <1>5, <3>1, <3>3 DEF SubscribeService, ConnectorsFor
  <2>4. app.service = service => AllIdle(app.host, service) /\ AllIdle(app.host, service)'
    BY <1>1, <2>3 DEF InSession, AskOnce, UnaskedIdle
  <2>5. OneConnector(service)'
    BY <2>1, <2>3 DEF InSession, AskOnce, OneConnector, HasConnector
  <2>6. pending' \subseteq pending \cup {s}  BY <1>5 DEF SubscribeService
  <2>7. UnaskedIdle(service)'
    <3>1. \A h : HasConnector(h, service) => HasConnector(h, service)'
      BY <2>1 DEF HasConnector
    <3> QED  BY <1>1, <2>4, <2>6, <3>1 DEF InSession, AskOnce, UnaskedIdle
  <2>8. \A j \in jobs : j.request # s
    BY <2>2 DEF InSession, AskOnce, JobsOnce
  <2>9. CASE /\ app.host \in StaticHosts
             /\ jobs' = jobs \cup {[request |-> s, peer |-> Discover(app.service)]}
             /\ UNCHANGED pending
    <3>1. PICK j : j = [request |-> s, peer |-> Discover(app.service)]  OBVIOUS
    <3>2. j.request = s /\ j.peer = Provider[app.service]  BY <3>1 DEF Discover
    <3>3. app.service = service => ~Wants(j.peer, service)
      BY <2>9, <3>2 DEF DistinctNegotiations, Wants
    <3>4. jobs' = jobs \cup {j} /\ pending' = pending  BY <2>9, <3>1
    <3>5. PendingOnce'
      <4>1. \A t \in pending : t # s  BY <2>2 DEF InSession, AskOnce, PendingOnce
      <4> QED  BY <2>1, <3>2, <3>4, <4>1 DEF TypeOK, InSession, AskOnce, PendingOnce
    <3>6. JobsOnce'
      BY <2>1, <2>8, <3>2, <3>4 DEF TypeOK, InSession, AskOnce, JobsOnce
    <3>7. JobsIdle(service)'
      BY <1>1, <2>4, <3>2, <3>3, <3>4 DEF InSession, AskOnce, JobsIdle, Wants
    <3> QED  BY <1>1, <2>5, <2>7, <3>5, <3>6, <3>7 DEF AskOnce
  <2>10. CASE UNCHANGED jobs
    <3>1. PendingOnce'
      BY <2>1, <2>6, <2>8, <2>10 DEF TypeOK, InSession, AskOnce, PendingOnce
    <3>2. JobsOnce'  BY <2>1, <2>10 DEF TypeOK, InSession, AskOnce, JobsOnce
    <3>3. JobsIdle(service)'  BY <1>1, <2>10 DEF InSession, AskOnce, JobsIdle, Wants
    <3> QED  BY <1>1, <2>5, <2>7, <3>1, <3>2, <3>3 DEF AskOnce
  <2> QED  BY <1>5, <2>9, <2>10 DEF SubscribeService
<1> QED  BY <1>4, <1>5

LEMMA OfferKeepsSessions ==
    ASSUME TypeOK, NEW service, InSession(service), OneDirection(service),
           NEW m \in BagToSet(sdNet), SubscribeOfferedService(m)
    PROVE  AskOnce(service)' /\ AllSessions(service)'
<1> DEFINE wanted == {s \in pending : /\ SubscriberApp[s].host = m.to
                                      /\ SubscriberApp[s].service = m.service}
<1>1. /\ AllSessions(service)'
      /\ \A h : AllIdle(h, service) => AllIdle(h, service)'
  BY Frame, NothingDisturbed DEF InSession
<1>2. /\ pending' = pending \ wanted
      /\ jobs' = jobs \cup {[request |-> s, peer |-> m.from] : s \in wanted}
      /\ connector' = connector /\ m.type = "OFFER"
  BY DEF SubscribeOfferedService
<1>3. \A s \in wanted : s \in pending /\ s \in Subscribers /\ SubscriberApp[s].service = m.service
  BY DEF TypeOK
<1> HIDE DEF wanted
<1>4. m.service = service => ~Wants(m.from, service)
  <2>1. Provides(m.from, m.service) # {}  BY <1>2 DEF InSession, OffersHold
  <2> QED  BY <2>1 DEF Provides, TypeOK, Wants, OneDirection
<1>5. \A j \in jobs' : \/ j \in jobs
                       \/ j.peer = m.from /\ j.request \in wanted
  BY <1>2
<1>6. OneConnector(service)'  BY <1>2 DEF InSession, AskOnce, OneConnector
<1>7. UnaskedIdle(service)'
  BY <1>1, <1>2 DEF InSession, AskOnce, UnaskedIdle, HasConnector
<1>8. PendingOnce'
  BY <1>2, <1>5 DEF InSession, AskOnce, PendingOnce
<1>9. JobsOnce'
  <2> SUFFICES ASSUME NEW j \in jobs'
               PROVE  /\ connector[j.request] = j.request
                      /\ \A k \in jobs' : k.request = j.request => k = j
    BY <1>2 DEF JobsOnce
  <2>1. CASE j \in jobs
    BY <1>3, <1>5, <2>1 DEF InSession, AskOnce, JobsOnce, PendingOnce
  <2>2. CASE j \notin jobs
    <3>1. j.request \in wanted /\ j.request \in pending  BY <1>3, <1>5, <2>2
    <3>2. \A k \in jobs' : k.request = j.request => k = j
      <4>1. \A k \in jobs : k.request # j.request
        BY <3>1 DEF InSession, AskOnce, PendingOnce
      <4> QED  BY <1>2, <2>2, <4>1
    <3> QED  BY <3>1, <3>2 DEF InSession, AskOnce, PendingOnce
  <2> QED  BY <2>1, <2>2
<1>10. JobsIdle(service)'
  <2> SUFFICES ASSUME NEW j \in jobs', SubscriberApp[j.request].service = service
               PROVE  /\ AllIdle(SubscriberApp[j.request].host, service)'
                      /\ ~Wants(j.peer, service)
    BY DEF JobsIdle, Wants
  <2>1. CASE j \in jobs  BY <1>1, <2>1 DEF InSession, AskOnce, JobsIdle
  <2>2. CASE j \notin jobs
    <3>1. /\ j.peer = m.from /\ j.request \in pending
          /\ j.request \in Subscribers /\ SubscriberApp[j.request].service = m.service
      BY <1>3, <1>5, <2>2
    <3> QED  BY <1>1, <1>4, <3>1 DEF InSession, AskOnce, UnaskedIdle
  <2> QED  BY <2>1, <2>2
<1> QED  BY <1>1, <1>6, <1>7, <1>8, <1>9, <1>10 DEF AskOnce

\* When nothing is lost, every step takes the sessions of a service with distinct
\* negotiations from stage to stage, whatever the other services do.
LEMMA InSessionInductive ==
    ASSUME TypeOK, LossyTypes = {}, NEW service, DistinctNegotiations(service),
           InSession(service), [Next]_vars, ~aborted'
    PROVE  InSession(service)'
<1>1. OffersHold'
  <2>1. \A h, v : Provides(h, v) \subseteq Provides(h, v)'
    BY GrowingRegistry
  <2> QED  BY <2>1, NewOffers DEF InSession, OffersHold
<1>2. Sides(service)'
  <2> SUFFICES ASSUME NEW a \in Hosts, NEW b \in Hosts, NEW n \in Packets(a, b)',
                      n.service = service
               PROVE  Wants(a, service) <=> ~Wants(b, service)
    BY DEF Sides, Wants
  <2>1. CASE n \in Packets(a, b)  BY <2>1 DEF InSession, Sides
  <2>2. CASE n \notin Packets(a, b)
    <3>1. \/ \E j \in jobs : /\ SubscriberApp[j.request] =
                                    [host |-> a, service |-> n.service, qos |-> n.qos]
                             /\ j.peer = b
          \/ \E m \in Packets(b, a) : m.service = n.service
      BY <2>2, NewPackets
    <3>2. ASSUME NEW j \in jobs, j.peer = b,
                 SubscriberApp[j.request] = [host |-> a, service |-> n.service, qos |-> n.qos]
          PROVE  Wants(a, service) <=> ~Wants(b, service)
      <4>1. j.request \in Subscribers  BY DEF TypeOK
      <4>2. SubscriberApp[j.request].host = a /\ SubscriberApp[j.request].service = service
        BY <3>2
      <4>3. Wants(a, service)  BY <4>1, <4>2 DEF Wants
      <4>4. ~Wants(b, service)  BY <3>2, <4>2 DEF InSession, AskOnce, JobsIdle
      <4> QED  BY <4>3, <4>4
    <3>3. ASSUME NEW m \in Packets(b, a), m.service = n.service
          PROVE  Wants(a, service) <=> ~Wants(b, service)
      BY <3>3 DEF InSession, Sides
    <3> QED  BY <3>1, <3>2, <3>3
  <2> QED  BY <2>1, <2>2
<1> DEFINE Kept == AskOnce(service)' /\ AllSessions(service)'
<1>3. Kept
  <2>1. ASSUME UNCHANGED <<connector, pending, jobs, brokers, channel>>
        PROVE  Kept
    <3>1. /\ AllSessions(service)'
          /\ \A h : AllIdle(h, service) => AllIdle(h, service)'
      BY <2>1, NothingDisturbed DEF InSession
    <3>2. OneConnector(service)' /\ PendingOnce' /\ JobsOnce'
      BY <2>1 DEF InSession, AskOnce, OneConnector, PendingOnce, JobsOnce
    <3>3. UnaskedIdle(service)'
      BY <2>1, <3>1 DEF InSession, AskOnce, UnaskedIdle, HasConnector
    <3>4. JobsIdle(service)'
      BY <2>1, <3>1 DEF InSession, AskOnce, JobsIdle, Wants
    <3> QED  BY <3>1, <3>2, <3>3, <3>4 DEF AskOnce
  <2>2. ASSUME NEW p \in Publishers, RegisterPublisherService(p)  PROVE Kept
    BY <2>1, <2>2, Frame
  <2>3. ASSUME NEW s \in Subscribers, AttachSubscriber(s) \/ SubscribeService(s)
        PROVE  Kept
    BY <2>3, AskingKeepsSessions
  <2>4. ASSUME NEW m \in BagToSet(sdNet), LookForService(m)  PROVE Kept
    BY <2>1, <2>4, Frame
  <2>5. ASSUME NEW m \in BagToSet(sdNet), SubscribeOfferedService(m)
        PROVE  Kept
    BY <2>5, OfferKeepsSessions DEF DistinctNegotiations
  <2>6. ASSUME NEW j \in jobs, StartNegotiation(j)  PROVE Kept
    BY <2>6, StartKeepsSessions
  <2>7. ASSUME NEW from \in Hosts, NEW to \in Hosts, Receive(from, to)
        PROVE  Kept
    BY <2>7, ReceiveKeepsSessions
  <2>8. \A m : ~LoseSd(m)  BY DEF LoseSd
  <2>9. \A from, to : ~Lose(from, to)  BY DEF Lose
  <2>10. CASE UNCHANGED vars  BY <2>1, <2>10 DEF vars
  <2> HIDE DEF Kept
  <2> QED  BY <2>2, <2>3, <2>4, <2>5, <2>6, <2>7, <2>8, <2>9, <2>10 DEF Next, Step, Terminated
<1> QED  BY <1>1, <1>2, <1>3 DEF InSession

-----------------------------------------------------------------------------
(* What the stages say of the sets SessionsAgree speaks of.                *)

LEMMA BrokerCount ==
    ASSUME TypeOK, NEW h \in Hosts, NEW peer, NEW service
    PROVE  /\ NoBroker(h, peer, service) => Responsible(h, peer, service) = {}
           /\ \A state : OneBroker(h, peer, service, state) =>
                 \E n : /\ Responsible(h, peer, service) = {n}
                        /\ brokers[h][n].state = state
<1>1. \A i \in DOMAIN brokers[h] : brokers[h][i] \in Broker  BY DEF TypeOK
<1>2. \A i \in DOMAIN brokers[h] :
        brokers[h][i] \in ForPeer(peer, service) <=> i \in Responsible(h, peer, service)
  BY <1>1 DEF ForPeer, Responsible
<1>3. Responsible(h, peer, service) \subseteq DOMAIN brokers[h]  BY DEF Responsible
<1>4. NoBroker(h, peer, service) => Responsible(h, peer, service) = {}
  BY <1>2, <1>3 DEF NoBroker, NoneIn
<1>5. ASSUME NEW state, OneBroker(h, peer, service, state)
      PROVE  \E n : /\ Responsible(h, peer, service) = {n}
                    /\ brokers[h][n].state = state
  <2>1. PICK n \in DOMAIN brokers[h] :
          /\ brokers[h][n] \in ForPeer(peer, service) /\ brokers[h][n] \in InState(state)
          /\ \A j \in DOMAIN brokers[h] : brokers[h][j] \in ForPeer(peer, service) => j = n
    BY <1>5 DEF OneBroker, OneIn
  <2>2. Responsible(h, peer, service) = {n}  BY <1>2, <1>3, <2>1
  <2> QED  BY <2>1, <2>2 DEF InState
<1> QED  BY <1>4, <1>5

LEMMA PacketCount ==
    ASSUME TypeOK, NEW from \in Hosts, NEW to \in Hosts, NEW service
    PROVE  /\ NoPacket(from, to, service) => PacketsOf(from, to, service) = {}
           /\ \A type : OnePacket(from, to, service, type) =>
                 \E n : /\ PacketsOf(from, to, service) = {n}
                        /\ channel[from][to][n].type = type
<1>1. \A i \in DOMAIN channel[from][to] : channel[from][to][i] \in NegotiationMessage
  BY DEF TypeOK
<1>2. \A i \in DOMAIN channel[from][to] :
        channel[from][to][i] \in ForService(service) <=> i \in PacketsOf(from, to, service)
  BY <1>1 DEF ForService, PacketsOf
<1>3. PacketsOf(from, to, service) \subseteq DOMAIN channel[from][to]  BY DEF PacketsOf
<1>4. NoPacket(from, to, service) => PacketsOf(from, to, service) = {}
  BY <1>2, <1>3 DEF NoPacket, NoneIn
<1>5. ASSUME NEW type, OnePacket(from, to, service, type)
      PROVE  \E n : /\ PacketsOf(from, to, service) = {n}
                    /\ channel[from][to][n].type = type
  <2>1. PICK n \in DOMAIN channel[from][to] :
          /\ channel[from][to][n] \in ForService(service)
          /\ channel[from][to][n] \in OfType(type)
          /\ \A j \in DOMAIN channel[from][to] :
                channel[from][to][j] \in ForService(service) => j = n
    BY <1>5 DEF OnePacket, OneIn
  <2>2. PacketsOf(from, to, service) = {n}  BY <1>2, <1>3, <2>1
  <2> QED  BY <2>1, <2>2 DEF OfType
<1> QED  BY <1>4, <1>5

\* The states and types SessionsAgree allows, and no more than one packet.
LEMMA SessionShape ==
    ASSUME TypeOK, NEW h \in Hosts, NEW peer \in Hosts, NEW service, Session(h, peer, service)
    PROVE  /\ Cardinality(PacketsOf(h, peer, service))
              + Cardinality(PacketsOf(peer, h, service)) <= 1
           /\ Cardinality(Responsible(h, peer, service)) <= 1
           /\ <<ClientStates(h, peer, service), ServerStates(h, peer, service),
                TypesOf(h, peer, service)>> \in
                {<<{}, {}, {}>>,
                 <<{"CLIENT_PENDING_REQUEST"}, {}, {"REQUEST"}>>,
                 <<{"CLIENT_PENDING_REQUEST"}, {"SERVER_PENDING_ACCEPT"}, {"RESPONSE"}>>,
                 <<{"CLIENT_PENDING_CONNECTION"}, {"SERVER_PENDING_ACCEPT"}, {"ESTABLISH"}>>,
                 <<{"CLIENT_PENDING_CONNECTION"}, {}, {"FINALISE"}>>}
<1>1. Cardinality({}) = 0 /\ \A n : Cardinality({n}) = 1
  BY FS_EmptySet, FS_Singleton
<1>2. /\ NoBroker(h, peer, service) =>
            /\ ClientStates(h, peer, service) = {}
            /\ Cardinality(Responsible(h, peer, service)) = 0
      /\ \A state : OneBroker(h, peer, service, state) =>
            /\ ClientStates(h, peer, service) = {state}
            /\ Cardinality(Responsible(h, peer, service)) = 1
  <2>1. ASSUME NoBroker(h, peer, service)
        PROVE  /\ ClientStates(h, peer, service) = {}
               /\ Cardinality(Responsible(h, peer, service)) = 0
    <3>1. Responsible(h, peer, service) = {}  BY <2>1, BrokerCount
    <3> QED  BY <1>1, <3>1 DEF ClientStates
  <2>2. ASSUME NEW state, OneBroker(h, peer, service, state)
        PROVE  /\ ClientStates(h, peer, service) = {state}
               /\ Cardinality(Responsible(h, peer, service)) = 1
    <3>1. PICK n : Responsible(h, peer, service) = {n} /\ brokers[h][n].state = state
      BY <2>2, BrokerCount
    <3> QED  BY <1>1, <3>1 DEF ClientStates
  <2> QED  BY <2>1, <2>2
<1>3. /\ NoBroker(peer, h, service) => ServerStates(h, peer, service) = {}
      /\ \A state : OneBroker(peer, h, service, state) =>
            ServerStates(h, peer, service) = {state}
  BY BrokerCount DEF ServerStates
<1> DEFINE Types(from, to) ==
             {channel[from][to][i].type : i \in PacketsOf(from, to, service)}
<1>4. ASSUME NEW from \in Hosts, NEW to \in Hosts
      PROVE  /\ NoPacket(from, to, service) =>
                   /\ Types(from, to) = {}
                   /\ Cardinality(PacketsOf(from, to, service)) = 0
             /\ \A type : OnePacket(from, to, service, type) =>
                   /\ Types(from, to) = {type}
                   /\ Cardinality(PacketsOf(from, to, service)) = 1
  <2>1. ASSUME NoPacket(from, to, service)
        PROVE  Types(from, to) = {} /\ Cardinality(PacketsOf(from, to, service)) = 0
    <3>1. PacketsOf(from, to, service) = {}  BY <2>1, PacketCount
    <3> QED  BY <1>1, <3>1
  <2>2. ASSUME NEW type, OnePacket(from, to, service, type)
        PROVE  Types(from, to) = {type} /\ Cardinality(PacketsOf(from, to, service)) = 1
    <3>1. PICK n : PacketsOf(from, to, service) = {n} /\ channel[from][to][n].type = type
      BY <2>2, PacketCount
    <3> QED  BY <1>1, <3>1
  <2> QED  BY <2>1, <2>2
<1>5. TypesOf(h, peer, service) = Types(h, peer) \cup Types(peer, h)  BY DEF TypesOf
<1> HIDE DEF Types
<1>6. CASE Idle(h, peer, service)
  BY <1>2, <1>3, <1>4, <1>5, <1>6 DEF Idle
<1>7. CASE Requested(h, peer, service)
  BY <1>2, <1>3, <1>4, <1>5, <1>7 DEF Requested
<1>8. CASE Responded(h, peer, service)
  BY <1>2, <1>3, <1>4, <1>5, <1>8 DEF Responded
<1>9. CASE Establishing(h, peer, service)
  BY <1>2, <1>3, <1>4, <1>5, <1>9 DEF Establishing
<1>10. CASE Finalising(h, peer, service)
  BY <1>2, <1>3, <1>4, <1>5, <1>10 DEF Finalising
<1> QED  BY <1>6, <1>7, <1>8, <1>9, <1>10 DEF Session

\* SessionsAgree: client, server and the packet between them agree, for every
\* service with distinct negotiations.
THEOREM SessionsStayInStep == Spec => []SessionsAgree
<1> DEFINE Distinct == {service \in Services : DistinctNegotiations(service)}
           Inv == LossyTypes = {} /\ ~aborted => \A service \in Distinct : InSession(service)
<1>1. Init => Inv
  <2> SUFFICES ASSUME Init, NEW service \in Services  PROVE InSession(service)
    OBVIOUS
  <2>1. \A h, peer \in Hosts : Idle(h, peer, service)
    BY DEF Init, Idle, NoBroker, NoPacket, NoneIn
  <2>2. OffersHold /\ Sides(service)
    BY InitPackets DEF OffersHold, Sides
  <2>3. AllSessions(service)  BY <2>1 DEF AllSessions, Session
  <2>4. AskOnce(service)
    <3>1. None \notin Subscribers  BY NegotiationAssumption
    <3>2. \A s \in Subscribers : SubscriberApp[s].host \in Hosts  BY NegotiationAssumption
    <3> QED  BY <2>1, <3>1, <3>2
             DEF Init, AskOnce, OneConnector, UnaskedIdle, PendingOnce, JobsOnce, JobsIdle,
                 AllIdle
  <2> QED  BY <2>2, <2>3, <2>4 DEF InSession
<1>2. TypeOK /\ Inv /\ [Next]_vars => Inv'
  <2> SUFFICES ASSUME TypeOK, Inv, [Next]_vars, LossyTypes = {}, ~aborted',
                      NEW service \in Distinct
               PROVE  InSession(service)'
    BY DEF DistinctNegotiations, OneDirection
  <2>1. ~aborted  BY DEF Next, Terminated, vars
  <2> QED  BY <2>1, InSessionInductive
<1>3. TypeOK /\ Inv => SessionsAgree
  <2> SUFFICES ASSUME TypeOK, LossyTypes = {}, ~aborted, Inv,
                      NEW s \in Subscribers, NEW peer \in Hosts,
                      DistinctNegotiations(SubscriberApp[s].service)
               PROVE  Session(SubscriberApp[s].host, peer, SubscriberApp[s].service)
    BY SessionShape, NegotiationAssumption DEF SessionsAgree
  <2>1. SubscriberApp[s].host \in Hosts /\ SubscriberApp[s].service \in Services
    BY NegotiationAssumption
  <2> QED  BY <2>1 DEF InSession, AllSessions, Wants
<1> QED  BY <1>1, <1>2, <1>3, TypeCorrect, PTL DEF Spec
=============================================================================
