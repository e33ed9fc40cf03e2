------------------------ MODULE SomeIpSDMessagesProofs ------------------------
(* Theorems about SomeIpSDMessages, for every parameter of the hosts,      *)
(* every number of readers and every bound.                                *)
EXTENDS SomeIpSDMessages, FiniteSetTheorems, TLAPS

-----------------------------------------------------------------------------
(* Loops: induction over the numbers up to n, and functions that are       *)
(* defined by it.  The induction of the library has the predicate as a     *)
(* parameter; with a set in its place it follows from the pigeonhole       *)
(* principle.                                                              *)

\* The successor would map the numbers reached so far into those without 0.
LEMMA Induction ==
    ASSUME NEW n \in Nat, NEW P, 0 \in P, \A k \in 0..n - 1 : k \in P => k + 1 \in P
    PROVE  n \in P
<1> SUFFICES ASSUME n \notin P PROVE FALSE  OBVIOUS
<1> DEFINE Q == P \cap 0..n
           successor == [k \in Q |-> k + 1]
<1>1. IsFiniteSet(Q) /\ 0 \in Q
  <2>1. IsFiniteSet(0..n) /\ Q \in SUBSET (0..n)  BY FS_Interval
  <2>2. IsFiniteSet(Q)  BY <2>1, FS_Subset
  <2> QED  BY <2>2
<1>2. Cardinality(Q) \in Nat /\ Cardinality(Q \ {0}) = Cardinality(Q) - 1 /\ IsFiniteSet(Q \ {0})
  BY <1>1, FS_RemoveElement, FS_CardinalityType
<1>3. successor \in [Q -> Q \ {0}]
  OBVIOUS
<1>4. PICK x \in Q, y \in Q : x # y /\ successor[x] = successor[y]
  <2> HIDE DEF Q, successor
  <2> QED  BY <1>1, <1>2, <1>3, FS_PigeonHole
<1> QED  BY <1>4

\* f holds the values of a loop that starts with a.
Iterates(f, n, a, step) ==
    \A i \in 0..n : f[i] = IF i = 0 THEN a ELSE step[i][f[i - 1]]

LEMMA Recursion ==
    ASSUME NEW n \in Nat, NEW V, NEW a \in V, NEW step \in [1..n -> [V -> V]]
    PROVE  \E f \in [0..n -> V] : Iterates(f, n, a, step)
<1> DEFINE P == {k \in 0..n : \E f \in [0..k -> V] : Iterates(f, k, a, step)}
<1>1. 0 \in P
  <2>1. [i \in 0..0 |-> a] \in [0..0 -> V] /\ Iterates([i \in 0..0 |-> a], 0, a, step)
    BY DEF Iterates
  <2> QED  BY <2>1
<1>2. ASSUME NEW k \in 0..n - 1, k \in P PROVE k + 1 \in P
  <2>1. PICK f \in [0..k -> V] : Iterates(f, k, a, step)  BY <1>2
  <2>2. PICK g : g = [i \in 0..k + 1 |-> IF i = k + 1 THEN step[k + 1][f[k]] ELSE f[i]]
    OBVIOUS
  <2>3. g \in [0..k + 1 -> V] /\ Iterates(g, k + 1, a, step)
    BY <2>1, <2>2 DEF Iterates
  <2> QED  BY <2>3
<1>3. n \in P
  <2> HIDE DEF P
  <2> QED  BY <1>1, <1>2, Induction
<1> QED  BY <1>3

-----------------------------------------------------------------------------
(* Subsequences.                                                           *)

\* f holds the subsequences of the beginnings of the order.
Selects(f, order, S) ==
    \A i \in 0..Len(order) :
        f[i] = IF i = 0 THEN <<>>
               ELSE IF order[i] \in S THEN Append(f[i - 1], order[i]) ELSE f[i - 1]

LEMMA InOrderRecursion ==
    ASSUME NEW A, NEW order \in Seq(A), NEW S
    PROVE  \E f : Selects(f, order, S) /\ InOrder(order, S) = f[Len(order)]
<1> DEFINE step == [i \in 1..Len(order) |-> [v \in Seq(A) |->
                       IF order[i] \in S THEN Append(v, order[i]) ELSE v]]
           Is(f) == f = [i \in 0..Len(order) |->
                            IF i = 0 THEN <<>>
                            ELSE IF order[i] \in S THEN Append(f[i - 1], order[i])
                                 ELSE f[i - 1]]
<1>1. PICK f \in [0..Len(order) -> Seq(A)] : Iterates(f, Len(order), <<>>, step)
  <2>1. step \in [1..Len(order) -> [Seq(A) -> Seq(A)]]  OBVIOUS
  <2>2. <<>> \in Seq(A) /\ Len(order) \in Nat  OBVIOUS
  <2> HIDE DEF step
  <2> QED  BY <2>1, <2>2, Recursion
<1>2. ASSUME NEW i \in 0..Len(order)
      PROVE  f[i] = IF i = 0 THEN <<>>
                    ELSE IF order[i] \in S THEN Append(f[i - 1], order[i]) ELSE f[i - 1]
  <2>1. f[i] = IF i = 0 THEN <<>> ELSE step[i][f[i - 1]]
    <3> HIDE DEF step
    <3> QED  BY <1>1 DEF Iterates
  <2>2. CASE i # 0
    <3>1. f[i - 1] \in Seq(A) /\ i \in 1..Len(order)  BY <2>2
    <3>2. step[i][f[i - 1]] = IF order[i] \in S THEN Append(f[i - 1], order[i]) ELSE f[i - 1]
      BY <3>1
    <3> QED  BY <2>1, <2>2, <3>2
  <2> QED  BY <2>1, <2>2
<1>3. Is(f)
  BY <1>1, <1>2, Zenon
<1>4. Is(CHOOSE g : Is(g))
  <2> HIDE DEF Is
  <2> QED  BY <1>3
<1>5. PICK g : g = CHOOSE h : Is(h)  OBVIOUS
<1>6. InOrder(order, S) = g[Len(order)]
  BY <1>5 DEF InOrder
<1>7. Is(g)
  BY <1>4, <1>5
<1> QED  BY <1>6, <1>7 DEF Selects

LEMMA AppendRange ==
    ASSUME NEW A, NEW s \in Seq(A), NEW x \in A
    PROVE  Append(s, x) \in Seq(A) /\ Range(Append(s, x)) = Range(s) \cup {x}
<1>1. Append(s, x) \in Seq(A) /\ DOMAIN Append(s, x) = 1..Len(s) + 1
  OBVIOUS
<1>2. \A i \in 1..Len(s) : Append(s, x)[i] = s[i]
  OBVIOUS
<1>3. Append(s, x)[Len(s) + 1] = x /\ DOMAIN s = 1..Len(s) /\ Len(s) \in Nat
  OBVIOUS
<1>4. \A y : y \in Range(Append(s, x)) <=> y \in Range(s) \cup {x}
  BY <1>1, <1>2, <1>3 DEF Range
<1> QED  BY <1>1, <1>4

\* A subsequence has the elements that are in the set, as often as the order.
LEMMA InOrderSelects ==
    ASSUME NEW A, NEW order \in Seq(A), NEW S
    PROVE  /\ InOrder(order, S) \in Seq(A)
           /\ Range(InOrder(order, S)) = Range(order) \cap S
           /\ IsInjective(order) => IsInjective(InOrder(order, S))
<1>1. PICK f : Selects(f, order, S) /\ InOrder(order, S) = f[Len(order)]
  BY InOrderRecursion
<1> DEFINE Before(k) == {order[i] : i \in 1..k}
           P == {k \in 0..Len(order) :
                   /\ f[k] \in Seq(A)
                   /\ Range(f[k]) = Before(k) \cap S
                   /\ IsInjective(order) => IsInjective(f[k])}
<1>2. 0 \in P
  <2>1. f[0] = <<>>  BY <1>1 DEF Selects
  <2>2. <<>> \in Seq(A) /\ Range(<<>>) = {} /\ IsInjective(<<>>)  BY DEF Range, IsInjective
  <2>3. Before(0) = {} /\ 0 \in 0..Len(order)  OBVIOUS
  <2> HIDE DEF Before
  <2> QED  BY <2>1, <2>2, <2>3
<1>3. ASSUME NEW k \in 0..Len(order) - 1, k \in P PROVE k + 1 \in P
  <2>1. f[k + 1] = IF order[k + 1] \in S THEN Append(f[k], order[k + 1]) ELSE f[k]
    BY <1>1 DEF Selects
  <2>2. Before(k + 1) = Before(k) \cup {order[k + 1]}
    OBVIOUS
  <2>3. f[k] \in Seq(A) /\ order[k + 1] \in A /\ k + 1 \in 0..Len(order)  BY <1>3
  <2>4. CASE order[k + 1] \in S
    <3>1. PICK s \in Seq(A) : s = f[k]  BY <2>3
    <3>2. PICK x \in A : x = order[k + 1]  BY <2>3
    <3>3. Append(s, x) \in Seq(A) /\ Range(Append(s, x)) = Range(s) \cup {x}
      BY AppendRange
    <3>4. IsInjective(order) => x \notin Before(k)
      BY <3>2 DEF IsInjective
    <3>5. IsInjective(s) /\ x \notin Range(s) => IsInjective(Append(s, x))
      BY DEF IsInjective, Range
    <3>6. f[k + 1] = Append(s, x)  BY <2>1, <2>4, <3>1, <3>2
    <3>7. Range(s) = Before(k) \cap S /\ (IsInjective(order) => IsInjective(s))  BY <1>3, <3>1
    <3>8. Range(Append(s, x)) = Before(k + 1) \cap S  BY <2>2, <2>4, <3>2, <3>3, <3>7
    <3> HIDE DEF Before
    <3> QED  BY <3>3, <3>4, <3>5, <3>6, <3>7, <3>8, <2>3
  <2>5. CASE order[k + 1] \notin S
    <3>1. f[k + 1] = f[k]  BY <2>1, <2>5
    <3>2. Before(k + 1) \cap S = Before(k) \cap S  BY <2>2, <2>5
    <3> HIDE DEF Before
    <3> QED  BY <1>3, <2>3, <3>1, <3>2
  <2> QED  BY <2>4, <2>5
<1>4. Len(order) \in P
  <2> HIDE DEF P
  <2>1. Len(order) \in Nat  OBVIOUS
  <2> QED  BY <1>2, <1>3, <2>1, Induction
<1>5. Before(Len(order)) = Range(order)
  BY DEF Range
<1> QED  BY <1>1, <1>4, <1>5
-----------------------------------------------------------------------------
(* The parameters of the hosts.                                            *)

\* The hosts are among the possible ones.
KnownHosts ==
    /\ publisher \in Offering
    /\ reader \in [Readers -> UNION {Requesting[r] : r \in Readers}]
    /\ \A r \in Readers : reader[r] \in Requesting[r]

LEMMA PublisherParameters ==
    ASSUME KnownHosts
    PROVE  /\ publisher.manager \in {"SomeIpManager", "QoSManager"}
           /\ publisher.manager = "QoSManager" => publisher.hasQoSNP
           /\ publisher.hasQoSNP \in BOOLEAN /\ publisher.preventReservation \in BOOLEAN
           /\ publisher.qosGroups \subseteq SOMEIP
           /\ publisher.tcpPort \in Ports /\ publisher.udpPort \in Ports
           /\ "SOMEIP_UDP_MCAST" \in publisher.qosGroups =>
                 publisher.mcastDest \in Groups \X Ports
           /\ publisher.values \subseteq Configurations
           /\ publisher.include \subseteq Configurations
<1>1. publisher \in PublisherHost
  BY SomeIpSDMessagesAssumption DEF KnownHosts
<1>2. "SOMEIP_UDP_MCAST" \in publisher.qosGroups => publisher.mcastDest # None
  BY SomeIpSDMessagesAssumption DEF KnownHosts
<1>3. publisher.manager = "QoSManager" => publisher.hasQoSNP
  BY SomeIpSDMessagesAssumption DEF KnownHosts
<1> QED  BY <1>1, <1>2, <1>3 DEF PublisherHost

LEMMA ReaderParameters ==
    ASSUME KnownHosts, NEW r \in Readers
    PROVE  /\ reader[r].manager \in {"SomeIpManager", "QoSManager"}
           /\ reader[r].hasQoSNP \in BOOLEAN /\ reader[r].deadline \in BOOLEAN
           /\ reader[r].requests \subseteq SOMEIP
           /\ \A q \in reader[r].requests :
                 reader[r].tcpPort[q] \in Ports /\ reader[r].udpPort[q] \in Ports
           /\ reader[r].include \subseteq Configurations
<1>1. ReaderHost(reader[r])
  BY SomeIpSDMessagesAssumption DEF KnownHosts
<1> QED  BY <1>1 DEF ReaderHost

\* The names of the QoS groups.
LEMMA Names == SOMEIP = {"SOMEIP_TCP", "SOMEIP_UDP", "SOMEIP_UDP_MCAST"}
BY DEF SOMEIP, GroupOrder, Range

-----------------------------------------------------------------------------
(* Reading an option.                                                      *)

\* What a discovery notification can say.
Notifications ==
    [address : Hosts \cup {None}, qosGroups : SUBSET SOMEIP, qosGroup : SOMEIP \cup {None},
     tcpPort : Ports \cup {None}, udpPort : Ports \cup {None},
     mcastDest : {None} \cup (Groups \X Ports), values : SUBSET Configurations,
     preventReservation : BOOLEAN]

LEMMA EmptyNotification == Notification \in Notifications
BY DEF Notification, Notifications

LEMMA UpdateType ==
    ASSUME NEW n \in Notifications, NEW o \in Option, ~Unreadable(n, o)
    PROVE  UpdateFromEndpointOption(n, o) \in Notifications
<1>1. o \in UnicastOptions \/ o \in MulticastOptions
  BY DEF Option, ConfigurationOptions, Unreadable
<1>2. GroupOf(o) \in SOMEIP
  BY <1>1, Names DEF GroupOf, UnicastOptions, MulticastOptions, Unreadable, Protocols
<1>3. CASE o \in MulticastOptions
  BY <1>2, <1>3 DEF UpdateFromEndpointOption, MulticastOptions, Notifications
<1>4. CASE o \in UnicastOptions
  <2>1. o.protocol \in Protocols /\ o.address \in Hosts /\ o.port \in Ports \cup {None}
        /\ o.type = "IPV4ENDPOINT"
    BY <1>4 DEF Unreadable, UnicastOptions
  <2> QED  BY <1>2, <2>1 DEF UpdateFromEndpointOption, Notifications, Protocols
<1> QED  BY <1>1, <1>3, <1>4

\* The option of host local for QoS group q, with the multicast address of the
\* service.
HostOption(local, tcpPort, udpPort, q) ==
    CreateIpv4Endpoint(local,
        [tcpPort |-> tcpPort, udpPort |-> udpPort, mcastDest |-> publisher.mcastDest], q)

LEMMA HostOptionType ==
    ASSUME KnownHosts, NEW local \in Hosts, NEW tcpPort \in Ports, NEW udpPort \in Ports,
           NEW q \in publisher.qosGroups, NEW o, o = HostOption(local, tcpPort, udpPort, q)
    PROVE  /\ o \in Option /\ o \in UnicastOptions \cup MulticastOptions
           /\ o \in UnicastOptions => o.address = local
           /\ GroupOf(o) = q /\ o.protocol # None /\ o.type # "CONFIGURATION"
<1>1. q \in {"SOMEIP_TCP", "SOMEIP_UDP", "SOMEIP_UDP_MCAST"}
  BY PublisherParameters, Names
<1>2. CASE q = "SOMEIP_UDP_MCAST"
  <2>1. publisher.mcastDest \in Groups \X Ports  BY <1>2, PublisherParameters
  <2>2. o = [type |-> "IPV4MULTICAST", address |-> publisher.mcastDest[1], protocol |-> "UDP",
             port |-> publisher.mcastDest[2]]
    BY <1>2 DEF HostOption, CreateIpv4Endpoint, MulticastOption
  <2>3. o \in MulticastOptions  BY <2>1, <2>2 DEF MulticastOptions
  <2>4. o \notin UnicastOptions  BY <2>2 DEF UnicastOptions
  <2>5. o.type = "IPV4MULTICAST" /\ o.protocol = "UDP"  BY <2>2
  <2>6. o.protocol # None  BY <2>5, SomeIpSDMessagesAssumption DEF Protocols
  <2> QED
    BY <1>2, <2>3, <2>4, <2>5, <2>6 DEF Option, GroupOf
<1>3. CASE q \in {"SOMEIP_TCP", "SOMEIP_UDP"}
  BY <1>3, SomeIpSDMessagesAssumption
     DEF HostOption, CreateIpv4Endpoint, EndpointOption, UnicastOptions, Option, GroupOf,
         Protocols
<1> QED  BY <1>1, <1>2, <1>3

\* u is what notification n becomes when such an option is read.
Told(n, u, local, tcpPort, udpPort, q) ==
    /\ u \in Notifications
    /\ u.qosGroups = n.qosGroups \cup {q}
    /\ u.address = IF q = "SOMEIP_UDP_MCAST" THEN n.address ELSE local
    /\ u.mcastDest = IF q = "SOMEIP_UDP_MCAST" THEN publisher.mcastDest ELSE n.mcastDest
    /\ u.tcpPort = IF q = "SOMEIP_TCP" THEN tcpPort ELSE n.tcpPort
    /\ u.udpPort = CASE q = "SOMEIP_TCP" -> tcpPort
                     [] q = "SOMEIP_UDP" -> udpPort
                     [] q = "SOMEIP_UDP_MCAST" -> n.udpPort

\* The option of a QoS group that was not read before can be read.
LEMMA HostOptionRead ==
    ASSUME KnownHosts, NEW local \in Hosts, NEW tcpPort \in Ports, NEW udpPort \in Ports,
           NEW q \in publisher.qosGroups, NEW o, o = HostOption(local, tcpPort, udpPort, q),
           NEW n \in Notifications, q \notin n.qosGroups
    PROVE  /\ ~Unreadable(n, o)
           /\ Told(n, UpdateFromEndpointOption(n, o), local, tcpPort, udpPort, q)
<1>1. /\ o \in Option /\ GroupOf(o) = q
      /\ o.protocol # None /\ o.type # "CONFIGURATION"
  BY HostOptionType
<1>2. ~Unreadable(n, o)  BY <1>1 DEF Unreadable
<1>3. PICK u : u = UpdateFromEndpointOption(n, o)  OBVIOUS
<1>4. u \in Notifications  BY <1>1, <1>2, <1>3, UpdateType
<1>5. q \in {"SOMEIP_TCP", "SOMEIP_UDP", "SOMEIP_UDP_MCAST"}
  BY PublisherParameters, Names
<1>6. CASE q = "SOMEIP_UDP_MCAST"
  <2>1. publisher.mcastDest \in Groups \X Ports  BY <1>6, PublisherParameters
  <2>2. o = [type |-> "IPV4MULTICAST", address |-> publisher.mcastDest[1], protocol |-> "UDP",
             port |-> publisher.mcastDest[2]]
    BY <1>6 DEF HostOption, CreateIpv4Endpoint, MulticastOption
  <2>3. u = [[n EXCEPT !.qosGroups = @ \cup {q}]
               EXCEPT !.mcastDest = <<publisher.mcastDest[1], publisher.mcastDest[2]>>]
    BY <1>1, <1>3, <2>2 DEF UpdateFromEndpointOption
  <2>4. <<publisher.mcastDest[1], publisher.mcastDest[2]>> = publisher.mcastDest  BY <2>1
  <2> QED  BY <1>2, <1>3, <1>4, <1>6, <2>3, <2>4 DEF Told, Notifications
<1>7. CASE q = "SOMEIP_UDP"
  <2>1. o = [type |-> "IPV4ENDPOINT", address |-> local, protocol |-> "UDP", port |-> udpPort]
    BY <1>7 DEF HostOption, CreateIpv4Endpoint, EndpointOption
  <2>2. u = [[n EXCEPT !.qosGroups = @ \cup {q}] EXCEPT !.address = local, !.udpPort = udpPort]
    BY <1>1, <1>3, <2>1 DEF UpdateFromEndpointOption
  <2> QED  BY <1>2, <1>3, <1>4, <1>7, <2>2 DEF Told, Notifications
<1>8. CASE q = "SOMEIP_TCP"
  <2>1. o = [type |-> "IPV4ENDPOINT", address |-> local, protocol |-> "TCP", port |-> tcpPort]
    BY <1>8 DEF HostOption, CreateIpv4Endpoint, EndpointOption
  <2>2. u = [[n EXCEPT !.qosGroups = @ \cup {q}]
               EXCEPT !.address = local, !.tcpPort = tcpPort, !.udpPort = tcpPort]
    BY <1>1, <1>3, <2>1 DEF UpdateFromEndpointOption
  <2>3. /\ u.qosGroups = n.qosGroups \cup {q} /\ u.address = local
        /\ u.mcastDest = n.mcastDest /\ u.tcpPort = tcpPort /\ u.udpPort = tcpPort
    BY <2>2 DEF Notifications
  <2> QED  BY <1>2, <1>3, <1>4, <1>8, <2>3 DEF Told
<1> QED  BY <1>5, <1>6, <1>7, <1>8
-----------------------------------------------------------------------------
(* Reading the options of an entry.                                        *)

\* The notifications in S that can take the option, with what it adds.
ReadOption(S, o) ==
    {UpdateFromEndpointOption(n, o) : n \in {x \in S : ~Unreadable(x, o)}}

\* f holds the notification after each option, or none.
Reads(f, options) ==
    /\ f[0] = {Notification}
    /\ \A i \in 1..Len(options) : f[i] = ReadOption(f[i - 1], options[i])

LEMMA ReadOptionType ==
    ASSUME NEW S \in SUBSET Notifications, NEW o \in Option
    PROVE  ReadOption(S, o) \in SUBSET Notifications
BY UpdateType DEF ReadOption

LEMMA ReadRecursion ==
    ASSUME NEW options \in Seq(Option)
    PROVE  \E f \in [0..Len(options) -> SUBSET Notifications] :
              Reads(f, options) /\ ReadOptions(options) = f[Len(options)]
<1> DEFINE V == SUBSET Notifications
           step == [i \in 1..Len(options) |-> [S \in V |-> ReadOption(S, options[i])]]
           Is(f) == f = [i \in 0..Len(options) |->
                IF i = 0 THEN {Notification}
                ELSE {UpdateFromEndpointOption(n, options[i]) :
                         n \in {x \in f[i - 1] : ~Unreadable(x, options[i])}}]
<1>1. PICK f \in [0..Len(options) -> V] : Iterates(f, Len(options), {Notification}, step)
  <2>1. step \in [1..Len(options) -> [V -> V]]
    <3>1. \A i \in 1..Len(options) : options[i] \in Option  OBVIOUS
    <3> QED  BY <3>1, ReadOptionType
  <2>2. {Notification} \in V /\ Len(options) \in Nat  BY EmptyNotification
  <2> HIDE DEF step, V
  <2> QED  BY <2>1, <2>2, Recursion
<1>2. ASSUME NEW i \in 0..Len(options)
      PROVE  f[i] = IF i = 0 THEN {Notification} ELSE ReadOption(f[i - 1], options[i])
  <2>1. f[i] = IF i = 0 THEN {Notification} ELSE step[i][f[i - 1]]
    <3> HIDE DEF step
    <3> QED  BY <1>1 DEF Iterates
  <2>2. CASE i # 0
    <3>1. f[i - 1] \in V /\ i \in 1..Len(options)  BY <2>2
    <3>2. step[i][f[i - 1]] = ReadOption(f[i - 1], options[i])
      BY <3>1
    <3> QED  BY <2>1, <2>2, <3>2
  <2> QED  BY <2>1, <2>2
<1>3. Is(f)
  BY <1>1, <1>2, Zenon DEF ReadOption
<1>4. Is(CHOOSE g : Is(g))
  <2> HIDE DEF Is
  <2> QED  BY <1>3
<1>5. PICK g : g = CHOOSE h : Is(h)  OBVIOUS
<1>6. ReadOptions(options) = g[Len(options)]
  BY <1>5 DEF ReadOptions
<1>7. Is(g)
  BY <1>4, <1>5
<1>8. ASSUME NEW i \in 0..Len(options)
      PROVE  g[i] = IF i = 0 THEN {Notification} ELSE ReadOption(g[i - 1], options[i])
  BY <1>7 DEF ReadOption
<1>9. Reads(g, options)
  BY <1>8 DEF Reads
<1> DEFINE P == {k \in 0..Len(options) : g[k] \in SUBSET Notifications}
<1>10. \A k \in 0..Len(options) : k \in P
  <2>1. 0 \in P  BY <1>8, EmptyNotification
  <2>2. ASSUME NEW k \in 0..Len(options) - 1, k \in P PROVE k + 1 \in P
    <3>1. k + 1 \in 0..Len(options) /\ options[k + 1] \in Option  OBVIOUS
    <3>2. g[k + 1] = ReadOption(g[k], options[k + 1])  BY <1>8, <3>1
    <3> QED  BY <2>2, <3>1, <3>2, ReadOptionType
  <2> HIDE DEF P
  <2>3. ASSUME NEW k \in 0..Len(options) PROVE k \in P
    BY <2>1, <2>2, Induction
  <2> QED  BY <2>3
<1>11. g \in [0..Len(options) -> SUBSET Notifications]
  BY <1>7, <1>10
<1> QED  BY <1>6, <1>9, <1>11

LEMMA ReadOne ==
    ASSUME NEW o \in Option
    PROVE  ReadOptions(<<o>>) = IF Unreadable(Notification, o) THEN {}
                                ELSE {UpdateFromEndpointOption(Notification, o)}
<1>1. <<o>> \in Seq(Option) /\ Len(<<o>>) = 1 /\ <<o>>[1] = o
  OBVIOUS
<1>2. PICK s \in Seq(Option) : s = <<o>>  BY <1>1
<1>3. PICK f \in [0..Len(s) -> SUBSET Notifications] :
         Reads(f, s) /\ ReadOptions(s) = f[Len(s)]
  BY ReadRecursion
<1>4. ReadOptions(s) = ReadOption({Notification}, o)
  BY <1>1, <1>2, <1>3 DEF Reads
<1> QED  BY <1>2, <1>4 DEF ReadOption

\* The option that the publisher offers for a QoS group.
OfferedOption(q) == HostOption(Publisher, publisher.tcpPort, publisher.udpPort, q)

\* n is what an offer of the QoS groups in G says.
SaysOffered(n, G) ==
    /\ n.qosGroups = G
    /\ n.address = IF G \subseteq {"SOMEIP_UDP_MCAST"} THEN None ELSE Publisher
    /\ n.mcastDest = IF "SOMEIP_UDP_MCAST" \in G THEN publisher.mcastDest ELSE None

LEMMA OfferedOptionType ==
    ASSUME KnownHosts, NEW q \in publisher.qosGroups
    PROVE  /\ OfferedOption(q) \in Option
           /\ OfferedOption(q) \in UnicastOptions \cup MulticastOptions
           /\ OfferedOption(q) \in UnicastOptions => OfferedOption(q).address = Publisher
           /\ GroupOf(OfferedOption(q)) = q
<1>1. publisher.tcpPort \in Ports /\ publisher.udpPort \in Ports /\ Publisher \in Hosts
  BY PublisherParameters DEF Hosts
<1> QED  BY <1>1, HostOptionType DEF OfferedOption

LEMMA OfferedOptionRead ==
    ASSUME KnownHosts, NEW q \in publisher.qosGroups, NEW n \in Notifications,
           NEW G, SaysOffered(n, G), q \notin G
    PROVE  \E u \in Notifications :
              ReadOption({n}, OfferedOption(q)) = {u} /\ SaysOffered(u, G \cup {q})
<1> DEFINE u == UpdateFromEndpointOption(n, OfferedOption(q))
<1>1. publisher.tcpPort \in Ports /\ publisher.udpPort \in Ports /\ Publisher \in Hosts
  BY PublisherParameters DEF Hosts
<1>2. PICK o : o = OfferedOption(q)  OBVIOUS
<1>3. /\ ~Unreadable(n, o)
      /\ Told(n, UpdateFromEndpointOption(n, o), Publisher, publisher.tcpPort,
              publisher.udpPort, q)
  BY <1>1, <1>2, HostOptionRead DEF OfferedOption, SaysOffered
<1>4. ReadOption({n}, OfferedOption(q)) = {u}
  BY <1>2, <1>3 DEF ReadOption
<1>5. Told(n, u, Publisher, publisher.tcpPort, publisher.udpPort, q)  BY <1>2, <1>3
<1> HIDE DEF u
<1>6. u \in Notifications /\ SaysOffered(u, G \cup {q})
  BY <1>5 DEF Told, SaysOffered
<1> QED  BY <1>4, <1>6

\* The options of different QoS groups can be read, one after the other.
LEMMA ReadOffered ==
    ASSUME KnownHosts, NEW G \in SUBSET publisher.qosGroups, NEW es \in Seq(Option),
           IsInjective(es), Range(es) = {OfferedOption(q) : q \in G}
    PROVE  \E n \in Notifications : ReadOptions(es) = {n} /\ SaysOffered(n, G)
<1>1. PICK f \in [0..Len(es) -> SUBSET Notifications] :
         Reads(f, es) /\ ReadOptions(es) = f[Len(es)]
  BY ReadRecursion
<1> DEFINE Before(k) == {q \in G : \E i \in 1..k : es[i] = OfferedOption(q)}
           P == {k \in 0..Len(es) :
                   \E n \in Notifications : f[k] = {n} /\ SaysOffered(n, Before(k))}
<1>2. 0 \in P
  <2>1. f[0] = {Notification} /\ Before(0) = {}  BY <1>1 DEF Reads
  <2>2. SaysOffered(Notification, {})  BY DEF SaysOffered, Notification
  <2> HIDE DEF Before
  <2> QED  BY <2>1, <2>2, EmptyNotification
<1>3. ASSUME NEW k \in 0..Len(es) - 1, k \in P PROVE k + 1 \in P
  <2>1. k + 1 \in 1..Len(es) /\ es[k + 1] \in Range(es)  BY DEF Range
  <2>2. PICK q \in G : es[k + 1] = OfferedOption(q)  BY <2>1
  <2>3. PICK n \in Notifications : f[k] = {n} /\ SaysOffered(n, Before(k))  BY <1>3
  <2>4. q \notin Before(k)
    <3>1. \A i \in 1..k : es[i] # es[k + 1]  BY <2>1 DEF IsInjective
    <3> QED  BY <2>2, <3>1
  <2>5. Before(k + 1) = Before(k) \cup {q}
    <3>1. \A p \in G : OfferedOption(p) = OfferedOption(q) => p = q
      BY OfferedOptionType
    <3>2. \A p \in G : (\E i \in 1..k + 1 : es[i] = OfferedOption(p))
                         <=> p = q \/ \E i \in 1..k : es[i] = OfferedOption(p)
      BY <2>1, <2>2, <3>1
    <3> QED  BY <3>2
  <2>6. f[k + 1] = ReadOption({n}, OfferedOption(q))
    <3>1. f[k + 1] = ReadOption(f[(k + 1) - 1], es[k + 1])  BY <1>1, <2>1 DEF Reads
    <3>2. (k + 1) - 1 = k  OBVIOUS
    <3> QED  BY <2>2, <2>3, <3>1, <3>2
  <2> HIDE DEF Before
  <2>7. PICK u \in Notifications :
           ReadOption({n}, OfferedOption(q)) = {u} /\ SaysOffered(u, Before(k) \cup {q})
    BY <2>3, <2>4, OfferedOptionRead
  <2> QED  BY <2>1, <2>5, <2>6, <2>7
<1>4. Len(es) \in P
  <2> HIDE DEF P
  <2>1. Len(es) \in Nat  OBVIOUS
  <2> QED  BY <1>2, <1>3, <2>1, Induction
<1>5. Before(Len(es)) = G
  <2>1. \A q \in G : \E i \in 1..Len(es) : es[i] = OfferedOption(q)  BY DEF Range
  <2> QED  BY <2>1
<1> HIDE DEF Before
<1> QED  BY <1>1, <1>4, <1>5
-----------------------------------------------------------------------------
(* What is written into a message.                                         *)

LEMMA Concatenation ==
    ASSUME NEW A, NEW s \in Seq(A), NEW t \in Seq(A)
    PROVE  /\ s \o t \in Seq(A) /\ Len(s \o t) = Len(s) + Len(t)
           /\ Range(s \o t) = Range(s) \cup Range(t)
           /\ IsInjective(s) /\ IsInjective(t) /\ Range(s) \cap Range(t) = {}
                => IsInjective(s \o t)
<1>1. /\ s \o t \in Seq(A) /\ Len(s \o t) = Len(s) + Len(t)
      /\ Len(s) \in Nat /\ Len(t) \in Nat
      /\ DOMAIN (s \o t) = 1..Len(s) + Len(t) /\ DOMAIN s = 1..Len(s) /\ DOMAIN t = 1..Len(t)
  OBVIOUS
<1>2. \A i \in 1..Len(s) : (s \o t)[i] = s[i]
  OBVIOUS
<1>3. \A i \in Len(s) + 1..Len(s) + Len(t) : (s \o t)[i] = t[i - Len(s)]
  OBVIOUS
<1>4. \A i \in 1..Len(t) : (s \o t)[i + Len(s)] = t[i]
  OBVIOUS
<1>5. PICK u : u = s \o t  OBVIOUS
<1>6. \A x : x \in Range(u) <=> x \in Range(s) \cup Range(t)
  <2>1. ASSUME NEW x \in Range(u) PROVE x \in Range(s) \cup Range(t)
    <3>1. PICK i \in 1..Len(s) + Len(t) : x = u[i]  BY <1>1, <1>5 DEF Range
    <3>2. CASE i \in 1..Len(s)  BY <1>1, <1>2, <1>5, <3>1, <3>2 DEF Range
    <3>3. CASE i \in Len(s) + 1..Len(s) + Len(t)
      <4>1. i - Len(s) \in 1..Len(t)  BY <1>1, <3>3
      <4> QED  BY <1>1, <1>3, <1>5, <3>1, <3>3, <4>1 DEF Range
    <3> QED  BY <1>1, <3>1, <3>2, <3>3
  <2>2. ASSUME NEW x \in Range(s) PROVE x \in Range(u)
    BY <1>1, <1>2, <1>5 DEF Range
  <2>3. ASSUME NEW x \in Range(t) PROVE x \in Range(u)
    <3>1. PICK i \in 1..Len(t) : x = t[i]  BY <1>1 DEF Range
    <3>2. i + Len(s) \in 1..Len(s) + Len(t)  BY <1>1
    <3> QED  BY <1>1, <1>4, <1>5, <3>1, <3>2 DEF Range
  <2> QED  BY <2>1, <2>2, <2>3
<1>7. ASSUME IsInjective(s), IsInjective(t), Range(s) \cap Range(t) = {},
             NEW i \in DOMAIN u, NEW j \in DOMAIN u, u[i] = u[j]
      PROVE  i = j
  <2>1. CASE i \in 1..Len(s) /\ j \in 1..Len(s)
    BY <1>1, <1>2, <1>5, <1>7, <2>1 DEF IsInjective
  <2>2. CASE i \notin 1..Len(s) /\ j \notin 1..Len(s)
    <3>1. i - Len(s) \in 1..Len(t) /\ j - Len(s) \in 1..Len(t)
      BY <1>1, <1>5, <2>2
    <3>2. t[i - Len(s)] = t[j - Len(s)]
      BY <1>1, <1>3, <1>5, <1>7, <2>2
    <3>3. i - Len(s) = j - Len(s)
      BY <1>1, <1>7, <3>1, <3>2 DEF IsInjective
    <3> QED  BY <1>1, <1>5, <3>3
  <2>3. \A k \in DOMAIN u : k \in 1..Len(s) => u[k] \in Range(s)
    BY <1>1, <1>2, <1>5 DEF Range
  <2>4. ASSUME NEW k \in DOMAIN u, k \notin 1..Len(s) PROVE u[k] \in Range(t)
    <3>1. k - Len(s) \in 1..Len(t)  BY <1>1, <1>5, <2>4
    <3> QED  BY <1>1, <1>3, <1>5, <2>4, <3>1 DEF Range
  <2> QED  BY <1>7, <2>1, <2>2, <2>3, <2>4
<1> QED  BY <1>1, <1>5, <1>6, <1>7 DEF IsInjective

LEMMA SetAsSequence ==
    ASSUME NEW S, IsFiniteSet(S)
    PROVE  /\ SetToSeq(S) \in Seq(S) /\ Len(SetToSeq(S)) = Cardinality(S)
           /\ IsInjective(SetToSeq(S))
<1>1. Cardinality(S) \in Nat  BY FS_CardinalityType
<1>2. PICK f \in [1..Cardinality(S) -> S] : IsInjective(f)
  <2>1. ExistsBijection(1..Cardinality(S), S)  BY FS_CardinalityType
  <2> QED  BY <2>1 DEF ExistsBijection, Bijection, Injection, IsInjective
<1>3. SetToSeq(S) \in [1..Cardinality(S) -> S] /\ IsInjective(SetToSeq(S))
  BY <1>2 DEF SetToSeq
<1> QED  BY <1>1, <1>3

\* The configurations of an entry, each written once.
LEMMA ConfigurationsWritten ==
    ASSUME NEW K \in SUBSET Configurations
    PROVE  LET cs == SetToSeq({ConfigurationOption(k) : k \in K})
           IN  /\ cs \in Seq(Option) /\ Len(cs) = Cardinality(K) /\ IsInjective(cs)
               /\ Range(cs) \subseteq ConfigurationOptions /\ Cardinality(K) \in Nat
<1> DEFINE C == {ConfigurationOption(k) : k \in K}
           f == [k \in K |-> ConfigurationOption(k)]
<1>1. IsFiniteSet(K)
  <2>1. IsFiniteSet(({} \cup {"8021Q"}) \cup {"Ressource"})
    BY FS_EmptySet, FS_AddElement
  <2>2. IsFiniteSet((({} \cup {"8021Q"}) \cup {"Ressource"}) \cup {"RealTime"})
    BY <2>1, FS_AddElement
  <2>3. Configurations = (({} \cup {"8021Q"}) \cup {"Ressource"}) \cup {"RealTime"}
    BY DEF Configurations
  <2>4. IsFiniteSet(Configurations)  BY <2>2, <2>3
  <2> QED  BY <2>4, FS_Subset
<1>2. f \in Bijection(K, C)
  BY DEF Bijection, Injection, Surjection, IsInjective, ConfigurationOption
<1>3. IsFiniteSet(C) /\ Cardinality(C) = Cardinality(K)
  <2> HIDE DEF f, C
  <2> QED  BY <1>1, <1>2, FS_Bijection DEF ExistsBijection
<1>4. C \subseteq ConfigurationOptions
  BY DEF ConfigurationOption, ConfigurationOptions
<1>5. SetToSeq(C) \in Seq(C) /\ Len(SetToSeq(C)) = Cardinality(K) /\ IsInjective(SetToSeq(C))
  <2> HIDE DEF C
  <2> QED  BY <1>3, SetAsSequence
<1>6. Range(SetToSeq(C)) \subseteq C
  <2> HIDE DEF C
  <2> QED  BY <1>5 DEF Range
<1>7. Cardinality(K) \in Nat  BY <1>1, FS_CardinalityType
<1> HIDE DEF C
<1>8. SetToSeq(C) \in Seq(Option)  BY <1>4, <1>5 DEF Option
<1> QED  BY <1>4, <1>5, <1>6, <1>7, <1>8 DEF C

\* An offer: the option of each offered QoS group and of no other, with the
\* negotiation protocol an address only.
OfferWritten(m) ==
    /\ m.type = "OFFER" /\ m.from = Publisher /\ m.to \in Readers
    /\ m.options \in Seq(Option) /\ m.num1stOptions = Len(m.options)
    /\ IsInjective(m.options)
    /\ IF publisher.hasQoSNP THEN m.options = <<EndpointOption(Publisher, None, None)>>
       ELSE Range(m.options) \ ConfigurationOptions =
               {OfferedOption(q) : q \in publisher.qosGroups}

LEMMA GroupOrderInjective == GroupOrder \in Seq(SOMEIP) /\ IsInjective(GroupOrder)
<1>1. /\ GroupOrder \in Seq(SOMEIP) /\ DOMAIN GroupOrder = 1..3
      /\ GroupOrder[1] = "SOMEIP_TCP" /\ GroupOrder[2] = "SOMEIP_UDP"
      /\ GroupOrder[3] = "SOMEIP_UDP_MCAST"
  BY Names DEF GroupOrder
<1> QED  BY <1>1 DEF IsInjective

\* What the application has and the host includes is announced.
LEMMA Announced ==
    ASSUME KnownHosts, NEW n
    PROVE  OfferedConfigurations(publisher.include, n) \in SUBSET Configurations
BY PublisherParameters DEF OfferedConfigurations

LEMMA OfferIsWritten ==
    ASSUME KnownHosts, NEW address, NEW to \in Readers
    PROVE  OfferWritten(Offer(ServiceOffering(address), to))
<1> DEFINE n == ServiceOffering(address)
           groups == InOrder(GroupOrder, n.qosGroups)
           es == [i \in DOMAIN groups |-> CreateIpv4Endpoint(Publisher, n, groups[i])]
           K == OfferedConfigurations(publisher.include, n)
           cs == SetToSeq({ConfigurationOption(k) : k \in K})
<1> PICK m : m = Offer(n, to)  OBVIOUS
<1>1. CASE publisher.hasQoSNP
  <2>1. PICK o : o = EndpointOption(Publisher, None, None)  OBVIOUS
  <2>2. o \in Option
    BY <2>1 DEF EndpointOption, Option, UnicastOptions, Hosts
  <2>3. m = SomeIpSDHeader("OFFER", Publisher, to, 1, <<o>>)
    BY <1>1, <2>1 DEF Offer
  <2>4. <<o>> \in Seq(Option) /\ Len(<<o>>) = 1 /\ IsInjective(<<o>>)
    BY <2>2 DEF IsInjective
  <2>5. OfferWritten(m)
    BY <1>1, <2>1, <2>2, <2>3, <2>4 DEF OfferWritten, SomeIpSDHeader
  <2> QED  BY <2>5
<1>2. CASE ~publisher.hasQoSNP
  <2>1. publisher.manager = "SomeIpManager"  BY <1>2, PublisherParameters
  <2>2. /\ n.qosGroups = publisher.qosGroups /\ n.tcpPort = publisher.tcpPort
        /\ n.udpPort = publisher.udpPort /\ n.mcastDest = publisher.mcastDest
    BY <2>1 DEF ServiceOffering, Notification
  <2>3. \A q \in publisher.qosGroups : CreateIpv4Endpoint(Publisher, n, q) = OfferedOption(q)
    BY <2>2, PublisherParameters, Names DEF CreateIpv4Endpoint, OfferedOption, HostOption
  <2>4. /\ groups \in Seq(SOMEIP) /\ IsInjective(groups)
        /\ Range(groups) = publisher.qosGroups
    <3>1. Range(GroupOrder) \cap publisher.qosGroups = publisher.qosGroups
      BY PublisherParameters DEF SOMEIP
    <3>2. groups = InOrder(GroupOrder, publisher.qosGroups)  BY <2>2
    <3> HIDE DEF groups
    <3> QED  BY <3>1, <3>2, GroupOrderInjective, InOrderSelects
  <2> HIDE DEF n, groups
  <2>5. PICK gs : gs = groups  OBVIOUS
  <2>6. /\ DOMAIN gs = 1..Len(gs) /\ Len(gs) \in Nat
        /\ \A i \in DOMAIN gs : gs[i] \in publisher.qosGroups
    BY <2>4, <2>5 DEF Range
  <2>7. /\ es \in Seq(Option) /\ Len(es) = Len(gs) /\ DOMAIN es = DOMAIN gs
        /\ \A i \in DOMAIN gs : es[i] = OfferedOption(gs[i])
    <3>1. es = [i \in 1..Len(gs) |-> OfferedOption(gs[i])]
      BY <2>3, <2>5, <2>6
    <3>2. \A i \in 1..Len(gs) : OfferedOption(gs[i]) \in Option
      BY <2>6, OfferedOptionType
    <3> QED  BY <2>6, <3>1, <3>2
  <2> HIDE DEF es
  <2>8. Range(es) = {OfferedOption(q) : q \in publisher.qosGroups}
    BY <2>4, <2>5, <2>6, <2>7 DEF Range
  <2>9. IsInjective(es)
    <3>1. \A p, q \in publisher.qosGroups : OfferedOption(p) = OfferedOption(q) => p = q
      BY OfferedOptionType
    <3> QED  BY <2>4, <2>5, <2>6, <2>7, <3>1 DEF IsInjective
  <2>10. /\ cs \in Seq(Option) /\ Len(cs) = Cardinality(K) /\ IsInjective(cs)
         /\ Range(cs) \subseteq ConfigurationOptions /\ Cardinality(K) \in Nat
    <3>1. K \in SUBSET Configurations  BY Announced
    <3> HIDE DEF K
    <3> QED  BY <3>1, ConfigurationsWritten
  <2>11. m = SomeIpSDHeader("OFFER", Publisher, to, Len(gs) + Cardinality(K), es \o cs)
    BY <1>2, <2>5 DEF Offer, es, groups
  <2> HIDE DEF cs, K
  <2>12. Range(es) \cap ConfigurationOptions = {}
    <3>1. \A q \in publisher.qosGroups : OfferedOption(q) \notin ConfigurationOptions
      BY OfferedOptionType DEF UnicastOptions, MulticastOptions, ConfigurationOptions
    <3> QED  BY <2>8, <3>1
  <2>13. /\ es \o cs \in Seq(Option) /\ Len(es \o cs) = Len(gs) + Cardinality(K)
         /\ IsInjective(es \o cs) /\ Range(es \o cs) = Range(es) \cup Range(cs)
    BY <2>7, <2>9, <2>10, <2>12, Concatenation
  <2>14. Range(es \o cs) \ ConfigurationOptions = {OfferedOption(q) : q \in publisher.qosGroups}
    BY <2>8, <2>10, <2>12, <2>13
  <2>15. OfferWritten(m)
    BY <1>2, <2>11, <2>13, <2>14 DEF OfferWritten, SomeIpSDHeader
  <2> QED  BY <2>15 DEF n
<1> QED  BY <1>1, <1>2
-----------------------------------------------------------------------------
(* Reading an offer.                                                       *)

LEMMA SingleElement ==
    ASSUME NEW A, NEW s \in Seq(A), IsInjective(s), NEW o, Range(s) = {o}
    PROVE  s = <<o>>
<1>1. DOMAIN s = 1..Len(s) /\ Len(s) \in Nat  OBVIOUS
<1>2. \A i \in 1..Len(s) : s[i] = o  BY <1>1 DEF Range
<1>3. Len(s) # 0  BY <1>1 DEF Range
<1>4. ~(Len(s) > 1)
  <2>1. ASSUME Len(s) > 1 PROVE FALSE
    <3>1. 1 \in DOMAIN s /\ 2 \in DOMAIN s  BY <1>1, <2>1
    <3>2. s[1] = s[2]  BY <1>1, <1>2, <3>1
    <3> QED  BY <3>1, <3>2 DEF IsInjective
  <2> QED  BY <2>1
<1>5. Len(s) = 1  BY <1>1, <1>3, <1>4
<1> QED  BY <1>2, <1>5

LEMMA OptionKinds ==
    ASSUME NEW o \in Option
    PROVE  o \in UnicastOptions \cup MulticastOptions <=> o \notin ConfigurationOptions
BY DEF Option, UnicastOptions, MulticastOptions, ConfigurationOptions

LEMMA AllOptions ==
    ASSUME NEW m, m.options \in Seq(Option), m.num1stOptions = Len(m.options)
    PROVE  FirstOptions(m) = m.options
<1>1. PICK s \in Seq(Option) : s = m.options  OBVIOUS
<1>2. SubSeq(s, 1, Len(s)) = s  OBVIOUS
<1> QED  BY <1>1, <1>2 DEF FirstOptions

LEMMA EndpointOptionsOf ==
    ASSUME NEW m, m.options \in Seq(Option), m.num1stOptions = Len(m.options)
    PROVE  /\ EndpointOptions(m) \in Seq(Option)
           /\ Range(EndpointOptions(m)) = Range(m.options) \ ConfigurationOptions
           /\ IsInjective(m.options) => IsInjective(EndpointOptions(m))
<1>1. PICK s \in Seq(Option) : s = m.options  OBVIOUS
<1>2. EndpointOptions(m) = InOrder(s, UnicastOptions \cup MulticastOptions)
  BY <1>1, AllOptions DEF EndpointOptions
<1>3. Range(s) \subseteq Option  BY DEF Range
<1>4. Range(s) \cap (UnicastOptions \cup MulticastOptions) = Range(s) \ ConfigurationOptions
  BY <1>3, OptionKinds
<1> QED  BY <1>1, <1>2, <1>4, InOrderSelects

LEMMA AddressRead ==
    ASSUME NEW es \in Seq(Option),
           \A o \in Range(es) : o \in UnicastOptions => o.address = Publisher
    PROVE  /\ ReadAddress(es) \in Notifications
           /\ ReadAddress(es).qosGroups = {} /\ ReadAddress(es).mcastDest = None
           /\ ReadAddress(es).address =
                 IF Range(es) \cap UnicastOptions = {} THEN None ELSE Publisher
<1>1. PICK u : u = InOrder(es, UnicastOptions)  OBVIOUS
<1>2. u \in Seq(Option) /\ Range(u) = Range(es) \cap UnicastOptions
  BY <1>1, InOrderSelects
<1>3. ReadAddress(es) = IF u = <<>> THEN Notification
                        ELSE [Notification EXCEPT !.address = Last(u).address]
  BY <1>1 DEF ReadAddress
<1>4. CASE u = <<>>
  <2>1. Range(u) = {}  BY <1>4 DEF Range
  <2>2. ReadAddress(es) = Notification  BY <1>3, <1>4
  <2> QED  BY <1>2, <2>1, <2>2, EmptyNotification DEF Notification
<1>5. CASE u # <<>>
  <2>1. Len(u) \in DOMAIN u /\ Last(u) = u[Len(u)]  BY <1>2, <1>5 DEF Last
  <2>2. Last(u) \in Range(u)  BY <2>1 DEF Range
  <2>3. Last(u).address = Publisher  BY <1>2, <2>2
  <2>4. ReadAddress(es) = [Notification EXCEPT !.address = Publisher]
    BY <1>3, <1>5, <2>3
  <2> QED
    BY <1>2, <2>2, <2>4, EmptyNotification DEF Notification, Notifications, Hosts
<1> QED  BY <1>4, <1>5

\* n is what a reader makes of an offer: all that matters is true of the publisher.
TrueOffer(n) ==
    /\ n \in Notifications /\ n.address = Publisher
    /\ n.qosGroups \subseteq publisher.qosGroups
    /\ "SOMEIP_UDP_MCAST" \in n.qosGroups => n.mcastDest = publisher.mcastDest

LEMMA SourceOfOffer ==
    ASSUME KnownHosts, NEW m, OfferWritten(m), NEW n \in Notifications,
           n.address \in {None, Publisher}, n.qosGroups \subseteq publisher.qosGroups,
           "SOMEIP_UDP_MCAST" \in n.qosGroups => n.mcastDest = publisher.mcastDest
    PROVE  TrueOffer(AddressOrSource(n, m))
<1>1. m.from = Publisher /\ Publisher \in Hosts  BY DEF OfferWritten, Hosts
<1>2. CASE n.address = None
  <2>1. AddressOrSource(n, m) = [n EXCEPT !.address = Publisher]
    BY <1>1, <1>2 DEF AddressOrSource
  <2> QED  BY <1>1, <2>1 DEF TrueOffer, Notifications
<1>3. CASE n.address # None
  BY <1>3 DEF AddressOrSource, TrueOffer
<1> QED  BY <1>2, <1>3

\* An option without a protocol cannot be read.
LEMMA AddressOnly ==
    ASSUME NEW o, o = EndpointOption(Publisher, None, None)
    PROVE  /\ o \in UnicastOptions /\ o \in Option /\ o.address = Publisher
           /\ ReadOptions(<<o>>) = {}
<1>1. o \in UnicastOptions /\ o.address = Publisher /\ o.protocol = None
  BY DEF EndpointOption, UnicastOptions, Hosts
<1>2. o \in Option  BY <1>1 DEF Option
<1>3. Unreadable(Notification, o)  BY <1>1 DEF Unreadable
<1>4. ReadOptions(<<o>>) = {}  BY <1>2, <1>3, ReadOne
<1> QED  BY <1>1, <1>2, <1>4

\* The endpoint options of an offer.
LEMMA EndpointsOfOffer ==
    ASSUME KnownHosts, NEW m, OfferWritten(m)
    PROVE  /\ EndpointOptions(m) \in Seq(Option) /\ IsInjective(EndpointOptions(m))
           /\ Range(EndpointOptions(m)) =
                 IF publisher.hasQoSNP THEN {EndpointOption(Publisher, None, None)}
                 ELSE {OfferedOption(q) : q \in publisher.qosGroups}
<1>1. /\ EndpointOptions(m) \in Seq(Option) /\ IsInjective(EndpointOptions(m))
      /\ Range(EndpointOptions(m)) = Range(m.options) \ ConfigurationOptions
  BY EndpointOptionsOf DEF OfferWritten
<1>2. CASE publisher.hasQoSNP
  <2>1. PICK o : o = EndpointOption(Publisher, None, None)  OBVIOUS
  <2>2. o \in UnicastOptions /\ o \in Option  BY <2>1, AddressOnly
  <2>3. m.options = <<o>>  BY <1>2, <2>1 DEF OfferWritten
  <2>4. Range(<<o>>) = {o}  BY DEF Range
  <2>5. o \notin ConfigurationOptions  BY <2>2, OptionKinds
  <2> QED  BY <1>1, <1>2, <2>1, <2>3, <2>4, <2>5
<1>3. CASE ~publisher.hasQoSNP
  BY <1>1, <1>3 DEF OfferWritten
<1> QED  BY <1>1, <1>2, <1>3

LEMMA UnicastOfOffer ==
    ASSUME KnownHosts, NEW m, OfferWritten(m), NEW o \in Range(EndpointOptions(m)),
           o \in UnicastOptions
    PROVE  o.address = Publisher
<1>1. CASE publisher.hasQoSNP
  BY <1>1, EndpointsOfOffer, AddressOnly
<1>2. CASE ~publisher.hasQoSNP
  <2>1. PICK q \in publisher.qosGroups : o = OfferedOption(q)
    BY <1>2, EndpointsOfOffer
  <2> QED  BY <2>1, OfferedOptionType
<1> QED  BY <1>1, <1>2, PublisherParameters

\* Whoever can read an offer learns nothing wrong.
LEMMA OfferRead ==
    ASSUME KnownHosts, NEW m, OfferWritten(m), NEW n \in ReadOffer(m.to, m)
    PROVE  TrueOffer(n)
<1>1. PICK es \in Seq(Option) : es = EndpointOptions(m)  BY EndpointsOfOffer
<1>2. PICK x : /\ x.address # None \/ x.mcastDest # None
               /\ n = AddressOrSource(x, m)
               /\ IF reader[m.to].hasQoSNP THEN x = ReadAddress(es) ELSE x \in ReadOptions(es)
  BY <1>1 DEF ReadOffer
<1>3. /\ x \in Notifications /\ x.address \in {None, Publisher}
      /\ x.qosGroups \subseteq publisher.qosGroups
      /\ "SOMEIP_UDP_MCAST" \in x.qosGroups => x.mcastDest = publisher.mcastDest
  <2>1. CASE reader[m.to].hasQoSNP
    <3>1. \A o \in Range(es) : o \in UnicastOptions => o.address = Publisher
      BY <1>1, UnicastOfOffer
    <3> QED  BY <1>2, <2>1, <3>1, AddressRead
  <2>2. CASE ~reader[m.to].hasQoSNP /\ publisher.hasQoSNP
    <3>1. PICK o : o = EndpointOption(Publisher, None, None)  OBVIOUS
    <3>2. es = <<o>>  BY <1>1, <2>2, <3>1, EndpointsOfOffer, SingleElement
    <3> QED  BY <1>2, <2>2, <3>1, <3>2, AddressOnly
  <2>3. CASE ~reader[m.to].hasQoSNP /\ ~publisher.hasQoSNP
    <3>1. PICK G : G = publisher.qosGroups  OBVIOUS
    <3>2. IsInjective(es) /\ Range(es) = {OfferedOption(q) : q \in G}
      BY <1>1, <2>3, <3>1, EndpointsOfOffer
    <3>3. PICK y \in Notifications : ReadOptions(es) = {y} /\ SaysOffered(y, G)
      BY <3>1, <3>2, ReadOffered
    <3>4. x = y  BY <1>2, <2>3, <3>3
    <3> QED  BY <3>1, <3>3, <3>4 DEF SaysOffered
  <2> QED  BY <2>1, <2>2, <2>3
<1> QED  BY <1>2, <1>3, SourceOfOffer

\* Hosts that both have the negotiation protocol or both do not can read each
\* other's offers, if any QoS group is offered.
LEMMA OfferReadable ==
    ASSUME KnownHosts, NEW m, OfferWritten(m), publisher.qosGroups # {},
           reader[m.to].hasQoSNP = publisher.hasQoSNP
    PROVE  ReadOffer(m.to, m) # {}
<1>1. PICK es \in Seq(Option) : es = EndpointOptions(m)  BY EndpointsOfOffer
<1>2. CASE publisher.hasQoSNP
  <2>1. PICK o : o = EndpointOption(Publisher, None, None)  OBVIOUS
  <2>2. Range(es) = {o} /\ o \in UnicastOptions
    BY <1>1, <1>2, <2>1, EndpointsOfOffer, AddressOnly
  <2>3. \A x \in Range(es) : x \in UnicastOptions => x.address = Publisher
    BY <1>1, UnicastOfOffer
  <2>4. ReadAddress(es).address = Publisher  BY <2>2, <2>3, AddressRead
  <2>5. Publisher # None  BY SomeIpSDMessagesAssumption DEF Hosts
  <2> QED  BY <1>1, <1>2, <2>4, <2>5 DEF ReadOffer
<1>3. CASE ~publisher.hasQoSNP
  <2>1. PICK G : G = publisher.qosGroups  OBVIOUS
  <2>2. IsInjective(es) /\ Range(es) = {OfferedOption(q) : q \in G}
    BY <1>1, <1>3, <2>1, EndpointsOfOffer
  <2>3. PICK y \in Notifications : ReadOptions(es) = {y} /\ SaysOffered(y, G)
    BY <2>1, <2>2, ReadOffered
  <2>4. y.address # None \/ y.mcastDest # None
    <3>1. Publisher # None  BY SomeIpSDMessagesAssumption DEF Hosts
    <3>2. CASE "SOMEIP_UDP_MCAST" \in G
      BY <2>1, <2>3, <3>2, SomeIpSDMessagesAssumption DEF SaysOffered, KnownHosts
    <3>3. CASE "SOMEIP_UDP_MCAST" \notin G
      BY <2>1, <2>3, <3>1, <3>3 DEF SaysOffered
    <3> QED  BY <3>2, <3>3
  <2> QED  BY <1>1, <1>3, <2>3, <2>4 DEF ReadOffer
<1> QED  BY <1>2, <1>3, PublisherParameters
-----------------------------------------------------------------------------
(* Subscriptions and their acknowledgements.                               *)

\* The option of reader r for QoS group q, and the port it sends along with it.
RequestedOption(r, q) == HostOption(r, reader[r].tcpPort[q], reader[r].udpPort[q], q)
RemotePort(r, q) == IF q = "SOMEIP_UDP" THEN reader[r].udpPort[q] ELSE None

SubscribeWritten(m) ==
    /\ m.type = "SUBSCRIBE" /\ m.from \in Readers /\ m.to = Publisher
    /\ m.options \in Seq(Option) /\ m.num1stOptions = Len(m.options)
    /\ \E q \in reader[m.from].requests \cap publisher.qosGroups :
          Range(m.options) \ ConfigurationOptions = {RequestedOption(m.from, q)}

\* An acknowledgement is sent after the publisher's endpoint was told.
AckWritten(m) ==
    /\ m.type = "SUBSCRIBEACK" /\ m.from = Publisher /\ m.to \in Readers
    /\ \E q \in reader[m.to].requests \cap publisher.qosGroups :
          /\ m.options = <<OfferedOption(q)>> /\ m.num1stOptions = 1
          /\ q \in DOMAIN remotes => <<m.to, RemotePort(m.to, q)>> \in remotes[q]

LEMMA RequestedOptionType ==
    ASSUME KnownHosts, NEW r \in Readers, NEW q \in reader[r].requests \cap publisher.qosGroups
    PROVE  /\ r \in Hosts /\ reader[r].tcpPort[q] \in Ports /\ reader[r].udpPort[q] \in Ports
           /\ RequestedOption(r, q) \in Option
           /\ RequestedOption(r, q) \notin ConfigurationOptions
           /\ GroupOf(RequestedOption(r, q)) = q
<1>1. r \in Hosts /\ reader[r].tcpPort[q] \in Ports /\ reader[r].udpPort[q] \in Ports
  BY ReaderParameters DEF Hosts
<1>2. PICK o : o = RequestedOption(r, q)  OBVIOUS
<1>3. /\ o \in Option /\ o \in UnicastOptions \cup MulticastOptions /\ GroupOf(o) = q
  BY <1>1, <1>2, HostOptionType DEF RequestedOption
<1> QED  BY <1>1, <1>2, <1>3, OptionKinds

\* What is subscribed with a true offer says what the connector has.
LEMMA SubscribeIsWritten ==
    ASSUME KnownHosts, NEW r \in Readers, NEW n, TrueOffer(n),
           NEW q \in n.qosGroups \cap reader[r].requests
    PROVE  SubscribeWritten(SubscribeEventgroup(r, Subscription(r, n, q)))
<1> DEFINE s == Subscription(r, n, q)
           K == {"RealTime"} \cap reader[r].include \cap s.values
           cs == SetToSeq({ConfigurationOption(k) : k \in K})
<1>1. q \in reader[r].requests \cap publisher.qosGroups  BY DEF TrueOffer
<1>2. /\ s.address = Publisher /\ s.qosGroup = q /\ s.mcastDest = n.mcastDest
      /\ s.tcpPort = reader[r].tcpPort[q] /\ s.udpPort = reader[r].udpPort[q]
  BY DEF TrueOffer, Subscription, Notification
<1>3. PICK m : m = SubscribeEventgroup(r, s)  OBVIOUS
<1>4. PICK o : o = RequestedOption(r, q)  OBVIOUS
<1> HIDE DEF s
<1>5. CreateIpv4Endpoint(r, s, s.qosGroup) = o
  <2>1. q \in {"SOMEIP_TCP", "SOMEIP_UDP", "SOMEIP_UDP_MCAST"}
    BY <1>1, PublisherParameters, Names
  <2>2. CASE q = "SOMEIP_UDP_MCAST"
    <3>1. s.mcastDest = publisher.mcastDest  BY <1>2, <2>2 DEF TrueOffer
    <3> QED  BY <1>2, <1>4, <2>2, <3>1 DEF CreateIpv4Endpoint, RequestedOption, HostOption
  <2>3. CASE q # "SOMEIP_UDP_MCAST"
    BY <1>2, <1>4, <2>1, <2>3 DEF CreateIpv4Endpoint, RequestedOption, HostOption
  <2> QED  BY <2>2, <2>3
<1>6. o \in Option /\ o \notin ConfigurationOptions  BY <1>1, <1>4, RequestedOptionType
<1>7. /\ cs \in Seq(Option) /\ Len(cs) = Cardinality(K)
      /\ Range(cs) \subseteq ConfigurationOptions /\ Cardinality(K) \in Nat
  <2>1. K \in SUBSET Configurations  BY DEF Configurations
  <2> HIDE DEF K
  <2> QED  BY <2>1, ConfigurationsWritten
<1>8. m = SomeIpSDHeader("SUBSCRIBE", r, Publisher, 1 + Cardinality(K), <<o>> \o cs)
  BY <1>2, <1>3, <1>5 DEF SubscribeEventgroup
<1> HIDE DEF cs, K
<1>9. <<o>> \in Seq(Option) /\ Len(<<o>>) = 1 /\ Range(<<o>>) = {o}
  BY <1>6 DEF Range
<1>10. /\ <<o>> \o cs \in Seq(Option) /\ Len(<<o>> \o cs) = 1 + Cardinality(K)
       /\ Range(<<o>> \o cs) = {o} \cup Range(cs)
  <2>1. PICK t \in Seq(Option) : t = <<o>>  BY <1>9
  <2>2. /\ t \o cs \in Seq(Option) /\ Len(t \o cs) = Len(t) + Len(cs)
        /\ Range(t \o cs) = Range(t) \cup Range(cs)
    BY <1>7, Concatenation
  <2> QED  BY <1>7, <1>9, <2>1, <2>2
<1>11. Range(<<o>> \o cs) \ ConfigurationOptions = {o}
  BY <1>6, <1>7, <1>10
<1>12. SubscribeWritten(m)
  BY <1>1, <1>4, <1>8, <1>10, <1>11 DEF SubscribeWritten, SomeIpSDHeader
<1> QED  BY <1>3, <1>12 DEF s

\* The notification of a message with the option of host local for QoS group q.
OneGroup(n, local, tcpPort, udpPort, q) ==
    /\ n \in Notifications /\ n.qosGroups = {q} /\ n.address = local
    /\ n.mcastDest = IF q = "SOMEIP_UDP_MCAST" THEN publisher.mcastDest ELSE None
    /\ q = "SOMEIP_TCP" => n.tcpPort = tcpPort
    /\ n.udpPort = CASE q = "SOMEIP_TCP" -> tcpPort
                     [] q = "SOMEIP_UDP" -> udpPort
                     [] q = "SOMEIP_UDP_MCAST" -> None

LEMMA ReadOneGroup ==
    ASSUME KnownHosts, NEW local \in Hosts, NEW tcpPort \in Ports, NEW udpPort \in Ports,
           NEW q \in publisher.qosGroups, NEW o, o = HostOption(local, tcpPort, udpPort, q),
           NEW m, m.from = local
    PROVE  \E x : /\ ReadOptions(<<o>>) = {x} /\ x.qosGroups = {q}
                  /\ OneGroup(AddressOrSource(x, m), local, tcpPort, udpPort, q)
<1>1. PICK e \in Notifications : e = Notification  BY EmptyNotification
<1>2. /\ e.qosGroups = {} /\ e.address = None /\ e.mcastDest = None /\ e.udpPort = None
  BY <1>1 DEF Notification
<1>3. PICK u : u = UpdateFromEndpointOption(e, o)  OBVIOUS
<1>4. q \notin e.qosGroups  BY <1>2
<1>5. ~Unreadable(e, o) /\ Told(e, u, local, tcpPort, udpPort, q)
  BY <1>3, <1>4, HostOptionRead
<1>6. o \in Option  BY HostOptionType
<1>7. ReadOptions(<<o>>) = {u}  BY <1>1, <1>3, <1>5, <1>6, ReadOne
<1>8. PICK n : n = AddressOrSource(u, m)  OBVIOUS
<1>9. local # None  BY SomeIpSDMessagesAssumption
<1>10. q \in {"SOMEIP_TCP", "SOMEIP_UDP", "SOMEIP_UDP_MCAST"}
  BY PublisherParameters, Names
<1>11. OneGroup(n, local, tcpPort, udpPort, q)
  <2>1. CASE q = "SOMEIP_UDP_MCAST"
    <3>1. u.address = None  BY <1>2, <1>5, <2>1 DEF Told
    <3>2. n = [u EXCEPT !.address = local]  BY <1>8, <3>1 DEF AddressOrSource
    <3>3. /\ u \in Notifications /\ u.qosGroups = {q} /\ u.mcastDest = publisher.mcastDest
          /\ u.udpPort = None
      BY <1>2, <1>5, <2>1 DEF Told
    <3>4. /\ n \in Notifications /\ n.address = local /\ n.qosGroups = u.qosGroups
          /\ n.mcastDest = u.mcastDest /\ n.udpPort = u.udpPort
      BY <3>2, <3>3 DEF Notifications
    <3> QED  BY <2>1, <3>3, <3>4 DEF OneGroup
  <2>2. CASE q # "SOMEIP_UDP_MCAST"
    <3>1. u.address = local  BY <1>5, <2>2 DEF Told
    <3>2. n = u  BY <1>8, <1>9, <3>1 DEF AddressOrSource
    <3> QED  BY <1>2, <1>5, <1>10, <2>2, <3>1, <3>2 DEF Told, OneGroup
  <2> QED  BY <2>1, <2>2
<1>12. u.qosGroups = {q}  BY <1>2, <1>5 DEF Told
<1> QED  BY <1>7, <1>8, <1>11, <1>12

\* What the publisher takes from a subscription: the subscriber's address and
\* the port of its connector.
Subscriber(n, r, q) ==
    /\ n.address = r /\ n.qosGroup = q
    /\ n.mcastDest = IF q = "SOMEIP_UDP_MCAST" THEN publisher.mcastDest ELSE None
    /\ q \in {"SOMEIP_UDP", "SOMEIP_UDP_MCAST"} => n.udpPort = RemotePort(r, q)

LEMMA SubscribeRead ==
    ASSUME KnownHosts, NEW m, SubscribeWritten(m), ProcessSubscribeEventGroupEntry(m)
    PROVE  \E q \in reader[m.from].requests \cap publisher.qosGroups : \E n :
              /\ Subscriber(n, m.from, q)
              /\ \/ Reply(m, {SubscribeEventgroupAck(Acknowledgement(n))}) /\ AddRemotes({n})
                 \/ Reply(m, {}) /\ AddRemotes({})
              /\ aborted' = FALSE
              /\ UNCHANGED <<hosts, requested, csi, found, offers, finds>>
<1>1. PICK r \in Readers : r = m.from  BY DEF SubscribeWritten
<1>2. PICK q \in reader[r].requests \cap publisher.qosGroups :
         Range(m.options) \ ConfigurationOptions = {RequestedOption(r, q)}
  BY <1>1 DEF SubscribeWritten
<1>3. PICK o : o = RequestedOption(r, q)  OBVIOUS
<1>4. Range(EndpointOptions(m)) = {o}
  BY <1>2, <1>3, EndpointOptionsOf DEF SubscribeWritten
<1>5. PICK x : /\ ReadOptions(<<o>>) = {x} /\ x.qosGroups = {q}
               /\ OneGroup(AddressOrSource(x, m), r, reader[r].tcpPort[q],
                           reader[r].udpPort[q], q)
  <2>1. r \in Hosts /\ reader[r].tcpPort[q] \in Ports /\ reader[r].udpPort[q] \in Ports
    BY <1>2, RequestedOptionType
  <2>2. o = HostOption(r, reader[r].tcpPort[q], reader[r].udpPort[q], q)
    BY <1>3 DEF RequestedOption
  <2>3. q \in publisher.qosGroups /\ m.from = r  BY <1>1, <1>2
  <2> QED  BY <2>1, <2>2, <2>3, ReadOneGroup
<1>6. PICK u : u = AddressOrSource(x, m)  OBVIOUS
<1>7. PICK n : n = [u EXCEPT !.qosGroup = q]  OBVIOUS
<1>8. Subscriber(n, r, q) /\ n.qosGroup \in publisher.qosGroups
  <2>1. u \in Notifications  BY <1>5, <1>6 DEF OneGroup
  <2>2. /\ n.address = u.address /\ n.qosGroup = q /\ n.mcastDest = u.mcastDest
        /\ n.udpPort = u.udpPort
    BY <1>7, <2>1 DEF Notifications
  <2> QED  BY <1>2, <1>5, <1>6, <2>2 DEF Subscriber, OneGroup, RemotePort
<1> DEFINE read == {ReadOptions(<<option>>) : option \in Range(EndpointOptions(m))}
           subscribed ==
             {[AddressOrSource(y, m) EXCEPT !.qosGroup = CHOOSE p \in y.qosGroups : TRUE] :
                 y \in UNION read}
           served == {y \in subscribed : /\ publisher.manager = "SomeIpManager"
                                         /\ y.qosGroup \in publisher.qosGroups}
<1>9. read = {{x}}  BY <1>4, <1>5
<1>10. subscribed = {n}
  <2>1. UNION read = {x}  BY <1>9
  <2>2. (CHOOSE p \in x.qosGroups : TRUE) = q  BY <1>5
  <2> HIDE DEF read
  <2>3. subscribed = {[AddressOrSource(x, m) EXCEPT !.qosGroup = CHOOSE p \in x.qosGroups : TRUE]}
    BY <2>1, Zenon
  <2> QED  BY <1>6, <1>7, <2>2, <2>3
<1>11. /\ Reply(m, UNION {ReceiveSignal("subscribeAckSignal", Publisher,
                                            Acknowledgement(y)) : y \in served})
       /\ AddRemotes(served)
       /\ aborted' = ({} \in read)
       /\ UNCHANGED <<hosts, requested, csi, found, offers, finds>>
  BY DEF ProcessSubscribeEventGroupEntry
<1>12. aborted' = FALSE
  <2>1. {} \notin read  BY <1>9
  <2>2. aborted' = ({} \in read)  BY <1>11
  <2> HIDE DEF read
  <2>3. ({} \in read) = FALSE  BY <2>1
  <2> QED  BY <2>2, <2>3
<1>13. \A y : ReceiveSignal("subscribeAckSignal", Publisher, Acknowledgement(y))
                 = {SubscribeEventgroupAck(Acknowledgement(y))}
  BY DEF ReceiveSignal
<1> HIDE DEF read, subscribed
<1>14. CASE publisher.manager = "SomeIpManager"
  <2>1. served = {n}  BY <1>8, <1>10, <1>14
  <2>2. Reply(m, {SubscribeEventgroupAck(Acknowledgement(n))}) /\ AddRemotes({n})
    BY <1>11, <1>13, <2>1
  <2> QED  BY <1>1, <1>2, <1>8, <1>11, <1>12, <2>2
<1>15. CASE publisher.manager # "SomeIpManager"
  <2>1. served = {}  BY <1>15
  <2>2. Reply(m, {}) /\ AddRemotes({})  BY <1>11, <2>1
  <2> QED  BY <1>1, <1>2, <1>8, <1>11, <1>12, <2>2
<1> QED  BY <1>14, <1>15

LEMMA AckIsWritten ==
    ASSUME KnownHosts, NEW r, NEW q \in publisher.qosGroups, NEW n, Subscriber(n, r, q),
           NEW m, m = SubscribeEventgroupAck(Acknowledgement(n))
    PROVE  /\ m.type = "SUBSCRIBEACK" /\ m.from = Publisher /\ m.to = r
           /\ m.options = <<OfferedOption(q)>> /\ m.num1stOptions = 1
<1>1. PICK a : a = Acknowledgement(n)  OBVIOUS
<1>2. /\ a.address = r /\ a.qosGroup = q /\ a.tcpPort = publisher.tcpPort
      /\ a.udpPort = publisher.udpPort /\ a.mcastDest = n.mcastDest
  BY <1>1 DEF Acknowledgement, Notification, Subscriber
<1>3. CreateIpv4Endpoint(Publisher, a, q) = OfferedOption(q)
  <2>1. q \in {"SOMEIP_TCP", "SOMEIP_UDP", "SOMEIP_UDP_MCAST"}
    BY PublisherParameters, Names
  <2> QED  BY <1>2, <2>1 DEF Subscriber, CreateIpv4Endpoint, OfferedOption, HostOption
<1>4. m = SomeIpSDHeader("SUBSCRIBEACK", Publisher, r, 1, <<OfferedOption(q)>>)
  BY <1>1, <1>2, <1>3 DEF SubscribeEventgroupAck
<1> QED  BY <1>4 DEF SomeIpSDHeader

\* What a subscriber takes from an acknowledgement is that of the publisher.
LEMMA AckRead ==
    ASSUME KnownHosts, NEW m, AckWritten(m), ProcessSubscribeEventGroupAckEntry(m)
    PROVE  \E q \in reader[m.to].requests \cap publisher.qosGroups : \E n :
              /\ OneGroup(n, Publisher, publisher.tcpPort, publisher.udpPort, q)
              /\ q \in DOMAIN remotes => <<m.to, RemotePort(m.to, q)>> \in remotes[q]
              /\ Reply(m, {})
              /\ csi' = [csi EXCEPT ![m.to] = [p \in DOMAIN csi[m.to] |->
                    IF p = q /\ q \in requested[m.to] /\ csi[m.to][p] = None
                    THEN ConnectionSpecificInformation(n, q) ELSE csi[m.to][p]]]
              /\ requested' = [requested EXCEPT ![m.to] = requested[m.to] \ {q}]
              /\ aborted' = FALSE
              /\ UNCHANGED <<hosts, found, remotes, offers, finds>>
<1>1. PICK q \in reader[m.to].requests \cap publisher.qosGroups :
         /\ m.options = <<OfferedOption(q)>> /\ m.num1stOptions = 1
         /\ q \in DOMAIN remotes => <<m.to, RemotePort(m.to, q)>> \in remotes[q]
  BY DEF AckWritten
<1>2. PICK o \in Option : o = OfferedOption(q)  BY <1>1, OfferedOptionType
<1>3. FirstOptions(m) = <<o>>
  <2>1. <<o>> \in Seq(Option) /\ Len(<<o>>) = 1  OBVIOUS
  <2>2. m.options \in Seq(Option) /\ m.num1stOptions = Len(m.options)
    BY <1>1, <1>2, <2>1
  <2> QED  BY <1>1, <1>2, <2>2, AllOptions
<1>4. PICK x : /\ ReadOptions(<<o>>) = {x} /\ x.qosGroups = {q}
               /\ OneGroup(AddressOrSource(x, m), Publisher, publisher.tcpPort,
                           publisher.udpPort, q)
  <2>1. Publisher \in Hosts /\ publisher.tcpPort \in Ports /\ publisher.udpPort \in Ports
    BY PublisherParameters DEF Hosts
  <2>2. o = HostOption(Publisher, publisher.tcpPort, publisher.udpPort, q)
    BY <1>2 DEF OfferedOption
  <2>3. q \in publisher.qosGroups /\ m.from = Publisher  BY <1>1 DEF AckWritten
  <2> QED  BY <2>1, <2>2, <2>3, ReadOneGroup
<1>5. PICK n : n = AddressOrSource(x, m)  OBVIOUS
<1>6. n.qosGroups = {q}  BY <1>4, <1>5 DEF OneGroup
<1> DEFINE read == {AddressOrSource(y, m) : y \in ReadOptions(FirstOptions(m))}
           acknowledged == (UNION {y.qosGroups : y \in read}) \cap requested[m.to]
<1>7. read = {n}  BY <1>3, <1>4, <1>5
<1>8. /\ Reply(m, {})
      /\ csi' = [csi EXCEPT ![m.to] = [p \in DOMAIN @ |->
            IF p \in acknowledged /\ @[p] = None
            THEN ConnectionSpecificInformation(CHOOSE y \in read : TRUE, p) ELSE @[p]]]
      /\ requested' = [requested EXCEPT ![m.to] = @ \ acknowledged]
      /\ aborted' = (read = {})
      /\ UNCHANGED <<hosts, found, remotes, offers, finds>>
  BY DEF ProcessSubscribeEventGroupAckEntry
<1> HIDE DEF read
<1>9. acknowledged = {q} \cap requested[m.to] /\ (CHOOSE y \in read : TRUE) = n
  <2>1. {y.qosGroups : y \in read} = {{q}}  BY <1>6, <1>7
  <2>2. UNION {y.qosGroups : y \in read} = {q}  BY <2>1
  <2>3. (CHOOSE y \in read : TRUE) = n  BY <1>7
  <2>4. acknowledged = {q} \cap requested[m.to]  BY <2>2, Zenon
  <2> QED  BY <2>3, <2>4
<1>10. aborted' = FALSE
  <2>1. (read = {}) = FALSE  BY <1>7
  <2> QED  BY <1>8, <2>1
<1> HIDE DEF acknowledged
<1>11. requested' = [requested EXCEPT ![m.to] = requested[m.to] \ {q}]
  <2>1. requested[m.to] \ acknowledged = requested[m.to] \ {q}  BY <1>9
  <2> QED  BY <1>8, <2>1
<1>12. csi' = [csi EXCEPT ![m.to] = [p \in DOMAIN csi[m.to] |->
                  IF p = q /\ q \in requested[m.to] /\ csi[m.to][p] = None
                  THEN ConnectionSpecificInformation(n, q) ELSE csi[m.to][p]]]
  <2>1. PICK c : c = CHOOSE y \in read : TRUE  OBVIOUS
  <2>2. c = n /\ \A p : p \in acknowledged <=> p = q /\ q \in requested[m.to]
    BY <1>9, <2>1
  <2>3. [p \in DOMAIN csi[m.to] |->
            IF p \in acknowledged /\ csi[m.to][p] = None
            THEN ConnectionSpecificInformation(c, p) ELSE csi[m.to][p]]
          = [p \in DOMAIN csi[m.to] |->
                IF p = q /\ q \in requested[m.to] /\ csi[m.to][p] = None
                THEN ConnectionSpecificInformation(n, q) ELSE csi[m.to][p]]
    BY <2>2
  <2> QED  BY <1>8, <2>1, <2>3
<1> QED  BY <1>1, <1>4, <1>5, <1>8, <1>10, <1>11, <1>12

-----------------------------------------------------------------------------
(* The inductive invariant.                                                *)

FindWritten(m) ==
    m.from \in Readers /\ m = SomeIpSDHeader("FIND", m.from, Publisher, 0, <<>>)

\* Every message says what its sender has.
Written(m) == FindWritten(m) \/ OfferWritten(m) \/ SubscribeWritten(m) \/ AckWritten(m)

\* What a subscriber was told about the endpoint of its publisher.
ToldTrue(c, q) ==
    /\ q \in publisher.qosGroups /\ c.address = Publisher
    /\ c.port = CASE q = "SOMEIP_TCP" -> publisher.tcpPort
                  [] q = "SOMEIP_UDP" -> publisher.udpPort
                  [] q = "SOMEIP_UDP_MCAST" -> None
    /\ c.dest = IF q = "SOMEIP_UDP_MCAST" THEN publisher.mcastDest ELSE None

LEMMA AddressesAgreeEach ==
    AddressesAgree <=>
      /\ \A r \in Readers : \A q \in reader[r].requests : csi[r][q] # None =>
            /\ ToldTrue(csi[r][q], q)
            /\ q \in DOMAIN remotes => <<r, RemotePort(r, q)>> \in remotes[q]
      /\ \A x \in remotes["SOMEIP_UDP"] :
            /\ "SOMEIP_UDP" \in reader[x[1]].requests
            /\ x[2] = reader[x[1]].udpPort["SOMEIP_UDP"]
BY DEF AddressesAgree, ToldTrue, RemotePort

LEMMA AgreeStays ==
    ASSUME AddressesAgree, UNCHANGED <<publisher, reader, csi, remotes>>
    PROVE  AddressesAgree'
<1>1. \A q, c : ToldTrue(c, q)' <=> ToldTrue(c, q)  BY DEF ToldTrue
<1> QED  BY <1>1, AddressesAgreeEach DEF AddressesAgree

\* What is known after a step that changes no host, told of the hosts before it.
LEMMA AgreeAfter ==
    ASSUME UNCHANGED <<publisher, reader>>,
           \A r \in Readers : \A q \in reader[r].requests : csi'[r][q] # None =>
              /\ ToldTrue(csi'[r][q], q)
              /\ q \in DOMAIN remotes' => <<r, RemotePort(r, q)>> \in remotes'[q],
           \A x \in remotes'["SOMEIP_UDP"] :
              /\ "SOMEIP_UDP" \in reader[x[1]].requests
              /\ x[2] = reader[x[1]].udpPort["SOMEIP_UDP"]
    PROVE  AddressesAgree'
<1>1. publisher' = publisher /\ reader' = reader  OBVIOUS
<1>2. ASSUME NEW r \in Readers, NEW q \in reader'[r].requests, csi'[r][q] # None
      PROVE  /\ q \in publisher'.qosGroups
             /\ csi'[r][q].address = Publisher
             /\ csi'[r][q].port = CASE q = "SOMEIP_TCP" -> publisher'.tcpPort
                                    [] q = "SOMEIP_UDP" -> publisher'.udpPort
                                    [] q = "SOMEIP_UDP_MCAST" -> None
             /\ csi'[r][q].dest = IF q = "SOMEIP_UDP_MCAST" THEN publisher'.mcastDest ELSE None
             /\ q \in DOMAIN remotes' =>
                  <<r, IF q = "SOMEIP_UDP" THEN reader'[r].udpPort[q] ELSE None>> \in remotes'[q]
  <2>1. /\ ToldTrue(csi'[r][q], q)
        /\ q \in DOMAIN remotes' => <<r, RemotePort(r, q)>> \in remotes'[q]
    BY <1>1, <1>2
  <2>2. PICK c : c = csi'[r][q]  OBVIOUS
  <2>3. ToldTrue(c, q)  BY <2>1, <2>2
  <2>4. /\ q \in publisher.qosGroups
        /\ c.address = Publisher
        /\ c.port = CASE q = "SOMEIP_TCP" -> publisher.tcpPort
                      [] q = "SOMEIP_UDP" -> publisher.udpPort
                      [] q = "SOMEIP_UDP_MCAST" -> None
        /\ c.dest = IF q = "SOMEIP_UDP_MCAST" THEN publisher.mcastDest ELSE None
    BY <2>3 DEF ToldTrue
  <2>5. q \in DOMAIN remotes' =>
           <<r, IF q = "SOMEIP_UDP" THEN reader'[r].udpPort[q] ELSE None>> \in remotes'[q]
    BY <1>1, <2>1 DEF RemotePort
  <2> QED  BY <1>1, <2>2, <2>4, <2>5
<1>3. ASSUME NEW x \in remotes'["SOMEIP_UDP"]
      PROVE  /\ "SOMEIP_UDP" \in reader'[x[1]].requests
             /\ x[2] = reader'[x[1]].udpPort["SOMEIP_UDP"]
  BY <1>1
<1> QED  BY <1>2, <1>3, Zenon DEF AddressesAgree

\* Messages in flight and what was made of earlier ones are true.
TrueMessages ==
    /\ KnownHosts
    /\ TypeOK
    /\ \A m \in BagToSet(net) : Written(m)
    /\ AddressesAgree

\* The part of the type invariant about one message.
MessageType(m) ==
    /\ m.type \in {"FIND", "OFFER", "SUBSCRIBE", "SUBSCRIBEACK"}
    /\ m.from \in Hosts /\ m.to \in Hosts \ {m.from}
    /\ m.num1stOptions \in Nat
    /\ m.options \in Seq(Option)

LEMMA WrittenTypes ==
    ASSUME KnownHosts, NEW m, Written(m)
    PROVE  MessageType(m) /\ m.num1stOptions = Len(m.options)
<1>1. Publisher \in Hosts /\ \A r \in Readers : r \in Hosts /\ r # Publisher
  BY SomeIpSDMessagesAssumption DEF Hosts
<1>2. CASE FindWritten(m)
  <2>1. <<>> \in Seq(Option) /\ Len(<<>>) = 0  OBVIOUS
  <2>2. /\ m.from \in Readers /\ m.type = "FIND" /\ m.to = Publisher
        /\ m.num1stOptions = 0 /\ m.options = <<>>
    BY <1>2 DEF FindWritten, SomeIpSDHeader
  <2> QED  BY <1>1, <2>1, <2>2 DEF MessageType
<1>3. CASE OfferWritten(m) \/ SubscribeWritten(m)
  <2>1. m.options \in Seq(Option) /\ m.num1stOptions = Len(m.options)
    BY <1>3 DEF OfferWritten, SubscribeWritten
  <2>2. m.num1stOptions \in Nat  BY <2>1
  <2> QED  BY <1>1, <1>3, <2>1, <2>2 DEF OfferWritten, SubscribeWritten, MessageType
<1>4. CASE AckWritten(m)
  <2>1. PICK q \in publisher.qosGroups : m.options = <<OfferedOption(q)>> /\ m.num1stOptions = 1
    BY <1>4 DEF AckWritten
  <2>2. PICK o \in Option : o = OfferedOption(q)  BY OfferedOptionType
  <2>3. <<o>> \in Seq(Option) /\ Len(<<o>>) = 1  OBVIOUS
  <2> QED  BY <1>1, <1>4, <2>1, <2>2, <2>3 DEF AckWritten, MessageType
<1> QED  BY <1>2, <1>3, <1>4 DEF Written

\* Messages stay true: hosts do not change and remotes are not forgotten.
LEMMA WrittenStays ==
    ASSUME UNCHANGED hosts, DOMAIN remotes' = DOMAIN remotes,
           \A q \in DOMAIN remotes : remotes[q] \subseteq remotes'[q],
           NEW m, Written(m)
    PROVE  Written(m)'
<1>1. publisher' = publisher /\ reader' = reader  BY DEF hosts
<1>2. \A q : OfferedOption(q)' = OfferedOption(q)
  BY <1>1 DEF OfferedOption, HostOption
<1>3. \A r, q : RequestedOption(r, q)' = RequestedOption(r, q)
  BY <1>1 DEF RequestedOption, HostOption
<1>4. \A r, q : RemotePort(r, q)' = RemotePort(r, q)
  BY <1>1 DEF RemotePort
<1>5. CASE FindWritten(m)  BY <1>5 DEF FindWritten, Written
<1>6. CASE OfferWritten(m)
  <2>1. OfferWritten(m)'  BY <1>1, <1>2, <1>6 DEF OfferWritten
  <2> QED  BY <2>1 DEF Written
<1>7. CASE SubscribeWritten(m)
  <2>1. SubscribeWritten(m)'  BY <1>1, <1>3, <1>7 DEF SubscribeWritten
  <2> QED  BY <2>1 DEF Written
<1>8. CASE AckWritten(m)
  <2>1. AckWritten(m)'  BY <1>1, <1>2, <1>4, <1>8 DEF AckWritten
  <2> QED  BY <2>1 DEF Written
<1> QED  BY <1>5, <1>6, <1>7, <1>8 DEF Written

\* Messages in flight after some were sent.
LEMMA SentBag ==
    ASSUME IsABag(net), NEW sent, net' = net (+) SetToBag(sent)
    PROVE  IsABag(net') /\ BagToSet(net') \subseteq BagToSet(net) \cup sent
BY DEF IsABag, BagToSet, SetToBag, (+)

LEMMA ReplyBag ==
    ASSUME IsABag(net), NEW m, NEW sent, Reply(m, sent)
    PROVE  IsABag(net') /\ BagToSet(net') \subseteq BagToSet(net) \cup sent
<1>1. PICK rest : rest = net (-) SetToBag({m})  OBVIOUS
<1>2. IsABag(rest) /\ BagToSet(rest) \subseteq BagToSet(net)
  BY <1>1 DEF IsABag, BagToSet, SetToBag, (-)
<1>3. net' = rest (+) SetToBag(sent)  BY <1>1 DEF Reply
<1>4. IsABag(net') /\ BagToSet(net') \subseteq BagToSet(rest) \cup sent
  BY <1>2, <1>3 DEF IsABag, BagToSet, SetToBag, (+)
<1> QED  BY <1>2, <1>4

LEMMA InitiallyTrue ==
    ASSUME Init
    PROVE  TrueMessages
<1>1. KnownHosts  BY DEF Init, KnownHosts
<1>2. IsABag(net) /\ BagToSet(net) = {}
  BY DEF Init, EmptyBag, SetToBag, IsABag, BagToSet
<1>3. TypeOK
  <2>1. publisher \in Offering /\ reader \in [Readers -> UNION {Requesting[r] : r \in Readers}]
    BY DEF Init
  <2>2. /\ requested \in [Readers -> SUBSET SOMEIP] /\ found \in [Readers -> {None, Publisher}]
        /\ DOMAIN csi = Readers /\ DOMAIN finds = Readers
        /\ \A r \in Readers : requested[r] \subseteq reader[r].requests
    BY DEF Init
  <2>3. ASSUME NEW r \in Readers
        PROVE  csi[r] = [q \in reader[r].requests |-> None] /\ finds[r] \in 0..MaxFinds[r]
    BY SomeIpSDMessagesAssumption DEF Init
  <2>4. /\ offers \in 0..MaxOffers /\ aborted \in BOOLEAN
        /\ remotes \in [{"SOMEIP_UDP", "SOMEIP_UDP_MCAST"} ->
                            SUBSET (Readers \X (Ports \cup {None}))]
    <3>1. MaxOffers \in Nat  BY SomeIpSDMessagesAssumption
    <3>2. offers = 0 /\ aborted = FALSE
          /\ remotes = [q \in {"SOMEIP_UDP", "SOMEIP_UDP_MCAST"} |-> {}]
      BY DEF Init
    <3>3. remotes \in [{"SOMEIP_UDP", "SOMEIP_UDP_MCAST"} ->
                          SUBSET (Readers \X (Ports \cup {None}))]
      BY <3>2
    <3>4. aborted \in BOOLEAN  BY <3>2
    <3>5. offers \in 0..MaxOffers  BY <3>1, <3>2
    <3> QED  BY <3>3, <3>4, <3>5
  <2> QED  BY <1>2, <2>1, <2>2, <2>3, <2>4 DEF TypeOK
<1>4. AddressesAgree
  BY DEF Init, AddressesAgree
<1> QED  BY <1>1, <1>2, <1>3, <1>4 DEF TrueMessages

\* Messages in flight after a step are true if those that were sent are.
LEMMA MessagesStayTrue ==
    ASSUME TrueMessages, UNCHANGED hosts, DOMAIN remotes' = DOMAIN remotes,
           \A q \in DOMAIN remotes : remotes[q] \subseteq remotes'[q],
           NEW sent, BagToSet(net') \subseteq BagToSet(net) \cup sent,
           \A m \in sent : Written(m)' /\ MessageType(m)
    PROVE  /\ KnownHosts'
           /\ \A m \in BagToSet(net') : Written(m)' /\ MessageType(m)
<1>1. KnownHosts'  BY DEF TrueMessages, KnownHosts, hosts
<1>2. ASSUME NEW m \in BagToSet(net) PROVE Written(m)' /\ MessageType(m)
  BY WrittenStays, WrittenTypes DEF TrueMessages
<1> QED  BY <1>1, <1>2

\* Steps that only send messages.
LEMMA OnlySends ==
    ASSUME TrueMessages, NEW sent, \A m \in sent : Written(m),
           IsABag(net'), BagToSet(net') \subseteq BagToSet(net) \cup sent,
           UNCHANGED <<hosts, csi, remotes>>,
           requested' \in [Readers -> SUBSET SOMEIP],
           \A r \in Readers : requested'[r] \subseteq reader[r].requests,
           found' \in [Readers -> {None, Publisher}],
           offers' \in 0..MaxOffers, DOMAIN finds' = Readers,
           \A r \in Readers : finds'[r] \in 0..MaxFinds[r], aborted' \in BOOLEAN
    PROVE  TrueMessages'
<1>1. UNCHANGED <<publisher, reader, csi, remotes>>  BY DEF hosts
<1>2. \A m \in sent : Written(m)' /\ MessageType(m)
  BY <1>1, WrittenStays, WrittenTypes DEF TrueMessages, hosts
<1>3. KnownHosts' /\ \A m \in BagToSet(net') : Written(m)' /\ MessageType(m)
  BY <1>1, <1>2, MessagesStayTrue
<1>4. TypeOK'
  BY <1>1, <1>3 DEF TrueMessages, TypeOK, MessageType
<1>5. AddressesAgree'
  BY <1>1, AgreeStays DEF TrueMessages
<1> QED  BY <1>3, <1>4, <1>5 DEF TrueMessages

LEMMA OfferedAddress ==
    ASSUME NEW a
    PROVE  ServiceOffering(a).address = a
BY DEF ServiceOffering, Notification

\* Offers to all readers, or to the one that looks for the service.
LEMMA OffersTrue ==
    ASSUME KnownHosts, NEW a \in Readers \cup {None},
           NEW m \in ReceiveSignal("findResultSignal", Publisher, ServiceOffering(a))
    PROVE  Written(m)
<1>1. PICK to \in SendTo(a) : m = Offer(ServiceOffering(a), to)
  BY OfferedAddress DEF ReceiveSignal
<1>2. to \in Readers  BY <1>1 DEF SendTo
<1> QED  BY <1>1, <1>2, OfferIsWritten DEF Written

LEMMA ExecuteKeepsTrue ==
    ASSUME TrueMessages, ExecuteSdForServiceState
    PROVE  TrueMessages'
<1> DEFINE sent == ReceiveSignal("findResultSignal", Publisher, ServiceOffering(None))
<1>1. \A m \in sent : Written(m)  BY OffersTrue DEF TrueMessages
<1>2. net' = net (+) SetToBag(sent)  BY DEF ExecuteSdForServiceState
<1> HIDE DEF sent
<1>3. IsABag(net') /\ BagToSet(net') \subseteq BagToSet(net) \cup sent
  BY <1>2, SentBag DEF TrueMessages, TypeOK
<1>4. /\ UNCHANGED <<hosts, csi, remotes, requested, found, finds, aborted>>
      /\ offers' \in 0..MaxOffers
  BY SomeIpSDMessagesAssumption DEF ExecuteSdForServiceState, TrueMessages, TypeOK
<1>5. UNCHANGED reader  BY <1>4 DEF hosts
<1> QED  BY <1>1, <1>3, <1>4, <1>5, OnlySends DEF TrueMessages, TypeOK

LEMMA FindKeepsTrue ==
    ASSUME TrueMessages, NEW r \in Readers, Find(r)
    PROVE  TrueMessages'
<1> DEFINE sent == {SomeIpSDHeader("FIND", r, Publisher, 0, <<>>)}
<1>1. \A m \in sent : Written(m)
  BY DEF Written, FindWritten, SomeIpSDHeader
<1>2. net' = net (+) SetToBag(sent)  BY DEF Find
<1> HIDE DEF sent
<1>3. IsABag(net') /\ BagToSet(net') \subseteq BagToSet(net) \cup sent
  BY <1>2, SentBag DEF TrueMessages, TypeOK
<1>4. /\ UNCHANGED <<hosts, csi, remotes, requested, found, offers, aborted>>
      /\ DOMAIN finds' = Readers
      /\ \A x \in Readers : finds'[x] \in 0..MaxFinds[x]
  <2>1. /\ finds[r] < MaxFinds[r] /\ finds' = [finds EXCEPT ![r] = finds[r] + 1]
        /\ UNCHANGED <<hosts, csi, remotes, requested, found, offers, aborted>>
    BY DEF Find
  <2>2. DOMAIN finds = Readers /\ \A x \in Readers : finds[x] \in 0..MaxFinds[x]
    BY DEF TrueMessages, TypeOK
  <2>3. MaxFinds[r] \in Nat  BY SomeIpSDMessagesAssumption
  <2>4. finds[r] + 1 \in 0..MaxFinds[r]  BY <2>1, <2>2, <2>3
  <2> QED  BY <2>1, <2>2, <2>4
<1>5. UNCHANGED reader  BY <1>4 DEF hosts
<1> QED  BY <1>1, <1>3, <1>4, <1>5, OnlySends DEF TrueMessages, TypeOK

LEMMA ProcessFindKeepsTrue ==
    ASSUME TrueMessages, NEW m \in BagToSet(net), m.type = "FIND", ProcessFindEntry(m)
    PROVE  TrueMessages'
<1> DEFINE sent == IF publisher.manager = "SomeIpManager" /\ offers = 0 THEN {}
                   ELSE ReceiveSignal("findResultSignal", Publisher, ServiceOffering(m.from))
<1>1. m.from \in Readers
  BY DEF TrueMessages, Written, FindWritten, OfferWritten, SubscribeWritten, AckWritten
<1>2. \A x \in sent : Written(x)  BY <1>1, OffersTrue DEF TrueMessages
<1>3. Reply(m, sent)  BY DEF ProcessFindEntry
<1> HIDE DEF sent
<1>4. IsABag(net') /\ BagToSet(net') \subseteq BagToSet(net) \cup sent
  BY <1>3, ReplyBag DEF TrueMessages, TypeOK
<1>5. UNCHANGED <<hosts, csi, remotes, requested, found, offers, finds, aborted>>
  BY DEF ProcessFindEntry
<1>6. UNCHANGED reader  BY <1>5 DEF hosts
<1> QED  BY <1>2, <1>4, <1>5, <1>6, OnlySends DEF TrueMessages, TypeOK

LEMMA ProcessOfferKeepsTrue ==
    ASSUME TrueMessages, NEW m \in BagToSet(net), m.type = "OFFER", ProcessOfferEntry(m)
    PROVE  TrueMessages'
<1>1. OfferWritten(m) /\ m.to \in Readers
  BY DEF TrueMessages, Written, FindWritten, OfferWritten, SubscribeWritten, AckWritten,
         SomeIpSDHeader
<1>2. UNCHANGED <<hosts, csi, remotes, offers, finds>>  BY DEF ProcessOfferEntry
<1>3. UNCHANGED <<publisher, reader>>  BY <1>2 DEF hosts
<1>4. CASE aborted' = TRUE /\ UNCHANGED <<net, requested, found>>
  BY <1>2, <1>3, <1>4, OnlySends DEF TrueMessages, TypeOK
<1>5. ASSUME NEW n \in ReadOffer(m.to, m),
             Reply(m, UNION {ReceiveSignal("subscribeSignal", m.to, s) :
                                s \in Subscriptions(m.to, n)}),
             requested' = [requested EXCEPT ![m.to] = @ \cup Pending(m.to, n)],
             UNCHANGED <<found, aborted>>
      PROVE  TrueMessages'
  <2> DEFINE sent == UNION {ReceiveSignal("subscribeSignal", m.to, s) :
                               s \in Subscriptions(m.to, n)}
  <2>1. TrueOffer(n)  BY <1>1, OfferRead DEF TrueMessages
  <2>2. ASSUME NEW x \in sent PROVE Written(x)
    <3>1. PICK q \in Pending(m.to, n) : x = SubscribeEventgroup(m.to, Subscription(m.to, n, q))
      BY <2>2 DEF Subscriptions, ReceiveSignal
    <3>2. q \in n.qosGroups \cap reader[m.to].requests  BY <3>1 DEF Pending
    <3> QED  BY <1>1, <2>1, <3>1, <3>2, SubscribeIsWritten DEF TrueMessages, Written
  <2>3. Reply(m, sent)  BY <1>5
  <2> HIDE DEF sent
  <2>4. IsABag(net') /\ BagToSet(net') \subseteq BagToSet(net) \cup sent
    BY <2>3, ReplyBag DEF TrueMessages, TypeOK
  <2>5. Pending(m.to, n) \subseteq reader[m.to].requests /\ Pending(m.to, n) \subseteq SOMEIP
    BY <1>1, ReaderParameters DEF Pending, TrueMessages
  <2>6. /\ requested' \in [Readers -> SUBSET SOMEIP]
        /\ \A r \in Readers : requested'[r] \subseteq reader[r].requests
    BY <1>1, <1>5, <2>5 DEF TrueMessages, TypeOK
  <2> QED  BY <1>2, <1>3, <1>5, <2>2, <2>4, <2>6, OnlySends DEF TrueMessages, TypeOK
<1>6. ASSUME NEW n \in ReadOffer(m.to, m), Reply(m, {}),
             found' = [found EXCEPT ![m.to] = n.address], UNCHANGED <<requested, aborted>>
      PROVE  TrueMessages'
  <2>1. n.address = Publisher  BY <1>1, OfferRead DEF TrueMessages, TrueOffer
  <2>2. IsABag(net') /\ BagToSet(net') \subseteq BagToSet(net) \cup {}
    BY <1>6, ReplyBag DEF TrueMessages, TypeOK
  <2>3. found' \in [Readers -> {None, Publisher}]
    BY <1>6, <2>1 DEF TrueMessages, TypeOK
  <2> QED  BY <1>2, <1>3, <1>6, <2>2, <2>3, OnlySends DEF TrueMessages, TypeOK
<1> QED  BY <1>4, <1>5, <1>6 DEF ProcessOfferEntry

LEMMA NoRemotes ==
    ASSUME TypeOK, AddRemotes({})
    PROVE  remotes' = remotes
<1>1. \A p \in DOMAIN remotes : remotes'[p] = remotes[p]
  BY DEF AddRemotes
<1> QED  BY <1>1 DEF TypeOK, AddRemotes

LEMMA OneRemote ==
    ASSUME TypeOK, NEW n, NEW r, NEW q, Subscriber(n, r, q), AddRemotes({n})
    PROVE  /\ DOMAIN remotes' = DOMAIN remotes
           /\ \A p \in DOMAIN remotes :
                 remotes'[p] = remotes[p] \cup IF p = q THEN {<<r, RemotePort(r, q)>>} ELSE {}
<1>1. DOMAIN remotes' = DOMAIN remotes  BY DEF AddRemotes
<1>2. ASSUME NEW p \in DOMAIN remotes
      PROVE  remotes'[p] = remotes[p] \cup IF p = q THEN {<<r, RemotePort(r, q)>>} ELSE {}
  <2>1. remotes'[p] = remotes[p] \cup
                        {<<y.address, y.udpPort>> : y \in {x \in {n} : x.qosGroup = p}}
    BY DEF AddRemotes
  <2>2. p \in {"SOMEIP_UDP", "SOMEIP_UDP_MCAST"}  BY DEF TypeOK
  <2>3. CASE p = q
    <3>1. n.address = r /\ n.udpPort = RemotePort(r, q) /\ n.qosGroup = p
      BY <2>2, <2>3 DEF Subscriber
    <3>2. {<<y.address, y.udpPort>> : y \in {x \in {n} : x.qosGroup = p}}
            = {<<r, RemotePort(r, q)>>}
      BY <3>1
    <3> QED  BY <2>1, <2>3, <3>2
  <2>4. CASE p # q
    <3>1. n.qosGroup # p  BY <2>4 DEF Subscriber
    <3>2. {<<y.address, y.udpPort>> : y \in {x \in {n} : x.qosGroup = p}} = {}
      BY <3>1
    <3> QED  BY <2>1, <2>4, <3>2
  <2> QED  BY <2>3, <2>4
<1> QED  BY <1>1, <1>2

LEMMA ProcessSubscribeKeepsTrue ==
    ASSUME TrueMessages, NEW m \in BagToSet(net), m.type = "SUBSCRIBE",
           ProcessSubscribeEventGroupEntry(m)
    PROVE  TrueMessages'
<1>1. KnownHosts /\ TypeOK /\ AddressesAgree  BY DEF TrueMessages
<1>2. SubscribeWritten(m) /\ m.from \in Readers
  BY DEF TrueMessages, Written, FindWritten, OfferWritten, SubscribeWritten, AckWritten,
         SomeIpSDHeader
<1>3. PICK r \in Readers : r = m.from  BY <1>2
<1>4. PICK q \in reader[r].requests \cap publisher.qosGroups : \E n :
         /\ Subscriber(n, r, q)
         /\ \/ Reply(m, {SubscribeEventgroupAck(Acknowledgement(n))}) /\ AddRemotes({n})
            \/ Reply(m, {}) /\ AddRemotes({})
         /\ aborted' = FALSE
         /\ UNCHANGED <<hosts, requested, csi, found, offers, finds>>
  BY <1>1, <1>2, <1>3, SubscribeRead
<1>5. PICK n :
         /\ Subscriber(n, r, q)
         /\ \/ Reply(m, {SubscribeEventgroupAck(Acknowledgement(n))}) /\ AddRemotes({n})
            \/ Reply(m, {}) /\ AddRemotes({})
         /\ aborted' = FALSE
         /\ UNCHANGED <<hosts, requested, csi, found, offers, finds>>
  BY <1>4
<1>6. UNCHANGED <<publisher, reader>>  BY <1>5 DEF hosts
<1>7. aborted' \in BOOLEAN  BY <1>5
<1>8. CASE Reply(m, {}) /\ AddRemotes({})
  <2>1. remotes' = remotes  BY <1>1, <1>8, NoRemotes
  <2>2. IsABag(net') /\ BagToSet(net') \subseteq BagToSet(net) \cup {}
    BY <1>1, <1>8, ReplyBag DEF TypeOK
  <2>3. /\ requested' \in [Readers -> SUBSET SOMEIP] /\ found' \in [Readers -> {None, Publisher}]
        /\ \A x \in Readers : requested'[x] \subseteq reader[x].requests
        /\ offers' \in 0..MaxOffers /\ DOMAIN finds' = Readers
        /\ \A x \in Readers : finds'[x] \in 0..MaxFinds[x]
    BY <1>1, <1>5 DEF TypeOK
  <2>4. UNCHANGED <<hosts, csi, remotes>>  BY <1>5, <2>1
  <2>5. PICK sent : sent = {}  OBVIOUS
  <2>6. \A x \in sent : Written(x)  BY <2>5
  <2> QED  BY <1>7, <2>2, <2>3, <2>4, <2>5, <2>6, OnlySends
<1>9. CASE Reply(m, {SubscribeEventgroupAck(Acknowledgement(n))}) /\ AddRemotes({n})
  <2>1. PICK a : a = SubscribeEventgroupAck(Acknowledgement(n))  OBVIOUS
  <2>2. /\ a.type = "SUBSCRIBEACK" /\ a.from = Publisher /\ a.to = r
        /\ a.options = <<OfferedOption(q)>> /\ a.num1stOptions = 1
    BY <1>1, <1>5, <2>1, AckIsWritten
  <2>3. IsABag(net') /\ BagToSet(net') \subseteq BagToSet(net) \cup {a}
    BY <1>1, <1>9, <2>1, ReplyBag DEF TypeOK
  <2>4. /\ DOMAIN remotes' = DOMAIN remotes
        /\ \A p \in DOMAIN remotes :
              remotes'[p] = remotes[p] \cup IF p = q THEN {<<r, RemotePort(r, q)>>} ELSE {}
    BY <1>1, <1>5, <1>9, OneRemote
  <2>5. RemotePort(r, q)' = RemotePort(r, q) /\ OfferedOption(q)' = OfferedOption(q)
    BY <1>6 DEF RemotePort, OfferedOption, HostOption
  <2>6. AckWritten(a)'
    <3>1. q \in DOMAIN remotes' => <<r, RemotePort(r, q)>> \in remotes'[q]  BY <2>4
    <3>2. q \in reader'[r].requests \cap publisher'.qosGroups  BY <1>6
    <3> QED  BY <2>2, <2>5, <3>1, <3>2 DEF AckWritten
  <2>7. MessageType(a)
    <3>1. PICK o \in Option : o = OfferedOption(q)  BY <1>1, OfferedOptionType
    <3>2. <<o>> \in Seq(Option)  OBVIOUS
    <3>3. Publisher \in Hosts /\ r \in Hosts \ {Publisher}
      BY SomeIpSDMessagesAssumption DEF Hosts
    <3> QED  BY <2>2, <3>1, <3>2, <3>3 DEF MessageType
  <2>8. /\ KnownHosts'
        /\ \A x \in BagToSet(net') : Written(x)' /\ MessageType(x)
    <3>1. \A p \in DOMAIN remotes : remotes[p] \subseteq remotes'[p]  BY <2>4
    <3>2. \A x \in {a} : Written(x)' /\ MessageType(x)  BY <2>6, <2>7 DEF Written
    <3>3. UNCHANGED hosts  BY <1>5
    <3>4. PICK sent : sent = {a}  OBVIOUS
    <3>5. \A x \in sent : Written(x)' /\ MessageType(x)  BY <3>2, <3>4
    <3> QED  BY <2>3, <2>4, <3>1, <3>3, <3>4, <3>5, MessagesStayTrue
  <2>9. RemotePort(r, q) \in Ports \cup {None}
    BY <1>1, <1>5, ReaderParameters DEF RemotePort
  <2>10. remotes' \in [{"SOMEIP_UDP", "SOMEIP_UDP_MCAST"} ->
                          SUBSET (Readers \X (Ports \cup {None}))]
    <3>1. /\ remotes \in [{"SOMEIP_UDP", "SOMEIP_UDP_MCAST"} ->
                            SUBSET (Readers \X (Ports \cup {None}))]
          /\ remotes' = [p \in DOMAIN remotes |-> remotes'[p]]
      BY <1>1, <1>9 DEF TypeOK, AddRemotes
    <3>2. \A p \in DOMAIN remotes : remotes'[p] \in SUBSET (Readers \X (Ports \cup {None}))
      BY <2>4, <2>9, <3>1
    <3> QED  BY <3>1, <3>2
  <2>11. TypeOK'
    BY <1>1, <1>5, <1>6, <1>7, <2>3, <2>8, <2>10 DEF TypeOK, MessageType
  <2>12. AddressesAgree'
    <3>1. ASSUME NEW x \in Readers, NEW p \in reader[x].requests, csi[x][p] # None
          PROVE  /\ ToldTrue(csi[x][p], p)
                 /\ p \in DOMAIN remotes' => <<x, RemotePort(x, p)>> \in remotes'[p]
      BY <1>1, <2>4, <3>1, AddressesAgreeEach
    <3>2. ASSUME NEW x \in remotes'["SOMEIP_UDP"]
          PROVE  /\ "SOMEIP_UDP" \in reader[x[1]].requests
                 /\ x[2] = reader[x[1]].udpPort["SOMEIP_UDP"]
      <4>1. "SOMEIP_UDP" \in DOMAIN remotes  BY <1>1 DEF TypeOK
      <4>2. CASE x \in remotes["SOMEIP_UDP"]  BY <1>1, <4>2, AddressesAgreeEach
      <4>3. CASE x = <<r, RemotePort(r, q)>> /\ q = "SOMEIP_UDP"
        BY <1>5, <4>3 DEF RemotePort
      <4> QED  BY <2>4, <4>1, <4>2, <4>3
    <3>3. csi' = csi  BY <1>5
    <3> QED  BY <1>6, <3>1, <3>2, <3>3, AgreeAfter
  <2> QED  BY <2>8, <2>11, <2>12 DEF TrueMessages
<1> QED  BY <1>5, <1>8, <1>9

\* The endpoint of a subscriber is created with what its publisher has.
LEMMA ToldByOneGroup ==
    ASSUME KnownHosts, NEW q \in publisher.qosGroups, NEW n,
           OneGroup(n, Publisher, publisher.tcpPort, publisher.udpPort, q)
    PROVE  /\ ToldTrue(ConnectionSpecificInformation(n, q), q)
           /\ ConnectionSpecificInformation(n, q) \in
                 [address : Hosts, port : Ports \cup {None}, dest : {None} \cup (Groups \X Ports)]
<1>1. PICK c : c = ConnectionSpecificInformation(n, q)  OBVIOUS
<1>2. q \in {"SOMEIP_TCP", "SOMEIP_UDP", "SOMEIP_UDP_MCAST"}
  BY PublisherParameters, Names
<1>3. /\ c.address = Publisher
      /\ c.port = CASE q = "SOMEIP_TCP" -> publisher.tcpPort
                    [] q = "SOMEIP_UDP" -> publisher.udpPort
                    [] q = "SOMEIP_UDP_MCAST" -> None
      /\ c.dest = IF q = "SOMEIP_UDP_MCAST" THEN publisher.mcastDest ELSE None
      /\ c = [address |-> c.address, port |-> c.port, dest |-> c.dest]
  BY <1>1, <1>2 DEF OneGroup, ConnectionSpecificInformation
<1>4. /\ c.address \in Hosts /\ c.port \in Ports \cup {None}
      /\ c.dest \in {None} \cup (Groups \X Ports)
  <2>1. Publisher \in Hosts /\ publisher.tcpPort \in Ports /\ publisher.udpPort \in Ports
    BY PublisherParameters DEF Hosts
  <2>2. q = "SOMEIP_UDP_MCAST" => publisher.mcastDest \in Groups \X Ports
    BY PublisherParameters
  <2> QED  BY <1>2, <1>3, <2>1, <2>2
<1> QED  BY <1>1, <1>3, <1>4 DEF ToldTrue

LEMMA ProcessAckKeepsTrue ==
    ASSUME TrueMessages, NEW m \in BagToSet(net), m.type = "SUBSCRIBEACK",
           ProcessSubscribeEventGroupAckEntry(m)
    PROVE  TrueMessages'
<1>1. KnownHosts /\ TypeOK /\ AddressesAgree  BY DEF TrueMessages
<1>2. AckWritten(m) /\ m.to \in Readers
  BY DEF TrueMessages, Written, FindWritten, OfferWritten, SubscribeWritten, AckWritten,
         SomeIpSDHeader
<1>3. PICK q \in reader[m.to].requests \cap publisher.qosGroups : \E n :
         /\ OneGroup(n, Publisher, publisher.tcpPort, publisher.udpPort, q)
         /\ q \in DOMAIN remotes => <<m.to, RemotePort(m.to, q)>> \in remotes[q]
         /\ Reply(m, {})
         /\ csi' = [csi EXCEPT ![m.to] = [p \in DOMAIN csi[m.to] |->
               IF p = q /\ q \in requested[m.to] /\ csi[m.to][p] = None
               THEN ConnectionSpecificInformation(n, q) ELSE csi[m.to][p]]]
         /\ requested' = [requested EXCEPT ![m.to] = requested[m.to] \ {q}]
         /\ aborted' = FALSE
         /\ UNCHANGED <<hosts, found, remotes, offers, finds>>
  BY <1>1, <1>2, AckRead
<1>4. PICK r \in Readers : r = m.to  BY <1>2
<1>5. q \in reader[r].requests \cap publisher.qosGroups  BY <1>3, <1>4
<1>6. PICK n :
         /\ OneGroup(n, Publisher, publisher.tcpPort, publisher.udpPort, q)
         /\ q \in DOMAIN remotes => <<r, RemotePort(r, q)>> \in remotes[q]
         /\ Reply(m, {})
         /\ csi' = [csi EXCEPT ![r] = [p \in DOMAIN csi[r] |->
               IF p = q /\ q \in requested[r] /\ csi[r][p] = None
               THEN ConnectionSpecificInformation(n, q) ELSE csi[r][p]]]
         /\ requested' = [requested EXCEPT ![r] = requested[r] \ {q}]
         /\ aborted' = FALSE
         /\ UNCHANGED <<hosts, found, remotes, offers, finds>>
  BY <1>3, <1>4
<1>7. PICK c : c = ConnectionSpecificInformation(n, q)  OBVIOUS
<1>8. /\ ToldTrue(c, q)
      /\ c \in [address : Hosts, port : Ports \cup {None}, dest : {None} \cup (Groups \X Ports)]
  BY <1>1, <1>6, <1>7, ToldByOneGroup
<1>9. UNCHANGED <<publisher, reader>>  BY <1>6 DEF hosts
<1>10. aborted' \in BOOLEAN  BY <1>6
<1>11. IsABag(net') /\ BagToSet(net') \subseteq BagToSet(net) \cup {}
  BY <1>1, <1>6, ReplyBag DEF TypeOK
<1>12. KnownHosts' /\ \A x \in BagToSet(net') : Written(x)' /\ MessageType(x)
  <2>1. PICK sent : sent = {}  OBVIOUS
  <2>2. BagToSet(net') \subseteq BagToSet(net) \cup sent  BY <1>11, <2>1
  <2>3. \A x \in sent : Written(x)' /\ MessageType(x)  BY <2>1
  <2>4. /\ UNCHANGED hosts /\ DOMAIN remotes' = DOMAIN remotes
        /\ \A p \in DOMAIN remotes : remotes[p] \subseteq remotes'[p]
    BY <1>6
  <2> QED  BY <2>2, <2>3, <2>4, MessagesStayTrue
<1>13. DOMAIN csi' = Readers /\ \A x \in Readers : DOMAIN csi'[x] = reader[x].requests
  BY <1>1, <1>6 DEF TypeOK
<1>14. ASSUME NEW x \in Readers, NEW p \in reader[x].requests
       PROVE  \/ csi'[x][p] = csi[x][p]
              \/ x = r /\ p = q /\ csi'[x][p] = c
  <2>1. DOMAIN csi = Readers /\ DOMAIN csi[x] = reader[x].requests  BY <1>1 DEF TypeOK
  <2>2. CASE x # r  BY <1>6, <2>1, <2>2
  <2>3. CASE x = r
    <3>1. csi'[x][p] = IF p = q /\ q \in requested[r] /\ csi[r][p] = None
                       THEN c ELSE csi[x][p]
      BY <1>6, <1>7, <2>1, <2>3
    <3> QED  BY <2>3, <3>1
  <2> QED  BY <2>2, <2>3
<1>15. TypeOK'
  <2>1. /\ requested' \in [Readers -> SUBSET SOMEIP]
        /\ \A x \in Readers : requested'[x] \subseteq reader[x].requests
    BY <1>1, <1>6 DEF TypeOK
  <2>2. ASSUME NEW x \in Readers
        PROVE  csi'[x] \in [reader[x].requests ->
                  [address : Hosts, port : Ports \cup {None},
                   dest : {None} \cup (Groups \X Ports)] \cup {None}]
    <3>1. PICK C : C = [address : Hosts, port : Ports \cup {None},
                        dest : {None} \cup (Groups \X Ports)] \cup {None}
      OBVIOUS
    <3>2. csi[x] \in [reader[x].requests -> C]  BY <1>1, <3>1 DEF TypeOK
    <3>3. \A p \in reader[x].requests : csi'[x][p] \in C  BY <1>8, <1>14, <3>1, <3>2
    <3>4. csi'[x] = [p \in reader[x].requests |-> csi'[x][p]]
      <4>1. DOMAIN csi = Readers /\ DOMAIN csi[x] = reader[x].requests  BY <1>1 DEF TypeOK
      <4>2. CASE x # r
        <5>1. csi'[x] = csi[x]  BY <1>6, <4>1, <4>2
        <5> QED  BY <3>2, <5>1
      <4>3. CASE x = r
        <5>1. csi'[x] = [p \in reader[x].requests |->
                           IF p = q /\ q \in requested[r] /\ csi[r][p] = None
                           THEN ConnectionSpecificInformation(n, q) ELSE csi[r][p]]
          BY <1>6, <4>1, <4>3
        <5> QED  BY <5>1
      <4> QED  BY <4>2, <4>3
    <3> QED  BY <3>1, <3>3, <3>4
  <2> QED  BY <1>1, <1>6, <1>9, <1>10, <1>11, <1>12, <1>13, <2>1, <2>2 DEF TypeOK, MessageType
<1>16. AddressesAgree'
  <2>1. ASSUME NEW x \in Readers, NEW p \in reader[x].requests, csi'[x][p] # None
        PROVE  /\ ToldTrue(csi'[x][p], p)
               /\ p \in DOMAIN remotes' => <<x, RemotePort(x, p)>> \in remotes'[p]
    <3>1. CASE csi'[x][p] = csi[x][p]
      BY <1>1, <1>6, <2>1, <3>1, AddressesAgreeEach
    <3>2. CASE x = r /\ p = q /\ csi'[x][p] = c
      BY <1>6, <1>8, <3>2
    <3> QED  BY <1>14, <3>1, <3>2
  <2>2. ASSUME NEW x \in remotes'["SOMEIP_UDP"]
        PROVE  /\ "SOMEIP_UDP" \in reader[x[1]].requests
               /\ x[2] = reader[x[1]].udpPort["SOMEIP_UDP"]
    BY <1>1, <1>6, AddressesAgreeEach
  <2> QED  BY <1>9, <2>1, <2>2, AgreeAfter
<1> QED  BY <1>12, <1>15, <1>16 DEF TrueMessages

-----------------------------------------------------------------------------
(* What follows for the specification.                                     *)

LEMMA NextKeepsTrue ==
    ASSUME TrueMessages, Next
    PROVE  TrueMessages'
<1>1. CASE ExecuteSdForServiceState  BY <1>1, ExecuteKeepsTrue
<1>2. CASE \E m \in BagToSet(net) : ProcessSomeIpSDHeader(m)
  <2>1. PICK m \in BagToSet(net) : ProcessSomeIpSDHeader(m)  BY <1>2
  <2>2. CASE m.type = "FIND" /\ ProcessFindEntry(m)  BY <2>2, ProcessFindKeepsTrue
  <2>3. CASE m.type = "OFFER" /\ ProcessOfferEntry(m)  BY <2>3, ProcessOfferKeepsTrue
  <2>4. CASE m.type = "SUBSCRIBE" /\ ProcessSubscribeEventGroupEntry(m)
    BY <2>4, ProcessSubscribeKeepsTrue
  <2>5. CASE m.type = "SUBSCRIBEACK" /\ ProcessSubscribeEventGroupAckEntry(m)
    BY <2>5, ProcessAckKeepsTrue
  <2> QED  BY <2>1, <2>2, <2>3, <2>4, <2>5 DEF ProcessSomeIpSDHeader
<1>3. CASE \E r \in Readers : Find(r)  BY <1>3, FindKeepsTrue
<1> QED  BY <1>1, <1>2, <1>3 DEF Next, Proceed

LEMMA StutteringKeepsTrue ==
    ASSUME TrueMessages, UNCHANGED vars
    PROVE  TrueMessages'
<1>1. /\ UNCHANGED <<hosts, publisher, reader, net, requested, csi, found, remotes>>
      /\ UNCHANGED <<offers, finds, aborted>>
  BY DEF vars, hosts
<1>2. PICK sent : sent = {}  OBVIOUS
<1>3. \A m \in sent : Written(m)  BY <1>2
<1> QED  BY <1>1, <1>2, <1>3, OnlySends DEF TrueMessages, TypeOK

LEMMA MessagesAreTrue == Spec => []TrueMessages
<1>1. Init => TrueMessages  BY InitiallyTrue
<1>2. TrueMessages /\ [Next]_vars => TrueMessages'
  BY NextKeepsTrue, StutteringKeepsTrue
<1> QED  BY <1>1, <1>2, PTL DEF Spec

\* Type correctness, for any number of readers and any parameters of the hosts:
\* every message goes from a host to another, and every endpoint a reader
\* creates has the address of a host and a port.
THEOREM MessagesTypeCorrect == Spec => []TypeOK
<1>1. TrueMessages => TypeOK  BY DEF TrueMessages
<1> QED  BY <1>1, MessagesAreTrue, PTL

\* Every entry counts the options that were appended to its message, so that the
\* loops of its readers neither run over the end of the list nor stop early.
THEOREM OptionsAreCounted == Spec => []CountsItsOptions
<1>1. TrueMessages => CountsItsOptions
  BY WrittenTypes DEF TrueMessages, CountsItsOptions
<1> QED  BY <1>1, MessagesAreTrue, PTL

\* What subscribers and publisher know of each other is what the other has:
\* no address, port or group is lost or exchanged for that of another QoS group
\* in the four notifications and three messages it is copied through.
THEOREM AddressesAreExchanged == Spec => []AddressesAgree
<1>1. TrueMessages => AddressesAgree  BY DEF TrueMessages
<1> QED  BY <1>1, MessagesAreTrue, PTL

LEMMA AbortsWhenMixed ==
    ASSUME TrueMessages, EndsOnlyWhenMixed, Next
    PROVE  EndsOnlyWhenMixed'
<1> SUFFICES ASSUME aborted'
             PROVE  \/ \E r \in Readers : reader'[r].hasQoSNP # publisher'.hasQoSNP
                    \/ publisher'.qosGroups = {}
  BY DEF EndsOnlyWhenMixed
<1>1. ~aborted  BY DEF Next
<1>2. PICK m \in BagToSet(net) : ProcessSomeIpSDHeader(m)
  BY <1>1 DEF Next, Proceed, ExecuteSdForServiceState, Find
<1>3. CASE m.type = "FIND" /\ ProcessFindEntry(m)
  BY <1>1, <1>3 DEF ProcessFindEntry
<1>4. CASE m.type = "OFFER" /\ ProcessOfferEntry(m)
  <2>1. OfferWritten(m) /\ m.to \in Readers
    BY <1>4 DEF TrueMessages, Written, FindWritten, OfferWritten, SubscribeWritten,
                AckWritten, SomeIpSDHeader
  <2>2. ReadOffer(m.to, m) = {} /\ UNCHANGED <<publisher, reader>>
    BY <1>1, <1>4 DEF ProcessOfferEntry, hosts
  <2>3. publisher.qosGroups = {} \/ reader[m.to].hasQoSNP # publisher.hasQoSNP
    BY <2>1, <2>2, OfferReadable DEF TrueMessages
  <2> QED  BY <2>1, <2>2, <2>3
<1>5. CASE m.type = "SUBSCRIBE" /\ ProcessSubscribeEventGroupEntry(m)
  <2>1. m.type = "SUBSCRIBE"  BY <1>5
  <2>2. SubscribeWritten(m)
    BY <2>1 DEF TrueMessages, Written, FindWritten, OfferWritten, SubscribeWritten,
                AckWritten, SomeIpSDHeader
  <2>3. aborted' = FALSE  BY <1>5, <2>2, SubscribeRead DEF TrueMessages
  <2> QED  BY <2>3
<1>6. CASE m.type = "SUBSCRIBEACK" /\ ProcessSubscribeEventGroupAckEntry(m)
  <2>1. AckWritten(m)
    BY <1>6 DEF TrueMessages, Written, FindWritten, OfferWritten, SubscribeWritten,
                AckWritten, SomeIpSDHeader
  <2>2. aborted' = FALSE  BY <1>6, <2>1, AckRead DEF TrueMessages
  <2> QED  BY <2>2
<1> QED  BY <1>2, <1>3, <1>4, <1>5, <1>6 DEF ProcessSomeIpSDHeader

\* A handler throws only where hosts with and without the negotiation protocol
\* meet, or a publisher without it offers no QoS group: neither a subscription
\* nor an acknowledgement is ever unreadable, and between hosts of the same kind
\* neither is an offer, in whatever order its options come.
THEOREM ThrowsOnlyWhenMixed == Spec => []EndsOnlyWhenMixed
<1>1. Init => EndsOnlyWhenMixed  BY DEF Init, EndsOnlyWhenMixed
<1>2. TrueMessages /\ EndsOnlyWhenMixed /\ [Next]_vars => EndsOnlyWhenMixed'
  <2>1. ASSUME EndsOnlyWhenMixed, UNCHANGED vars PROVE EndsOnlyWhenMixed'
    BY <2>1 DEF EndsOnlyWhenMixed, vars, hosts
  <2> QED  BY <2>1, AbortsWhenMixed
<1> QED  BY <1>1, <1>2, MessagesAreTrue, PTL DEF Spec
=============================================================================
