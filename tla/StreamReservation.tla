-------------------------- MODULE StreamReservation --------------------------
(***************************************************************************)
(* The reservation of streams: AVB publisher endpoints and tagged IP       *)
(* publisher endpoints enter a talker into their node's SRP table, AVB     *)
(* subscriber endpoints a listener, and each follows the signals of its    *)
(* table, in the same simulation instant.  SRP carries talkers and         *)
(* listeners from node to node, and entries that are not refreshed time    *)
(* out.                                                                    *)
(*                                                                         *)
(* A stream is its identifier and its VLAN.  The tables and the protocol   *)
(* between them are CoRE4INET's, modelled from how the endpoints use them: *)
(* adding what is new is signalled as registered, adding it again as       *)
(* updated.                                                                *)
(***************************************************************************)
EXTENDS Naturals, FiniteSets, StreamNumbers

CONSTANTS
    Hosts,
    AVBPublishers,     \* AVB publisher endpoints
    IPPublishers,      \* UDP, multicast and TCP publisher endpoints
    AVBSubscribers,    \* AVB subscriber endpoints
    AVBParameters,     \* parameters of AVB publisher endpoints
    IPParameters,      \* parameters of IP publisher endpoints
    ListenerParameters, \* parameters of AVB subscriber endpoints
    Destinations,      \* address and port of the subscribers, or the group, of an IP
                       \* publisher
    StreamIDs,         \* the parameter streamID of publishers
    MaxFaults,         \* bound: entries of the tables that time out
    Port, Eth          \* modules in listener entries: of other nodes, of no endpoint

QoSGroups == {"IP_TCP", "IP_UDP", "IP_UDP_MCAST", "SOMEIP_TCP", "SOMEIP_UDP",
              "SOMEIP_UDP_MCAST"}

SOMEIP == {"SOMEIP_TCP", "SOMEIP_UDP", "SOMEIP_UDP_MCAST"}

AVBPublisherParameters ==
    [host : Hosts, streamID : StreamIDs, srClass : {"A", "B"}, payload : Nat,
     intervalFrames : Nat \ {0}]

\* What an IP publisher endpoint keeps: no VLAN and no priority is -1, pcpCMIs
\* has the interval of the priorities that have one.  It asks its application
\* for what is in the last line.
IPPublisherFields(ep) ==
    /\ ep.host \in Hosts /\ ep.qos \in QoSGroups
    /\ ep.vlanID \in Int /\ ep.pcp \in Int
    /\ {ep.registerStream, ep.advertise, ep.streamIntervalAsCMI} \subseteq BOOLEAN
    /\ ep.pcpCMIs \in [DOMAIN ep.pcpCMIs -> Nat]
    /\ {ep.serviceId, ep.instanceId, ep.intervalMin, ep.payload} \subseteq Nat
         /\ ep.streamID \in StreamIDs /\ ep.preventReservation \in BOOLEAN

Priorities == 0..7
IPPublisherParameters(ep) ==
    /\ IPPublisherFields(ep)
    /\ ep.vlanID \in -1..4095 /\ ep.pcp \in {-1} \cup Priorities
    /\ DOMAIN ep.pcpCMIs \subseteq Priorities
    /\ \A pcp \in DOMAIN ep.pcpCMIs : ep.pcpCMIs[pcp] > 0

AVBSubscriberParameters ==
    [host : Hosts, streamID : StreamIDs, updateInterval : Nat, retryInterval : Nat]

\* What the constants are.
StreamReservationAssumption ==
    /\ AVBParameters \in [AVBPublishers -> AVBPublisherParameters]
    /\ \A p \in IPPublishers : IPPublisherParameters(IPParameters[p])
    /\ ListenerParameters \in [AVBSubscribers -> AVBSubscriberParameters]
    /\ Destinations \in [IPPublishers -> SUBSET (Nat \X Nat)]
    /\ \A s \in StreamIDs : s \notin Nat \X Nat \X Nat   \* none is that of a service
    /\ AVBPublishers \cap IPPublishers = {}
    /\ MaxFaults \in Nat
    /\ {Port, Eth} \cap AVBSubscribers = {} /\ Port # Eth

VARIABLES
    talkers,              \* streams with a talker in the table of each host
    reservation,          \* what the talkers of a host reserve, per stream
    listeners,            \* stream and module of the listeners in the table of each host
    publisherEndpoints,   \* AVB publisher endpoints created so far
    connectedPublishers,  \* _isConnected of AVB publisher endpoints
    remotes,              \* destinations an IP publisher endpoint has a filter for
    subscriberEndpoints,  \* AVB subscriber endpoints created so far
    connectedSubscribers, \* _isConnected of AVB subscriber endpoints
    updateMessages,       \* those whose _updateMessage is scheduled
    faults,               \* table entries that timed out so far
    failure               \* has an endpoint thrown: the end of the simulation

tables == <<talkers, reservation, listeners>>
publishers == <<publisherEndpoints, connectedPublishers, remotes>>
subscribers == <<subscriberEndpoints, connectedSubscribers, updateMessages>>
reservationVars == <<tables, publishers, subscribers, faults, failure>>

-----------------------------------------------------------------------------
(* Streams and what they reserve.                                          *)

\* Mutant: every endpoint uses its application's stream.
CreateStreamId_Application(p, dest) == IPParameters[p].streamID

StreamOfApplication(p) == IPParameters[p].streamID
StreamOfService(p, dest) ==
    <<IPParameters[p].serviceId, IPParameters[p].instanceId, dest[1]>>

\* A SOME/IP endpoint has a stream per address, a plain one that of its
\* application.
CreateStreamId(p, dest) ==
    IF IPParameters[p].qos \in SOMEIP THEN StreamOfService(p, dest)
    ELSE StreamOfApplication(p)

Streams ==
    StreamIDs
      \cup UNION {{CreateStreamId(p, d) : d \in Destinations[p]} : p \in IPPublishers}

Has8021QInformation(p) == IPParameters[p].vlanID >= 0 /\ IPParameters[p].pcp >= 0

RequiresReservation(p) ==
    LET app == IPParameters[p]
    IN  /\ Has8021QInformation(p) /\ app.registerStream /\ ~app.preventReservation
        /\ app.streamIntervalAsCMI \/ app.pcp \in DOMAIN app.pcpCMIs

\* The frames that an interval reserves: of framesize bytes every interval.
Reservation(owner, dest, framesize, frames, interval, advertised) ==
    [owner |-> owner, dest |-> dest, framesize |-> framesize, frames |-> frames,
     interval |-> interval, advertised |-> advertised]

\* What an AVB publisher endpoint makes of its parameters.
AVBPublisherEndpoint(p) ==
    LET par == AVBParameters[p]
    IN  [streamID |-> par.streamID, srClass |-> par.srClass,
         intervalFrames |-> par.intervalFrames, frameSize |-> AVBFrameSize(par.payload)]

AVBReservation(p) ==
    LET ep == AVBPublisherEndpoint(p)
    IN  Reservation(p, 0, ep.frameSize, ep.intervalFrames, IntervalForClass(ep.srClass), TRUE)

\* The size of the frames an IP endpoint sends in each of its intervals.
FrameBytes(p) ==
    LET app == IPParameters[p]
    IN  CalculateL2Framesize(app.qos, AvgPayload(app.payload, MaxPayload(app.qos)))

IPReservation(p, dest) ==
    LET app == IPParameters[p]
        cmi == app.pcpCMIs[app.pcp]
        srclass == ClassFor(FrameBytes(p), cmi)
        interval == IF app.streamIntervalAsCMI THEN app.intervalMin
                    ELSE IntervalForClass(srclass)
        framesize == IF app.streamIntervalAsCMI THEN FrameBytes(p)
                     ELSE NormalizeFramesizeForCMI(FrameBytes(p), cmi, interval)
    IN  Reservation(p, dest[1], framesize, NumFrames(app.payload, MaxPayload(app.qos)),
                    interval, app.advertise)

-----------------------------------------------------------------------------
(* The SRP tables and their signals.                                       *)

Init ==
    /\ talkers = [h \in Hosts |-> {}]
    /\ reservation = [s \in {} |-> <<>>]
    /\ listeners = [h \in Hosts |-> {}]
    /\ publisherEndpoints = {}
    /\ connectedPublishers = {}
    /\ remotes = [p \in IPPublishers |-> {}]
    /\ subscriberEndpoints = {}
    /\ connectedSubscribers = {}
    /\ updateMessages = {}
    /\ faults = 0
    /\ failure = FALSE

StreamsOf(L) == {entry[1] : entry \in L}

\* AVB publisher endpoints among P of this host and one of these streams.
PublishersOf(P, h, S) ==
    {p \in P : AVBParameters[p].host = h /\ AVBParameters[p].streamID \in S}

\* The entries L are added to the table of host h or updated: its publisher
\* endpoints P for those streams are connected.
ListenersRegistered(h, L, P) ==
    /\ listeners' = [listeners EXCEPT ![h] = @ \cup L]
    /\ connectedPublishers' = connectedPublishers \cup PublishersOf(P, h, StreamsOf(L))

\* Mutant: the listeners that are left do not matter.
ListenerRemoved_Any(h, entry) ==
    /\ listeners' = [listeners EXCEPT ![h] = @ \ {entry}]
    /\ UNCHANGED connectedPublishers

\* The entry is removed: publisher endpoints whose stream has no listener left
\* are not connected.
ListenerRemoved(h, entry) ==
    /\ listeners' = [listeners EXCEPT ![h] = @ \ {entry}]
    /\ connectedPublishers' =
          IF entry[1] \in StreamsOf(listeners'[h]) THEN connectedPublishers
          ELSE connectedPublishers \ PublishersOf(publisherEndpoints, h, {entry[1]})

\* Subscriber endpoints that are told of a new talker of stream s at host h.
Joining(h, s) ==
    IF s \in talkers[h] THEN {}
    ELSE {e \in subscriberEndpoints :
             ListenerParameters[e].host = h /\ ListenerParameters[e].streamID = s}

\* These endpoints have found their talker: they are connected and will
\* update their listener entry.
Connect(E) ==
    /\ connectedSubscribers' = connectedSubscribers \cup E
    /\ updateMessages' =
          updateMessages \cup {e \in E : ListenerParameters[e].updateInterval > 0}

-----------------------------------------------------------------------------
(* Publisher endpoints.                                                    *)

\* The endpoint is told of listeners, and its talker is entered: the node's
\* own subscriber endpoints may answer at once.
InitializeTransportConnection(p) ==
    LET h == AVBParameters[p].host
        s == AVBParameters[p].streamID
        E == Joining(h, s)
    IN  /\ publisherEndpoints' = publisherEndpoints \cup {p}
        /\ talkers' = [talkers EXCEPT ![h] = @ \cup {s}]
        /\ reservation' = [t \in DOMAIN reservation \cup {s} |->
              IF t = s THEN AVBReservation(p) ELSE reservation[t]]
        /\ ListenersRegistered(h, {s} \X E, publisherEndpoints \cup {p})
        /\ Connect(E)

\* What does not fit into a frame is an error.
CreateAVBPublisherEndpoint(p) ==
    LET framesize == AVBParameters[p].payload + MacFrameBytes + QTagBytes
    IN  /\ p \notin publisherEndpoints
        /\ \/ /\ framesize > MaxFrameBytes
              /\ failure' = TRUE
              /\ UNCHANGED <<tables, publisherEndpoints, connectedPublishers,
                             connectedSubscribers, updateMessages>>
           \/ /\ framesize <= MaxFrameBytes
              /\ InitializeTransportConnection(p)
              /\ UNCHANGED failure
        /\ UNCHANGED <<remotes, subscriberEndpoints, faults>>

\* A stream whose reservation has no listener gets one that is no endpoint.
DummyListener(h, s, E) ==
    IF E = {} /\ s \notin StreamsOf(listeners[h]) THEN {<<s, Eth>>} ELSE {}

RegisterTalker(p, dest) ==
    LET h == IPParameters[p].host
        s == CreateStreamId(p, dest)
        r == IPReservation(p, dest)
        E == Joining(h, s)
    IN  \/ /\ r.framesize < 0
           /\ failure' = TRUE
           /\ UNCHANGED <<tables, connectedPublishers, subscribers>>
        \/ /\ r.framesize >= 0
           /\ talkers' = [talkers EXCEPT ![h] = @ \cup {s}]
           /\ reservation' = [t \in DOMAIN reservation \cup {s} |->
                 IF t = s THEN r ELSE reservation[t]]
           /\ ListenersRegistered(h, ({s} \X E) \cup DummyListener(h, s, E),
                                  publisherEndpoints)
           /\ Connect(E)
           /\ UNCHANGED <<subscriberEndpoints, failure>>

\* An IP publisher endpoint has a new remote, socket or, once, its group.
CheckAndCreateFilter(p, dest) ==
    /\ dest \in Destinations[p] \ remotes[p]
    /\ remotes' = [remotes EXCEPT ![p] = @ \cup {dest}]
    /\ \/ RequiresReservation(p) /\ RegisterTalker(p, dest)
       \/ /\ ~RequiresReservation(p)
          /\ UNCHANGED <<tables, connectedPublishers, subscribers, failure>>
    /\ UNCHANGED <<publisherEndpoints, faults>>

-----------------------------------------------------------------------------
(* Subscriber endpoints.                                                   *)

Entry(e) == <<ListenerParameters[e].streamID, e>>

TalkerKnown(e) ==
    ListenerParameters[e].streamID \in talkers[ListenerParameters[e].host]

InitializeListener(e) ==
    \/ /\ TalkerKnown(e)
       /\ ListenersRegistered(ListenerParameters[e].host, {Entry(e)}, publisherEndpoints)
       /\ Connect({e})
    \/ /\ ~TalkerKnown(e)
       /\ updateMessages' = updateMessages
             \cup {x \in {e} : ListenerParameters[x].updateInterval > 0}
       /\ UNCHANGED <<listeners, connectedPublishers, connectedSubscribers>>

CreateAVBSubscriberEndpoint(e) ==
    /\ e \notin subscriberEndpoints
    /\ subscriberEndpoints' = subscriberEndpoints \cup {e}
    /\ InitializeListener(e)
    /\ UNCHANGED <<talkers, reservation, publisherEndpoints, remotes, faults, failure>>

\* The update interval, or the retry interval after a failure, is over.
UpdateSubscription(e) ==
    /\ e \in updateMessages
    /\ updateMessages' = {x \in updateMessages :
          x # e \/ ListenerParameters[x].updateInterval > 0}
    /\ \/ /\ TalkerKnown(e)
          /\ ListenersRegistered(ListenerParameters[e].host, {Entry(e)}, publisherEndpoints)
          /\ connectedSubscribers' = connectedSubscribers \cup {e}
       \/ /\ ~TalkerKnown(e)
          /\ connectedSubscribers' = connectedSubscribers \ {e}
          /\ UNCHANGED <<listeners, connectedPublishers>>
    /\ UNCHANGED <<talkers, reservation, publisherEndpoints, remotes, subscriberEndpoints,
                   faults, failure>>

-----------------------------------------------------------------------------
(* SRP between the nodes.                                                  *)

\* The talker of an advertised stream gets to another node's table.
TalkerArrives(h, s) ==
    LET E == Joining(h, s)
    IN  /\ s \notin talkers[h]
        /\ s \in DOMAIN reservation /\ reservation[s].advertised
        /\ talkers' = [talkers EXCEPT ![h] = @ \cup {s}]
        /\ ListenersRegistered(h, {s} \X E, publisherEndpoints)
        /\ Connect(E)
        /\ UNCHANGED <<reservation, publisherEndpoints, remotes, subscriberEndpoints, faults,
                       failure>>

\* The host whose talker a stream has.
Origin(s) ==
    LET owner == reservation[s].owner
    IN  IF owner \in AVBPublishers THEN AVBParameters[owner].host
        ELSE IPParameters[owner].host

\* Do other nodes have a listener of stream s?
ListensElsewhere(s) ==
    \E h \in Hosts \ {Origin(s)} : s \in StreamsOf(listeners[h])

\* The listeners of other nodes get to the talker's node through a port.
ListenerArrives(s) ==
    /\ s \in DOMAIN reservation /\ reservation[s].advertised
    /\ ListensElsewhere(s)
    /\ \/ <<s, Port>> \notin listeners[Origin(s)]
       \/ ~(PublishersOf(publisherEndpoints, Origin(s), {s}) \subseteq connectedPublishers)
    /\ ListenersRegistered(Origin(s), {<<s, Port>>}, publisherEndpoints)
    /\ UNCHANGED <<talkers, reservation, publisherEndpoints, remotes, subscribers, faults,
                   failure>>

\* The last of them has left.
ListenerUnregistered(s) ==
    /\ s \in DOMAIN reservation
    /\ <<s, Port>> \in listeners[Origin(s)]
    /\ ~ListensElsewhere(s)
    /\ ListenerRemoved(Origin(s), <<s, Port>>)
    /\ UNCHANGED <<talkers, reservation, publisherEndpoints, remotes, subscribers, faults,
                   failure>>

\* Mutant: a lost registration is not tried again.
ListenerTimeout_NoRetry(h, entry) ==
    /\ entry \in listeners[h] /\ entry[2] # Eth
    /\ faults < MaxFaults
    /\ faults' = faults + 1
    /\ ListenerRemoved(h, entry)
    /\ connectedSubscribers' =
          {e \in connectedSubscribers : ListenerParameters[e].host # h}
    /\ UNCHANGED <<talkers, reservation, publisherEndpoints, remotes, subscriberEndpoints,
                   updateMessages, failure>>

\* A listener entry times out: every subscriber endpoint of the node takes
\* itself for disconnected, the one whose entry it was tries again.
ListenerTimeout(h, entry) ==
    /\ entry \in listeners[h] /\ entry[2] # Eth
    /\ faults < MaxFaults
    /\ faults' = faults + 1
    /\ ListenerRemoved(h, entry)
    /\ connectedSubscribers' =
          {e \in connectedSubscribers : ListenerParameters[e].host # h}
    /\ updateMessages' = updateMessages
          \cup {e \in subscriberEndpoints :
                   e = entry[2] /\ ListenerParameters[e].retryInterval > 0}
    /\ UNCHANGED <<talkers, reservation, publisherEndpoints, remotes, subscriberEndpoints,
                   failure>>

\* The talker entry of another node times out.
TalkerForgotten(h, s) ==
    /\ faults < MaxFaults
    /\ s \in talkers[h] /\ Origin(s) # h
    /\ faults' = faults + 1
    /\ talkers' = [talkers EXCEPT ![h] = @ \ {s}]
    /\ UNCHANGED <<reservation, listeners, publishers, subscribers, failure>>

Proceed ==
    \/ \E p \in AVBPublishers : CreateAVBPublisherEndpoint(p)
    \/ \E p \in IPPublishers : \E d \in Destinations[p] : CheckAndCreateFilter(p, d)
    \/ \E e \in AVBSubscribers : CreateAVBSubscriberEndpoint(e) \/ UpdateSubscription(e)
    \/ \E s \in DOMAIN reservation :
          \/ \E h \in Hosts : TalkerArrives(h, s)
          \/ ListenerArrives(s) \/ ListenerUnregistered(s)

Fault ==
    \E h \in Hosts :
        \/ \E entry \in listeners[h] : ListenerTimeout(h, entry)
        \/ \E s \in talkers[h] : TalkerForgotten(h, s)

Next == ~failure /\ (Proceed \/ Fault)

Spec == Init /\ [][Next]_reservationVars

\* SRP goes on and updates fall due; neither timeouts nor lost talkers.
FairSpec == Spec /\ WF_reservationVars(~failure /\ Proceed)

-----------------------------------------------------------------------------
(* Properties.                                                             *)

Modules == AVBSubscribers \cup {Port, Eth}

TalkerReservation ==
    [owner : AVBPublishers \cup IPPublishers, dest : Nat, framesize : Int, frames : Nat,
     interval : Nat, advertised : BOOLEAN]

\* Every variable stays in its declared range.
TypeOK ==
    /\ talkers \in [Hosts -> SUBSET Streams]
    /\ DOMAIN reservation \subseteq Streams
    /\ \A s \in DOMAIN reservation : reservation[s] \in TalkerReservation
    /\ listeners \in [Hosts -> SUBSET (Streams \X Modules)]
    /\ publisherEndpoints \subseteq AVBPublishers
    /\ connectedPublishers \subseteq publisherEndpoints
    /\ remotes \in [IPPublishers -> SUBSET (Nat \X Nat)]
    /\ subscriberEndpoints \subseteq AVBSubscribers
    /\ connectedSubscribers \subseteq subscriberEndpoints
    /\ updateMessages \subseteq subscriberEndpoints
    /\ faults \in 0..MaxFaults
    /\ failure \in BOOLEAN

\* A publisher endpoint that takes itself for connected, and therefore sends,
\* has a listener of its stream in its node's table: whichever of several
\* listeners leave or time out, by whatever signal, the last one is noticed.
ConnectedHasListener ==
    \A p \in connectedPublishers :
        AVBParameters[p].streamID \in StreamsOf(listeners[AVBParameters[p].host])

Addresses(p) == {d[1] : d \in Destinations[p]}

\* Every address a SOME/IP endpoint sends to has a reservation of its own:
\* that of another subscriber, service or instance does not replace it,
\* unless a second endpoint of the service sends to the same address.
TalkerPerDestination ==
    \A p \in IPPublishers : \A d \in remotes[p] :
        LET app == IPParameters[p]
            s == CreateStreamId(p, d)
        IN  /\ RequiresReservation(p) /\ ~failure /\ app.qos \in SOMEIP
            /\ \A q \in IPPublishers \ {p} :
                  \/ d[1] \notin Addresses(q)
                  \/ <<IPParameters[q].serviceId, IPParameters[q].instanceId>>
                       # <<app.serviceId, app.instanceId>>
            => /\ s \in DOMAIN reservation /\ s \in talkers[app.host]
               /\ reservation[s].owner = p /\ reservation[s].dest = d[1]

\* Are all subscriber endpoints of p's stream in their tables, and p connected?
Reserved(p) ==
    /\ \A e \in subscriberEndpoints :
          ListenerParameters[e].streamID = AVBParameters[p].streamID
            => Entry(e) \in listeners[ListenerParameters[e].host]
    /\ (\E e \in subscriberEndpoints :
            ListenerParameters[e].streamID = AVBParameters[p].streamID)
         => p \in connectedPublishers
=============================================================================
