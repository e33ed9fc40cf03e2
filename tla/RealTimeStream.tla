--------------------------- MODULE RealTimeStream ---------------------------
(***************************************************************************)
(* Applications and the streams of their endpoints: the composition of     *)
(* Publishing and StreamReservation.  An endpoint is created once its      *)
(* application has its connector; what a publisher then sends has to fit   *)
(* into what its endpoints have reserved.                                  *)
(*                                                                         *)
(* The cycle of the schedulers, the unit of time, is the interval of       *)
(* stream reservation class A.                                             *)
(***************************************************************************)
EXTENDS Naturals, FiniteSets

CONSTANTS
    Applications, AppParameters, CycleLimit, MaxTime, MaxSyncChanges, MaxGatewayMessages,
    None,
    Hosts, AVBPublishers, IPPublishers, AVBSubscribers, AVBParameters, IPParameters,
    ListenerParameters, Destinations, StreamIDs, MaxFaults, Port, Eth,
    CanIds,
    ApplicationOf    \* the application of each endpoint

VARIABLES
    now, startMessage, stopMessage, connector, sendMsgTimer, event, synchronized,
    nextCycle, sent, lastSent, syncChanges, gatewayMessages, aborted,
    talkers, reservation, listeners, publisherEndpoints, connectedPublishers, remotes,
    subscriberEndpoints, connectedSubscribers, updateMessages, faults, failure

Apps == INSTANCE Publishing
Srp == INSTANCE StreamReservation

applicationVars ==
    <<now, startMessage, stopMessage, connector, sendMsgTimer, event, synchronized,
      nextCycle, sent, lastSent, syncChanges, gatewayMessages, aborted>>
endpointVars ==
    <<talkers, reservation, listeners, publisherEndpoints, connectedPublishers, remotes,
      subscriberEndpoints, connectedSubscribers, updateMessages, faults, failure>>
vars == <<applicationVars, endpointVars>>

\* The interval an IP endpoint gets from its application.
GetIntervalMin(a) ==
    LET app == AppParameters[a]
    IN  IF app.kind = "SyncPublisher" THEN app.modulo ELSE app.intervalMin

\* The managers set an AVB endpoint's parameters to those of its application,
\* with the largest payload, and an IP endpoint asks for them.
SetAVBParameters(ep, app) ==
    /\ ep.srClass = app.srClass /\ ep.intervalFrames = app.intervalFrames
    /\ ep.payload = app.payloadMax
IPParametersOf(ep, app) ==
    /\ ep.serviceId = app.serviceId /\ ep.instanceId = app.instanceId
    /\ ep.payload = app.payloadMax /\ ep.preventReservation = app.preventReservation

ASSUME RealTimeStreamAssumption ==
    /\ Apps!PublishingAssumption /\ Srp!StreamReservationAssumption
    /\ ApplicationOf \in [AVBPublishers \cup IPPublishers \cup AVBSubscribers -> Applications]
    /\ \A p \in AVBPublishers \cup IPPublishers :
          AppParameters[ApplicationOf[p]].kind \in Apps!Publishers
    /\ \A p \in AVBPublishers :
          SetAVBParameters(AVBParameters[p], AppParameters[ApplicationOf[p]])
    /\ \A p \in IPPublishers :
          /\ IPParametersOf(IPParameters[p], AppParameters[ApplicationOf[p]])
          /\ IPParameters[p].intervalMin = GetIntervalMin(ApplicationOf[p])

\* The frame an AVB endpoint makes of a message of its application, padded,
\* if it is connected.
PublishedBytes(p) ==
    IF p \in connectedPublishers THEN Srp!AVBFrameSize(AppParameters[ApplicationOf[p]].payload)
    ELSE 0

Init == Apps!Init /\ Srp!Init

\* Endpoints belong to applications that have registered.
EndpointsOfRegistered ==
    /\ \A p \in publisherEndpoints' \ publisherEndpoints : connector[ApplicationOf[p]]
    /\ \A p \in IPPublishers : remotes'[p] # remotes[p] => connector[ApplicationOf[p]]
    /\ \A e \in subscriberEndpoints' \ subscriberEndpoints : connector[ApplicationOf[e]]

ApplicationStep == ~failure /\ Apps!Next /\ UNCHANGED endpointVars

EndpointStep == ~aborted /\ Srp!Next /\ EndpointsOfRegistered /\ UNCHANGED applicationVars

Next == ApplicationStep \/ EndpointStep

Spec == Init /\ [][Next]_vars

\* Time passes, the applications' events and the endpoints' updates fall due
\* and SRP goes on.  Nothing forces a clock to change its synchronisation, a
\* gateway to send, or an entry to time out.
Proceed ==
    /\ ~aborted /\ ~failure
    /\ \/ Apps!Timed /\ UNCHANGED endpointVars
       \/ Srp!Proceed /\ EndpointsOfRegistered /\ UNCHANGED applicationVars

FairSpec == Spec /\ WF_vars(Proceed)

-----------------------------------------------------------------------------
(* Properties.                                                             *)

\* Every variable stays in its declared range.
TypeOK == Apps!TypeOK /\ Srp!TypeOK

\* A plain publisher sends a message per interval from start to stop.
KeepsPace == Apps!KeepsPace

\* The messages of a synchronous publisher are modulo cycles apart.
OncePerModulo == Apps!OncePerModulo

\* A publisher endpoint that sends has a listener in its node's table.
ConnectedHasListener == Srp!ConnectedHasListener

\* Every address a SOME/IP endpoint sends to has a reservation of its own.
TalkerPerDestination == Srp!TalkerPerDestination

\* After the last timeout every AVB stream is reserved again, from its
\* publisher endpoint to all of its listeners, and a subscriber endpoint that
\* updates its entry takes itself for connected.
EventuallyConnected ==
    /\ \A p \in AVBPublishers :
          <>[](aborted \/ failure \/ (p \in publisherEndpoints /\ Srp!Reserved(p)))
    /\ \A e \in AVBSubscribers :
          ListenerParameters[e].updateInterval > 0
            => <>[](aborted \/ failure \/ e \in connectedSubscribers)

\* Are the intervals of a talker's application those it has reserved for?  An
\* endpoint whose class or priority has a longer interval reserves too little,
\* and an IP endpoint does for an application with several frames per interval,
\* or if it sends to several destinations with one identifier: ports of an
\* address, or any destinations unless it is a SOME/IP endpoint.  What a
\* gateway sends depends on its bus.
AVBConfigured(p) ==
    LET a == ApplicationOf[p]
    IN  /\ AppParameters[a].kind \in {"Publisher", "SyncPublisher"}
        /\ GetIntervalMin(a) >= Srp!IntervalForClass(AVBParameters[p].srClass)
IPConfigured(p) ==
    LET app == AppParameters[ApplicationOf[p]]
        ip == IPParameters[p]
    IN  /\ \/ app.kind = "Publisher" /\ app.intervalFrames = 1
           \/ app.kind = "SyncPublisher"
        /\ ip.streamIntervalAsCMI \/ ip.intervalMin >= ip.pcpCMIs[ip.pcp]
        /\ Cardinality(Destinations[p])
             = IF ip.qos \in Srp!SOMEIP THEN Cardinality(Srp!Addresses(p)) ELSE 1

\* The endpoints whose talkers have the identifier s: a second one replaces what
\* the first has reserved.
TalkersOf(s) ==
    {p \in AVBPublishers : AVBParameters[p].streamID = s}
      \cup {p \in IPPublishers : /\ Srp!RequiresReservation(p)
                                 /\ \E d \in Destinations[p] : Srp!CreateStreamId(p, d) = s}

\* Does reservation r hold these bytes on the wire each time gap is over?
Holds(r, bytes, gap) ==
    bytes * r.interval <= (r.framesize + Srp!WireBytes) * r.frames * gap

\* What an IP endpoint has reserved of a message.
ReservedBytes(p) ==
    LET ip == IPParameters[p]
    IN  Srp!MessageBytes(ip.qos, ip.payload) - Srp!Unreserved(ip.qos, ip.payload)

\* A talker's reservation holds what it sends: a message, in the time since the
\* last one.  What the endpoint has computed agrees with when its application
\* sends, for talkers configured as above whose streams have one talker each,
\* unless the counter of the cycles of a synchronous publisher overflows.  An
\* AVB stream holds the whole frame.  So does that of an IP endpoint for a
\* payload of one frame; for a larger one it may lack the headers of one frame,
\* and less than a byte for each frame, but no more than that.
KeepsReservation ==
    [][\A a \in Applications :
          /\ sent'[a] # sent[a] /\ lastSent[a] # None
          /\ AppParameters[a].kind = "SyncPublisher"
                => (lastSent[a] % CycleLimit) + AppParameters[a].modulo < CycleLimit
          => /\ \A p \in connectedPublishers :
                   /\ ApplicationOf[p] = a /\ AVBConfigured(p)
                   /\ TalkersOf(AVBParameters[p].streamID) = {p}
                   => Holds(reservation[AVBParameters[p].streamID],
                            PublishedBytes(p) + Srp!WireBytes, now - lastSent[a])
             /\ \A p \in IPPublishers :
                   ApplicationOf[p] = a /\ Srp!RequiresReservation(p) /\ IPConfigured(p)
                     => \A d \in remotes[p] :
                           TalkersOf(Srp!CreateStreamId(p, d)) = {p}
                             => Holds(reservation[Srp!CreateStreamId(p, d)],
                                      ReservedBytes(p), now - lastSent[a])]_vars
=============================================================================
