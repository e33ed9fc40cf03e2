----------------------------- MODULE Publishing -----------------------------
(***************************************************************************)
(* The applications of a network from their start to their stop: which     *)
(* register with their manager, and when the publishers among them send.   *)
(* A Publisher sends at intervals, a SyncPublisher in the cycles of its    *)
(* scheduler while its clock is synchronised, a GatewayPublisher what it   *)
(* gets from the CAN gateway.                                              *)
(*                                                                         *)
(* The unit of time is a cycle of the schedulers; times that are no        *)
(* multiples of it, and the action time within a cycle, are orders of the  *)
(* events of one instant, all of which are possible.                       *)
(***************************************************************************)
EXTENDS Naturals

CONSTANTS
    Applications,
    AppParameters,      \* the parameters of each application
    CycleLimit,         \* values of the cycle counter (2^32)
    MaxTime,            \* bound: length of the simulation
    MaxSyncChanges,     \* bound: synchronisations gained or lost
    MaxGatewayMessages, \* bound: messages of the CAN gateway
    CanIds,             \* identifiers of CAN frames
    None

Publishers == {"Publisher", "SyncPublisher", "GatewayPublisher"}
Subscribers == {"Subscriber", "GatewaySubscriber"}

\* What every application keeps of its parameters.
ServiceFields(app) ==
    /\ app.serviceId \in Nat /\ app.instanceId \in Nat
    /\ app.enabled \in BOOLEAN
    /\ app.startTime \in Nat /\ app.stopTime \in Nat   \* 0 is never

ServiceParameters(app) ==
    /\ ServiceFields(app)
    /\ app.stopTime # 0 => app.startTime < app.stopTime

\* An interval of 0 would keep time from passing.
PublisherParameters(app) ==
    /\ app.intervalMin \in Nat \ {0} /\ app.intervalMax \in Nat
    /\ app.intervalFrames \in Nat \ {0}
    /\ app.payload \in Nat /\ app.payloadMax \in Nat /\ app.payload <= app.payloadMax
    /\ app.srClass \in {"A", "B"}
    /\ app.preventReservation \in BOOLEAN

SyncPublisherParameters(app) == app.modulo \in Nat

\* The gateway has the frames of each of the application's CAN identifiers
\* sent to it.
RegisteredForCANID(a, id) ==
    AppParameters[a].kind = "GatewayPublisher" /\ id \in AppParameters[a].canIds

\* What the constants are.
PublishingAssumption ==
    /\ \A a \in Applications :
          /\ ServiceParameters(AppParameters[a])
          /\ AppParameters[a].kind \in Publishers \cup Subscribers
          /\ AppParameters[a].kind \in Publishers => PublisherParameters(AppParameters[a])
          /\ AppParameters[a].kind = "SyncPublisher"
                => SyncPublisherParameters(AppParameters[a])
    /\ CycleLimit \in Nat \ {0} /\ MaxTime \in Nat
    /\ MaxSyncChanges \in Nat /\ MaxGatewayMessages \in Nat
    /\ None \notin Nat

VARIABLES
    now,             \* simTime, and the cycles since its beginning
    startMessage,    \* is the start message scheduled, per application
    stopMessage,     \* is the stop message scheduled
    connector,       \* has the manager given the application its connector
    sendMsgTimer,    \* when _sendMsgTimer is due, or None
    event,           \* cycle of the event registered with the scheduler, or None
    synchronized,    \* synchronized, per SyncPublisher
    nextCycle,       \* nextCycle
    sent,            \* number of messages sent
    lastSent,        \* when it called sendMessage last, or None
    syncChanges, gatewayMessages,  \* how often so far
    aborted          \* has a handler thrown: the end of the simulation

timers == <<startMessage, stopMessage, sendMsgTimer, event>>
counters == <<syncChanges, gatewayMessages, aborted>>
vars == <<now, timers, connector, synchronized, nextCycle, sent, lastSent, counters>>

Kind(a) == AppParameters[a].kind

\* A SyncPublisher has not heard of the synchronisation yet and has sent in no
\* cycle.
SyncPublisherInit ==
    /\ event = [a \in Applications |-> None]
    /\ synchronized = [a \in Applications |-> FALSE]
    /\ nextCycle = [a \in Applications |-> 0]

\* Enabled applications start at their start time and stop if they have a
\* stop time.
Init ==
    /\ now = 0
    /\ startMessage = [a \in Applications |-> AppParameters[a].enabled]
    /\ stopMessage = [a \in Applications |->
          AppParameters[a].enabled /\ AppParameters[a].stopTime > 0]
    /\ connector = [a \in Applications |-> FALSE]
    /\ sendMsgTimer = [a \in Applications |-> None]
    /\ SyncPublisherInit
    /\ sent = [a \in Applications |-> 0]
    /\ lastSent = [a \in Applications |-> None]
    /\ syncChanges = 0
    /\ gatewayMessages = 0
    /\ aborted = FALSE

-----------------------------------------------------------------------------
(* What a publisher does next.                                             *)

\* The times at which the next message may be due: an interval is drawn for
\* each of them and divided by the frames it is for.
NextTimes(a) ==
    LET app == AppParameters[a]
    IN  {t \in now..(now + app.intervalMax) :
            (t - now) * app.intervalFrames \in app.intervalMin..app.intervalMax}

\* The first event is in this cycle if its action time is still to come.
FirstCycles == {now, now + 1}

ScheduleNextMessage(a) ==
    \/ /\ Kind(a) = "Publisher"
       /\ \E t \in NextTimes(a) : sendMsgTimer' = [sendMsgTimer EXCEPT ![a] = t]
       /\ UNCHANGED event
    \/ /\ Kind(a) = "SyncPublisher"
       /\ \E t \in IF event[a] = None THEN FirstCycles ELSE {now + 1} :
             event' = [event EXCEPT ![a] = t]
       /\ UNCHANGED sendMsgTimer
    \/ /\ Kind(a) = "GatewayPublisher"
       /\ UNCHANGED <<sendMsgTimer, event>>

SendMessage(a) ==
    /\ sent' = [sent EXCEPT ![a] = @ + 1]
    /\ lastSent' = [lastSent EXCEPT ![a] = now]

\* A publisher registers with its manager and schedules its first message.
PublisherStart(a) ==
    /\ Kind(a) \in Publishers
    /\ connector' = [connector EXCEPT ![a] = TRUE]
    /\ ScheduleNextMessage(a)

\* A subscriber registers and subscribes.
SubscriberStart(a) ==
    /\ Kind(a) \in Subscribers
    /\ connector' = [connector EXCEPT ![a] = TRUE]
    /\ UNCHANGED <<sendMsgTimer, event>>

HandleStart(a) ==
    /\ startMessage[a] /\ now = AppParameters[a].startTime
    /\ startMessage' = [startMessage EXCEPT ![a] = FALSE]
    /\ PublisherStart(a) \/ SubscriberStart(a)
    /\ UNCHANGED <<now, stopMessage, synchronized, nextCycle, sent, lastSent, counters>>

\* Mutant: the timer goes on.
HandleStop_KeepsTimer(a) ==
    /\ stopMessage[a] /\ now = AppParameters[a].stopTime
    /\ stopMessage' = [stopMessage EXCEPT ![a] = FALSE]
    /\ UNCHANGED <<now, startMessage, sendMsgTimer, event, connector, synchronized,
                   nextCycle, sent, lastSent, counters>>

\* The timer is cancelled, the scheduler's event and the gateway are not: only
\* a plain Publisher stops.
HandleStop(a) ==
    /\ stopMessage[a] /\ now = AppParameters[a].stopTime
    /\ stopMessage' = [stopMessage EXCEPT ![a] = FALSE]
    /\ sendMsgTimer' = [sendMsgTimer EXCEPT ![a] = None]
    /\ UNCHANGED <<now, startMessage, event, connector, synchronized, nextCycle, sent,
                   lastSent, counters>>

HandleMessage(a) ==
    /\ sendMsgTimer[a] = now
    /\ SendMessage(a)
    /\ ScheduleNextMessage(a)
    /\ UNCHANGED <<now, startMessage, stopMessage, connector, synchronized, nextCycle,
                   counters>>

-----------------------------------------------------------------------------
(* Synchronous and gateway publishers.                                     *)

Cycles == now % CycleLimit

\* Mutants: the next cycle is not remembered, or in a wider variable.
SchedulerIn_EveryCycle(a) ==
    /\ event[a] = now
    /\ \/ /\ synchronized[a] /\ nextCycle[a] <= Cycles
          /\ SendMessage(a)
       \/ /\ ~(synchronized[a] /\ nextCycle[a] <= Cycles)
          /\ UNCHANGED <<sent, lastSent>>
    /\ ScheduleNextMessage(a)
    /\ UNCHANGED <<now, startMessage, stopMessage, connector, synchronized, nextCycle,
                   counters>>

SchedulerIn_Wide(a) ==
    /\ event[a] = now
    /\ \/ /\ synchronized[a] /\ nextCycle[a] <= Cycles
          /\ SendMessage(a)
          /\ nextCycle' = [nextCycle EXCEPT ![a] = Cycles + AppParameters[a].modulo]
       \/ /\ ~(synchronized[a] /\ nextCycle[a] <= Cycles)
          /\ UNCHANGED <<sent, lastSent, nextCycle>>
    /\ ScheduleNextMessage(a)
    /\ UNCHANGED <<now, startMessage, stopMessage, connector, synchronized, counters>>

\* The scheduler's event of this cycle.
SchedulerIn(a) ==
    /\ event[a] = now
    /\ \/ /\ synchronized[a] /\ nextCycle[a] <= Cycles
          /\ SendMessage(a)
          /\ nextCycle' = [nextCycle EXCEPT
                ![a] = (Cycles + AppParameters[a].modulo) % CycleLimit]
       \/ /\ ~(synchronized[a] /\ nextCycle[a] <= Cycles)
          /\ UNCHANGED <<sent, lastSent, nextCycle>>
    /\ ScheduleNextMessage(a)
    /\ UNCHANGED <<now, startMessage, stopMessage, connector, synchronized, counters>>

\* The node's synchronisation is gained or lost.
ReceiveSignal(a, kind) ==
    /\ Kind(a) = "SyncPublisher"
    /\ synchronized[a] # (kind = "SYNC")
    /\ syncChanges < MaxSyncChanges
    /\ synchronized' = [synchronized EXCEPT ![a] = (kind = "SYNC")]
    /\ syncChanges' = syncChanges + 1
    /\ UNCHANGED <<now, timers, connector, nextCycle, sent, lastSent, gatewayMessages,
                   aborted>>

\* A message of the gateway is forwarded if it is an aggregation, and is an
\* error before the start.
GatewayIn(a, id, aggregation) ==
    /\ RegisteredForCANID(a, id)
    /\ gatewayMessages < MaxGatewayMessages
    /\ gatewayMessages' = gatewayMessages + 1
    /\ aborted' = ~connector[a]
    /\ sent' = [sent EXCEPT ![a] = @ + (IF connector[a] /\ aggregation THEN 1 ELSE 0)]
    /\ UNCHANGED <<now, timers, connector, synchronized, nextCycle, lastSent, syncChanges>>

-----------------------------------------------------------------------------
(* Time.                                                                   *)

\* Is something due now?
Due(a) ==
    \/ startMessage[a] /\ now = AppParameters[a].startTime
    \/ stopMessage[a] /\ now = AppParameters[a].stopTime
    \/ sendMsgTimer[a] = now
    \/ event[a] = now

Tick ==
    /\ now < MaxTime
    /\ \A a \in Applications : ~Due(a)
    /\ now' = now + 1
    /\ UNCHANGED <<timers, connector, synchronized, nextCycle, sent, lastSent, counters>>

\* What time brings, and what the clock and the gateway do.
Timed ==
    \/ \E a \in Applications :
          HandleStart(a) \/ HandleStop(a) \/ HandleMessage(a) \/ SchedulerIn(a)
    \/ Tick

Input ==
    \E a \in Applications :
        \/ \E kind \in {"SYNC", "NOT_SYNC"} : ReceiveSignal(a, kind)
        \/ \E id \in CanIds, aggregation \in BOOLEAN : GatewayIn(a, id, aggregation)

Next == ~aborted /\ (Timed \/ Input)

Spec == Init /\ [][Next]_vars

-----------------------------------------------------------------------------
(* Properties.                                                             *)

\* Every variable stays in its declared range.
TypeOK ==
    /\ now \in Nat
    /\ startMessage \in [Applications -> BOOLEAN]
    /\ stopMessage \in [Applications -> BOOLEAN]
    /\ connector \in [Applications -> BOOLEAN]
    /\ sendMsgTimer \in [Applications -> Nat \cup {None}]
    /\ event \in [Applications -> Nat \cup {None}]
    /\ synchronized \in [Applications -> BOOLEAN]
    /\ nextCycle \in [Applications -> 0..(CycleLimit - 1)]
    /\ sent \in [Applications -> Nat]
    /\ lastSent \in [Applications -> Nat \cup {None}]
    /\ syncChanges \in 0..MaxSyncChanges
    /\ gatewayMessages \in 0..MaxGatewayMessages
    /\ aborted \in BOOLEAN

\* How long a plain publisher has been sending: not after its stop.
Running(a) ==
    IF AppParameters[a].stopTime # 0 /\ ~stopMessage[a]
    THEN AppParameters[a].stopTime - AppParameters[a].startTime
    ELSE now - AppParameters[a].startTime

\* A plain publisher keeps pace with the time: from its start to its stop it
\* sends a message per interval, no more and no less, and none after that.
KeepsPace ==
    \A a \in Applications :
        LET app == AppParameters[a]
        IN  Kind(a) = "Publisher" /\ connector[a] =>
              /\ sent[a] * app.intervalMin <= Running(a) * app.intervalFrames
              /\ Running(a) * app.intervalFrames <= (sent[a] + 1) * app.intervalMax

\* The messages of a synchronous publisher are modulo cycles apart, although
\* the synchronisation is lost and regained meanwhile, unless the counter of
\* the cycles overflows between them.
OncePerModulo ==
    [][\A a \in Applications :
          LET app == AppParameters[a]
          IN  /\ Kind(a) = "SyncPublisher" /\ sent'[a] # sent[a] /\ lastSent[a] # None
              /\ (lastSent[a] % CycleLimit) + app.modulo < CycleLimit
              => now - lastSent[a] >= app.modulo]_vars
=============================================================================
