------------------------ MODULE RealTimeStreamProofs ------------------------
(* Theorems about RealTimeStream.                                          *)
EXTENDS RealTimeStream, Integers, StreamNumbersProofs, TLAPS

-----------------------------------------------------------------------------
(* Types of the applications.                                              *)

LEMMA Limits ==
    /\ CycleLimit \in Nat \ {0} /\ MaxSyncChanges \in Nat /\ MaxGatewayMessages \in Nat
    /\ None \notin Nat
BY RealTimeStreamAssumption DEF Apps!PublishingAssumption

LEMMA ApplicationParameters ==
    /\ CycleLimit \in Nat \ {0} /\ MaxSyncChanges \in Nat /\ MaxGatewayMessages \in Nat
    /\ None \notin Nat
    /\ \A a \in Applications :
          /\ AppParameters[a].startTime \in Nat
          /\ AppParameters[a].stopTime \in Nat
          /\ AppParameters[a].stopTime # 0
                => AppParameters[a].startTime < AppParameters[a].stopTime
          /\ AppParameters[a].enabled \in BOOLEAN
          /\ Apps!Kind(a) \in Apps!Publishers =>
                /\ AppParameters[a].intervalMin \in Nat
                /\ AppParameters[a].intervalMax \in Nat
                /\ AppParameters[a].intervalFrames \in Nat
          /\ Apps!Kind(a) = "SyncPublisher" => AppParameters[a].modulo \in Nat
BY RealTimeStreamAssumption
   DEF Apps!PublishingAssumption, Apps!ServiceParameters, Apps!ServiceFields,
       Apps!PublisherParameters, Apps!SyncPublisherParameters, Apps!Kind

LEMMA NextTimesAreNatural ==
    ASSUME now \in Nat, NEW a \in Applications, Apps!Kind(a) \in Apps!Publishers
    PROVE  Apps!NextTimes(a) \subseteq Nat
BY ApplicationParameters DEF Apps!NextTimes

LEMMA ScheduleType ==
    ASSUME Apps!TypeOK, NEW a \in Applications, Apps!ScheduleNextMessage(a)
    PROVE  /\ sendMsgTimer' \in [Applications -> Nat \cup {None}]
           /\ event' \in [Applications -> Nat \cup {None}]
<1>1. CASE Apps!Kind(a) = "Publisher"
  BY <1>1, NextTimesAreNatural DEF Apps!TypeOK, Apps!ScheduleNextMessage, Apps!Publishers
<1>2. CASE Apps!Kind(a) = "SyncPublisher"
  BY <1>2 DEF Apps!TypeOK, Apps!ScheduleNextMessage, Apps!FirstCycles
<1>3. CASE Apps!Kind(a) = "GatewayPublisher"
  BY <1>3 DEF Apps!TypeOK, Apps!ScheduleNextMessage
<1>4. QED
  BY <1>1, <1>2, <1>3 DEF Apps!ScheduleNextMessage

\* Only a plain publisher has a timer, only a synchronous one an event.
Timers ==
    \A a \in Applications :
        /\ Apps!Kind(a) # "Publisher" => sendMsgTimer[a] = None
        /\ Apps!Kind(a) # "SyncPublisher" => event[a] = None

Typed == Apps!TypeOK /\ Timers

LEMMA ScheduleKeepsTimers ==
    ASSUME Typed, NEW a \in Applications, Apps!ScheduleNextMessage(a)
    PROVE  Timers'
BY DEF Typed, Timers, Apps!TypeOK, Apps!ScheduleNextMessage, Apps!Kind

LEMMA ApplicationsInit == Apps!Init => Typed
<1> SUFFICES ASSUME Apps!Init PROVE Typed
  OBVIOUS
<1> USE DEF Apps!Init
<1>1. /\ startMessage \in [Applications -> BOOLEAN]
      /\ stopMessage \in [Applications -> BOOLEAN]
      /\ connector \in [Applications -> BOOLEAN]
  BY ApplicationParameters
<1>2. nextCycle \in [Applications -> 0..(CycleLimit - 1)]
  BY ApplicationParameters DEF Apps!SyncPublisherInit
<1>3. Timers
  BY DEF Apps!SyncPublisherInit, Timers
<1>4. /\ sendMsgTimer \in [Applications -> Nat \cup {None}]
      /\ event \in [Applications -> Nat \cup {None}]
      /\ synchronized \in [Applications -> BOOLEAN]
      /\ sent \in [Applications -> Nat]
      /\ lastSent \in [Applications -> Nat \cup {None}]
  BY DEF Apps!SyncPublisherInit
<1>5. /\ now \in Nat /\ aborted \in BOOLEAN
      /\ syncChanges \in 0..MaxSyncChanges
      /\ gatewayMessages \in 0..MaxGatewayMessages
  <2>1. now = 0 /\ syncChanges = 0 /\ gatewayMessages = 0 /\ aborted = FALSE
    OBVIOUS
  <2> HIDE DEF Apps!Init
  <2>2. aborted \in BOOLEAN
    BY <2>1, Zenon
  <2>3. QED
    BY <2>1, <2>2, Limits
<1>6. QED
  BY <1>1, <1>2, <1>3, <1>4, <1>5 DEF Apps!TypeOK, Typed

LEMMA CyclesAreBounded ==
    ASSUME NEW n \in Nat
    PROVE  n % CycleLimit \in 0..(CycleLimit - 1)
BY ApplicationParameters

LEMMA ApplicationsKeepTypes == Typed /\ Apps!Next => Typed'
<1> SUFFICES ASSUME Typed, Apps!Next PROVE Typed'
  OBVIOUS
<1> USE DEF Apps!TypeOK, Apps!counters, Apps!timers
<1>1. ASSUME NEW a \in Applications, Apps!HandleStart(a) PROVE Typed'
  <2>1. CASE Apps!PublisherStart(a)
    BY <1>1, <2>1, ScheduleType, ScheduleKeepsTimers
       DEF Apps!HandleStart, Apps!PublisherStart, Typed
  <2>2. CASE Apps!SubscriberStart(a)
    BY <1>1, <2>2 DEF Apps!HandleStart, Apps!SubscriberStart, Typed, Timers, Apps!Kind
  <2>3. QED
    BY <1>1, <2>1, <2>2 DEF Apps!HandleStart
<1>2. ASSUME NEW a \in Applications, Apps!HandleStop(a) PROVE Typed'
  BY <1>2 DEF Apps!HandleStop, Typed, Timers, Apps!Kind
<1>3. ASSUME NEW a \in Applications, Apps!HandleMessage(a) PROVE Typed'
  BY <1>3, ScheduleType, ScheduleKeepsTimers
     DEF Apps!HandleMessage, Apps!SendMessage, Typed
<1>4. ASSUME NEW a \in Applications, Apps!SchedulerIn(a) PROVE Typed'
  <2>1. /\ sendMsgTimer' \in [Applications -> Nat \cup {None}]
        /\ event' \in [Applications -> Nat \cup {None}]
        /\ Timers'
    BY <1>4, ScheduleType, ScheduleKeepsTimers DEF Apps!SchedulerIn, Typed
  <2>2. /\ sent' \in [Applications -> Nat]
        /\ lastSent' \in [Applications -> Nat \cup {None}]
    BY <1>4 DEF Apps!SchedulerIn, Apps!SendMessage, Typed
  <2>3. Apps!Kind(a) = "SyncPublisher"
    BY <1>4, ApplicationParameters DEF Apps!SchedulerIn, Typed, Timers
  <2>4. Apps!Cycles + AppParameters[a].modulo \in Nat
    BY <2>3, ApplicationParameters, CyclesAreBounded DEF Apps!Cycles, Typed
  <2>5. nextCycle' \in [Applications -> 0..(CycleLimit - 1)]
    <3>1. (Apps!Cycles + AppParameters[a].modulo) % CycleLimit \in 0..(CycleLimit - 1)
      BY <2>4, CyclesAreBounded
    <3>2. QED
      BY <1>4, <3>1 DEF Apps!SchedulerIn, Typed
  <2>6. QED
    BY <1>4, <2>1, <2>2, <2>5 DEF Apps!SchedulerIn, Typed
<1>5. ASSUME NEW a \in Applications, NEW kind \in {"SYNC", "NOT_SYNC"},
             Apps!ReceiveSignal(a, kind)
      PROVE  Typed'
  BY <1>5, ApplicationParameters DEF Apps!ReceiveSignal, Typed, Timers, Apps!Kind
<1>6. ASSUME NEW a \in Applications, NEW id \in CanIds, NEW aggregation \in BOOLEAN,
             Apps!GatewayIn(a, id, aggregation)
      PROVE  Typed'
  BY <1>6, ApplicationParameters DEF Apps!GatewayIn, Typed, Timers, Apps!Kind
<1>7. CASE Apps!Tick
  BY <1>7 DEF Apps!Tick, Typed, Timers, Apps!Kind
<1>8. QED
  BY <1>1, <1>2, <1>3, <1>4, <1>5, <1>6, <1>7 DEF Apps!Next, Apps!Timed, Apps!Input

-----------------------------------------------------------------------------
(* The pace of plain publishers.                                           *)

\* The intervals before time t bound the messages sent, and those to come.
Elapsed(a, t) == (t - AppParameters[a].startTime) * AppParameters[a].intervalFrames
AtMost(a, n, t) == n * AppParameters[a].intervalMin <= Elapsed(a, t)
AtLeast(a, n, t) == Elapsed(a, t) <= n * AppParameters[a].intervalMax

Stopped(a) == AppParameters[a].stopTime # 0 /\ ~stopMessage[a]

\* Before the start nothing is scheduled, from then to the stop a message, and
\* nothing after it.
Pace(a) ==
    /\ startMessage[a] => /\ ~connector[a]
                          /\ now <= AppParameters[a].startTime
                          /\ AppParameters[a].stopTime # 0 => stopMessage[a]
    /\ ~connector[a] => sent[a] = 0 /\ sendMsgTimer[a] = None
    /\ stopMessage[a] => /\ AppParameters[a].stopTime # 0
                         /\ now <= AppParameters[a].stopTime
                         /\ connector[a] \/ startMessage[a]
    /\ connector[a] => AppParameters[a].startTime <= now
    /\ connector[a] /\ Stopped(a) =>
          /\ sendMsgTimer[a] = None
          /\ AtMost(a, sent[a], AppParameters[a].stopTime)
          /\ AtLeast(a, sent[a] + 1, AppParameters[a].stopTime)
    /\ connector[a] /\ ~Stopped(a) =>
          /\ sendMsgTimer[a] \in Nat
          /\ now <= sendMsgTimer[a]
          /\ AtMost(a, sent[a], now)
          /\ AtMost(a, sent[a] + 1, sendMsgTimer[a])
          /\ AtLeast(a, sent[a] + 1, sendMsgTimer[a])

LEMMA PublisherTypes ==
    ASSUME Typed, NEW a \in Applications, Apps!Kind(a) = "Publisher"
    PROVE  /\ AppParameters[a].startTime \in Nat
           /\ AppParameters[a].stopTime \in Nat
           /\ AppParameters[a].stopTime # 0
                => AppParameters[a].startTime < AppParameters[a].stopTime
           /\ AppParameters[a].intervalMin \in Nat
           /\ AppParameters[a].intervalMax \in Nat
           /\ AppParameters[a].intervalFrames \in Nat
           /\ now \in Nat /\ sent[a] \in Nat /\ None \notin Nat
           /\ sendMsgTimer[a] \in Nat \cup {None}
BY ApplicationParameters DEF Typed, Apps!TypeOK, Apps!Publishers

LEMMA ElapsedGrows ==
    ASSUME Typed, NEW a \in Applications, Apps!Kind(a) = "Publisher",
           NEW t \in Nat, NEW u \in Nat, t <= u
    PROVE  /\ Elapsed(a, t) \in Int /\ Elapsed(a, u) \in Int
           /\ Elapsed(a, u) = Elapsed(a, t) + (u - t) * AppParameters[a].intervalFrames
           /\ Elapsed(a, t) <= Elapsed(a, u)
<1> DEFINE f == AppParameters[a].intervalFrames
           s == AppParameters[a].startTime
<1>1. f \in Nat /\ s \in Nat
  BY PublisherTypes
<1>2. (t - s) * f \in Int /\ (u - s) * f \in Int /\ (u - t) * f \in Int
  BY <1>1
<1>3. (u - s) * f = (t - s) * f + (u - t) * f
  BY <1>1
<1>4. (u - t) * f >= 0
  <2>1. u - t \in Nat
    OBVIOUS
  <2> HIDE DEF f
  <2>2. QED
    BY <1>1, <2>1
<1>5. QED
  BY <1>2, <1>3, <1>4 DEF Elapsed

LEMMA Distributes ==
    /\ \A n, m \in Nat : (n + 1) * m = n * m + m /\ n * m \in Int
    /\ \A x \in Int, m \in Nat : x * m \in Int
OBVIOUS

\* The next message is an interval later.
LEMMA OneMore ==
    ASSUME Typed, NEW a \in Applications, Apps!Kind(a) = "Publisher",
           NEW n \in Nat, NEW t \in Apps!NextTimes(a)
    PROVE  /\ t \in Nat /\ now <= t
           /\ AtMost(a, n, now) => AtMost(a, n + 1, t)
           /\ AtLeast(a, n, now) => AtLeast(a, n + 1, t)
<1>1. /\ t \in Nat /\ now <= t
      /\ AppParameters[a].intervalMin <= (t - now) * AppParameters[a].intervalFrames
      /\ (t - now) * AppParameters[a].intervalFrames <= AppParameters[a].intervalMax
  BY PublisherTypes DEF Apps!NextTimes
<1>2. /\ Elapsed(a, now) \in Int
      /\ Elapsed(a, t) = Elapsed(a, now) + (t - now) * AppParameters[a].intervalFrames
  BY <1>1, PublisherTypes, ElapsedGrows
<1>3. /\ (n + 1) * AppParameters[a].intervalMin
           = n * AppParameters[a].intervalMin + AppParameters[a].intervalMin
      /\ (n + 1) * AppParameters[a].intervalMax
           = n * AppParameters[a].intervalMax + AppParameters[a].intervalMax
      /\ n * AppParameters[a].intervalMin \in Int
      /\ n * AppParameters[a].intervalMax \in Int
      /\ (t - now) * AppParameters[a].intervalFrames \in Int
  <2>1. /\ AppParameters[a].intervalMin \in Nat /\ AppParameters[a].intervalMax \in Nat
        /\ AppParameters[a].intervalFrames \in Nat /\ t - now \in Int
    BY <1>1, PublisherTypes
  <2>2. QED
    BY <2>1, Distributes, Zenon
<1>4. QED
  BY <1>1, <1>2, <1>3, PublisherTypes DEF AtMost, AtLeast

LEMMA PaceInit ==
    ASSUME Apps!Init, NEW a \in Applications, Apps!Kind(a) = "Publisher"
    PROVE  Pace(a)
<1>1. /\ connector[a] = FALSE /\ sent[a] = 0 /\ sendMsgTimer[a] = None /\ now = 0
      /\ startMessage[a] = AppParameters[a].enabled
      /\ stopMessage[a] = (AppParameters[a].enabled /\ AppParameters[a].stopTime > 0)
  BY DEF Apps!Init
<1>2. AppParameters[a].startTime \in Nat /\ AppParameters[a].stopTime \in Nat
  BY ApplicationParameters
<1>3. /\ 0 <= AppParameters[a].startTime /\ 0 <= AppParameters[a].stopTime
      /\ AppParameters[a].stopTime > 0 <=> AppParameters[a].stopTime # 0
  BY <1>2
<1>4. QED
  BY <1>1, <1>3, Zenon DEF Pace

\* What concerns an application stays.
Untouched(a) ==
    /\ startMessage'[a] = startMessage[a] /\ stopMessage'[a] = stopMessage[a]
    /\ connector'[a] = connector[a] /\ sent'[a] = sent[a]
    /\ sendMsgTimer'[a] = sendMsgTimer[a] /\ now' = now

LEMMA PaceUntouched ==
    ASSUME NEW a \in Applications, Pace(a), Untouched(a)
    PROVE  Pace(a)'
BY DEF Pace, Untouched, Stopped, AtMost, AtLeast, Elapsed

\* Steps of the application itself.
LEMMA PaceAtStart ==
    ASSUME Typed, NEW a \in Applications, Apps!Kind(a) = "Publisher", Pace(a),
           Apps!HandleStart(a)
    PROVE  Pace(a)'
<1>1. PICK t \in Apps!NextTimes(a) : sendMsgTimer' = [sendMsgTimer EXCEPT ![a] = t]
  BY DEF Apps!HandleStart, Apps!PublisherStart, Apps!SubscriberStart,
         Apps!ScheduleNextMessage, Apps!Subscribers
<1>2. /\ startMessage[a] = TRUE /\ startMessage'[a] = FALSE
      /\ connector'[a] = TRUE /\ sendMsgTimer'[a] = t
      /\ now = AppParameters[a].startTime /\ now' = now
      /\ stopMessage' = stopMessage /\ sent' = sent
  BY <1>1 DEF Apps!HandleStart, Apps!PublisherStart, Apps!SubscriberStart, Typed,
              Apps!TypeOK
<1>3. /\ sent[a] = 0
      /\ AppParameters[a].stopTime # 0 => stopMessage[a]
      /\ stopMessage[a] => AppParameters[a].stopTime # 0 /\ now <= AppParameters[a].stopTime
  BY <1>2 DEF Pace
<1>4. AtMost(a, 0, now) /\ AtLeast(a, 0, now)
  <2>1. Elapsed(a, now) = 0
    BY <1>2, PublisherTypes DEF Elapsed
  <2>2. QED
    BY <2>1, PublisherTypes DEF AtMost, AtLeast
<1>5. t \in Nat /\ now <= t /\ AtMost(a, 0 + 1, t) /\ AtLeast(a, 0 + 1, t)
  BY <1>4, OneMore
<1>6. now <= now
  BY PublisherTypes
<1>7. /\ AtMost(a, sent[a], now)' /\ AtMost(a, sent[a] + 1, sendMsgTimer[a])'
      /\ AtLeast(a, sent[a] + 1, sendMsgTimer[a])'
  BY <1>2, <1>3, <1>4, <1>5 DEF AtMost, AtLeast, Elapsed
<1>8. QED
  BY <1>2, <1>3, <1>5, <1>6, <1>7, Zenon DEF Pace, Stopped

LEMMA PaceAtStop ==
    ASSUME Typed, NEW a \in Applications, Apps!Kind(a) = "Publisher", Pace(a),
           Apps!HandleStop(a)
    PROVE  Pace(a)'
<1>1. /\ stopMessage[a] = TRUE /\ stopMessage'[a] = FALSE
      /\ now = AppParameters[a].stopTime /\ now' = now
      /\ sendMsgTimer'[a] = None
      /\ startMessage' = startMessage /\ connector' = connector /\ sent' = sent
  BY DEF Apps!HandleStop, Typed, Apps!TypeOK
<1>2. /\ AppParameters[a].stopTime # 0
      /\ startMessage[a] = FALSE /\ connector[a] = TRUE
      /\ AppParameters[a].startTime <= now
  BY <1>1, PublisherTypes DEF Pace, Typed, Apps!TypeOK
<1>3. /\ sendMsgTimer[a] \in Nat /\ now <= sendMsgTimer[a]
      /\ AtMost(a, sent[a], now)
      /\ AtLeast(a, sent[a] + 1, sendMsgTimer[a])
  BY <1>1, <1>2 DEF Pace, Stopped
<1>4. AtLeast(a, sent[a] + 1, now)
  <2>1. /\ Elapsed(a, now) \in Int /\ Elapsed(a, sendMsgTimer[a]) \in Int
        /\ Elapsed(a, now) <= Elapsed(a, sendMsgTimer[a])
    BY <1>3, ElapsedGrows, PublisherTypes
  <2>2. (sent[a] + 1) * AppParameters[a].intervalMax \in Int
    <3>1. sent[a] + 1 \in Int /\ AppParameters[a].intervalMax \in Nat
      BY PublisherTypes
    <3>2. QED
      BY <3>1, Distributes, Zenon
  <2>3. Elapsed(a, sendMsgTimer[a]) <= (sent[a] + 1) * AppParameters[a].intervalMax
    BY <1>3 DEF AtLeast
  <2>4. QED
    BY <2>1, <2>2, <2>3 DEF AtLeast
<1>5. /\ AtMost(a, sent[a], AppParameters[a].stopTime)'
      /\ AtLeast(a, sent[a] + 1, AppParameters[a].stopTime)'
  BY <1>1, <1>3, <1>4 DEF AtMost, AtLeast, Elapsed
<1>6. QED
  BY <1>1, <1>2, <1>5, Zenon DEF Pace, Stopped

LEMMA PaceAtMessage ==
    ASSUME Typed, NEW a \in Applications, Apps!Kind(a) = "Publisher", Pace(a),
           Apps!HandleMessage(a)
    PROVE  Pace(a)'
<1>1. PICK t \in Apps!NextTimes(a) : sendMsgTimer' = [sendMsgTimer EXCEPT ![a] = t]
  BY DEF Apps!HandleMessage, Apps!ScheduleNextMessage
<1>2. /\ sendMsgTimer[a] = now /\ sendMsgTimer'[a] = t
      /\ sent'[a] = sent[a] + 1 /\ now' = now
      /\ startMessage' = startMessage /\ stopMessage' = stopMessage
      /\ connector' = connector
  BY <1>1 DEF Apps!HandleMessage, Apps!SendMessage, Typed, Apps!TypeOK
<1>3. sendMsgTimer[a] # None
  BY <1>2, PublisherTypes
<1>4. /\ connector[a] /\ ~Stopped(a)
      /\ AtMost(a, sent[a] + 1, now) /\ AtLeast(a, sent[a] + 1, now)
  BY <1>2, <1>3 DEF Pace
<1>5. sent[a] + 1 \in Nat
  BY PublisherTypes
<1>6. /\ t \in Nat /\ now <= t
      /\ AtMost(a, sent[a] + 1 + 1, t) /\ AtLeast(a, sent[a] + 1 + 1, t)
  BY <1>4, <1>5, OneMore
<1>7. /\ AtMost(a, sent[a], now)' /\ AtMost(a, sent[a] + 1, sendMsgTimer[a])'
      /\ AtLeast(a, sent[a] + 1, sendMsgTimer[a])'
  BY <1>2, <1>4, <1>6 DEF AtMost, AtLeast, Elapsed
<1>8. QED
  BY <1>2, <1>4, <1>6, <1>7, Zenon DEF Pace, Stopped

LEMMA PaceAtTick ==
    ASSUME Typed, NEW a \in Applications, Apps!Kind(a) = "Publisher", Pace(a), Apps!Tick
    PROVE  Pace(a)'
<1>1. /\ now' = now + 1
      /\ startMessage' = startMessage /\ stopMessage' = stopMessage
      /\ connector' = connector /\ sent' = sent /\ sendMsgTimer' = sendMsgTimer
      /\ ~Apps!Due(a)
  BY DEF Apps!Tick, Apps!timers
<1>2. /\ startMessage[a] => now' <= AppParameters[a].startTime
      /\ stopMessage[a] => now' <= AppParameters[a].stopTime
      /\ connector[a] => AppParameters[a].startTime <= now'
  BY <1>1, PublisherTypes DEF Pace, Apps!Due
<1>3. ASSUME connector[a], ~Stopped(a)
      PROVE  now' <= sendMsgTimer[a] /\ AtMost(a, sent[a], now')
  <2>1. /\ sendMsgTimer[a] \in Nat /\ now <= sendMsgTimer[a] /\ AtMost(a, sent[a], now)
    BY <1>3 DEF Pace
  <2>2. now' <= sendMsgTimer[a]
    BY <1>1, <2>1, PublisherTypes DEF Apps!Due
  <2>3. /\ Elapsed(a, now) \in Int /\ Elapsed(a, now + 1) \in Int
        /\ Elapsed(a, now) <= Elapsed(a, now + 1)
    BY ElapsedGrows, PublisherTypes
  <2>4. sent[a] * AppParameters[a].intervalMin \in Int
    BY PublisherTypes, Distributes
  <2>5. AtMost(a, sent[a], now + 1)
    BY <2>1, <2>3, <2>4 DEF AtMost
  <2>6. QED
    BY <1>1, <2>2, <2>5
<1>4. /\ Stopped(a)' <=> Stopped(a)
      /\ AtMost(a, sent[a], now)' <=> AtMost(a, sent[a], now')
      /\ AtMost(a, sent[a] + 1, sendMsgTimer[a])' <=> AtMost(a, sent[a] + 1, sendMsgTimer[a])
      /\ AtLeast(a, sent[a] + 1, sendMsgTimer[a])'
            <=> AtLeast(a, sent[a] + 1, sendMsgTimer[a])
      /\ AtMost(a, sent[a], AppParameters[a].stopTime)'
            <=> AtMost(a, sent[a], AppParameters[a].stopTime)
      /\ AtLeast(a, sent[a] + 1, AppParameters[a].stopTime)'
            <=> AtLeast(a, sent[a] + 1, AppParameters[a].stopTime)
  BY <1>1 DEF Stopped, AtMost, AtLeast, Elapsed
<1>5. QED
  BY <1>1, <1>2, <1>3, <1>4, Zenon DEF Pace

LEMMA PaceKept ==
    ASSUME Typed, NEW a \in Applications, Apps!Kind(a) = "Publisher", Pace(a), Apps!Next
    PROVE  Pace(a)'
<1> USE DEF Apps!counters, Apps!timers
<1>1. ASSUME NEW b \in Applications, Apps!HandleStart(b) PROVE Pace(a)'
  <2>1. CASE b = a
    BY <1>1, <2>1, PaceAtStart
  <2>2. CASE b # a
    <3>1. Untouched(a)
      BY <1>1, <2>2 DEF Apps!HandleStart, Apps!PublisherStart, Apps!SubscriberStart,
                        Apps!ScheduleNextMessage, Untouched, Typed, Apps!TypeOK
    <3>2. QED
      BY <3>1, PaceUntouched
  <2>3. QED
    BY <2>1, <2>2
<1>2. ASSUME NEW b \in Applications, Apps!HandleStop(b) PROVE Pace(a)'
  <2>1. CASE b = a
    BY <1>2, <2>1, PaceAtStop
  <2>2. CASE b # a
    <3>1. Untouched(a)
      BY <1>2, <2>2 DEF Apps!HandleStop, Untouched, Typed, Apps!TypeOK
    <3>2. QED
      BY <3>1, PaceUntouched
  <2>3. QED
    BY <2>1, <2>2
<1>3. ASSUME NEW b \in Applications, Apps!HandleMessage(b) PROVE Pace(a)'
  <2>1. CASE b = a
    BY <1>3, <2>1, PaceAtMessage
  <2>2. CASE b # a
    <3>1. Untouched(a)
      BY <1>3, <2>2 DEF Apps!HandleMessage, Apps!SendMessage, Apps!ScheduleNextMessage,
                        Untouched, Typed, Apps!TypeOK
    <3>2. QED
      BY <3>1, PaceUntouched
  <2>3. QED
    BY <2>1, <2>2
<1>4. ASSUME NEW b \in Applications, Apps!SchedulerIn(b) PROVE Pace(a)'
  <2>1. Apps!Kind(b) = "SyncPublisher"
    BY <1>4, Limits DEF Apps!SchedulerIn, Typed, Timers, Apps!TypeOK
  <2>2. Untouched(a)
    BY <1>4, <2>1 DEF Apps!SchedulerIn, Apps!SendMessage, Apps!ScheduleNextMessage,
                      Untouched, Typed, Apps!TypeOK
  <2>3. QED
    BY <2>2, PaceUntouched
<1>5. ASSUME NEW b \in Applications, NEW kind \in {"SYNC", "NOT_SYNC"},
             Apps!ReceiveSignal(b, kind)
      PROVE  Pace(a)'
  <2>1. Untouched(a)
    BY <1>5 DEF Apps!ReceiveSignal, Untouched
  <2>2. QED
    BY <2>1, PaceUntouched
<1>6. ASSUME NEW b \in Applications, NEW id \in CanIds, NEW aggregation \in BOOLEAN,
             Apps!GatewayIn(b, id, aggregation)
      PROVE  Pace(a)'
  <2>1. Untouched(a)
    BY <1>6 DEF Apps!GatewayIn, Apps!RegisteredForCANID, Apps!Kind, Untouched, Typed,
                Apps!TypeOK
  <2>2. QED
    BY <2>1, PaceUntouched
<1>7. CASE Apps!Tick
  BY <1>7, PaceAtTick
<1>8. QED
  BY <1>1, <1>2, <1>3, <1>4, <1>5, <1>6, <1>7 DEF Apps!Next, Apps!Timed, Apps!Input

Paced == \A a \in Applications : Apps!Kind(a) = "Publisher" => Pace(a)

LEMMA PacedKeepsPace == Typed /\ Paced => KeepsPace
<1> SUFFICES ASSUME Typed, Paced, NEW a \in Applications, Apps!Kind(a) = "Publisher",
                    connector[a]
             PROVE  /\ sent[a] * AppParameters[a].intervalMin
                         <= Apps!Running(a) * AppParameters[a].intervalFrames
                    /\ Apps!Running(a) * AppParameters[a].intervalFrames
                         <= (sent[a] + 1) * AppParameters[a].intervalMax
  BY DEF KeepsPace, Apps!KeepsPace
<1>1. Pace(a)
  BY DEF Paced
<1>2. CASE Stopped(a)
  BY <1>1, <1>2 DEF Pace, Stopped, Apps!Running, AtMost, AtLeast, Elapsed
<1>3. CASE ~Stopped(a)
  <2>1. /\ sendMsgTimer[a] \in Nat /\ now <= sendMsgTimer[a]
        /\ AtMost(a, sent[a], now) /\ AtLeast(a, sent[a] + 1, sendMsgTimer[a])
    BY <1>1, <1>3 DEF Pace
  <2>2. /\ Elapsed(a, now) \in Int /\ Elapsed(a, sendMsgTimer[a]) \in Int
        /\ Elapsed(a, now) <= Elapsed(a, sendMsgTimer[a])
    BY <2>1, ElapsedGrows, PublisherTypes
  <2>3. (sent[a] + 1) * AppParameters[a].intervalMax \in Int
    <3>1. sent[a] + 1 \in Int /\ AppParameters[a].intervalMax \in Nat
      BY PublisherTypes
    <3>2. QED
      BY <3>1, Distributes, Zenon
  <2>4. Elapsed(a, now) <= (sent[a] + 1) * AppParameters[a].intervalMax
    BY <2>1, <2>2, <2>3 DEF AtLeast
  <2>5. Elapsed(a, now) = Apps!Running(a) * AppParameters[a].intervalFrames
    BY <1>3 DEF Elapsed, Stopped, Apps!Running
  <2>6. QED
    BY <2>1, <2>4, <2>5 DEF AtMost
<1>4. QED
  BY <1>2, <1>3

LEMMA PacedInit == Apps!Init => Paced
BY PaceInit DEF Paced

LEMMA PacedKept == Typed /\ Paced /\ Apps!Next => Paced'
<1> SUFFICES ASSUME Typed, Paced, Apps!Next, NEW a \in Applications,
                    Apps!Kind(a) = "Publisher"
             PROVE  Pace(a)'
  BY DEF Paced, Apps!Kind
<1> QED
  BY PaceKept DEF Paced

-----------------------------------------------------------------------------
(* The cycles of synchronous publishers.                                   *)

\* The next cycle is modulo cycles after the last one it sent in.
Synchronous(a) ==
    lastSent[a] # None =>
        /\ lastSent[a] <= now
        /\ nextCycle[a] = ((lastSent[a] % CycleLimit) + AppParameters[a].modulo) % CycleLimit

AllSynchronous == \A a \in Applications : Apps!Kind(a) = "SyncPublisher" => Synchronous(a)

\* An event of a counter that did not wrap is at least that much later.
LEMMA CyclesApart ==
    ASSUME NEW m \in Nat, NEW n \in Nat, NEW k \in Nat, m <= n,
           (m % CycleLimit) + k <= n % CycleLimit
    PROVE  n - m >= k
<1> DEFINE L == CycleLimit
           q1 == m \div L
           q2 == n \div L
           r1 == m % L
           r2 == n % L
<1>1. L \in Nat /\ L > 0
  BY Limits
<1>2. /\ q1 \in Int /\ q2 \in Int
      /\ m = L * q1 + r1 /\ n = L * q2 + r2
      /\ r1 \in Int /\ 0 <= r1 /\ r1 < L /\ r2 \in Int /\ 0 <= r2 /\ r2 < L
  BY <1>1
<1>3. r1 + k <= r2
  OBVIOUS
<1> HIDE DEF L, q1, q2, r1, r2
<1>4. CASE q1 <= q2
  <2>1. L * (q2 - q1) >= 0
    <3>1. q2 - q1 \in Nat
      BY <1>2, <1>4
    <3>2. QED
      BY <1>1, <3>1
  <2>2. L * (q2 - q1) = L * q2 - L * q1 /\ L * q2 \in Int /\ L * q1 \in Int
    BY <1>1, <1>2
  <2>3. QED
    BY <1>2, <1>3, <2>1, <2>2
<1>5. CASE q1 > q2
  <2>1. L * (q1 - q2 - 1) >= 0
    <3>1. q1 - q2 - 1 \in Nat
      BY <1>2, <1>5
    <3>2. QED
      BY <1>1, <3>1
  <2>2. /\ L * (q1 - q2 - 1) = L * q1 - L * q2 - L
        /\ L * q2 \in Int /\ L * q1 \in Int
    BY <1>1, <1>2
  <2>3. QED
    BY <1>1, <1>2, <1>3, <2>1, <2>2
<1>6. QED
  BY <1>2, <1>4, <1>5

LEMMA SynchronousTypes ==
    ASSUME Typed, NEW a \in Applications, Apps!Kind(a) = "SyncPublisher"
    PROVE  /\ now \in Nat /\ lastSent[a] \in Nat \cup {None} /\ None \notin Nat
           /\ nextCycle[a] \in Nat /\ sendMsgTimer[a] = None
           /\ AppParameters[a].modulo \in Nat /\ CycleLimit \in Nat \ {0}
BY ApplicationParameters DEF Typed, Timers, Apps!TypeOK

LEMMA SynchronousInit == Apps!Init => AllSynchronous
BY DEF Apps!Init, AllSynchronous, Synchronous

LEMMA SynchronousUntouched ==
    ASSUME NEW a \in Applications, Synchronous(a), lastSent'[a] = lastSent[a],
           nextCycle'[a] = nextCycle[a], now' = now
    PROVE  Synchronous(a)'
BY DEF Synchronous

\* Only its scheduler makes a synchronous publisher send.
LEMMA SynchronousStep ==
    ASSUME Typed, NEW a \in Applications, Apps!Kind(a) = "SyncPublisher", Apps!Next
    PROVE  \/ /\ lastSent'[a] = lastSent[a] /\ nextCycle'[a] = nextCycle[a]
              /\ sent'[a] = sent[a] /\ (now' = now \/ now' = now + 1)
           \/ /\ nextCycle[a] <= (now % CycleLimit)
              /\ lastSent'[a] = now /\ now' = now
              /\ nextCycle'[a] = ((now % CycleLimit) + AppParameters[a].modulo) % CycleLimit
<1> USE DEF Apps!counters, Apps!timers
<1>1. ASSUME NEW b \in Applications, Apps!HandleStart(b) \/ Apps!HandleStop(b)
      PROVE  /\ lastSent' = lastSent /\ nextCycle' = nextCycle
             /\ sent' = sent /\ now' = now
  BY <1>1 DEF Apps!HandleStart, Apps!HandleStop
<1>2. ASSUME NEW b \in Applications, Apps!HandleMessage(b)
      PROVE  /\ lastSent'[a] = lastSent[a] /\ nextCycle' = nextCycle
             /\ sent'[a] = sent[a] /\ now' = now
  <2>1. b # a
    BY <1>2, SynchronousTypes DEF Apps!HandleMessage
  <2>2. QED
    BY <1>2, <2>1 DEF Apps!HandleMessage, Apps!SendMessage, Typed, Apps!TypeOK
<1>3. ASSUME NEW b \in Applications, Apps!SchedulerIn(b), b # a
      PROVE  /\ lastSent'[a] = lastSent[a] /\ nextCycle'[a] = nextCycle[a]
             /\ sent'[a] = sent[a] /\ now' = now
  BY <1>3 DEF Apps!SchedulerIn, Apps!SendMessage, Typed, Apps!TypeOK
<1>4. CASE Apps!SchedulerIn(a)
  <2>1. CASE Apps!SendMessage(a) /\ nextCycle[a] <= Apps!Cycles
    BY <1>4, <2>1 DEF Apps!SchedulerIn, Apps!SendMessage, Apps!Cycles, Typed, Apps!TypeOK
  <2>2. CASE UNCHANGED <<sent, lastSent, nextCycle>>
    BY <1>4, <2>2 DEF Apps!SchedulerIn
  <2>3. QED
    BY <1>4, <2>1, <2>2 DEF Apps!SchedulerIn
<1>5. ASSUME NEW b \in Applications, NEW kind \in {"SYNC", "NOT_SYNC"},
             Apps!ReceiveSignal(b, kind)
      PROVE  /\ lastSent' = lastSent /\ nextCycle' = nextCycle
             /\ sent' = sent /\ now' = now
  BY <1>5 DEF Apps!ReceiveSignal
<1>6. ASSUME NEW b \in Applications, NEW id \in CanIds, NEW aggregation \in BOOLEAN,
             Apps!GatewayIn(b, id, aggregation)
      PROVE  /\ lastSent' = lastSent /\ nextCycle' = nextCycle
             /\ sent'[a] = sent[a] /\ now' = now
  <2>1. b # a
    BY <1>6 DEF Apps!GatewayIn, Apps!RegisteredForCANID, Apps!Kind
  <2>2. QED
    BY <1>6, <2>1 DEF Apps!GatewayIn, Typed, Apps!TypeOK
<1>7. CASE Apps!Tick
  BY <1>7 DEF Apps!Tick
<1>8. QED
  BY <1>1, <1>2, <1>3, <1>4, <1>5, <1>6, <1>7 DEF Apps!Next, Apps!Timed, Apps!Input

LEMMA SynchronousKept == Typed /\ AllSynchronous /\ Apps!Next => AllSynchronous'
<1> SUFFICES ASSUME Typed, AllSynchronous, Apps!Next, NEW a \in Applications,
                    Apps!Kind(a) = "SyncPublisher"
             PROVE  Synchronous(a)'
  BY DEF AllSynchronous, Apps!Kind
<1>1. Synchronous(a)
  BY DEF AllSynchronous
<1>2. CASE /\ lastSent'[a] = lastSent[a] /\ nextCycle'[a] = nextCycle[a]
           /\ now' = now \/ now' = now + 1
  BY <1>1, <1>2, SynchronousTypes DEF Synchronous
<1>3. CASE /\ lastSent'[a] = now /\ now' = now
           /\ nextCycle'[a] = ((now % CycleLimit) + AppParameters[a].modulo) % CycleLimit
  BY <1>3, SynchronousTypes DEF Synchronous
<1>4. QED
  BY <1>2, <1>3, SynchronousStep

LEMMA SendsApart ==
    ASSUME Typed, AllSynchronous, Apps!Next, NEW a \in Applications,
           Apps!Kind(a) = "SyncPublisher", sent'[a] # sent[a], lastSent[a] # None,
           (lastSent[a] % CycleLimit) + AppParameters[a].modulo < CycleLimit
    PROVE  now - lastSent[a] >= AppParameters[a].modulo
<1> DEFINE k == (lastSent[a] % CycleLimit) + AppParameters[a].modulo
<1>1. /\ lastSent[a] \in Nat /\ lastSent[a] <= now
      /\ nextCycle[a] = k % CycleLimit
  BY SynchronousTypes DEF AllSynchronous, Synchronous
<1>2. nextCycle[a] <= now % CycleLimit
  BY SynchronousStep
<1>3. k \in Nat
  BY <1>1, SynchronousTypes
<1>4. k % CycleLimit = k
  <2>1. \A x \in Nat, y \in Nat \ {0} : x < y => x % y = x
    OBVIOUS
  <2>2. k < CycleLimit
    OBVIOUS
  <2> HIDE DEF k
  <2>3. QED
    BY <1>3, <2>1, <2>2, Limits
<1>5. QED
  BY <1>1, <1>2, <1>4, CyclesApart, SynchronousTypes

-----------------------------------------------------------------------------
(* Types of the endpoints.                                                 *)

LEMMA EndpointParameters ==
    /\ \A p \in AVBPublishers :
          /\ AVBParameters[p].host \in Hosts
          /\ AVBParameters[p].streamID \in StreamIDs
          /\ AVBParameters[p].srClass \in {"A", "B"}
          /\ AVBParameters[p].payload \in Nat
          /\ AVBParameters[p].intervalFrames \in Nat
    /\ \A e \in AVBSubscribers :
          /\ ListenerParameters[e].host \in Hosts
          /\ ListenerParameters[e].streamID \in StreamIDs
    /\ Destinations \in [IPPublishers -> SUBSET (Nat \X Nat)]
    /\ AVBPublishers \cap IPPublishers = {}
    /\ MaxFaults \in Nat
    /\ \A s \in StreamIDs : s \notin Nat \X Nat \X Nat
BY RealTimeStreamAssumption
   DEF Srp!StreamReservationAssumption, Srp!AVBPublisherParameters,
       Srp!AVBSubscriberParameters

LEMMA IPEndpointParameters ==
    ASSUME NEW p \in IPPublishers
    PROVE  /\ IPParameters[p].host \in Hosts
           /\ IPParameters[p].streamID \in StreamIDs
           /\ IPParameters[p].serviceId \in Nat /\ IPParameters[p].instanceId \in Nat
           /\ IPParameters[p].intervalMin \in Nat /\ IPParameters[p].payload \in Nat
           /\ IPParameters[p].advertise \in BOOLEAN
           /\ \A pcp \in DOMAIN IPParameters[p].pcpCMIs :
                 IPParameters[p].pcpCMIs[pcp] \in Nat \ {0}
<1>1. Srp!IPPublisherParameters(IPParameters[p])
  BY RealTimeStreamAssumption, Zenon DEF Srp!StreamReservationAssumption
<1>2. QED
  BY <1>1 DEF Srp!IPPublisherFields, Srp!IPPublisherParameters

LEMMA StreamsOfEndpoints ==
    /\ StreamIDs \subseteq Srp!Streams
    /\ \A p \in IPPublishers : \A d \in Destinations[p] : Srp!CreateStreamId(p, d) \in Srp!Streams
BY DEF Srp!Streams

\* The frame and its interval are numbers, whatever the payload.
LEMMA FrameTypes ==
    ASSUME NEW p \in IPPublishers
    PROVE  /\ Srp!FrameBytes(p) \in Int
           /\ Srp!NumFrames(IPParameters[p].payload, Srp!MaxPayload(IPParameters[p].qos)) \in Nat
<1> DEFINE payload == IPParameters[p].payload
           max == Srp!MaxPayload(IPParameters[p].qos)
<1>1. payload \in Nat
  BY IPEndpointParameters
<1>2. max \in Nat /\ max > 0
  BY DEF Srp!MaxPayload, Srp!MaxFrameBytes, Srp!HeaderBytes, Srp!MacFrameBytes,
         Srp!QTagBytes, Srp!IPHeaderBytes, Srp!TCPHeaderBytes, Srp!UDPHeaderBytes,
         Srp!SOMEIPHeaderBytes
<1> HIDE DEF payload, max
<1>3. payload > max => payload \div max \in Nat /\ payload \div max > 0
  BY <1>1, <1>2
<1>4. Srp!NumFrames(payload, max) \in Nat /\ Srp!NumFrames(payload, max) > 0
  BY <1>1, <1>3 DEF Srp!NumFrames
<1>5. Srp!AvgPayload(payload, max) \in Int
  BY <1>1, <1>4 DEF Srp!AvgPayload
<1>6. \A x \in Int : Srp!CalculateL2Framesize(IPParameters[p].qos, x) \in Int
  BY DEF Srp!CalculateL2Framesize, Srp!HeaderBytes, Srp!MacFrameBytes,
         Srp!QTagBytes, Srp!IPHeaderBytes, Srp!TCPHeaderBytes, Srp!UDPHeaderBytes,
         Srp!SOMEIPHeaderBytes
<1>7. Srp!FrameBytes(p) \in Int
  BY <1>5, <1>6 DEF Srp!FrameBytes, payload, max
<1>8. QED
  BY <1>4, <1>7 DEF payload, max

LEMMA IPReservationType ==
    ASSUME NEW p \in IPPublishers, NEW d \in Destinations[p], Srp!RequiresReservation(p)
    PROVE  /\ Srp!IPReservation(p, d) \in Srp!TalkerReservation
           /\ Srp!IPReservation(p, d).owner = p
           /\ Srp!IPReservation(p, d).dest = d[1]
<1> DEFINE r == Srp!IPReservation(p, d)
           cmi == IPParameters[p].pcpCMIs[IPParameters[p].pcp]
<1>1. d[1] \in Nat
  BY EndpointParameters
<1>2. /\ r.owner = p /\ r.dest = d[1]
      /\ r.frames = Srp!NumFrames(IPParameters[p].payload, Srp!MaxPayload(IPParameters[p].qos))
      /\ r.advertised = IPParameters[p].advertise
      /\ r = [owner |-> r.owner, dest |-> r.dest, framesize |-> r.framesize,
              frames |-> r.frames, interval |-> r.interval, advertised |-> r.advertised]
  BY DEF Srp!IPReservation, Srp!Reservation
<1>3. r.interval \in Nat
  BY IPEndpointParameters DEF Srp!IPReservation, Srp!Reservation, Srp!IntervalForClass
<1>4. r.framesize \in Int
  <2>1. CASE IPParameters[p].streamIntervalAsCMI
    BY <2>1, FrameTypes DEF Srp!IPReservation, Srp!Reservation
  <2>2. CASE ~IPParameters[p].streamIntervalAsCMI
    <3>1. cmi \in Nat \ {0}
      BY <2>2, IPEndpointParameters DEF Srp!RequiresReservation
    <3>2. PICK i \in {1, 2} :
            r.framesize = Srp!NormalizeFramesizeForCMI(Srp!FrameBytes(p), cmi, i)
      BY <2>2 DEF Srp!IPReservation, Srp!Reservation, Srp!IntervalForClass
    <3> HIDE DEF cmi, r
    <3>3. \A a \in Int, b \in Nat \ {0} : a \div b \in Int
      OBVIOUS
    <3>4. PICK f \in Int : f = Srp!FrameBytes(p)
      BY FrameTypes
    <3>5. f * i \in Int /\ (cmi - i) * 21 \in Int
      <4>1. i = 1 \/ i = 2
        OBVIOUS
      <4>2. QED
        BY <3>1, <3>4, <4>1
    <3>6. -(f * i - (cmi - i) * 21) \in Int
      BY <3>5
    <3>7. (-(f * i - (cmi - i) * 21)) \div cmi \in Int
      BY <3>1, <3>3, <3>6
    <3>8. Srp!WireBytes = 21
      BY DEF Srp!WireBytes
    <3>9. r.framesize = -((-(f * i - (cmi - i) * 21)) \div cmi)
      BY <3>2, <3>4, <3>8, Zenon DEF Srp!NormalizeFramesizeForCMI, Srp!Ceil
    <3>10. QED
      BY <3>7, <3>9
  <2>3. QED
    BY <2>1, <2>2
<1>5. r.frames \in Nat /\ r.advertised \in BOOLEAN
  BY <1>2, FrameTypes, IPEndpointParameters
<1> HIDE DEF r
<1>6. r \in Srp!TalkerReservation
  BY <1>1, <1>2, <1>3, <1>4, <1>5 DEF Srp!TalkerReservation
<1>7. QED
  BY <1>2, <1>6 DEF r

LEMMA AVBReservationType ==
    ASSUME NEW p \in AVBPublishers
    PROVE  Srp!AVBReservation(p) \in Srp!TalkerReservation
<1>1. Srp!AVBFrameSize(AVBParameters[p].payload) \in Int
  BY EndpointParameters
     DEF Srp!AVBFrameSize, Srp!MinFrameBytes, Srp!MacFrameBytes, Srp!QTagBytes
<1>2. QED
  BY <1>1, EndpointParameters
     DEF Srp!AVBReservation, Srp!AVBPublisherEndpoint, Srp!Reservation,
         Srp!TalkerReservation, Srp!IntervalForClass

-----------------------------------------------------------------------------
(* Reservations.                                                           *)

\* What an IP endpoint has a filter for is among its destinations.
EndpointsTyped ==
    /\ Srp!TypeOK
    /\ \A p \in IPPublishers : remotes[p] \subseteq Destinations[p]

Reserving == EndpointsTyped /\ ConnectedHasListener /\ TalkerPerDestination

LEMMA EndpointsInit == Srp!Init => Reserving
<1> SUFFICES ASSUME Srp!Init PROVE Reserving
  OBVIOUS
<1>1. Srp!TypeOK
  <2>1. faults \in 0..MaxFaults
    BY EndpointParameters DEF Srp!Init
  <2>2. DOMAIN reservation = {}
    BY DEF Srp!Init
  <2>3. failure \in BOOLEAN
    BY Zenon DEF Srp!Init
  <2>4. /\ talkers \in [Hosts -> SUBSET Srp!Streams]
        /\ listeners \in [Hosts -> SUBSET (Srp!Streams \X Srp!Modules)]
        /\ remotes \in [IPPublishers -> SUBSET (Nat \X Nat)]
    BY DEF Srp!Init
  <2>5. QED
    BY <2>1, <2>2, <2>3, <2>4 DEF Srp!Init, Srp!TypeOK
<1>2. \A p \in IPPublishers : remotes[p] = {}
  BY DEF Srp!Init
<1>3. connectedPublishers = {}
  BY DEF Srp!Init
<1>4. QED
  BY <1>1, <1>2, <1>3
     DEF Reserving, EndpointsTyped, ConnectedHasListener, Srp!ConnectedHasListener,
         TalkerPerDestination, Srp!TalkerPerDestination

LEMMA RegisteredTypes ==
    ASSUME EndpointsTyped, NEW h \in Hosts, NEW L \in SUBSET (Srp!Streams \X Srp!Modules),
           NEW P \in SUBSET AVBPublishers, publisherEndpoints \subseteq P,
           Srp!ListenersRegistered(h, L, P)
    PROVE  /\ listeners' \in [Hosts -> SUBSET (Srp!Streams \X Srp!Modules)]
           /\ connectedPublishers' \subseteq P
<1>1. listeners' = [listeners EXCEPT ![h] = @ \cup L]
  BY DEF Srp!ListenersRegistered
<1>2. listeners \in [Hosts -> SUBSET (Srp!Streams \X Srp!Modules)]
  BY DEF EndpointsTyped, Srp!TypeOK
<1>3. listeners[h] \cup L \in SUBSET (Srp!Streams \X Srp!Modules)
  BY <1>2, Zenon
<1>4. listeners' \in [Hosts -> SUBSET (Srp!Streams \X Srp!Modules)]
  BY <1>1, <1>2, <1>3
<1>5. QED
  BY <1>4 DEF Srp!ListenersRegistered, Srp!PublishersOf, EndpointsTyped, Srp!TypeOK

\* Where entries are added, whoever is connected for them has one.
LEMMA RegisteredHaveListeners ==
    ASSUME EndpointsTyped, ConnectedHasListener,
           NEW h \in Hosts, NEW L \in SUBSET (Srp!Streams \X Srp!Modules),
           NEW P \in SUBSET AVBPublishers, Srp!ListenersRegistered(h, L, P)
    PROVE  ConnectedHasListener'
<1> SUFFICES ASSUME NEW p \in connectedPublishers'
             PROVE  AVBParameters[p].streamID
                      \in Srp!StreamsOf(listeners'[AVBParameters[p].host])
  BY DEF ConnectedHasListener, Srp!ConnectedHasListener, Srp!StreamsOf
<1>1. /\ listeners'[h] = listeners[h] \cup L
      /\ \A g \in Hosts : listeners[g] \subseteq listeners'[g]
  BY DEF Srp!ListenersRegistered, EndpointsTyped, Srp!TypeOK
<1>2. CASE p \in connectedPublishers
  <2>1. p \in AVBPublishers
    BY <1>2 DEF EndpointsTyped, Srp!TypeOK
  <2>2. QED
    BY <1>1, <1>2, <2>1, EndpointParameters
       DEF ConnectedHasListener, Srp!ConnectedHasListener, Srp!StreamsOf
<1>3. CASE p \in Srp!PublishersOf(P, h, Srp!StreamsOf(L))
  BY <1>1, <1>3 DEF Srp!PublishersOf, Srp!StreamsOf
<1>4. QED
  BY <1>2, <1>3 DEF Srp!ListenersRegistered

LEMMA RemovedTypes ==
    ASSUME EndpointsTyped, NEW h \in Hosts, NEW entry, Srp!ListenerRemoved(h, entry)
    PROVE  /\ listeners' \in [Hosts -> SUBSET (Srp!Streams \X Srp!Modules)]
           /\ connectedPublishers' \subseteq connectedPublishers
BY DEF Srp!ListenerRemoved, EndpointsTyped, Srp!TypeOK

LEMMA RemovedHaveListeners ==
    ASSUME EndpointsTyped, ConnectedHasListener, NEW h \in Hosts, NEW entry,
           Srp!ListenerRemoved(h, entry)
    PROVE  ConnectedHasListener'
<1> SUFFICES ASSUME NEW p \in connectedPublishers'
             PROVE  AVBParameters[p].streamID
                      \in Srp!StreamsOf(listeners'[AVBParameters[p].host])
  BY DEF ConnectedHasListener, Srp!ConnectedHasListener, Srp!StreamsOf
<1> DEFINE s == AVBParameters[p].streamID
           g == AVBParameters[p].host
<1>1. /\ p \in connectedPublishers /\ p \in publisherEndpoints
      /\ p \in AVBPublishers
  BY DEF Srp!ListenerRemoved, EndpointsTyped, Srp!TypeOK
<1>2. g \in Hosts
  BY <1>1, EndpointParameters
<1>3. PICK x \in listeners[g] : x[1] = s
  BY <1>1 DEF ConnectedHasListener, Srp!ConnectedHasListener, Srp!StreamsOf
<1>4. \A k \in Hosts : listeners'[k] = IF k = h THEN listeners[k] \ {entry} ELSE listeners[k]
  BY DEF Srp!ListenerRemoved, EndpointsTyped, Srp!TypeOK
<1>5. CASE x \in listeners'[g]
  BY <1>3, <1>5 DEF Srp!StreamsOf
<1>6. CASE x \notin listeners'[g]
  <2>1. g = h /\ x = entry
    BY <1>2, <1>3, <1>4, <1>6
  <2>2. p \in Srp!PublishersOf(publisherEndpoints, h, {entry[1]})
    BY <1>1, <1>3, <2>1 DEF Srp!PublishersOf
  <2>3. entry[1] \in Srp!StreamsOf(listeners'[h])
    BY <2>2 DEF Srp!ListenerRemoved
  <2>4. QED
    BY <1>3, <2>1, <2>3
<1>7. QED
  BY <1>5, <1>6

LEMMA ConnectTypes ==
    ASSUME EndpointsTyped, NEW E \in SUBSET AVBSubscribers, Srp!Connect(E)
    PROVE  /\ connectedSubscribers' \subseteq subscriberEndpoints \cup E
           /\ updateMessages' \subseteq subscriberEndpoints \cup E
BY DEF Srp!Connect, EndpointsTyped, Srp!TypeOK

LEMMA JoiningListeners ==
    ASSUME EndpointsTyped, NEW h \in Hosts, NEW s \in Srp!Streams
    PROVE  /\ Srp!Joining(h, s) \subseteq subscriberEndpoints
           /\ Srp!Joining(h, s) \subseteq AVBSubscribers
           /\ {s} \X Srp!Joining(h, s) \in SUBSET (Srp!Streams \X Srp!Modules)
<1>1. Srp!Joining(h, s) \subseteq subscriberEndpoints
  BY DEF Srp!Joining
<1>2. Srp!Joining(h, s) \subseteq AVBSubscribers
  BY <1>1 DEF EndpointsTyped, Srp!TypeOK
<1>3. QED
  BY <1>1, <1>2 DEF Srp!Modules

\* Has p the address of d for its service to itself?
Exclusive(p, d) ==
    \A q \in IPPublishers \ {p} :
        \/ d[1] \notin Srp!Addresses(q)
        \/ <<IPParameters[q].serviceId, IPParameters[q].instanceId>>
             # <<IPParameters[p].serviceId, IPParameters[p].instanceId>>

Reserves(p, d) ==
    LET s == Srp!CreateStreamId(p, d)
    IN  /\ s \in DOMAIN reservation /\ s \in talkers[IPParameters[p].host]
        /\ reservation[s].owner = p /\ reservation[s].dest = d[1]

LEMMA TalkerPerDestinationIs ==
    TalkerPerDestination <=>
        \A p \in IPPublishers : \A d \in remotes[p] :
            /\ Srp!RequiresReservation(p) /\ ~failure /\ IPParameters[p].qos \in Srp!SOMEIP
            /\ Exclusive(p, d)
            => Reserves(p, d)
BY DEF TalkerPerDestination, Srp!TalkerPerDestination, Exclusive, Reserves

\* Entries that are added elsewhere do not matter.
LEMMA ReservesStays ==
    ASSUME EndpointsTyped, NEW p \in IPPublishers, NEW d \in Destinations[p], Reserves(p, d),
           Srp!CreateStreamId(p, d) \in talkers'[IPParameters[p].host],
           Srp!CreateStreamId(p, d) \in DOMAIN reservation',
           reservation'[Srp!CreateStreamId(p, d)] = reservation[Srp!CreateStreamId(p, d)]
    PROVE  Reserves(p, d)'
BY DEF Reserves, Srp!CreateStreamId, Srp!StreamOfService, Srp!StreamOfApplication

LEMMA TalkersStay ==
    ASSUME EndpointsTyped, TalkerPerDestination,
           remotes' = remotes, reservation' = reservation, failure' = failure,
           \A h \in Hosts : talkers[h] \subseteq talkers'[h]
    PROVE  TalkerPerDestination'
<1> SUFFICES ASSUME NEW p \in IPPublishers, NEW d \in remotes[p],
                    Srp!RequiresReservation(p), ~failure,
                    IPParameters[p].qos \in Srp!SOMEIP, Exclusive(p, d)
             PROVE  Reserves(p, d)'
  BY DEF TalkerPerDestination, Srp!TalkerPerDestination, Exclusive, Reserves,
         Srp!RequiresReservation, Srp!Has8021QInformation, Srp!Addresses
<1>1. Reserves(p, d)
  BY TalkerPerDestinationIs
<1>2. d \in Destinations[p] /\ IPParameters[p].host \in Hosts
  BY IPEndpointParameters DEF EndpointsTyped
<1>3. QED
  BY <1>1, <1>2, ReservesStays DEF Reserves

\* No service has the stream of an application, and none that of another.
LEMMA StreamsDiffer ==
    ASSUME NEW p \in IPPublishers, NEW d \in Destinations[p],
           IPParameters[p].qos \in Srp!SOMEIP
    PROVE  /\ Srp!CreateStreamId(p, d) \notin StreamIDs
           /\ \A q \in IPPublishers \ {p} : \A c \in Destinations[q] :
                 Exclusive(p, d) => Srp!CreateStreamId(p, d) # Srp!CreateStreamId(q, c)
<1>1. d \in Nat \X Nat
  BY EndpointParameters
<1>2. Srp!CreateStreamId(p, d)
        = <<IPParameters[p].serviceId, IPParameters[p].instanceId, d[1]>>
  BY DEF Srp!CreateStreamId, Srp!StreamOfService
<1>3. Srp!CreateStreamId(p, d) \in Nat \X Nat \X Nat
  BY <1>1, <1>2, IPEndpointParameters
<1>4. Srp!CreateStreamId(p, d) \notin StreamIDs
  BY <1>3, EndpointParameters
<1>5. ASSUME NEW q \in IPPublishers \ {p}, NEW c \in Destinations[q], Exclusive(p, d)
      PROVE  Srp!CreateStreamId(p, d) # Srp!CreateStreamId(q, c)
  <2>1. CASE IPParameters[q].qos \in Srp!SOMEIP
    <3>1. Srp!CreateStreamId(q, c)
            = <<IPParameters[q].serviceId, IPParameters[q].instanceId, c[1]>>
      BY <2>1 DEF Srp!CreateStreamId, Srp!StreamOfService
    <3>2. c[1] \in Srp!Addresses(q)
      BY DEF Srp!Addresses
    <3>3. QED
      BY <1>2, <1>5, <3>1, <3>2 DEF Exclusive
  <2>2. CASE IPParameters[q].qos \notin Srp!SOMEIP
    <3>1. Srp!CreateStreamId(q, c) \in StreamIDs
      BY <2>2, IPEndpointParameters DEF Srp!CreateStreamId, Srp!StreamOfApplication
    <3>2. QED
      BY <1>4, <3>1
  <2>3. QED
    BY <2>1, <2>2
<1>6. QED
  BY <1>4, <1>5

-----------------------------------------------------------------------------
(* The steps of the endpoints.                                             *)

LEMMA CreateAVBPublisherEndpointStep ==
    ASSUME Reserving, ~failure, NEW p \in AVBPublishers, Srp!CreateAVBPublisherEndpoint(p)
    PROVE  Reserving'
<1> USE DEF Srp!tables
<1> DEFINE h == AVBParameters[p].host
           s == AVBParameters[p].streamID
           E == Srp!Joining(h, s)
<1>1. h \in Hosts /\ s \in StreamIDs /\ s \in Srp!Streams
  BY EndpointParameters, StreamsOfEndpoints
<1>2. EndpointsTyped /\ ConnectedHasListener /\ TalkerPerDestination
  BY DEF Reserving
<1>3. CASE failure'
  <2>1. /\ UNCHANGED <<listeners, connectedPublishers, remotes, subscriberEndpoints, faults>>
        /\ UNCHANGED <<talkers, reservation, publisherEndpoints, connectedSubscribers,
                       updateMessages>>
    BY <1>3 DEF Srp!CreateAVBPublisherEndpoint
  <2>2. failure' \in BOOLEAN
    BY <1>2, <1>3 DEF Srp!CreateAVBPublisherEndpoint, EndpointsTyped, Srp!TypeOK
  <2>3. QED
    BY <1>2, <1>3, <2>1, <2>2
       DEF Reserving, EndpointsTyped, Srp!TypeOK, ConnectedHasListener,
           Srp!ConnectedHasListener, Srp!StreamsOf, TalkerPerDestination,
           Srp!TalkerPerDestination
<1>4. CASE ~failure'
  <2>1. /\ Srp!InitializeTransportConnection(p) /\ failure' = failure
        /\ UNCHANGED <<remotes, subscriberEndpoints, faults>>
    BY <1>4 DEF Srp!CreateAVBPublisherEndpoint
  <2>2. /\ publisherEndpoints' = publisherEndpoints \cup {p}
        /\ talkers' = [talkers EXCEPT ![h] = @ \cup {s}]
        /\ reservation' = [t \in DOMAIN reservation \cup {s} |->
              IF t = s THEN Srp!AVBReservation(p) ELSE reservation[t]]
        /\ Srp!ListenersRegistered(h, {s} \X E, publisherEndpoints \cup {p})
        /\ Srp!Connect(E)
    BY <2>1 DEF Srp!InitializeTransportConnection
  <2> HIDE DEF h, s, E
  <2>3. /\ E \subseteq subscriberEndpoints /\ E \subseteq AVBSubscribers
        /\ {s} \X E \in SUBSET (Srp!Streams \X Srp!Modules)
    BY <1>1, <1>2, JoiningListeners DEF E
  <2>4. publisherEndpoints \cup {p} \in SUBSET AVBPublishers
    BY <1>2 DEF EndpointsTyped, Srp!TypeOK
  <2>5. /\ listeners' \in [Hosts -> SUBSET (Srp!Streams \X Srp!Modules)]
        /\ connectedPublishers' \subseteq publisherEndpoints'
    BY <1>1, <1>2, <2>2, <2>3, <2>4, RegisteredTypes
  <2>6. /\ connectedSubscribers' \subseteq subscriberEndpoints'
        /\ updateMessages' \subseteq subscriberEndpoints'
    BY <1>2, <2>1, <2>2, <2>3, ConnectTypes
  <2>7. talkers' \in [Hosts -> SUBSET Srp!Streams]
    BY <1>1, <1>2, <2>2 DEF EndpointsTyped, Srp!TypeOK
  <2>8. /\ DOMAIN reservation' \subseteq Srp!Streams
        /\ \A t \in DOMAIN reservation' : reservation'[t] \in Srp!TalkerReservation
    BY <1>1, <1>2, <2>2, AVBReservationType DEF EndpointsTyped, Srp!TypeOK
  <2>9. EndpointsTyped'
    BY <1>2, <2>1, <2>2, <2>4, <2>5, <2>6, <2>7, <2>8 DEF EndpointsTyped, Srp!TypeOK
  <2>10. ConnectedHasListener'
    BY <1>1, <1>2, <2>2, <2>3, <2>4, RegisteredHaveListeners
  <2>11. TalkerPerDestination'
    <3> SUFFICES ASSUME NEW q \in IPPublishers, NEW d \in remotes[q],
                        Srp!RequiresReservation(q), ~failure,
                        IPParameters[q].qos \in Srp!SOMEIP, Exclusive(q, d)
                 PROVE  Reserves(q, d)'
      BY <2>1 DEF TalkerPerDestination, Srp!TalkerPerDestination, Exclusive, Reserves,
             Srp!RequiresReservation, Srp!Has8021QInformation, Srp!Addresses
    <3>1. Reserves(q, d)
      BY <1>2, TalkerPerDestinationIs
    <3>2. d \in Destinations[q] /\ IPParameters[q].host \in Hosts
      BY <1>2, IPEndpointParameters DEF EndpointsTyped
    <3>3. Srp!CreateStreamId(q, d) # s
      BY <1>1, <3>2, StreamsDiffer
    <3>4. \A g \in Hosts : talkers[g] \subseteq talkers'[g]
      BY <1>1, <1>2, <2>2 DEF EndpointsTyped, Srp!TypeOK
    <3>5. QED
      BY <1>2, <2>2, <3>1, <3>2, <3>3, <3>4, ReservesStays DEF Reserves
  <2>12. QED
    BY <2>9, <2>10, <2>11 DEF Reserving
<1>5. QED
  BY <1>3, <1>4

LEMMA CheckAndCreateFilterStep ==
    ASSUME Reserving, ~failure, NEW p \in IPPublishers, NEW d \in Destinations[p],
           Srp!CheckAndCreateFilter(p, d)
    PROVE  Reserving'
<1> USE DEF Srp!tables, Srp!subscribers
<1>1. EndpointsTyped /\ ConnectedHasListener /\ TalkerPerDestination
  BY DEF Reserving
<1>2. /\ remotes' = [remotes EXCEPT ![p] = @ \cup {d}]
      /\ UNCHANGED <<publisherEndpoints, faults>>
  BY DEF Srp!CheckAndCreateFilter
<1>3. /\ remotes' \in [IPPublishers -> SUBSET (Nat \X Nat)]
      /\ \A q \in IPPublishers : remotes'[q] \subseteq Destinations[q]
      /\ \A q \in IPPublishers : \A c \in remotes'[q] : c \in remotes[q] \/ (q = p /\ c = d)
  BY <1>1, <1>2, EndpointParameters DEF EndpointsTyped, Srp!TypeOK
<1>4. CASE ~Srp!RequiresReservation(p)
  <2>1. UNCHANGED <<talkers, reservation, listeners, connectedPublishers,
                    subscriberEndpoints, connectedSubscribers, updateMessages, failure>>
    BY <1>4 DEF Srp!CheckAndCreateFilter
  <2>2. EndpointsTyped'
    BY <1>1, <1>2, <1>3, <2>1 DEF EndpointsTyped, Srp!TypeOK
  <2>3. ConnectedHasListener'
    BY <1>1, <2>1 DEF ConnectedHasListener, Srp!ConnectedHasListener, Srp!StreamsOf
  <2>4. TalkerPerDestination'
    <3> SUFFICES ASSUME NEW q \in IPPublishers, NEW c \in remotes'[q],
                        Srp!RequiresReservation(q), IPParameters[q].qos \in Srp!SOMEIP,
                        Exclusive(q, c)
                 PROVE  Reserves(q, c)'
      BY <2>1 DEF TalkerPerDestination, Srp!TalkerPerDestination, Exclusive, Reserves,
             Srp!RequiresReservation, Srp!Has8021QInformation, Srp!Addresses
    <3>1. c \in remotes[q] /\ Reserves(q, c)
      BY <1>1, <1>3, <1>4, TalkerPerDestinationIs
    <3>2. QED
      BY <2>1, <3>1
         DEF Reserves, Srp!CreateStreamId, Srp!StreamOfService, Srp!StreamOfApplication
  <2>5. QED
    BY <2>2, <2>3, <2>4 DEF Reserving
<1>5. CASE Srp!RequiresReservation(p)
  <2> DEFINE h == IPParameters[p].host
             s == Srp!CreateStreamId(p, d)
             r == Srp!IPReservation(p, d)
             E == Srp!Joining(h, s)
             D == Srp!DummyListener(h, s, E)
  <2>1. Srp!RegisterTalker(p, d)
    BY <1>5 DEF Srp!CheckAndCreateFilter
  <2>2. CASE failure' = TRUE /\ UNCHANGED <<Srp!tables, connectedPublishers, Srp!subscribers>>
    <3>1. EndpointsTyped'
      BY <1>1, <1>2, <1>3, <2>2 DEF EndpointsTyped, Srp!TypeOK
    <3>2. QED
      BY <1>1, <2>2, <3>1
         DEF Reserving, ConnectedHasListener, Srp!ConnectedHasListener, Srp!StreamsOf,
             TalkerPerDestination, Srp!TalkerPerDestination
  <2>3. CASE ~(failure' = TRUE /\ UNCHANGED <<Srp!tables, connectedPublishers, Srp!subscribers>>)
    <3>1. /\ talkers' = [talkers EXCEPT ![h] = @ \cup {s}]
          /\ reservation' = [t \in DOMAIN reservation \cup {s} |->
                IF t = s THEN r ELSE reservation[t]]
          /\ Srp!ListenersRegistered(h, ({s} \X E) \cup D, publisherEndpoints)
          /\ Srp!Connect(E)
          /\ UNCHANGED <<subscriberEndpoints, failure>>
      BY <2>1, <2>3 DEF Srp!RegisterTalker
    <3>2. h \in Hosts /\ s \in Srp!Streams
      BY IPEndpointParameters, StreamsOfEndpoints
    <3>3. r \in Srp!TalkerReservation /\ r.owner = p /\ r.dest = d[1]
      BY <1>5, IPReservationType
    <3>4. s = Srp!CreateStreamId(p, d) /\ h = IPParameters[p].host
      OBVIOUS
    <3>5. D \in SUBSET (Srp!Streams \X Srp!Modules)
      BY <3>2 DEF Srp!DummyListener, Srp!Modules
    <3>6. /\ E \subseteq subscriberEndpoints /\ E \subseteq AVBSubscribers
          /\ ({s} \X E) \cup D \in SUBSET (Srp!Streams \X Srp!Modules)
      BY <1>1, <3>2, <3>5, JoiningListeners
    <3>7. publisherEndpoints \in SUBSET AVBPublishers
      BY <1>1 DEF EndpointsTyped, Srp!TypeOK
    <3> HIDE DEF h, s, r, E, D
    <3>8. /\ listeners' \in [Hosts -> SUBSET (Srp!Streams \X Srp!Modules)]
          /\ connectedPublishers' \subseteq publisherEndpoints'
      BY <1>1, <1>2, <3>1, <3>2, <3>6, <3>7, RegisteredTypes
    <3>9. /\ connectedSubscribers' \subseteq subscriberEndpoints'
          /\ updateMessages' \subseteq subscriberEndpoints'
      BY <1>1, <3>1, <3>6, ConnectTypes
    <3>10. /\ talkers' \in [Hosts -> SUBSET Srp!Streams]
           /\ \A g \in Hosts : talkers[g] \subseteq talkers'[g]
           /\ s \in talkers'[h]
      BY <1>1, <3>1, <3>2 DEF EndpointsTyped, Srp!TypeOK
    <3>11. /\ DOMAIN reservation' \subseteq Srp!Streams
           /\ \A t \in DOMAIN reservation' : reservation'[t] \in Srp!TalkerReservation
      BY <1>1, <3>1, <3>2, <3>3 DEF EndpointsTyped, Srp!TypeOK
    <3>12. EndpointsTyped'
      BY <1>1, <1>2, <1>3, <3>1, <3>8, <3>9, <3>10, <3>11 DEF EndpointsTyped, Srp!TypeOK
    <3>13. ConnectedHasListener'
      BY <1>1, <3>1, <3>2, <3>6, <3>7, RegisteredHaveListeners
    <3>14. TalkerPerDestination'
      <4> SUFFICES ASSUME NEW q \in IPPublishers, NEW c \in remotes'[q],
                          Srp!RequiresReservation(q), IPParameters[q].qos \in Srp!SOMEIP,
                          Exclusive(q, c)
                   PROVE  Reserves(q, c)'
        BY DEF TalkerPerDestination, Srp!TalkerPerDestination, Exclusive, Reserves,
               Srp!RequiresReservation, Srp!Has8021QInformation, Srp!Addresses
      <4>1. c \in Destinations[q] /\ IPParameters[q].host \in Hosts
        BY <1>3, IPEndpointParameters
      <4>2. CASE Srp!CreateStreamId(q, c) = s
        <5>1. q = p
          BY <3>4, <4>1, <4>2, StreamsDiffer
        <5>2. c[1] = d[1]
          BY <3>4, <4>2, <5>1 DEF Srp!CreateStreamId, Srp!StreamOfService
        <5>3. reservation'[s] = r /\ s \in DOMAIN reservation'
          BY <3>1
        <5>4. QED
          BY <3>3, <3>4, <3>10, <4>2, <5>1, <5>2, <5>3
             DEF Reserves, Srp!CreateStreamId, Srp!StreamOfService, Srp!StreamOfApplication
      <4>3. CASE Srp!CreateStreamId(q, c) # s
        <5>1. c \in remotes[q]
          BY <1>3, <3>4, <4>3
        <5>2. Reserves(q, c)
          BY <1>1, <5>1, TalkerPerDestinationIs
        <5>3. QED
          BY <1>1, <3>1, <3>10, <4>1, <4>3, <5>2, ReservesStays DEF Reserves
      <4>4. QED
        BY <4>2, <4>3
    <3>15. QED
      BY <3>12, <3>13, <3>14 DEF Reserving
  <2>4. QED
    BY <2>2, <2>3
<1>6. QED
  BY <1>4, <1>5

\* A step that adds listener entries, and perhaps talkers, at most.
LEMMA ListenersRegisteredStep ==
    ASSUME Reserving, NEW h \in Hosts, NEW L \in SUBSET (Srp!Streams \X Srp!Modules),
           Srp!ListenersRegistered(h, L, publisherEndpoints),
           UNCHANGED <<reservation, publisherEndpoints, remotes, faults, failure>>,
           talkers' \in [Hosts -> SUBSET Srp!Streams],
           \A g \in Hosts : talkers[g] \subseteq talkers'[g],
           subscriberEndpoints' \subseteq AVBSubscribers,
           connectedSubscribers' \subseteq subscriberEndpoints',
           updateMessages' \subseteq subscriberEndpoints'
    PROVE  Reserving'
<1>1. EndpointsTyped /\ ConnectedHasListener /\ TalkerPerDestination
  BY DEF Reserving
<1>2. publisherEndpoints \in SUBSET AVBPublishers
  BY <1>1 DEF EndpointsTyped, Srp!TypeOK
<1>3. /\ listeners' \in [Hosts -> SUBSET (Srp!Streams \X Srp!Modules)]
      /\ connectedPublishers' \subseteq publisherEndpoints'
  BY <1>1, <1>2, RegisteredTypes
<1>4. EndpointsTyped'
  BY <1>1, <1>3 DEF EndpointsTyped, Srp!TypeOK
<1>5. ConnectedHasListener'
  BY <1>1, <1>2, RegisteredHaveListeners
<1>6. TalkerPerDestination'
  BY <1>1, TalkersStay
<1>7. QED
  BY <1>4, <1>5, <1>6 DEF Reserving

\* A step that touches no publisher and no table.
LEMMA SubscribersStep ==
    ASSUME Reserving,
           UNCHANGED <<talkers, reservation, listeners, publisherEndpoints,
                       connectedPublishers, remotes, faults, failure>>,
           subscriberEndpoints' \subseteq AVBSubscribers,
           connectedSubscribers' \subseteq subscriberEndpoints',
           updateMessages' \subseteq subscriberEndpoints'
    PROVE  Reserving'
<1>1. EndpointsTyped /\ ConnectedHasListener /\ TalkerPerDestination
  BY DEF Reserving
<1>2. EndpointsTyped'
  BY <1>1 DEF EndpointsTyped, Srp!TypeOK
<1>3. ConnectedHasListener'
  BY <1>1 DEF ConnectedHasListener, Srp!ConnectedHasListener, Srp!StreamsOf
<1>4. TalkerPerDestination'
  BY <1>1, TalkersStay
<1>5. QED
  BY <1>2, <1>3, <1>4 DEF Reserving

LEMMA EntriesOfSubscribers ==
    ASSUME NEW e \in AVBSubscribers
    PROVE  /\ ListenerParameters[e].host \in Hosts
           /\ {Srp!Entry(e)} \in SUBSET (Srp!Streams \X Srp!Modules)
<1>1. /\ ListenerParameters[e].host \in Hosts
      /\ ListenerParameters[e].streamID \in Srp!Streams
  BY EndpointParameters, StreamsOfEndpoints
<1>2. QED
  BY <1>1 DEF Srp!Entry, Srp!Modules

LEMMA CreateAVBSubscriberEndpointStep ==
    ASSUME Reserving, NEW e \in AVBSubscribers, Srp!CreateAVBSubscriberEndpoint(e)
    PROVE  Reserving'
<1>1. EndpointsTyped
  BY DEF Reserving
<1>2. /\ subscriberEndpoints' = subscriberEndpoints \cup {e}
      /\ UNCHANGED <<talkers, reservation, publisherEndpoints, remotes, faults, failure>>
      /\ Srp!InitializeListener(e)
  BY DEF Srp!CreateAVBSubscriberEndpoint
<1>3. /\ subscriberEndpoints \subseteq AVBSubscribers
      /\ connectedSubscribers \subseteq subscriberEndpoints
      /\ updateMessages \subseteq subscriberEndpoints
      /\ talkers \in [Hosts -> SUBSET Srp!Streams]
  BY <1>1 DEF EndpointsTyped, Srp!TypeOK
<1>4. subscriberEndpoints' \subseteq AVBSubscribers
  BY <1>2, <1>3
<1>5. CASE /\ Srp!ListenersRegistered(ListenerParameters[e].host, {Srp!Entry(e)},
                                      publisherEndpoints)
           /\ Srp!Connect({e})
  <2>1. /\ connectedSubscribers' \subseteq subscriberEndpoints'
        /\ updateMessages' \subseteq subscriberEndpoints'
    BY <1>1, <1>2, <1>5, ConnectTypes
  <2>2. QED
    BY <1>2, <1>3, <1>4, <1>5, <2>1, EntriesOfSubscribers, ListenersRegisteredStep
<1>6. CASE /\ updateMessages' = updateMessages
                 \cup {x \in {e} : ListenerParameters[x].updateInterval > 0}
           /\ UNCHANGED <<listeners, connectedPublishers, connectedSubscribers>>
  BY <1>2, <1>3, <1>4, <1>6, SubscribersStep
<1>7. QED
  BY <1>2, <1>5, <1>6 DEF Srp!InitializeListener

LEMMA UpdateSubscriptionStep ==
    ASSUME Reserving, NEW e \in AVBSubscribers, Srp!UpdateSubscription(e)
    PROVE  Reserving'
<1>1. /\ subscriberEndpoints \subseteq AVBSubscribers
      /\ connectedSubscribers \subseteq subscriberEndpoints
      /\ updateMessages \subseteq subscriberEndpoints
      /\ talkers \in [Hosts -> SUBSET Srp!Streams]
  BY DEF Reserving, EndpointsTyped, Srp!TypeOK
<1>2. /\ UNCHANGED <<talkers, reservation, publisherEndpoints, remotes,
                     subscriberEndpoints, faults, failure>>
      /\ e \in updateMessages
      /\ updateMessages' \subseteq updateMessages
  BY DEF Srp!UpdateSubscription
<1>3. CASE /\ Srp!ListenersRegistered(ListenerParameters[e].host, {Srp!Entry(e)},
                                      publisherEndpoints)
           /\ connectedSubscribers' = connectedSubscribers \cup {e}
  BY <1>1, <1>2, <1>3, EntriesOfSubscribers, ListenersRegisteredStep
<1>4. CASE /\ connectedSubscribers' = connectedSubscribers \ {e}
           /\ UNCHANGED <<listeners, connectedPublishers>>
  BY <1>1, <1>2, <1>4, SubscribersStep
<1>5. QED
  BY <1>3, <1>4 DEF Srp!UpdateSubscription

LEMMA TalkerArrivesStep ==
    ASSUME Reserving, NEW h \in Hosts, NEW s \in DOMAIN reservation, Srp!TalkerArrives(h, s)
    PROVE  Reserving'
<1> DEFINE E == Srp!Joining(h, s)
<1>1. EndpointsTyped /\ s \in Srp!Streams
  BY DEF Reserving, EndpointsTyped, Srp!TypeOK
<1>2. /\ talkers' = [talkers EXCEPT ![h] = @ \cup {s}]
      /\ Srp!ListenersRegistered(h, {s} \X E, publisherEndpoints)
      /\ Srp!Connect(E)
      /\ UNCHANGED <<reservation, publisherEndpoints, remotes, subscriberEndpoints, faults,
                     failure>>
  BY DEF Srp!TalkerArrives
<1>3. /\ E \subseteq subscriberEndpoints /\ E \subseteq AVBSubscribers
      /\ {s} \X E \in SUBSET (Srp!Streams \X Srp!Modules)
  BY <1>1, JoiningListeners
<1> HIDE DEF E
<1>4. /\ talkers' \in [Hosts -> SUBSET Srp!Streams]
      /\ \A g \in Hosts : talkers[g] \subseteq talkers'[g]
  BY <1>1, <1>2 DEF EndpointsTyped, Srp!TypeOK
<1>5. /\ connectedSubscribers' \subseteq subscriberEndpoints'
      /\ updateMessages' \subseteq subscriberEndpoints'
      /\ subscriberEndpoints' \subseteq AVBSubscribers
  BY <1>1, <1>2, <1>3, ConnectTypes DEF EndpointsTyped, Srp!TypeOK
<1>6. QED
  BY <1>2, <1>3, <1>4, <1>5, ListenersRegisteredStep

LEMMA OriginIsAHost ==
    ASSUME EndpointsTyped, NEW s \in DOMAIN reservation
    PROVE  Srp!Origin(s) \in Hosts
<1>1. reservation[s].owner \in AVBPublishers \cup IPPublishers
  BY DEF EndpointsTyped, Srp!TypeOK, Srp!TalkerReservation
<1>2. QED
  BY <1>1, EndpointParameters, IPEndpointParameters DEF Srp!Origin

LEMMA ListenerArrivesStep ==
    ASSUME Reserving, NEW s \in DOMAIN reservation, Srp!ListenerArrives(s)
    PROVE  Reserving'
<1>1. /\ Srp!ListenersRegistered(Srp!Origin(s), {<<s, Port>>}, publisherEndpoints)
      /\ UNCHANGED <<talkers, reservation, publisherEndpoints, remotes, faults, failure>>
      /\ UNCHANGED <<subscriberEndpoints, connectedSubscribers, updateMessages>>
  BY DEF Srp!ListenerArrives, Srp!subscribers
<1>2. /\ Srp!Origin(s) \in Hosts
      /\ {<<s, Port>>} \in SUBSET (Srp!Streams \X Srp!Modules)
  BY OriginIsAHost DEF Reserving, EndpointsTyped, Srp!TypeOK, Srp!Modules
<1>3. /\ subscriberEndpoints \subseteq AVBSubscribers
      /\ connectedSubscribers \subseteq subscriberEndpoints
      /\ updateMessages \subseteq subscriberEndpoints
      /\ talkers \in [Hosts -> SUBSET Srp!Streams]
  BY DEF Reserving, EndpointsTyped, Srp!TypeOK
<1>4. QED
  BY <1>1, <1>2, <1>3, ListenersRegisteredStep

\* An entry leaves, and the subscribers of the node may be told of it.
LEMMA ListenerRemovedStep ==
    ASSUME Reserving, NEW h \in Hosts, NEW entry, Srp!ListenerRemoved(h, entry),
           UNCHANGED <<talkers, reservation, publisherEndpoints, remotes,
                       subscriberEndpoints, failure>>,
           faults' \in 0..MaxFaults,
           connectedSubscribers' \subseteq subscriberEndpoints,
           updateMessages' \subseteq subscriberEndpoints
    PROVE  Reserving'
<1>1. EndpointsTyped /\ ConnectedHasListener /\ TalkerPerDestination
  BY DEF Reserving
<1>2. EndpointsTyped'
  BY <1>1, RemovedTypes DEF EndpointsTyped, Srp!TypeOK
<1>3. ConnectedHasListener'
  BY <1>1, RemovedHaveListeners
<1>4. TalkerPerDestination'
  BY <1>1, TalkersStay
<1>5. QED
  BY <1>2, <1>3, <1>4 DEF Reserving

LEMMA ListenerUnregisteredStep ==
    ASSUME Reserving, NEW s \in DOMAIN reservation, Srp!ListenerUnregistered(s)
    PROVE  Reserving'
<1>1. /\ Srp!ListenerRemoved(Srp!Origin(s), <<s, Port>>)
      /\ UNCHANGED <<talkers, reservation, publisherEndpoints, remotes, faults, failure>>
      /\ UNCHANGED <<subscriberEndpoints, connectedSubscribers, updateMessages>>
  BY DEF Srp!ListenerUnregistered, Srp!subscribers
<1>2. Srp!Origin(s) \in Hosts
  BY OriginIsAHost DEF Reserving
<1>3. /\ connectedSubscribers \subseteq subscriberEndpoints
      /\ updateMessages \subseteq subscriberEndpoints
      /\ faults \in 0..MaxFaults
  BY DEF Reserving, EndpointsTyped, Srp!TypeOK
<1>4. QED
  BY <1>1, <1>2, <1>3, ListenerRemovedStep

LEMMA OneMoreFault ==
    ASSUME EndpointsTyped, faults < MaxFaults, faults' = faults + 1
    PROVE  faults' \in 0..MaxFaults
BY EndpointParameters DEF EndpointsTyped, Srp!TypeOK

LEMMA ListenerTimeoutStep ==
    ASSUME Reserving, NEW h \in Hosts, NEW entry \in listeners[h],
           Srp!ListenerTimeout(h, entry)
    PROVE  Reserving'
<1>1. /\ Srp!ListenerRemoved(h, entry)
      /\ UNCHANGED <<talkers, reservation, publisherEndpoints, remotes,
                     subscriberEndpoints, failure>>
      /\ connectedSubscribers' \subseteq connectedSubscribers
      /\ updateMessages' \subseteq updateMessages \cup subscriberEndpoints
  BY DEF Srp!ListenerTimeout
<1>2. faults' \in 0..MaxFaults
  BY OneMoreFault DEF Srp!ListenerTimeout, Reserving
<1>3. /\ connectedSubscribers \subseteq subscriberEndpoints
      /\ updateMessages \subseteq subscriberEndpoints
  BY DEF Reserving, EndpointsTyped, Srp!TypeOK
<1>4. QED
  BY <1>1, <1>2, <1>3, ListenerRemovedStep

\* Only other nodes forget a talker.
LEMMA TalkerForgottenStep ==
    ASSUME Reserving, NEW h \in Hosts, NEW s \in talkers[h], Srp!TalkerForgotten(h, s)
    PROVE  Reserving'
<1>1. EndpointsTyped /\ ConnectedHasListener /\ TalkerPerDestination
  BY DEF Reserving
<1>2. /\ talkers' = [talkers EXCEPT ![h] = @ \ {s}]
      /\ UNCHANGED <<reservation, listeners, failure>>
      /\ UNCHANGED <<publisherEndpoints, connectedPublishers, remotes>>
      /\ UNCHANGED <<subscriberEndpoints, connectedSubscribers, updateMessages>>
      /\ Srp!Origin(s) # h
  BY DEF Srp!TalkerForgotten, Srp!publishers, Srp!subscribers
<1>3. faults' \in 0..MaxFaults
  BY <1>1, OneMoreFault DEF Srp!TalkerForgotten
<1>4. EndpointsTyped'
  BY <1>1, <1>2, <1>3 DEF EndpointsTyped, Srp!TypeOK
<1>5. ConnectedHasListener'
  BY <1>1, <1>2 DEF ConnectedHasListener, Srp!ConnectedHasListener, Srp!StreamsOf
<1>6. TalkerPerDestination'
  <2> SUFFICES ASSUME NEW p \in IPPublishers, NEW d \in remotes[p],
                      Srp!RequiresReservation(p), ~failure,
                      IPParameters[p].qos \in Srp!SOMEIP, Exclusive(p, d)
               PROVE  Reserves(p, d)'
    BY <1>2 DEF TalkerPerDestination, Srp!TalkerPerDestination, Exclusive, Reserves,
           Srp!RequiresReservation, Srp!Has8021QInformation, Srp!Addresses
  <2>1. Reserves(p, d)
    BY <1>1, TalkerPerDestinationIs
  <2>2. d \in Destinations[p] /\ IPParameters[p].host \in Hosts
    BY <1>1, IPEndpointParameters DEF EndpointsTyped
  <2>3. Srp!CreateStreamId(p, d) = s => IPParameters[p].host # h
    BY <1>2, <2>1, EndpointParameters DEF Reserves, Srp!Origin
  <2>4. Srp!CreateStreamId(p, d) \in talkers'[IPParameters[p].host]
    BY <1>1, <1>2, <2>1, <2>2, <2>3 DEF Reserves, EndpointsTyped, Srp!TypeOK
  <2>5. QED
    BY <1>1, <1>2, <2>1, <2>2, <2>4, ReservesStays DEF Reserves
<1>7. QED
  BY <1>4, <1>5, <1>6 DEF Reserving

LEMMA EndpointsKeepReserving == Reserving /\ Srp!Next => Reserving'
<1> SUFFICES ASSUME Reserving, Srp!Next PROVE Reserving'
  OBVIOUS
<1>1. ~failure /\ (Srp!Proceed \/ Srp!Fault)
  BY DEF Srp!Next
<1>2. CASE Srp!Proceed
  <2>1. ASSUME NEW p \in AVBPublishers, Srp!CreateAVBPublisherEndpoint(p)
        PROVE  Reserving'
    BY <1>1, <2>1, CreateAVBPublisherEndpointStep
  <2>2. ASSUME NEW p \in IPPublishers, NEW d \in Destinations[p],
               Srp!CheckAndCreateFilter(p, d)
        PROVE  Reserving'
    BY <1>1, <2>2, CheckAndCreateFilterStep
  <2>3. ASSUME NEW e \in AVBSubscribers,
               Srp!CreateAVBSubscriberEndpoint(e) \/ Srp!UpdateSubscription(e)
        PROVE  Reserving'
    BY <2>3, CreateAVBSubscriberEndpointStep, UpdateSubscriptionStep
  <2>4. ASSUME NEW s \in DOMAIN reservation, NEW h \in Hosts, Srp!TalkerArrives(h, s)
        PROVE  Reserving'
    BY <2>4, TalkerArrivesStep
  <2>5. ASSUME NEW s \in DOMAIN reservation,
               Srp!ListenerArrives(s) \/ Srp!ListenerUnregistered(s)
        PROVE  Reserving'
    BY <2>5, ListenerArrivesStep, ListenerUnregisteredStep
  <2>6. QED
    BY <1>2, <2>1, <2>2, <2>3, <2>4, <2>5 DEF Srp!Proceed
<1>3. CASE Srp!Fault
  <2>1. ASSUME NEW h \in Hosts, NEW entry \in listeners[h], Srp!ListenerTimeout(h, entry)
        PROVE  Reserving'
    BY <2>1, ListenerTimeoutStep
  <2>2. ASSUME NEW h \in Hosts, NEW s \in talkers[h], Srp!TalkerForgotten(h, s)
        PROVE  Reserving'
    BY <2>2, TalkerForgottenStep
  <2>3. QED
    BY <1>3, <2>1, <2>2 DEF Srp!Fault
<1>4. QED
  BY <1>1, <1>2, <1>3

-----------------------------------------------------------------------------
(* What is reserved.                                                       *)

\* The reservation r of stream s is what one of its talkers makes of its
\* parameters.
MadeBy(s, r) ==
    \/ \E p \in AVBPublishers :
          AVBParameters[p].streamID = s /\ r = Srp!AVBReservation(p)
    \/ \E p \in IPPublishers : \E d \in Destinations[p] :
          /\ Srp!RequiresReservation(p) /\ Srp!CreateStreamId(p, d) = s
          /\ r = Srp!IPReservation(p, d)

ReservedFor(p, d) ==
    Srp!RequiresReservation(p) => Srp!CreateStreamId(p, d) \in DOMAIN reservation

\* Every reservation has been made by a talker, and every endpoint has one.
Backed ==
    /\ \A s \in DOMAIN reservation : MadeBy(s, reservation[s])
    /\ \A p \in publisherEndpoints : AVBParameters[p].streamID \in DOMAIN reservation
    /\ ~failure => \A p \in IPPublishers : \A d \in remotes[p] : ReservedFor(p, d)

LEMMA BackedInit == Srp!Init => Backed
BY DEF Srp!Init, Backed

\* Only publisher endpoints reserve.
LEMMA ReservationStep ==
    ASSUME Srp!Next
    PROVE  \/ \E p \in AVBPublishers : Srp!CreateAVBPublisherEndpoint(p)
           \/ \E p \in IPPublishers : \E d \in Destinations[p] : Srp!CheckAndCreateFilter(p, d)
           \/ UNCHANGED <<reservation, publisherEndpoints, remotes, failure>>
<1>1. ASSUME NEW e \in AVBSubscribers,
             Srp!CreateAVBSubscriberEndpoint(e) \/ Srp!UpdateSubscription(e)
      PROVE  UNCHANGED <<reservation, publisherEndpoints, remotes, failure>>
  BY <1>1 DEF Srp!CreateAVBSubscriberEndpoint, Srp!UpdateSubscription
<1>2. ASSUME NEW s \in DOMAIN reservation, NEW h \in Hosts,
             \/ Srp!TalkerArrives(h, s) \/ Srp!ListenerArrives(s)
             \/ Srp!ListenerUnregistered(s)
      PROVE  UNCHANGED <<reservation, publisherEndpoints, remotes, failure>>
  BY <1>2 DEF Srp!TalkerArrives, Srp!ListenerArrives, Srp!ListenerUnregistered
<1>3. ASSUME NEW h \in Hosts, NEW entry \in listeners[h], Srp!ListenerTimeout(h, entry)
      PROVE  UNCHANGED <<reservation, publisherEndpoints, remotes, failure>>
  BY <1>3 DEF Srp!ListenerTimeout
<1>4. ASSUME NEW h \in Hosts, NEW s \in talkers[h], Srp!TalkerForgotten(h, s)
      PROVE  UNCHANGED <<reservation, publisherEndpoints, remotes, failure>>
  BY <1>4 DEF Srp!TalkerForgotten, Srp!publishers
<1>5. ASSUME NEW s \in DOMAIN reservation,
             Srp!ListenerArrives(s) \/ Srp!ListenerUnregistered(s)
      PROVE  UNCHANGED <<reservation, publisherEndpoints, remotes, failure>>
  BY <1>5 DEF Srp!ListenerArrives, Srp!ListenerUnregistered
<1>6. QED
  BY <1>1, <1>2, <1>3, <1>4, <1>5 DEF Srp!Next, Srp!Proceed, Srp!Fault

\* One more reservation, by a talker of that stream.
LEMMA OneMoreReservation ==
    ASSUME Backed, NEW s, NEW r, MadeBy(s, r),
           reservation' = [t \in DOMAIN reservation \cup {s} |->
                              IF t = s THEN r ELSE reservation[t]]
    PROVE  /\ \A t \in DOMAIN reservation' : MadeBy(t, reservation'[t])
           /\ DOMAIN reservation' = DOMAIN reservation \cup {s}
<1>1. DOMAIN reservation' = DOMAIN reservation \cup {s}
  OBVIOUS
<1>2. ASSUME NEW t \in DOMAIN reservation' PROVE MadeBy(t, reservation'[t])
  <2>1. CASE t = s
    BY <1>1, <2>1
  <2>2. CASE t # s
    <3>1. t \in DOMAIN reservation /\ reservation'[t] = reservation[t]
      BY <1>1, <2>2
    <3>2. QED
      BY <3>1 DEF Backed
  <2>3. QED
    BY <2>1, <2>2
<1>3. QED
  BY <1>1, <1>2

LEMMA BackedStays ==
    ASSUME Backed, UNCHANGED <<reservation, publisherEndpoints, remotes>>,
           failure' = failure \/ failure'
    PROVE  Backed'
BY DEF Backed, ReservedFor

LEMMA BackedKept == Reserving /\ Backed /\ Srp!Next => Backed'
<1> SUFFICES ASSUME Reserving, Backed, Srp!Next PROVE Backed'
  OBVIOUS
<1>1. /\ remotes \in [IPPublishers -> SUBSET (Nat \X Nat)] /\ failure \in BOOLEAN
      /\ ~failure
  BY DEF Reserving, EndpointsTyped, Srp!TypeOK, Srp!Next
<1>2. ASSUME NEW p \in AVBPublishers, Srp!CreateAVBPublisherEndpoint(p)
      PROVE  Backed'
  <2> DEFINE s == AVBParameters[p].streamID
  <2>1. CASE Srp!InitializeTransportConnection(p) /\ UNCHANGED <<failure, remotes>>
    <3>1. /\ publisherEndpoints' = publisherEndpoints \cup {p}
          /\ reservation' = [t \in DOMAIN reservation \cup {s} |->
                               IF t = s THEN Srp!AVBReservation(p) ELSE reservation[t]]
      BY <2>1 DEF Srp!InitializeTransportConnection
    <3>2. MadeBy(s, Srp!AVBReservation(p))
      BY DEF MadeBy
    <3> HIDE DEF s
    <3>3. /\ \A t \in DOMAIN reservation' : MadeBy(t, reservation'[t])
          /\ DOMAIN reservation' = DOMAIN reservation \cup {s}
      BY <3>1, <3>2, OneMoreReservation
    <3>4. \A q \in publisherEndpoints' : AVBParameters[q].streamID \in DOMAIN reservation'
      BY <3>1, <3>3 DEF Backed, s
    <3>5. \A q \in IPPublishers : \A d \in remotes'[q] :
             Srp!RequiresReservation(q) => Srp!CreateStreamId(q, d) \in DOMAIN reservation'
      BY <1>1, <2>1, <3>3 DEF Backed, ReservedFor
    <3>6. QED
      BY <3>3, <3>4, <3>5 DEF Backed, ReservedFor
  <2>2. CASE failure' = TRUE /\ UNCHANGED <<reservation, publisherEndpoints, remotes>>
    BY <2>2, BackedStays
  <2>3. QED
    BY <1>2, <2>1, <2>2 DEF Srp!CreateAVBPublisherEndpoint, Srp!tables
<1>3. ASSUME NEW p \in IPPublishers, NEW d \in Destinations[p],
             Srp!CheckAndCreateFilter(p, d)
      PROVE  Backed'
  <2> DEFINE s == Srp!CreateStreamId(p, d)
  <2>1. /\ publisherEndpoints' = publisherEndpoints
        /\ remotes' = [remotes EXCEPT ![p] = @ \cup {d}]
    BY <1>3 DEF Srp!CheckAndCreateFilter
  <2>2. \A q \in IPPublishers : \A c \in remotes'[q] : c \in remotes[q] \/ (q = p /\ c = d)
    BY <1>1, <2>1
  <2>3. CASE ~Srp!RequiresReservation(p)
    <3>1. reservation' = reservation /\ failure' = failure
      BY <1>3, <2>3 DEF Srp!CheckAndCreateFilter, Srp!tables
    <3>2. \A q \in IPPublishers : \A c \in remotes'[q] :
             Srp!RequiresReservation(q) => Srp!CreateStreamId(q, c) \in DOMAIN reservation'
      BY <1>1, <2>2, <2>3, <3>1 DEF Backed, ReservedFor
    <3>3. QED
      BY <2>1, <3>1, <3>2 DEF Backed, ReservedFor
  <2>4. CASE Srp!RequiresReservation(p)
    <3>1. Srp!RegisterTalker(p, d)
      BY <1>3, <2>4 DEF Srp!CheckAndCreateFilter
    <3>2. CASE failure' = TRUE /\ reservation' = reservation
      BY <2>1, <3>2 DEF Backed
    <3>3. CASE reservation' = [t \in DOMAIN reservation \cup {s} |->
                                 IF t = s THEN Srp!IPReservation(p, d) ELSE reservation[t]]
      <4>1. MadeBy(s, Srp!IPReservation(p, d))
        BY <2>4 DEF MadeBy
      <4> DEFINE r == Srp!IPReservation(p, d)
      <4>2. s = Srp!CreateStreamId(p, d)
        OBVIOUS
      <4> HIDE DEF s, r
      <4>3. /\ \A t \in DOMAIN reservation' : MadeBy(t, reservation'[t])
            /\ DOMAIN reservation' = DOMAIN reservation \cup {s}
        BY <3>3, <4>1, OneMoreReservation DEF r
      <4>4. \A q \in publisherEndpoints' : AVBParameters[q].streamID \in DOMAIN reservation'
        BY <2>1, <4>3 DEF Backed
      <4>5. \A q \in IPPublishers : \A c \in remotes'[q] :
               Srp!RequiresReservation(q) => Srp!CreateStreamId(q, c) \in DOMAIN reservation'
        BY <1>1, <2>2, <4>2, <4>3 DEF Backed, ReservedFor
      <4>6. QED
        BY <4>3, <4>4, <4>5 DEF Backed, ReservedFor
    <3>4. QED
      BY <3>1, <3>2, <3>3 DEF Srp!RegisterTalker, Srp!tables
  <2>5. QED
    BY <2>3, <2>4
<1>4. CASE UNCHANGED <<reservation, publisherEndpoints, remotes, failure>>
  BY <1>4, BackedStays
<1>5. QED
  BY <1>2, <1>3, <1>4, ReservationStep

\* A stream with one talker holds what that one has reserved.
LEMMA OwnAVBReservation ==
    ASSUME Backed, NEW p \in publisherEndpoints, p \in AVBPublishers,
           TalkersOf(AVBParameters[p].streamID) = {p}
    PROVE  reservation[AVBParameters[p].streamID] = Srp!AVBReservation(p)
<1> DEFINE s == AVBParameters[p].streamID
<1>1. MadeBy(s, reservation[s])
  BY DEF Backed
<1>2. \A q \in TalkersOf(s) : q = p
  OBVIOUS
<1>3. p \notin IPPublishers
  BY EndpointParameters
<1>4. QED
  BY <1>1, <1>2, <1>3 DEF MadeBy, TalkersOf

LEMMA OwnIPReservation ==
    ASSUME EndpointsTyped, Backed, ~failure, NEW p \in IPPublishers, NEW d \in remotes[p],
           Srp!RequiresReservation(p), TalkersOf(Srp!CreateStreamId(p, d)) = {p}
    PROVE  \E c \in Destinations[p] :
              reservation[Srp!CreateStreamId(p, d)] = Srp!IPReservation(p, c)
<1> DEFINE s == Srp!CreateStreamId(p, d)
<1>1. MadeBy(s, reservation[s])
  BY DEF Backed, ReservedFor
<1>2. \A q \in TalkersOf(s) : q = p
  OBVIOUS
<1>3. p \notin AVBPublishers
  BY EndpointParameters
<1>4. QED
  BY <1>1, <1>2, <1>3 DEF MadeBy, TalkersOf

-----------------------------------------------------------------------------
(* What is sent.                                                           *)

\* The message of a plain publisher that is due is an interval after the last.
IntervalApart(a) ==
    lastSent[a] # None =>
        /\ connector[a] /\ lastSent[a] <= now
        /\ sendMsgTimer[a] # None =>
              AppParameters[a].intervalMin
                 <= (sendMsgTimer[a] - lastSent[a]) * AppParameters[a].intervalFrames

AllApart == \A a \in Applications : Apps!Kind(a) = "Publisher" => IntervalApart(a)

LEMMA ApartInit == Apps!Init => AllApart
BY DEF Apps!Init, AllApart, IntervalApart

LEMMA PublisherLastSent ==
    ASSUME Typed, NEW a \in Applications
    PROVE  lastSent[a] \in Nat \cup {None} /\ now \in Nat /\ None \notin Nat
BY Limits DEF Typed, Apps!TypeOK

\* Only its timer makes a plain publisher send.
LEMMA PublisherStep ==
    ASSUME Typed, NEW a \in Applications, Apps!Kind(a) = "Publisher", Pace(a), Apps!Next
    PROVE  \/ /\ lastSent'[a] = lastSent[a] /\ sent'[a] = sent[a]
              /\ connector'[a] = connector[a]
              /\ sendMsgTimer'[a] \in {sendMsgTimer[a], None}
              /\ now' = now \/ now' = now + 1
           \/ /\ lastSent'[a] = lastSent[a] /\ sent'[a] = sent[a] /\ now' = now
              /\ ~connector[a] /\ connector'[a]
           \/ /\ sendMsgTimer[a] = now /\ lastSent'[a] = now /\ now' = now
              /\ connector[a] /\ connector'[a] = connector[a]
              /\ sendMsgTimer'[a] \in Apps!NextTimes(a)
<1> USE DEF Apps!counters, Apps!timers
<1>1. ASSUME NEW b \in Applications, Apps!HandleStart(b)
      PROVE  /\ lastSent'[a] = lastSent[a] /\ sent'[a] = sent[a] /\ now' = now
             /\ \/ connector'[a] = connector[a] /\ sendMsgTimer'[a] = sendMsgTimer[a]
                \/ ~connector[a] /\ connector'[a]
  <2>1. UNCHANGED <<now, sent, lastSent>>
    BY <1>1 DEF Apps!HandleStart
  <2>2. CASE b = a
    <3>1. ~connector[a]
      BY <1>1, <2>2 DEF Apps!HandleStart, Pace
    <3>2. connector'[a] = TRUE
      BY <1>1, <2>2
         DEF Apps!HandleStart, Apps!PublisherStart, Apps!SubscriberStart, Typed, Apps!TypeOK
    <3>3. QED
      BY <2>1, <3>1, <3>2
  <2>3. CASE b # a
    BY <1>1, <2>1, <2>3
       DEF Apps!HandleStart, Apps!PublisherStart, Apps!SubscriberStart,
           Apps!ScheduleNextMessage, Typed, Apps!TypeOK
  <2>4. QED
    BY <2>2, <2>3
<1>2. ASSUME NEW b \in Applications, Apps!HandleStop(b)
      PROVE  /\ lastSent'[a] = lastSent[a] /\ sent'[a] = sent[a] /\ now' = now
             /\ connector'[a] = connector[a]
             /\ sendMsgTimer'[a] \in {sendMsgTimer[a], None}
  BY <1>2 DEF Apps!HandleStop, Typed, Apps!TypeOK
<1>3. ASSUME NEW b \in Applications, Apps!HandleMessage(b), b # a
      PROVE  /\ lastSent'[a] = lastSent[a] /\ sent'[a] = sent[a] /\ now' = now
             /\ connector'[a] = connector[a] /\ sendMsgTimer'[a] = sendMsgTimer[a]
  BY <1>3 DEF Apps!HandleMessage, Apps!SendMessage, Apps!ScheduleNextMessage, Typed,
              Apps!TypeOK
<1>4. CASE Apps!HandleMessage(a)
  <2>1. PICK t \in Apps!NextTimes(a) : sendMsgTimer' = [sendMsgTimer EXCEPT ![a] = t]
    BY <1>4 DEF Apps!HandleMessage, Apps!ScheduleNextMessage
  <2>2. sendMsgTimer[a] = now /\ sendMsgTimer[a] # None
    BY <1>4, PublisherLastSent DEF Apps!HandleMessage
  <2>3. connector[a]
    BY <2>2 DEF Pace
  <2>4. lastSent'[a] = now /\ now' = now /\ connector' = connector
    BY <1>4 DEF Apps!HandleMessage, Apps!SendMessage, Typed, Apps!TypeOK
  <2>5. sendMsgTimer'[a] = t
    BY <2>1 DEF Typed, Apps!TypeOK
  <2>6. QED
    BY <2>2, <2>3, <2>4, <2>5
<1>5. ASSUME NEW b \in Applications, Apps!SchedulerIn(b)
      PROVE  /\ lastSent'[a] = lastSent[a] /\ sent'[a] = sent[a] /\ now' = now
             /\ connector'[a] = connector[a] /\ sendMsgTimer'[a] = sendMsgTimer[a]
  <2>1. Apps!Kind(b) = "SyncPublisher"
    BY <1>5, Limits DEF Apps!SchedulerIn, Typed, Timers, Apps!TypeOK
  <2>2. QED
    BY <1>5, <2>1 DEF Apps!SchedulerIn, Apps!SendMessage, Apps!ScheduleNextMessage, Typed,
                      Apps!TypeOK
<1>6. ASSUME NEW b \in Applications, NEW kind \in {"SYNC", "NOT_SYNC"},
             Apps!ReceiveSignal(b, kind)
      PROVE  /\ lastSent'[a] = lastSent[a] /\ sent'[a] = sent[a] /\ now' = now
             /\ connector'[a] = connector[a] /\ sendMsgTimer'[a] = sendMsgTimer[a]
  BY <1>6 DEF Apps!ReceiveSignal
<1>7. ASSUME NEW b \in Applications, NEW id \in CanIds, NEW aggregation \in BOOLEAN,
             Apps!GatewayIn(b, id, aggregation)
      PROVE  /\ lastSent'[a] = lastSent[a] /\ sent'[a] = sent[a] /\ now' = now
             /\ connector'[a] = connector[a] /\ sendMsgTimer'[a] = sendMsgTimer[a]
  BY <1>7 DEF Apps!GatewayIn, Apps!RegisteredForCANID, Apps!Kind, Typed, Apps!TypeOK
<1>8. CASE Apps!Tick
  BY <1>8 DEF Apps!Tick
<1>9. QED
  BY <1>1, <1>2, <1>3, <1>4, <1>5, <1>6, <1>7, <1>8
     DEF Apps!Next, Apps!Timed, Apps!Input

LEMMA ApartKept == Typed /\ Paced /\ AllApart /\ Apps!Next => AllApart'
<1> SUFFICES ASSUME Typed, Paced, AllApart, Apps!Next, NEW a \in Applications,
                    Apps!Kind(a) = "Publisher"
             PROVE  IntervalApart(a)'
  BY DEF AllApart, Apps!Kind
<1>1. IntervalApart(a) /\ Pace(a)
  BY DEF AllApart, Paced
<1>2. lastSent[a] \in Nat \cup {None} /\ now \in Nat
  BY PublisherLastSent
<1>3. CASE /\ lastSent'[a] = lastSent[a] /\ connector'[a] = connector[a]
           /\ sendMsgTimer'[a] \in {sendMsgTimer[a], None}
           /\ now' = now \/ now' = now + 1
  BY <1>1, <1>2, <1>3 DEF IntervalApart
<1>4. CASE lastSent'[a] = lastSent[a] /\ ~connector[a]
  BY <1>1, <1>4 DEF IntervalApart
<1>5. CASE /\ lastSent'[a] = now /\ now' = now /\ connector'[a]
           /\ sendMsgTimer'[a] \in Apps!NextTimes(a)
  <2>1. AppParameters[a].intervalMin
          <= (sendMsgTimer'[a] - now) * AppParameters[a].intervalFrames
    BY <1>5, PublisherTypes DEF Apps!NextTimes
  <2>2. now <= now
    BY <1>2
  <2>3. QED
    BY <1>5, <2>1, <2>2, Zenon DEF IntervalApart
<1>6. QED
  BY <1>1, <1>3, <1>4, <1>5, PublisherStep

\* A plain publisher with one frame per interval sends intervalMin apart.
LEMMA PlainSendsApart ==
    ASSUME Typed, Paced, AllApart, Apps!Next, NEW a \in Applications,
           Apps!Kind(a) = "Publisher", sent'[a] # sent[a], lastSent[a] # None
    PROVE  /\ lastSent[a] \in Nat /\ now - lastSent[a] \in Nat
           /\ AppParameters[a].intervalMin
                <= (now - lastSent[a]) * AppParameters[a].intervalFrames
<1>1. IntervalApart(a) /\ Pace(a)
  BY DEF AllApart, Paced
<1>2. sendMsgTimer[a] = now
  BY <1>1, PublisherStep
<1>3. lastSent[a] \in Nat /\ now \in Nat /\ now # None
  BY PublisherLastSent
<1>4. /\ lastSent[a] <= now
      /\ AppParameters[a].intervalMin
           <= (sendMsgTimer[a] - lastSent[a]) * AppParameters[a].intervalFrames
  BY <1>1, <1>2, <1>3 DEF IntervalApart
<1>5. QED
  BY <1>2, <1>3, <1>4

LEMMA Product ==
    ASSUME NEW m \in Nat, NEW n \in Nat, NEW k \in Nat, m <= n
    PROVE  m * k <= n * k /\ k * m <= k * n /\ m * k \in Nat /\ n * k \in Nat
<1>1. PICK x \in Nat : n = m + x
  BY n - m \in Nat
<1>2. (m + x) * k = m * k + x * k /\ k * (m + x) = k * m + k * x
  OBVIOUS
<1>3. x * k \in Nat /\ m * k \in Nat /\ k * x \in Nat /\ k * m \in Nat
  OBVIOUS
<1>4. QED
  BY <1>1, <1>2, <1>3

\* A message no larger than a reserved frame, at most as often as reserved.
LEMMA HoldsFrames ==
    ASSUME NEW r, NEW f \in Nat, NEW gap \in Nat, r.framesize \in Nat, r.frames \in Nat,
           r.interval \in Nat, f <= r.framesize, r.interval <= gap * r.frames
    PROVE  Holds(r, f + Srp!WireBytes, gap)
<1> DEFINE x == f + 21
           y == r.framesize + 21
<1>1. x \in Nat /\ y \in Nat /\ x <= y
  OBVIOUS
<1>2. y * r.frames * gap = y * (gap * r.frames) /\ gap * r.frames \in Nat
  BY <1>1
<1> HIDE DEF x, y
<1>3. x * r.interval <= y * r.interval /\ y * r.interval <= y * (gap * r.frames)
  BY <1>1, <1>2, Product
<1>4. x * r.interval \in Nat /\ y * r.interval \in Nat /\ y * (gap * r.frames) \in Nat
  BY <1>1, <1>2
<1>5. x * r.interval <= y * r.frames * gap
  BY <1>2, <1>3, <1>4
<1>6. Srp!WireBytes = 21
  BY DEF Srp!WireBytes
<1>7. QED
  BY <1>5, <1>6 DEF Holds, x, y

\* The bytes of as many frames as reserved, at most as often as the interval m
\* for which the reserved frame covers one of these.
LEMMA HoldsMessage ==
    ASSUME NEW r, NEW bytes \in Int, NEW f \in Nat, NEW m \in Nat, NEW gap \in Nat,
           NEW y \in Int, y = r.framesize + 21, r.frames \in Nat, r.interval \in Nat,
           m > 0 \/ y >= 0, m <= gap,
           bytes <= r.frames * (f + 21), (f + 21) * r.interval <= y * m
    PROVE  Holds(r, bytes, gap)
<1>1. PICK x \in Nat : x = f + 21
  OBVIOUS
<1>2. PICK n \in Nat, i \in Nat : n = r.frames /\ i = r.interval
  OBVIOUS
<1>3. x * i \in Nat /\ x * i <= y * m /\ y * m \in Int
  BY <1>1, <1>2
<1>4. y \in Nat
  <2>1. CASE y < 0
    <3>1. PICK k \in Nat : y = -k - 1
      BY <2>1, -y - 1 \in Nat
    <3>2. y * m = -(k * m) - m /\ k * m \in Nat
      BY <3>1
    <3>3. QED
      BY <1>3, <2>1, <3>2
  <2>2. QED
    BY <2>1
<1>5. bytes * i <= (n * x) * i
  <2>1. n * x \in Nat /\ bytes <= n * x
    BY <1>1, <1>2
  <2>2. CASE bytes < 0
    <3>1. PICK k \in Nat : bytes = -k
      BY <2>2, -bytes \in Nat
    <3>2. bytes * i = -(k * i) /\ k * i \in Nat /\ (n * x) * i \in Nat
      BY <2>1, <3>1
    <3>3. QED
      BY <3>2
  <2>3. CASE bytes >= 0
    BY <2>1, <2>3, Product
  <2>4. QED
    BY <2>2, <2>3
<1>6. (n * x) * i = n * (x * i)
  OBVIOUS
<1>7. n * (x * i) <= n * (y * m)
  BY <1>3, <1>4, Product
<1>8. n * (y * m) = (y * n) * m /\ y * n \in Nat
  BY <1>4
<1>9. (y * n) * m <= (y * n) * gap
  BY <1>8, Product
<1>10. bytes * i <= (y * n) * gap
  <2>1. /\ bytes * i \in Int /\ n * (x * i) \in Int /\ n * (y * m) \in Int
        /\ (y * n) * m \in Int /\ (y * n) * gap \in Int
    BY <1>3, <1>4, <1>8
  <2>2. PICK b \in Int, c \in Int, d \in Int :
           b = bytes * i /\ c = n * (y * m) /\ d = (y * n) * gap
    BY <2>1
  <2>3. b <= n * (x * i)
    BY <1>5, <1>6, <2>2
  <2>4. b <= c
    BY <1>7, <2>1, <2>2, <2>3
  <2>5. c <= d
    BY <1>8, <1>9, <2>2
  <2>6. b <= d
    BY <2>4, <2>5
  <2>7. QED
    BY <2>2, <2>6
<1>11. Srp!WireBytes = 21
  BY DEF Srp!WireBytes
<1>12. QED
  BY <1>2, <1>10, <1>11 DEF Holds

\* The intervals that endpoints ask applications for hold no more messages than
\* these have frames per interval, one for a synchronous publisher.
LEMMA MessagesApart ==
    ASSUME Typed, Paced, AllSynchronous, AllApart, Apps!Next, NEW a \in Applications,
           AppParameters[a].kind \in {"Publisher", "SyncPublisher"},
           sent'[a] # sent[a], lastSent[a] # None,
           AppParameters[a].kind = "SyncPublisher"
             => (lastSent[a] % CycleLimit) + AppParameters[a].modulo < CycleLimit
    PROVE  /\ now - lastSent[a] \in Nat /\ AppParameters[a].intervalFrames \in Nat
           /\ GetIntervalMin(a) \in Nat
           /\ GetIntervalMin(a) <= (now - lastSent[a]) * AppParameters[a].intervalFrames
           /\ AppParameters[a].kind = "SyncPublisher" =>
                 GetIntervalMin(a) <= now - lastSent[a]
<1>1. CASE AppParameters[a].kind = "Publisher"
  <2>1. /\ now - lastSent[a] \in Nat
        /\ AppParameters[a].intervalMin
             <= (now - lastSent[a]) * AppParameters[a].intervalFrames
    BY <1>1, PlainSendsApart DEF Apps!Kind
  <2>2. AppParameters[a].intervalMin \in Nat /\ AppParameters[a].intervalFrames \in Nat
    BY <1>1, PublisherTypes DEF Apps!Kind
  <2>3. QED
    BY <1>1, <2>1, <2>2 DEF GetIntervalMin
<1>2. CASE AppParameters[a].kind = "SyncPublisher"
  <2>1. Apps!Kind(a) = "SyncPublisher"
    BY <1>2 DEF Apps!Kind
  <2>2. lastSent[a] <= now /\ lastSent[a] \in Nat /\ now \in Nat
    BY <2>1, SynchronousTypes DEF AllSynchronous, Synchronous
  <2>3. now - lastSent[a] >= AppParameters[a].modulo
    BY <1>2, <2>1, SendsApart
  <2>4. AppParameters[a].modulo \in Nat
    BY <2>1, SynchronousTypes
  <2>5. PICK n \in Nat : AppParameters[a].intervalFrames = n + 1
    <3>1. AppParameters[a].intervalFrames \in Nat \ {0}
      BY <2>1, RealTimeStreamAssumption
         DEF Apps!PublishingAssumption, Apps!PublisherParameters, Apps!Kind, Apps!Publishers
    <3>2. QED
      BY <3>1, AppParameters[a].intervalFrames - 1 \in Nat
  <2>6. PICK gap \in Nat : gap = now - lastSent[a]
    BY <2>2, now - lastSent[a] \in Nat
  <2>7. gap * (n + 1) = gap * n + gap /\ gap * n \in Nat
    OBVIOUS
  <2>8. GetIntervalMin(a) = AppParameters[a].modulo
    BY <1>2 DEF GetIntervalMin
  <2>9. QED
    BY <1>2, <2>3, <2>4, <2>5, <2>6, <2>7, <2>8
<1>3. QED
  BY <1>1, <1>2

\* An AVB stream, whose endpoint reserves the largest payload.
LEMMA AVBHolds ==
    ASSUME Typed, Paced, AllSynchronous, AllApart, EndpointsTyped, Backed, Apps!Next,
           NEW p \in connectedPublishers,
           AVBConfigured(p), TalkersOf(AVBParameters[p].streamID) = {p},
           ApplicationOf[p] \in Applications,
           sent'[ApplicationOf[p]] # sent[ApplicationOf[p]],
           lastSent[ApplicationOf[p]] # None,
           AppParameters[ApplicationOf[p]].kind = "SyncPublisher"
             => (lastSent[ApplicationOf[p]] % CycleLimit)
                   + AppParameters[ApplicationOf[p]].modulo < CycleLimit
    PROVE  Holds(reservation[AVBParameters[p].streamID], PublishedBytes(p) + Srp!WireBytes,
                 now - lastSent[ApplicationOf[p]])
<1> DEFINE a == ApplicationOf[p]
           app == AppParameters[a]
           r == reservation[AVBParameters[p].streamID]
           gap == now - lastSent[a]
<1>1. p \in AVBPublishers /\ p \in publisherEndpoints
  BY DEF EndpointsTyped, Srp!TypeOK
<1>2. r = Srp!AVBReservation(p)
  BY <1>1, OwnAVBReservation
<1>3. SetAVBParameters(AVBParameters[p], app)
  BY <1>1, RealTimeStreamAssumption
<1>4. /\ Apps!Kind(a) \in {"Publisher", "SyncPublisher"}
      /\ GetIntervalMin(a) >= Srp!IntervalForClass(app.srClass)
  BY <1>3 DEF AVBConfigured, Apps!Kind, SetAVBParameters
<1>5. app.payload \in Nat /\ app.payloadMax \in Nat /\ app.payload <= app.payloadMax
  BY <1>4, RealTimeStreamAssumption
     DEF Apps!PublishingAssumption, Apps!PublisherParameters, Apps!Kind, Apps!Publishers
<1>6. /\ r.framesize = Srp!AVBFrameSize(app.payloadMax)
      /\ r.frames = app.intervalFrames
      /\ r.interval = Srp!IntervalForClass(app.srClass)
  BY <1>2, <1>3
     DEF Srp!AVBReservation, Srp!AVBPublisherEndpoint, Srp!Reservation, SetAVBParameters
<1>7. PublishedBytes(p) = Srp!AVBFrameSize(app.payload)
  BY DEF PublishedBytes
<1>8. /\ Srp!AVBFrameSize(app.payload) \in Nat /\ Srp!AVBFrameSize(app.payloadMax) \in Nat
      /\ Srp!AVBFrameSize(app.payload) <= Srp!AVBFrameSize(app.payloadMax)
  BY <1>5 DEF Srp!AVBFrameSize, Srp!MinFrameBytes, Srp!MacFrameBytes, Srp!QTagBytes
<1>9. /\ gap \in Nat /\ app.intervalFrames \in Nat
      /\ GetIntervalMin(a) \in Nat
      /\ GetIntervalMin(a) <= gap * app.intervalFrames
  BY <1>4, MessagesApart DEF Apps!Kind
<1>10. Srp!IntervalForClass(app.srClass) \in Nat
  BY DEF Srp!IntervalForClass
<1> HIDE DEF a, app, r, gap
<1>11. gap * app.intervalFrames \in Nat
  BY <1>9
<1>12. r.interval <= gap * r.frames
  BY <1>4, <1>6, <1>9, <1>10, <1>11
<1>13. Holds(r, PublishedBytes(p) + Srp!WireBytes, gap)
  BY <1>6, <1>7, <1>8, <1>9, <1>10, <1>12, HoldsFrames
<1>14. QED
  BY <1>13 DEF a, r, gap

\* The numbers of StreamNumbers, named by StreamReservation's instance.
LEMMA SameNumbers ==
    ASSUME NEW qos, NEW payload, NEW max
    PROVE  /\ Srp!MaxPayload(qos) = MaxPayload(qos)
           /\ Srp!CalculateL2Framesize(qos, payload) = CalculateL2Framesize(qos, payload)
           /\ Srp!NumFrames(payload, max) = NumFrames(payload, max)
           /\ Srp!AvgPayload(payload, max) = AvgPayload(payload, max)
           /\ Srp!MessageBytes(qos, payload) = MessageBytes(qos, payload)
           /\ Srp!Unreserved(qos, payload) = Unreserved(qos, payload)
<1> USE DEF MacFrameBytes, QTagBytes, IPHeaderBytes, UDPHeaderBytes, TCPHeaderBytes,
            SOMEIPHeaderBytes, MaxFrameBytes, WireBytes, HeaderBytes, MaxPayload,
            CalculateL2Framesize, NumFrames, AvgPayload, Ceil, MessageBytes, Unreserved
<1> USE DEF Srp!MacFrameBytes, Srp!QTagBytes, Srp!IPHeaderBytes, Srp!UDPHeaderBytes,
            Srp!TCPHeaderBytes, Srp!SOMEIPHeaderBytes, Srp!MaxFrameBytes, Srp!WireBytes,
            Srp!HeaderBytes, Srp!MaxPayload, Srp!CalculateL2Framesize, Srp!NumFrames,
            Srp!AvgPayload, Srp!Ceil, Srp!MessageBytes, Srp!Unreserved
<1>1. QED
  OBVIOUS

\* What an IP endpoint reserves for its payload.
LEMMA IPReserves ==
    ASSUME NEW p \in IPPublishers, NEW d, Srp!RequiresReservation(p)
    PROVE  LET r == Srp!IPReservation(p, d)
               cmi == IPParameters[p].pcpCMIs[IPParameters[p].pcp]
           IN  /\ Srp!FrameBytes(p) \in Nat /\ ReservedBytes(p) \in Int
               /\ r.frames \in Nat /\ r.interval \in Nat
               /\ ReservedBytes(p) <= r.frames * (Srp!FrameBytes(p) + 21)
               /\ IPParameters[p].streamIntervalAsCMI =>
                     /\ r.framesize = Srp!FrameBytes(p)
                     /\ r.interval = IPParameters[p].intervalMin
               /\ ~IPParameters[p].streamIntervalAsCMI =>
                     /\ cmi \in Nat \ {0} /\ r.framesize \in Int
                     /\ (Srp!FrameBytes(p) + 21) * r.interval <= (r.framesize + 21) * cmi
<1> DEFINE r == Srp!IPReservation(p, d)
           cmi == IPParameters[p].pcpCMIs[IPParameters[p].pcp]
           qos == IPParameters[p].qos
           payload == IPParameters[p].payload
           n == NumFrames(payload, MaxPayload(qos))
           F == Srp!FrameBytes(p)
<1>1. payload \in Nat /\ IPParameters[p].intervalMin \in Nat
  BY IPEndpointParameters
<1>2. r.frames = n
  BY SameNumbers DEF Srp!IPReservation, Srp!Reservation
<1>3. F = CalculateL2Framesize(qos, AvgPayload(payload, MaxPayload(qos)))
  BY SameNumbers DEF Srp!FrameBytes
<1>4. ReservedBytes(p) = MessageBytes(qos, payload) - Unreserved(qos, payload)
  BY SameNumbers DEF ReservedBytes
<1>5. WireBytes = 21
  BY DEF WireBytes
<1> HIDE DEF r, qos, payload, n, F
<1>6. /\ F \in Nat /\ n \in Nat /\ ReservedBytes(p) \in Int
      /\ ReservedBytes(p) <= n * (F + 21)
  BY <1>1, <1>3, <1>4, <1>5, ReservedFramesCover DEF n
<1>7. CASE IPParameters[p].streamIntervalAsCMI
  <2>1. r.framesize = F /\ r.interval = IPParameters[p].intervalMin
    BY <1>7 DEF Srp!IPReservation, Srp!Reservation, r, F
  <2>2. QED
    BY <1>1, <1>2, <1>6, <1>7, <2>1 DEF r, F
<1>8. CASE ~IPParameters[p].streamIntervalAsCMI
  <2>1. cmi \in Nat \ {0}
    BY <1>8, IPEndpointParameters DEF Srp!RequiresReservation
  <2>2. PICK i \in {1, 2} :
           r.interval = i /\ r.framesize = Srp!NormalizeFramesizeForCMI(F, cmi, i)
    BY <1>8 DEF Srp!IPReservation, Srp!Reservation, Srp!IntervalForClass, r, F
  <2>3. Srp!NormalizeFramesizeForCMI(F, cmi, i) = NormalizeFramesizeForCMI(F, cmi, i)
    BY DEF Srp!NormalizeFramesizeForCMI, Srp!Ceil, Srp!WireBytes, NormalizeFramesizeForCMI,
           Ceil, WireBytes
  <2> HIDE DEF cmi
  <2>4. i \in Nat \ {0}
    BY <2>2
  <2>5. /\ NormalizeFramesizeForCMI(F, cmi, i) \in Int
        /\ (F + WireBytes) * i <= (NormalizeFramesizeForCMI(F, cmi, i) + WireBytes) * cmi
    BY <1>6, <2>1, <2>4, NormalizedFrameCovers
  <2>6. r.framesize \in Int /\ (F + 21) * r.interval <= (r.framesize + 21) * cmi
    BY <1>5, <2>2, <2>3, <2>5
  <2>7. r.interval \in Nat
    BY <2>2, <2>4
  <2>8. QED
    BY <1>2, <1>6, <1>8, <2>1, <2>6, <2>7 DEF r, cmi, F
<1>9. QED
  BY <1>7, <1>8

\* A stream of an IP endpoint, whichever interval it reserves for.
LEMMA IPHolds ==
    ASSUME Typed, Paced, AllSynchronous, AllApart, EndpointsTyped, Backed, ~failure,
           Apps!Next, NEW p \in IPPublishers, NEW d \in remotes[p],
           Srp!RequiresReservation(p), IPConfigured(p),
           TalkersOf(Srp!CreateStreamId(p, d)) = {p},
           ApplicationOf[p] \in Applications,
           sent'[ApplicationOf[p]] # sent[ApplicationOf[p]],
           lastSent[ApplicationOf[p]] # None,
           AppParameters[ApplicationOf[p]].kind = "SyncPublisher"
             => (lastSent[ApplicationOf[p]] % CycleLimit)
                   + AppParameters[ApplicationOf[p]].modulo < CycleLimit
    PROVE  Holds(reservation[Srp!CreateStreamId(p, d)], ReservedBytes(p),
                 now - lastSent[ApplicationOf[p]])
<1> DEFINE a == ApplicationOf[p]
           ip == IPParameters[p]
           cmi == ip.pcpCMIs[ip.pcp]
           F == Srp!FrameBytes(p)
           gap == now - lastSent[a]
<1>1. PICK c \in Destinations[p] :
         reservation[Srp!CreateStreamId(p, d)] = Srp!IPReservation(p, c)
  BY OwnIPReservation
<1> DEFINE r == Srp!IPReservation(p, c)
<1>2. gap \in Nat /\ GetIntervalMin(a) <= gap
  <2>1. CASE AppParameters[a].kind = "SyncPublisher"
    BY <2>1, MessagesApart
  <2>2. CASE AppParameters[a].kind = "Publisher" /\ AppParameters[a].intervalFrames = 1
    <3>1. gap \in Nat /\ GetIntervalMin(a) <= gap * 1
      BY <2>2, MessagesApart
    <3>2. QED
      BY <3>1
  <2>3. QED
    BY <2>1, <2>2 DEF IPConfigured
<1>3. ip.intervalMin = GetIntervalMin(a) /\ ip.intervalMin \in Nat
  BY RealTimeStreamAssumption, IPEndpointParameters
<1>4. ip.streamIntervalAsCMI \/ ip.intervalMin >= cmi
  BY DEF IPConfigured
<1>5. /\ F \in Nat /\ ReservedBytes(p) \in Int /\ r.frames \in Nat /\ r.interval \in Nat
      /\ ReservedBytes(p) <= r.frames * (F + 21)
      /\ ip.streamIntervalAsCMI => r.framesize = F /\ r.interval = ip.intervalMin
      /\ ~ip.streamIntervalAsCMI =>
            /\ cmi \in Nat \ {0} /\ r.framesize \in Int
            /\ (F + 21) * r.interval <= (r.framesize + 21) * cmi
  BY IPReserves
<1> HIDE DEF a, ip, cmi, F, gap, r
<1>6. CASE ip.streamIntervalAsCMI
  <2>1. /\ F + 21 \in Int /\ F + 21 >= 0 /\ r.framesize + 21 = F + 21
        /\ (F + 21) * r.interval <= (F + 21) * ip.intervalMin
    BY <1>3, <1>5, <1>6
  <2>2. Holds(r, ReservedBytes(p), gap)
    BY <1>2, <1>3, <1>5, <2>1, HoldsMessage
  <2>3. QED
    BY <1>1, <2>2 DEF r, gap, a
<1>7. CASE ~ip.streamIntervalAsCMI
  <2>1. cmi \in Nat /\ cmi > 0 /\ cmi <= gap
    BY <1>2, <1>3, <1>4, <1>5, <1>7
  <2>2. r.framesize + 21 \in Int
    BY <1>5, <1>7
  <2>3. Holds(r, ReservedBytes(p), gap)
    BY <1>2, <1>5, <1>7, <2>1, <2>2, HoldsMessage
  <2>4. QED
    BY <1>1, <2>3 DEF r, gap, a
<1>8. QED
  BY <1>6, <1>7

-----------------------------------------------------------------------------
(* Theorems of the specification.                                          *)

\* The inductive invariant.
Scheduled == Typed /\ Paced /\ AllSynchronous /\ AllApart

Inductive == Scheduled /\ Reserving /\ Backed

LEMMA InductiveInit == Init => Inductive
BY ApplicationsInit, PacedInit, SynchronousInit, ApartInit, EndpointsInit, BackedInit
   DEF Init, Scheduled, Inductive

LEMMA ApplicationsUntouched == Scheduled /\ UNCHANGED applicationVars => Scheduled'
<1> SUFFICES ASSUME Scheduled, UNCHANGED applicationVars
             PROVE  Scheduled'
  OBVIOUS
<1> USE DEF Scheduled
<1>1. Typed'
  BY DEF Typed, Timers, Apps!TypeOK, Apps!Kind, applicationVars
<1>2. Paced'
  BY PaceUntouched DEF Paced, Apps!Kind, Untouched, applicationVars
<1>3. AllSynchronous'
  BY SynchronousUntouched DEF AllSynchronous, Apps!Kind, applicationVars
<1>4. AllApart'
  BY DEF AllApart, IntervalApart, Apps!Kind, applicationVars
<1>5. QED
  BY <1>1, <1>2, <1>3, <1>4

LEMMA EndpointsUntouched ==
    Reserving /\ Backed /\ UNCHANGED endpointVars => Reserving' /\ Backed'
<1> SUFFICES ASSUME Reserving, Backed, UNCHANGED endpointVars
             PROVE  Reserving' /\ Backed'
  OBVIOUS
<1>1. UNCHANGED <<talkers, reservation, listeners, publisherEndpoints,
                  connectedPublishers, remotes, faults, failure>>
  BY DEF endpointVars
<1>2. /\ subscriberEndpoints' \subseteq AVBSubscribers
      /\ connectedSubscribers' \subseteq subscriberEndpoints'
      /\ updateMessages' \subseteq subscriberEndpoints'
  BY DEF Reserving, EndpointsTyped, Srp!TypeOK, endpointVars
<1>3. QED
  BY <1>1, <1>2, SubscribersStep, BackedStays

LEMMA InductiveStep == Inductive /\ [Next]_vars => Inductive'
<1> SUFFICES ASSUME Inductive, [Next]_vars PROVE Inductive'
  OBVIOUS
<1>1. Scheduled /\ Reserving /\ Backed
  BY DEF Inductive
<1>2. CASE ApplicationStep
  <2>1. Scheduled'
    BY <1>1, <1>2, ApplicationsKeepTypes, PacedKept, SynchronousKept, ApartKept
       DEF ApplicationStep, Scheduled
  <2>2. QED
    BY <1>1, <1>2, <2>1, EndpointsUntouched DEF ApplicationStep, Inductive
<1>3. CASE EndpointStep
  BY <1>1, <1>3, ApplicationsUntouched, EndpointsKeepReserving, BackedKept
     DEF EndpointStep, Inductive
<1>4. CASE UNCHANGED vars
  BY <1>1, <1>4, ApplicationsUntouched, EndpointsUntouched DEF vars, Inductive
<1>5. QED
  BY <1>2, <1>3, <1>4 DEF Next

LEMMA Invariance == Spec => []Inductive
BY InductiveInit, InductiveStep, PTL DEF Spec

\* Whatever the applications, their endpoints and the tables of SRP do, every
\* variable stays in its declared range; nextCycle in that of the counter.
THEOREM TypeCorrect == Spec => []TypeOK
<1>1. Inductive => TypeOK
  BY DEF Inductive, Scheduled, Typed, Reserving, EndpointsTyped, TypeOK
<1>2. QED
  BY <1>1, Invariance, PTL

\* From its start to its stop a Publisher sends a message per interval, for any
\* intervals and any number of frames: handleMessage always reschedules, and
\* after the stop no timer is left.
THEOREM PublishersKeepPace == Spec => []KeepsPace
<1>1. Inductive => KeepsPace
  BY PacedKeepsPace DEF Inductive, Scheduled
<1>2. QED
  BY <1>1, Invariance, PTL

\* The messages of a SyncPublisher are modulo cycles apart however often the
\* synchronisation is lost and regained between them.
THEOREM SyncPublishersSendOncePerModulo == Spec => OncePerModulo
<1> DEFINE Apart ==
      \A a \in Applications :
          /\ Apps!Kind(a) = "SyncPublisher" /\ sent'[a] # sent[a] /\ lastSent[a] # None
          /\ (lastSent[a] % CycleLimit) + AppParameters[a].modulo < CycleLimit
          => now - lastSent[a] >= AppParameters[a].modulo
<1>1. Inductive /\ [Next]_vars => [Apart]_(Apps!vars)
  <2> SUFFICES ASSUME Inductive, [Next]_vars PROVE [Apart]_(Apps!vars)
    OBVIOUS
  <2>1. CASE ApplicationStep
    BY <2>1, SendsApart DEF ApplicationStep, Inductive, Scheduled
  <2>2. CASE EndpointStep \/ UNCHANGED vars
    BY <2>2 DEF EndpointStep, vars, applicationVars, Apps!vars, Apps!timers, Apps!counters
  <2>3. QED
    BY <2>1, <2>2 DEF Next
<1>2. QED
  BY <1>1, Invariance, PTL DEF Spec, OncePerModulo, Apps!OncePerModulo

\* A connected publisher endpoint has a listener in its node's table, whichever
\* of several listeners leave or time out.
THEOREM ConnectedHaveListeners == Spec => []ConnectedHasListener
<1>1. Inductive => ConnectedHasListener
  BY DEF Inductive, Reserving
<1>2. QED
  BY <1>1, Invariance, PTL

\* Every address a SOME/IP endpoint sends to keeps a reservation of its own: the
\* identifiers that registerTalker makes of service, instance and address do
\* not meet, and nodes forget only the talkers of others.
THEOREM EveryDestinationHasATalker == Spec => []TalkerPerDestination
<1>1. Inductive => TalkerPerDestination
  BY DEF Inductive, Reserving
<1>2. QED
  BY <1>1, Invariance, PTL

\* What an application sends fits into what its AVB and IP endpoints have
\* reserved, for any payload and any intervals that are not shorter than those
\* they reserve for, and one frame per interval at an IP endpoint.  Of a payload
\* larger than a frame an IP endpoint may leave out no more than the headers of
\* one frame and less than a byte of each: IPPublisherEndpointBase and
\* AVBPublisherEndpoint have computed this from the parameters of the application
\* when they were created.
THEOREM TalkersKeepReservations == Spec => KeepsReservation
<1> DEFINE Sends(a) ==
      /\ sent'[a] # sent[a] /\ lastSent[a] # None
      /\ AppParameters[a].kind = "SyncPublisher"
            => (lastSent[a] % CycleLimit) + AppParameters[a].modulo < CycleLimit
<1> DEFINE Kept ==
      \A a \in Applications :
          Sends(a)
          => /\ \A p \in connectedPublishers :
                   /\ ApplicationOf[p] = a /\ AVBConfigured(p)
                   /\ TalkersOf(AVBParameters[p].streamID) = {p}
                   => Holds(reservation[AVBParameters[p].streamID],
                            PublishedBytes(p) + Srp!WireBytes, now - lastSent[a])
             /\ \A p \in IPPublishers :
                   ApplicationOf[p] = a /\ Srp!RequiresReservation(p) /\ IPConfigured(p)
                     => \A d \in remotes[p] :
                           TalkersOf(Srp!CreateStreamId(p, d)) = {p}
                             => Holds(reservation[Srp!CreateStreamId(p, d)],
                                      ReservedBytes(p), now - lastSent[a])
<1>1. Inductive /\ [Next]_vars => [Kept]_vars
  <2> SUFFICES ASSUME Inductive, [Next]_vars PROVE [Kept]_vars
    OBVIOUS
  <2>1. /\ Typed /\ Paced /\ AllSynchronous /\ AllApart
        /\ EndpointsTyped /\ Backed
    BY DEF Inductive, Scheduled, Reserving
  <2>2. CASE ApplicationStep
    <3>1. ~failure /\ Apps!Next
      BY <2>2 DEF ApplicationStep
    <3>2. ASSUME NEW a \in Applications, Sends(a), NEW p \in connectedPublishers,
                 ApplicationOf[p] = a, AVBConfigured(p),
                 TalkersOf(AVBParameters[p].streamID) = {p}
          PROVE  Holds(reservation[AVBParameters[p].streamID],
                       PublishedBytes(p) + Srp!WireBytes, now - lastSent[a])
      BY <2>1, <3>1, <3>2, AVBHolds
    <3>3. ASSUME NEW a \in Applications, Sends(a), NEW p \in IPPublishers,
                 ApplicationOf[p] = a, Srp!RequiresReservation(p), IPConfigured(p),
                 NEW d \in remotes[p], TalkersOf(Srp!CreateStreamId(p, d)) = {p}
          PROVE  Holds(reservation[Srp!CreateStreamId(p, d)], ReservedBytes(p),
                       now - lastSent[a])
      BY <2>1, <3>1, <3>3, IPHolds
    <3>4. Kept
      BY <3>2, <3>3
    <3>5. QED
      BY <3>4
  <2>3. CASE EndpointStep \/ UNCHANGED vars
    BY <2>3 DEF EndpointStep, applicationVars
  <2>4. QED
    BY <2>2, <2>3 DEF Next
<1>2. QED
  BY <1>1, Invariance, PTL DEF Spec, KeepsReservation
=============================================================================
