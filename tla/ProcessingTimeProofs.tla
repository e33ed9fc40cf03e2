------------------------ MODULE ProcessingTimeProofs ------------------------
(* Theorems about ProcessingTime, for all messages, times and changes, and  *)
(* its refinement of OrderedProcessing while the parameters stay.           *)
EXTENDS ProcessingTime, SequenceTheorems, TLAPS

-----------------------------------------------------------------------------
(* Sequences.                                                              *)

LEMMA AppendType ==
    ASSUME NEW S, NEW seq \in Seq(S), NEW e \in S
    PROVE  /\ Append(seq, e) \in Seq(S)
           /\ \A i \in DOMAIN Append(seq, e) :
                 \/ Append(seq, e)[i] = e
                 \/ i \in DOMAIN seq /\ Append(seq, e)[i] = seq[i]
OBVIOUS

LEMMA TailType ==
    ASSUME NEW S, NEW seq \in Seq(S), seq # <<>>
    PROVE  Tail(seq) \in Seq(S) /\ Head(seq) \in S
OBVIOUS

LEMMA RemoveType ==
    ASSUME NEW S, NEW seq \in Seq(S), NEW n \in DOMAIN seq
    PROVE  /\ RemoveAt(seq, n) \in Seq(S)
           /\ Len(RemoveAt(seq, n)) = Len(seq) - 1
           /\ \A i \in DOMAIN RemoveAt(seq, n) : \E j \in DOMAIN seq : RemoveAt(seq, n)[i] = seq[j]
<1> DEFINE before == SubSeq(seq, 1, n - 1)
           after == SubSeq(seq, n + 1, Len(seq))
<1>1. n \in 1..Len(seq) /\ Len(seq) \in Nat  OBVIOUS
<1>2. before \in Seq(S) /\ Len(before) = n - 1 /\ \A i \in 1..(n - 1) : before[i] = seq[i]
  BY <1>1
<1>3. after \in Seq(S) /\ Len(after) = Len(seq) - n
      /\ \A i \in 1..(Len(seq) - n) : after[i] = seq[n + i]
  BY <1>1
<1>4. RemoveAt(seq, n) = before \o after  BY DEF RemoveAt
<1> HIDE DEF before, after
<1>5. before \o after \in Seq(S) /\ Len(before \o after) = Len(seq) - 1
  BY <1>1, <1>2, <1>3
<1>6. ASSUME NEW i \in 1..(Len(seq) - 1)
      PROVE  \E j \in DOMAIN seq : (before \o after)[i] = seq[j]
  <2>1. CASE i < n
    <3>1. (before \o after)[i] = before[i]  BY <1>1, <1>2, <1>3, <2>1
    <3>2. i \in 1..(n - 1) /\ i \in DOMAIN seq  BY <1>1, <2>1
    <3> QED  BY <3>1, <3>2, <1>2
  <2>2. CASE i >= n
    <3>1. (before \o after)[i] = after[i - (n - 1)]  BY <1>1, <1>2, <1>3, <2>2
    <3>2. i - (n - 1) \in 1..(Len(seq) - n) /\ n + (i - (n - 1)) = i + 1
          /\ i + 1 \in DOMAIN seq
      BY <1>1, <2>2
    <3> QED  BY <3>1, <3>2, <1>3
  <2>3. i < n \/ i >= n  BY <1>1
  <2> QED  BY <2>1, <2>2, <2>3
<1>7. DOMAIN (before \o after) = 1..(Len(seq) - 1)  BY <1>5
<1> QED  BY <1>4, <1>5, <1>6, <1>7

LEMMA RemoveFirstIsTail ==
    ASSUME NEW S, NEW seq \in Seq(S), seq # <<>>
    PROVE  RemoveAt(seq, 1) = Tail(seq)
BY DEF RemoveAt

LEMMA DueType == ASSUME TypeOK, NEW i \in Due  PROVE i \in DOMAIN scheduled
BY DEF Due

-----------------------------------------------------------------------------
(* Types.                                                                  *)

LEMMA TypeInductive ==
    ASSUME TypeOK, [Next]_vars
    PROVE  TypeOK'
<1> USE DEF TypeOK
<1>1. ASSUME NEW m \in Messages  PROVE ServiceTime(m) \in Event
  BY ProcessingAssumption DEF ServiceTime, Event
<1>2. ASSUME NEW m \in Messages, SimulateProcessingTime(m)  PROVE TypeOK'
  <2>1. Append(msgList, m) \in Seq(Messages)  BY AppendType
  <2>2. Append(scheduled, ServiceTime(m)) \in Seq(Event)  BY <1>1, AppendType
  <2> QED  BY <1>2, <2>1, <2>2 DEF SimulateProcessingTime, parameters
<1>3. ASSUME NEW i \in Due, HandleServiceTime(i)  PROVE TypeOK'
  <2> DEFINE rest == RemoveAt(scheduled, i)
  <2>1. i \in DOMAIN scheduled  BY DueType
  <2>2. rest \in Seq(Event)  BY <2>1, RemoveType
  <2>3. scheduled[i].msg \in Messages
    <3>1. scheduled[i] \in Event  BY <2>1
    <3> QED  BY <3>1 DEF Event
  <2>4. processed' \in Seq(Messages)
    BY <1>3, <2>3, AppendType DEF HandleServiceTime
  <2>5. TriggerNextProcessingTime(rest)  BY <1>3 DEF HandleServiceTime
  <2> HIDE DEF rest
  <2>6. /\ scheduled' \in Seq(Event)
        /\ msgList' \in Seq(Messages)
        /\ busy' \in BOOLEAN
    <3>1. CASE msgList = <<>>
      BY <2>2, <2>5, <3>1 DEF TriggerNextProcessingTime
    <3>2. CASE msgList # <<>>
      <4>1. Tail(msgList) \in Seq(Messages) /\ Head(msgList) \in Messages
        BY <3>2, TailType
      <4>2. Append(rest, ServiceTime(Head(msgList))) \in Seq(Event)
        BY <1>1, <2>2, <4>1, AppendType
      <4> QED  BY <2>5, <3>2, <4>1, <4>2 DEF TriggerNextProcessingTime
    <3> QED  BY <3>1, <3>2
  <2> QED  BY <1>3, <2>4, <2>6 DEF HandleServiceTime, parameters
<1>4. ASSUME TimePasses  PROVE TypeOK'
  <2>1. \A i \in DOMAIN scheduled : [scheduled[i] EXCEPT !.left = @ - 1] \in Event
    <3> SUFFICES ASSUME NEW i \in DOMAIN scheduled
                 PROVE  [scheduled[i] EXCEPT !.left = @ - 1] \in Event
      OBVIOUS
    <3>1. scheduled[i] \in Event /\ scheduled[i].left > 0
      BY <1>4 DEF TimePasses
    <3>2. scheduled[i].left - 1 \in Nat  BY <3>1 DEF Event
    <3> QED  BY <3>1, <3>2 DEF Event
  <2>2. scheduled' \in Seq(Event)
    <3>1. DOMAIN scheduled = 1..Len(scheduled) /\ Len(scheduled) \in Nat  OBVIOUS
    <3> QED  BY <1>4, <2>1, <3>1 DEF TimePasses
  <2> QED  BY <1>4, <2>2 DEF TimePasses, parameters
<1>5. ASSUME HandleParameterChange  PROVE TypeOK'
  BY <1>5, ProcessingAssumption DEF HandleParameterChange
<1>6. CASE UNCHANGED vars  BY <1>6 DEF vars
<1> QED  BY <1>2, <1>3, <1>4, <1>5, <1>6 DEF Next, Terminated

\* Every step keeps every variable in its range.
THEOREM TypeCorrect == Spec => []TypeOK
<1>1. Init => TypeOK
  <2>1. <<>> \in Seq(Messages) /\ <<>> \in Seq(Event)  OBVIOUS
  <2>2. 0 \in 0..MaxChanges  BY ProcessingAssumption
  <2> QED  BY <2>1, <2>2 DEF Init, TypeOK
<1>2. TypeOK /\ [Next]_vars => TypeOK'  BY TypeInductive
<1> QED  BY <1>1, <1>2, PTL DEF Spec

-----------------------------------------------------------------------------
(* Whoever waits is served.                                                *)

\* The busy flag ties the list to the events: nobody is queued at an idle
\* module, and a busy module has an event whose end will look at the list.
Serving == (msgList # <<>> => busy) /\ (busy => scheduled # <<>>)

LEMMA ServingInductive ==
    ASSUME TypeOK, Serving, [Next]_vars
    PROVE  Serving'
<1> USE DEF TypeOK
<1>1. ASSUME NEW m \in Messages, SimulateProcessingTime(m)  PROVE Serving'
  BY <1>1 DEF SimulateProcessingTime, Serving
<1>2. ASSUME NEW i \in Due, HandleServiceTime(i)  PROVE Serving'
  <2> DEFINE rest == RemoveAt(scheduled, i)
  <2>1. rest \in Seq(Event)  BY DueType, RemoveType
  <2>2. TriggerNextProcessingTime(rest)  BY <1>2 DEF HandleServiceTime
  <2> HIDE DEF rest
  <2>3. CASE msgList = <<>>
    BY <2>2, <2>3 DEF TriggerNextProcessingTime, Serving
  <2>4. CASE msgList # <<>>
    <3>1. scheduled' # <<>>  BY <2>1, <2>2, <2>4 DEF TriggerNextProcessingTime
    <3> QED  BY <2>2, <2>4, <3>1 DEF TriggerNextProcessingTime, Serving
  <2> QED  BY <2>3, <2>4
<1>3. ASSUME TimePasses  PROVE Serving'
  <2>1. scheduled' # <<>>
    <3>1. 1 \in DOMAIN scheduled  BY <1>3 DEF TimePasses
    <3>2. DOMAIN scheduled' = DOMAIN scheduled  BY <1>3 DEF TimePasses
    <3> QED  BY <3>1, <3>2
  <2> QED  BY <1>3, <2>1 DEF TimePasses, Serving
<1>4. ASSUME HandleParameterChange  PROVE Serving'
  BY <1>4 DEF HandleParameterChange, Serving
<1>5. CASE UNCHANGED vars  BY <1>5 DEF vars, Serving
<1> QED  BY <1>1, <1>2, <1>3, <1>4, <1>5 DEF Next, Terminated

\* WaitingIsServed, however the parameters change.
THEOREM NobodyIsForgotten == Spec => []WaitingIsServed
<1>1. Init => Serving  BY DEF Init, Serving
<1>2. TypeOK /\ Serving /\ [Next]_vars => Serving'  BY ServingInductive
<1>3. Serving => WaitingIsServed  BY DEF Serving, WaitingIsServed
<1> QED  BY <1>1, <1>2, <1>3, TypeCorrect, PTL DEF Spec

-----------------------------------------------------------------------------
(* The order of arrival.                                                   *)

\* Nobody waits where messages are processed in parallel, and at most one is
\* processed where they are not.
OneServed ==
    /\ allowParallelProcessing => msgList = <<>>
    /\ ~allowParallelProcessing => Len(scheduled) <= 1 /\ (scheduled # <<>> => busy)

\* Events are due in the order they were scheduled, the last of them no later
\* than one that is scheduled now.
Sorted ==
    /\ \A i, j \in DOMAIN scheduled : i < j => scheduled[i].left <= scheduled[j].left
    /\ \A i \in DOMAIN scheduled : scheduled[i].left <= processingTime

\* What is on its way has arrived.
HasArrived ==
    /\ \A i \in DOMAIN scheduled : scheduled[i].msg \in arrived
    /\ \A i \in DOMAIN msgList : msgList[i] \in arrived
    /\ \A i \in DOMAIN processed : processed[i] \in arrived

\* Without parameter changes the invariant is inductive.
Steady == changes = 0 => Serving /\ OneServed /\ Sorted

LEMMA HasArrivedInductive ==
    ASSUME TypeOK, HasArrived, [Next]_vars
    PROVE  HasArrived'
<1> USE DEF TypeOK
<1>1. ASSUME NEW m \in Messages, SimulateProcessingTime(m)  PROVE HasArrived'
  <2>1. arrived' = arrived \cup {m}  BY <1>1 DEF SimulateProcessingTime
  <2>2. \A i \in DOMAIN scheduled' : scheduled'[i].msg \in arrived'
    <3>1. CASE UNCHANGED scheduled  BY <2>1, <3>1 DEF HasArrived
    <3>2. CASE scheduled' = Append(scheduled, ServiceTime(m))
      <4>1. ServiceTime(m).msg = m  BY DEF ServiceTime
      <4>2. \A i \in DOMAIN scheduled' :
              \/ scheduled'[i] = ServiceTime(m)
              \/ i \in DOMAIN scheduled /\ scheduled'[i] = scheduled[i]
        <5>1. ServiceTime(m) \in Event  BY ProcessingAssumption DEF ServiceTime, Event
        <5> QED  BY <3>2, <5>1, AppendType
      <4> QED  BY <2>1, <4>1, <4>2 DEF HasArrived
    <3> QED  BY <1>1, <3>1, <3>2 DEF SimulateProcessingTime
  <2>3. \A i \in DOMAIN msgList' : msgList'[i] \in arrived'
    BY <1>1, <2>1 DEF SimulateProcessingTime, HasArrived
  <2> QED  BY <1>1, <2>1, <2>2, <2>3 DEF SimulateProcessingTime, HasArrived
<1>2. ASSUME NEW i \in Due, HandleServiceTime(i)  PROVE HasArrived'
  <2> DEFINE rest == RemoveAt(scheduled, i)
  <2>1. i \in DOMAIN scheduled /\ arrived' = arrived
    BY <1>2, DueType DEF HandleServiceTime
  <2>2. /\ rest \in Seq(Event)
        /\ \A k \in DOMAIN rest : \E j \in DOMAIN scheduled : rest[k] = scheduled[j]
    BY <2>1, RemoveType
  <2>3. \A k \in DOMAIN processed' : processed'[k] \in arrived
    BY <1>2, <2>1 DEF HandleServiceTime, HasArrived
  <2>4. TriggerNextProcessingTime(rest)  BY <1>2 DEF HandleServiceTime
  <2> HIDE DEF rest
  <2>5. CASE msgList = <<>>
    <3>1. scheduled' = rest /\ msgList' = msgList
      BY <2>4, <2>5 DEF TriggerNextProcessingTime
    <3> QED  BY <2>1, <2>2, <2>3, <3>1 DEF HasArrived
  <2>6. CASE msgList # <<>>
    <3> DEFINE next == ServiceTime(Head(msgList))
    <3>1. scheduled' = Append(rest, next) /\ msgList' = Tail(msgList)
      BY <2>4, <2>6 DEF TriggerNextProcessingTime
    <3>2. next.msg \in arrived
      <4>1. 1 \in DOMAIN msgList /\ Head(msgList) = msgList[1]  BY <2>6
      <4> QED  BY <4>1 DEF ServiceTime, HasArrived
    <3>9. next \in Event
      BY <2>6, TailType, ProcessingAssumption DEF ServiceTime, Event
    <3> HIDE DEF next
    <3>3. \A k \in DOMAIN scheduled' :
            scheduled'[k] = next \/ (k \in DOMAIN rest /\ scheduled'[k] = rest[k])
      BY <2>2, <3>9, <3>1, AppendType
    <3>4. \A k \in DOMAIN msgList' : k + 1 \in DOMAIN msgList /\ msgList'[k] = msgList[k + 1]
      BY <2>6, <3>1
    <3> QED  BY <2>1, <2>2, <2>3, <3>2, <3>3, <3>4 DEF HasArrived
  <2> QED  BY <2>5, <2>6
<1>3. ASSUME TimePasses  PROVE HasArrived'
  <2>1. DOMAIN scheduled' = DOMAIN scheduled
        /\ \A i \in DOMAIN scheduled : scheduled'[i].msg = scheduled[i].msg
    <3>1. \A i \in DOMAIN scheduled : scheduled[i] \in Event  OBVIOUS
    <3> QED  BY <1>3, <3>1 DEF TimePasses, Event
  <2> QED  BY <1>3, <2>1 DEF TimePasses, HasArrived
<1>4. ASSUME HandleParameterChange  PROVE HasArrived'
  BY <1>4 DEF HandleParameterChange, HasArrived
<1>5. CASE UNCHANGED vars  BY <1>5 DEF vars, HasArrived
<1> QED  BY <1>1, <1>2, <1>3, <1>4, <1>5 DEF Next, Terminated

\* Events that are sorted by their time happen in the order of scheduling.
LEMMA FirstIsDue ==
    ASSUME TypeOK, Sorted, NEW i \in Due
    PROVE  i = 1 /\ scheduled # <<>>
<1>1. Len(scheduled) \in Nat /\ DOMAIN scheduled = 1..Len(scheduled)  BY DEF TypeOK
<1>2. \A j \in DOMAIN scheduled : scheduled[j].left \in Nat
  <2>1. \A j \in DOMAIN scheduled : scheduled[j] \in Event  BY DEF TypeOK
  <2> QED  BY <2>1 DEF Event
<1>3. /\ i \in 1..Len(scheduled) /\ scheduled[i].left = 0
      /\ \A j \in 1..(i - 1) : scheduled[j].left # 0
  BY <1>1 DEF Due
<1>4. ASSUME i # 1  PROVE FALSE
  <2>1. 1 \in 1..(i - 1) /\ 1 \in DOMAIN scheduled /\ 1 < i
    BY <1>1, <1>3, <1>4
  <2>2. scheduled[1].left <= scheduled[i].left  BY <1>1, <1>3, <2>1 DEF Sorted
  <2> QED  BY <1>2, <1>3, <2>1, <2>2
<1> QED  BY <1>1, <1>3, <1>4

LEMMA SteadyInductive ==
    ASSUME TypeOK, Steady, [Next]_vars
    PROVE  Steady'
<1> SUFFICES ASSUME changes' = 0  PROVE (Serving /\ OneServed /\ Sorted)'
  BY DEF Steady
<1> USE DEF TypeOK
<1>1. ~HandleParameterChange
  BY DEF HandleParameterChange
<1>2. changes = 0 /\ UNCHANGED <<processingTime, allowParallelProcessing>>
  BY <1>1 DEF Next, Terminated, SimulateProcessingTime, HandleServiceTime, TimePasses,
              parameters, vars
<1>3. Serving /\ OneServed /\ Sorted  BY <1>2 DEF Steady
<1>4. Serving'  BY <1>3, ServingInductive
<1>5. Len(scheduled) \in Nat /\ DOMAIN scheduled = 1..Len(scheduled)  OBVIOUS
<1>6. \A i \in DOMAIN scheduled : scheduled[i].left \in Nat
  <2>1. \A i \in DOMAIN scheduled : scheduled[i] \in Event  OBVIOUS
  <2> QED  BY <2>1 DEF Event
<1>7. processingTime \in Nat  BY ProcessingAssumption
\* What is scheduled now is due last.
<1>8. ASSUME NEW rest \in Seq(Event), NEW m \in Messages,
             \A i, j \in DOMAIN rest : i < j => rest[i].left <= rest[j].left,
             \A i \in DOMAIN rest : rest[i].left <= processingTime,
             scheduled' = Append(rest, ServiceTime(m))
      PROVE  Sorted'
  <2>1. ServiceTime(m) \in Event /\ ServiceTime(m).left = processingTime
    BY <1>7 DEF ServiceTime, Event
  <2>2. /\ DOMAIN scheduled' = 1..(Len(rest) + 1)
        /\ Len(rest) \in Nat /\ DOMAIN rest = 1..Len(rest)
        /\ scheduled'[Len(rest) + 1] = ServiceTime(m)
        /\ \A i \in 1..Len(rest) : scheduled'[i] = rest[i]
    BY <1>8, <2>1
  <2>3. ASSUME NEW i \in DOMAIN scheduled', NEW j \in DOMAIN scheduled', i < j
        PROVE  scheduled'[i].left <= scheduled'[j].left
    <3>1. i \in 1..Len(rest)  BY <2>2, <2>3
    <3>2. CASE j \in 1..Len(rest)  BY <1>8, <2>2, <2>3, <3>1, <3>2
    <3>3. CASE j = Len(rest) + 1
      <4>1. scheduled'[i].left <= processingTime  BY <1>8, <2>2, <3>1
      <4> QED  BY <2>1, <2>2, <3>3, <4>1
    <3> QED  BY <2>2, <3>2, <3>3
  <2>4. ASSUME NEW i \in DOMAIN scheduled'
        PROVE  scheduled'[i].left <= processingTime'
    <3>1. CASE i \in 1..Len(rest)  BY <1>2, <1>8, <2>2, <3>1
    <3>2. CASE i = Len(rest) + 1  BY <1>2, <1>7, <2>1, <2>2, <3>2
    <3> QED  BY <2>2, <3>1, <3>2
  <2> QED  BY <2>3, <2>4 DEF Sorted
<1>9. ASSUME NEW m \in Messages, SimulateProcessingTime(m)  PROVE (OneServed /\ Sorted)'
  <2>1. CASE busy /\ ~allowParallelProcessing
    <3>1. UNCHANGED <<busy, scheduled>>  BY <1>9, <2>1 DEF SimulateProcessingTime
    <3> QED  BY <1>2, <1>3, <2>1, <3>1 DEF OneServed, Sorted
  <2>2. CASE ~busy \/ allowParallelProcessing
    <3>1. /\ busy' = TRUE /\ UNCHANGED msgList
          /\ scheduled' = Append(scheduled, ServiceTime(m))
      BY <1>9, <2>2 DEF SimulateProcessingTime
    <3>2. Sorted'  BY <1>3, <1>8, <3>1 DEF Sorted
    <3>3. OneServed'
      <4>1. CASE allowParallelProcessing  BY <1>2, <1>3, <3>1, <4>1 DEF OneServed
      <4>2. CASE ~allowParallelProcessing
        <5>1. scheduled = <<>>  BY <1>3, <2>2, <4>2 DEF OneServed
        <5>2. ServiceTime(m) \in Event  BY <1>7 DEF ServiceTime, Event
        <5>3. Len(scheduled') = 1  BY <3>1, <5>1, <5>2
        <5> QED  BY <1>2, <3>1, <4>2, <5>3 DEF OneServed
      <4> QED  BY <4>1, <4>2
    <3> QED  BY <3>2, <3>3
  <2> QED  BY <1>9, <2>1, <2>2 DEF SimulateProcessingTime
<1>10. ASSUME NEW i \in Due, HandleServiceTime(i)  PROVE (OneServed /\ Sorted)'
  <2>1. i = 1 /\ scheduled # <<>>  BY <1>3, FirstIsDue
  <2> DEFINE rest == RemoveAt(scheduled, i)
  <2>2. rest = Tail(scheduled)  BY <2>1, RemoveFirstIsTail
  <2>3. TriggerNextProcessingTime(rest)  BY <1>10 DEF HandleServiceTime
  <2> HIDE DEF rest
  <2>4. /\ rest \in Seq(Event) /\ Len(rest) = Len(scheduled) - 1
        /\ \A k \in DOMAIN rest : k + 1 \in DOMAIN scheduled /\ rest[k] = scheduled[k + 1]
    BY <2>1, <2>2
  <2>5. /\ \A k, j \in DOMAIN rest : k < j => rest[k].left <= rest[j].left
        /\ \A k \in DOMAIN rest : rest[k].left <= processingTime
    <3>1. DOMAIN rest \subseteq Nat  BY <2>4
    <3>2. ASSUME NEW k \in DOMAIN rest, NEW j \in DOMAIN rest, k < j
          PROVE  rest[k].left <= rest[j].left
      <4>1. k + 1 < j + 1 /\ k + 1 \in DOMAIN scheduled /\ j + 1 \in DOMAIN scheduled
        BY <2>4, <3>1, <3>2
      <4>2. scheduled[k + 1].left <= scheduled[j + 1].left  BY <1>3, <4>1 DEF Sorted
      <4> QED  BY <2>4, <4>2
    <3>3. ASSUME NEW k \in DOMAIN rest  PROVE rest[k].left <= processingTime
      <4>1. scheduled[k + 1].left <= processingTime  BY <1>3, <2>4 DEF Sorted
      <4> QED  BY <2>4, <4>1
    <3> QED  BY <3>2, <3>3
  <2>6. CASE msgList = <<>>
    <3>1. busy' = FALSE /\ scheduled' = rest /\ UNCHANGED msgList
      BY <2>3, <2>6 DEF TriggerNextProcessingTime
    <3>2. Sorted'  BY <1>2, <2>5, <3>1 DEF Sorted
    <3>3. ~allowParallelProcessing => scheduled' = <<>>
      BY <1>3, <1>5, <2>1, <2>4, <3>1 DEF OneServed
    <3> QED  BY <1>2, <1>3, <2>6, <3>1, <3>2, <3>3 DEF OneServed
  <2>7. CASE msgList # <<>>
    <3>1. /\ UNCHANGED busy /\ msgList' = Tail(msgList)
          /\ scheduled' = Append(rest, ServiceTime(Head(msgList)))
      BY <2>3, <2>7 DEF TriggerNextProcessingTime
    <3>2. Head(msgList) \in Messages  BY <2>7, TailType
    <3>3. Sorted'  BY <1>8, <2>4, <2>5, <3>1, <3>2
    <3>4. ~allowParallelProcessing /\ Len(scheduled) <= 1 /\ busy
      BY <1>3, <2>7 DEF OneServed, Serving
    <3>5. Len(scheduled') = Len(scheduled)
      <4>1. ServiceTime(Head(msgList)) \in Event  BY <1>7, <3>2 DEF ServiceTime, Event
      <4>2. rest \in Seq(Event) /\ Len(rest) = Len(scheduled) - 1  BY <2>4
      <4>3. Len(Append(rest, ServiceTime(Head(msgList)))) = Len(rest) + 1  BY <4>1, <4>2
      <4>4. Len(scheduled') = Len(rest) + 1  BY <3>1, <4>3
      <4> QED  BY <1>5, <4>2, <4>4
    <3> QED  BY <1>2, <3>1, <3>3, <3>4, <3>5 DEF OneServed
  <2> QED  BY <2>6, <2>7
<1>11. ASSUME TimePasses  PROVE (OneServed /\ Sorted)'
  <2>1. /\ DOMAIN scheduled' = DOMAIN scheduled
        /\ \A i \in DOMAIN scheduled : scheduled'[i].left = scheduled[i].left - 1
    <3>1. \A i \in DOMAIN scheduled : scheduled[i] \in Event  OBVIOUS
    <3> QED  BY <1>11, <3>1 DEF TimePasses, Event
  <2>2. scheduled' \in Seq(Event)  BY <1>11, TypeInductive
  <2>3. Len(scheduled') = Len(scheduled)  BY <1>5, <2>1, <2>2
  <2>4. Sorted'
    <3>1. \A i, j \in DOMAIN scheduled : i < j => scheduled[i].left - 1 <= scheduled[j].left - 1
      BY <1>3, <1>6 DEF Sorted
    <3>2. \A i \in DOMAIN scheduled : scheduled[i].left - 1 <= processingTime
      BY <1>3, <1>6, <1>7 DEF Sorted
    <3> QED  BY <1>2, <2>1, <3>1, <3>2 DEF Sorted
  <2>5. UNCHANGED <<busy, msgList>> /\ scheduled # <<>>  BY <1>11 DEF TimePasses
  <2> QED  BY <1>2, <1>3, <2>3, <2>4, <2>5 DEF OneServed
<1>12. CASE UNCHANGED vars
  <2>1. OneServed'  BY <1>3, <1>12 DEF vars, OneServed
  <2>2. Sorted'  BY <1>3, <1>12 DEF vars, Sorted
  <2> QED  BY <1>4, <2>1, <2>2
<1> QED  BY <1>1, <1>4, <1>9, <1>10, <1>11, <1>12 DEF Next, Terminated

\* OneAtATime, as long as the parameters stay as they were.
THEOREM SerialProcessing == Spec => []OneAtATime
<1>1. Init => Steady
  BY DEF Init, Steady, Serving, OneServed, Sorted
<1>2. TypeOK /\ Steady /\ [Next]_vars => Steady'  BY SteadyInductive
<1>3. Steady => OneAtATime  BY DEF Steady, OneServed, OneAtATime
<1> QED  BY <1>1, <1>2, <1>3, TypeCorrect, PTL DEF Spec

-----------------------------------------------------------------------------
(* Refinement.                                                             *)

\* What OrderedProcessing has accepted: first what is being processed.
Accepted == InProcess \o msgList

LEMMA InProcessType ==
    ASSUME TypeOK
    PROVE  /\ InProcess \in Seq(Messages)
           /\ Len(InProcess) = Len(scheduled)
           /\ \A i \in DOMAIN scheduled : InProcess[i] = scheduled[i].msg
<1>1. \A i \in DOMAIN scheduled : scheduled[i].msg \in Messages
  <2>1. \A i \in DOMAIN scheduled : scheduled[i] \in Event  BY DEF TypeOK
  <2> QED  BY <2>1 DEF Event
<1>2. DOMAIN scheduled = 1..Len(scheduled) /\ Len(scheduled) \in Nat  BY DEF TypeOK
<1> QED  BY <1>1, <1>2 DEF InProcess

\* Scheduling m behind "rest" puts it behind what "rest" processes.
LEMMA AppendInProcess ==
    ASSUME NEW seq \in Seq(Event), NEW e \in Event
    PROVE  [i \in DOMAIN Append(seq, e) |-> Append(seq, e)[i].msg]
             = Append([i \in DOMAIN seq |-> seq[i].msg], e.msg)
<1> DEFINE left == [i \in DOMAIN Append(seq, e) |-> Append(seq, e)[i].msg]
           msgs == [i \in DOMAIN seq |-> seq[i].msg]
<1>1. /\ DOMAIN seq = 1..Len(seq) /\ Len(seq) \in Nat
      /\ DOMAIN Append(seq, e) = 1..(Len(seq) + 1)
      /\ Append(seq, e)[Len(seq) + 1] = e
      /\ \A i \in 1..Len(seq) : Append(seq, e)[i] = seq[i]
  OBVIOUS
<1>2. \A i \in 1..Len(seq) : seq[i].msg \in Messages
  <2>1. \A i \in 1..Len(seq) : seq[i] \in Event  BY <1>1
  <2> QED  BY <2>1 DEF Event
<1>3. msgs \in Seq(Messages) /\ Len(msgs) = Len(seq) /\ \A i \in 1..Len(seq) : msgs[i] = seq[i].msg
  BY <1>1, <1>2
<1>4. e.msg \in Messages  BY DEF Event
<1>5. /\ Append(msgs, e.msg) \in Seq(Messages)
      /\ Len(Append(msgs, e.msg)) = Len(seq) + 1
      /\ Append(msgs, e.msg)[Len(seq) + 1] = e.msg
      /\ \A i \in 1..Len(seq) : Append(msgs, e.msg)[i] = msgs[i]
  <2> HIDE DEF msgs
  <2> QED  BY <1>1, <1>3, <1>4
<1>6. left \in Seq(Messages) /\ Len(left) = Len(seq) + 1
  <2>1. \A i \in 1..(Len(seq) + 1) : Append(seq, e)[i].msg \in Messages
    BY <1>1, <1>2, <1>4
  <2> QED  BY <1>1, <2>1
<1>7. \A i \in 1..(Len(seq) + 1) : left[i] = Append(msgs, e.msg)[i]
  BY <1>1, <1>3, <1>5
<1> HIDE DEF left, msgs
<1>8. left = Append(msgs, e.msg)  BY <1>5, <1>6, <1>7, SeqEqual
<1> QED  BY <1>8 DEF left, msgs

LEMMA TailInProcess ==
    ASSUME NEW seq \in Seq(Event), seq # <<>>
    PROVE  [i \in DOMAIN Tail(seq) |-> Tail(seq)[i].msg]
             = Tail([i \in DOMAIN seq |-> seq[i].msg])
<1> DEFINE left == [i \in DOMAIN Tail(seq) |-> Tail(seq)[i].msg]
           msgs == [i \in DOMAIN seq |-> seq[i].msg]
<1>1. /\ DOMAIN seq = 1..Len(seq) /\ Len(seq) \in Nat \ {0}
      /\ DOMAIN Tail(seq) = 1..(Len(seq) - 1)
      /\ \A i \in 1..(Len(seq) - 1) : Tail(seq)[i] = seq[i + 1]
  OBVIOUS
<1>2. \A i \in 1..Len(seq) : seq[i].msg \in Messages
  <2>1. \A i \in 1..Len(seq) : seq[i] \in Event  BY <1>1
  <2> QED  BY <2>1 DEF Event
<1>3. msgs \in Seq(Messages) /\ Len(msgs) = Len(seq) /\ \A i \in 1..Len(seq) : msgs[i] = seq[i].msg
  BY <1>1, <1>2
<1>4. /\ Tail(msgs) \in Seq(Messages)
      /\ Len(Tail(msgs)) = Len(seq) - 1
      /\ \A i \in 1..(Len(seq) - 1) : Tail(msgs)[i] = msgs[i + 1]
  <2> HIDE DEF msgs
  <2> QED  BY <1>1, <1>3
<1>5. left \in Seq(Messages) /\ Len(left) = Len(seq) - 1
  <2>1. \A i \in 1..(Len(seq) - 1) : Tail(seq)[i].msg \in Messages
    BY <1>1, <1>2
  <2> QED  BY <1>1, <2>1
<1>6. \A i \in 1..(Len(seq) - 1) : left[i] = Tail(msgs)[i]
  BY <1>1, <1>3, <1>4
<1> HIDE DEF left, msgs
<1>7. left = Tail(msgs)  BY <1>4, <1>5, <1>6, SeqEqual
<1> QED  BY <1>7 DEF left, msgs

LEMMA TailOfConcat ==
    ASSUME NEW S, NEW s \in Seq(S), NEW t \in Seq(S), s # <<>>
    PROVE  Tail(s \o t) = Tail(s) \o t /\ Head(s \o t) = Head(s) /\ s \o t # <<>>
<1>1. Len(s) \in Nat \ {0} /\ Len(t) \in Nat  OBVIOUS
<1>2. /\ s \o t \in Seq(S) /\ Len(s \o t) = Len(s) + Len(t)
      /\ \A i \in 1..(Len(s) + Len(t)) :
            (s \o t)[i] = IF i <= Len(s) THEN s[i] ELSE t[i - Len(s)]
  BY ConcatProperties
<1>3. Tail(s) \in Seq(S) /\ Len(Tail(s)) = Len(s) - 1 /\ \A i \in 1..(Len(s) - 1) : Tail(s)[i] = s[i + 1]
  BY <1>1
<1>4. /\ Tail(s) \o t \in Seq(S) /\ Len(Tail(s) \o t) = Len(s) - 1 + Len(t)
      /\ \A i \in 1..(Len(s) - 1 + Len(t)) :
            (Tail(s) \o t)[i] = IF i <= Len(s) - 1 THEN Tail(s)[i] ELSE t[i - (Len(s) - 1)]
  BY <1>3, ConcatProperties
<1>5. /\ Tail(s \o t) \in Seq(S) /\ Len(Tail(s \o t)) = Len(s) - 1 + Len(t)
      /\ \A i \in 1..(Len(s) - 1 + Len(t)) : Tail(s \o t)[i] = (s \o t)[i + 1]
  BY <1>1, <1>2
<1>6. \A i \in 1..(Len(s) - 1 + Len(t)) : Tail(s \o t)[i] = (Tail(s) \o t)[i]
  <2> SUFFICES ASSUME NEW i \in 1..(Len(s) - 1 + Len(t))
               PROVE  Tail(s \o t)[i] = (Tail(s) \o t)[i]
    OBVIOUS
  <2>1. Tail(s \o t)[i] = (s \o t)[i + 1] /\ i + 1 \in 1..(Len(s) + Len(t))
    BY <1>1, <1>5
  <2>2. CASE i <= Len(s) - 1
    <3>1. (s \o t)[i + 1] = s[i + 1]  BY <1>1, <1>2, <2>1, <2>2
    <3>2. (Tail(s) \o t)[i] = s[i + 1]  BY <1>1, <1>3, <1>4, <2>2
    <3> QED  BY <2>1, <3>1, <3>2
  <2>3. CASE ~(i <= Len(s) - 1)
    <3>1. (s \o t)[i + 1] = t[i + 1 - Len(s)]  BY <1>1, <1>2, <2>1, <2>3
    <3>2. (Tail(s) \o t)[i] = t[i - (Len(s) - 1)]  BY <1>4, <2>3
    <3>3. i + 1 - Len(s) = i - (Len(s) - 1)  BY <1>1
    <3> QED  BY <2>1, <3>1, <3>2, <3>3
  <2> QED  BY <2>2, <2>3
<1>7. Tail(s \o t) = Tail(s) \o t  BY <1>4, <1>5, <1>6, SeqEqual
<1>8. Head(s \o t) = Head(s) /\ s \o t # <<>>  BY <1>1, <1>2
<1> QED  BY <1>7, <1>8

LEMMA AcceptedType ==
    ASSUME TypeOK, HasArrived
    PROVE  /\ Accepted \in Seq(Messages)
           /\ Ordered!Elements(Accepted) \cup Ordered!Elements(processed) \subseteq arrived
<1>1. InProcess \in Seq(Messages) /\ msgList \in Seq(Messages) /\ DOMAIN scheduled = DOMAIN InProcess
  BY InProcessType DEF TypeOK, InProcess
<1>2. /\ Accepted \in Seq(Messages) /\ Len(Accepted) = Len(InProcess) + Len(msgList)
      /\ \A i \in 1..(Len(InProcess) + Len(msgList)) :
            Accepted[i] = IF i <= Len(InProcess) THEN InProcess[i] ELSE msgList[i - Len(InProcess)]
  BY <1>1, ConcatProperties DEF Accepted
<1>3. ASSUME NEW i \in DOMAIN Accepted  PROVE Accepted[i] \in arrived
  <2>1. /\ i \in 1..(Len(InProcess) + Len(msgList))
        /\ Len(InProcess) \in Nat /\ Len(msgList) \in Nat
        /\ DOMAIN InProcess = 1..Len(InProcess) /\ DOMAIN msgList = 1..Len(msgList)
    BY <1>1, <1>2
  <2>2. CASE i <= Len(InProcess)
    <3>1. i \in DOMAIN scheduled /\ Accepted[i] = InProcess[i]  BY <1>1, <1>2, <2>1, <2>2
    <3> QED  BY <3>1, InProcessType DEF HasArrived
  <2>3. CASE ~(i <= Len(InProcess))
    <3>1. i - Len(InProcess) \in DOMAIN msgList /\ Accepted[i] = msgList[i - Len(InProcess)]
      BY <1>2, <2>1, <2>3
    <3> QED  BY <3>1 DEF HasArrived
  <2> QED  BY <2>2, <2>3
<1> QED  BY <1>2, <1>3 DEF Ordered!Elements, HasArrived

\* An arrival is accepted behind all the others, whether it waits or not.
LEMMA ArrivalIsLast ==
    ASSUME TypeOK, HasArrived, Serving, OneServed,
           NEW m \in Messages, SimulateProcessingTime(m)
    PROVE  Ordered!Arrive(m)
<1>1. InProcess \in Seq(Messages) /\ msgList \in Seq(Messages)
  BY InProcessType DEF TypeOK
<1>2. m \notin Ordered!Elements(Accepted) \cup Ordered!Elements(processed)
  BY AcceptedType DEF SimulateProcessingTime
<1>3. Accepted' = Append(Accepted, m)
  <2>1. CASE busy /\ ~allowParallelProcessing
    <3>1. msgList' = Append(msgList, m) /\ InProcess' = InProcess
      BY <2>1 DEF SimulateProcessingTime, InProcess
    <3>2. Accepted' = InProcess \o (msgList \o <<m>>)
      BY <1>1, <3>1, AppendIsConcat DEF Accepted
    <3>3. <<m>> \in Seq(Messages)  OBVIOUS
    <3>4. Accepted' = Accepted \o <<m>>  BY <1>1, <3>2, <3>3, ConcatAssociative DEF Accepted
    <3> QED  BY <3>4, AcceptedType, AppendIsConcat
  <2>2. CASE ~busy \/ allowParallelProcessing
    <3>1. scheduled' = Append(scheduled, ServiceTime(m)) /\ UNCHANGED msgList
      BY <2>2 DEF SimulateProcessingTime
    <3>2. msgList = <<>>  BY <2>2 DEF Serving, OneServed
    <3>3. ServiceTime(m) \in Event /\ ServiceTime(m).msg = m
      BY ProcessingAssumption DEF ServiceTime, Event, TypeOK
    <3>4. InProcess' = Append(InProcess, m)
      BY <3>1, <3>3, AppendInProcess DEF InProcess, TypeOK
    <3>5. Append(InProcess, m) \in Seq(Messages)  BY <1>1, AppendType
    <3>6. Accepted' = Append(InProcess, m) /\ Accepted = InProcess
      BY <1>1, <3>1, <3>2, <3>4, <3>5, ConcatEmptySeq DEF Accepted
    <3> QED  BY <3>6
  <2> QED  BY <2>1, <2>2 DEF SimulateProcessingTime
<1> QED  BY <1>2, <1>3 DEF Ordered!Arrive, Accepted, SimulateProcessingTime

\* The event that happens is that of the message accepted first.
LEMMA OldestIsProcessed ==
    ASSUME TypeOK, Sorted, NEW i \in Due, HandleServiceTime(i)
    PROVE  Ordered!Process
<1>1. i = 1 /\ scheduled # <<>> /\ scheduled \in Seq(Event)
  BY FirstIsDue DEF TypeOK
<1> DEFINE rest == RemoveAt(scheduled, i)
           restInProcess == [k \in DOMAIN rest |-> rest[k].msg]
<1>2. rest = Tail(scheduled) /\ rest \in Seq(Event)
  BY <1>1, RemoveFirstIsTail, TailType
<1>3. restInProcess = Tail(InProcess)
  BY <1>1, <1>2, TailInProcess DEF InProcess
<1>4. TriggerNextProcessingTime(rest)  BY DEF HandleServiceTime
<1> HIDE DEF rest
<1>5. /\ InProcess \in Seq(Messages) /\ msgList \in Seq(Messages) /\ InProcess # <<>>
      /\ Head(InProcess) = scheduled[1].msg
  <2>1. Len(InProcess) # 0 /\ 1 \in DOMAIN scheduled  BY <1>1, InProcessType
  <2> QED  BY <2>1, InProcessType DEF TypeOK
<1>6. Tail(InProcess) \in Seq(Messages)  BY <1>5, TailType
<1>7. Accepted' = Tail(InProcess) \o msgList
  <2>1. CASE msgList = <<>>
    <3>1. scheduled' = rest /\ UNCHANGED msgList
      BY <1>4, <2>1 DEF TriggerNextProcessingTime
    <3> QED  BY <1>3, <3>1 DEF Accepted, InProcess
  <2>2. CASE msgList # <<>>
    <3> DEFINE h == Head(msgList)
               tail == Tail(msgList)
    <3>1. /\ h \in Messages /\ tail \in Seq(Messages) /\ <<h>> \in Seq(Messages)
          /\ msgList = <<h>> \o tail
      BY <1>5, <2>2, TailType
    <3>2. scheduled' = Append(rest, ServiceTime(h)) /\ msgList' = tail
      BY <1>4, <2>2 DEF TriggerNextProcessingTime
    <3>3. ServiceTime(h) \in Event /\ ServiceTime(h).msg = h
      BY <3>1, ProcessingAssumption DEF ServiceTime, Event, TypeOK
    <3> HIDE DEF h, tail
    <3>4. InProcess' = Append(Tail(InProcess), h)
      BY <1>2, <1>3, <3>2, <3>3, AppendInProcess DEF InProcess
    <3>5. InProcess' = Tail(InProcess) \o <<h>>
      BY <1>6, <3>1, <3>4, AppendIsConcat
    <3> QED  BY <1>6, <3>1, <3>2, <3>5, ConcatAssociative DEF Accepted
  <2> QED  BY <2>1, <2>2
<1>8. /\ Accepted # <<>>
      /\ Head(Accepted) = scheduled[i].msg
      /\ Accepted' = Tail(Accepted)
  BY <1>1, <1>5, <1>7, TailOfConcat DEF Accepted
<1> QED  BY <1>8 DEF Ordered!Process, Accepted, HandleServiceTime

\* Until its parameters change the module is an OrderedProcessing, in which an
\* event's message is the oldest that was accepted.
THEOREM OrderIsKept == Spec => KeepsOrder
<1>1. Init => Ordered!Init
  <2> SUFFICES ASSUME Init  PROVE Ordered!Init
    OBVIOUS
  <2>1. InProcess = <<>>  BY DEF Init, InProcess
  <2> QED  BY <2>1 DEF Init, Ordered!Init
<1>2. TypeOK /\ HasArrived /\ Steady /\ [Next]_vars
      => [changes = 0 => Ordered!Next]_Ordered!vars
  <2> SUFFICES ASSUME TypeOK, HasArrived, Steady, [Next]_vars, changes = 0
               PROVE  [Ordered!Next]_Ordered!vars
    OBVIOUS
  <2>1. changes = 0  OBVIOUS
  <2>2. Serving /\ OneServed /\ Sorted  BY <2>1 DEF Steady
  <2>3. ASSUME NEW m \in Messages, SimulateProcessingTime(m)  PROVE Ordered!Next
    BY <2>2, <2>3, ArrivalIsLast DEF Ordered!Next
  <2>4. ASSUME NEW i \in Due, HandleServiceTime(i)  PROVE Ordered!Next
    BY <2>2, <2>4, OldestIsProcessed DEF Ordered!Next
  <2>5. ASSUME TimePasses  PROVE UNCHANGED Ordered!vars
    <3>1. InProcess' = InProcess
      <4>1. \A i \in DOMAIN scheduled : scheduled[i] \in Event  BY DEF TypeOK
      <4> QED  BY <2>5, <4>1 DEF TimePasses, InProcess, Event
    <3> QED  BY <2>5, <3>1 DEF TimePasses, Ordered!vars
  <2>6. ASSUME HandleParameterChange  PROVE UNCHANGED Ordered!vars
    BY <2>6 DEF HandleParameterChange, InProcess, Ordered!vars
  <2>7. CASE UNCHANGED vars
    BY <2>7 DEF vars, InProcess, Ordered!vars
  <2> QED  BY <2>3, <2>4, <2>5, <2>6, <2>7 DEF Next, Terminated
<1>3. Init => Steady /\ HasArrived
  BY DEF Init, Steady, Serving, OneServed, Sorted, HasArrived
<1>4. TypeOK /\ Steady /\ HasArrived /\ [Next]_vars => Steady' /\ HasArrived'
  BY SteadyInductive, HasArrivedInductive
<1> QED  BY <1>1, <1>2, <1>3, <1>4, TypeCorrect, PTL DEF Spec, KeepsOrder

-----------------------------------------------------------------------------
(* Every message is at one place.                                          *)

Once(seq) == \A i, j \in DOMAIN seq : seq[i] = seq[j] => i = j
OnceIn(events) == \A i, j \in DOMAIN events : events[i].msg = events[j].msg => i = j

Members(seq) == {seq[i] : i \in DOMAIN seq}
MessagesOf(events) == {events[i].msg : i \in DOMAIN events}

LEMMA AppendOnce ==
    ASSUME NEW S, NEW seq \in Seq(S), NEW e \in S
    PROVE  /\ Members(Append(seq, e)) = Members(seq) \cup {e}
           /\ Once(seq) /\ e \notin Members(seq) => Once(Append(seq, e))
<1>1. /\ DOMAIN seq = 1..Len(seq) /\ Len(seq) \in Nat
      /\ DOMAIN Append(seq, e) = 1..(Len(seq) + 1)
      /\ Append(seq, e)[Len(seq) + 1] = e
      /\ \A i \in 1..Len(seq) : Append(seq, e)[i] = seq[i]
  OBVIOUS
<1>2. \A i \in 1..(Len(seq) + 1) : i \in 1..Len(seq) \/ i = Len(seq) + 1
  BY <1>1
<1>3. Len(seq) + 1 \in 1..(Len(seq) + 1) /\ \A i \in 1..Len(seq) : i \in 1..(Len(seq) + 1)
  BY <1>1
<1>4. Members(Append(seq, e)) = Members(seq) \cup {e}
  BY <1>1, <1>2, <1>3, Zenon DEF Members
<1>5. ASSUME Once(seq), e \notin Members(seq), NEW i \in 1..(Len(seq) + 1),
             NEW j \in 1..(Len(seq) + 1), Append(seq, e)[i] = Append(seq, e)[j]
      PROVE  i = j
  <2>1. CASE i \in 1..Len(seq) /\ j \in 1..Len(seq)
    BY <1>1, <1>5, <2>1 DEF Once
  <2>2. CASE i = Len(seq) + 1 /\ j \in 1..Len(seq)
    BY <1>1, <1>5, <2>2 DEF Members
  <2>3. CASE j = Len(seq) + 1 /\ i \in 1..Len(seq)
    BY <1>1, <1>5, <2>3 DEF Members
  <2> QED  BY <1>2, <2>1, <2>2, <2>3
<1> QED  BY <1>1, <1>4, <1>5 DEF Once

LEMMA TailOnce ==
    ASSUME NEW S, NEW seq \in Seq(S), seq # <<>>, Once(seq)
    PROVE  /\ Members(Tail(seq)) = Members(seq) \ {Head(seq)}
           /\ Head(seq) \in Members(seq)
           /\ Once(Tail(seq))
<1>1. /\ DOMAIN seq = 1..Len(seq) /\ Len(seq) \in Nat \ {0}
      /\ DOMAIN Tail(seq) = 1..(Len(seq) - 1)
      /\ \A i \in 1..(Len(seq) - 1) : Tail(seq)[i] = seq[i + 1]
      /\ Head(seq) = seq[1]
  OBVIOUS
<1>2. /\ 1 \in 1..Len(seq)
      /\ \A i \in 1..(Len(seq) - 1) : i + 1 \in 1..Len(seq) /\ i + 1 # 1
      /\ \A i \in 1..Len(seq) : i = 1 \/ \E j \in 1..(Len(seq) - 1) : i = j + 1
  <2>1. \A i \in 1..Len(seq) : i # 1 => i - 1 \in 1..(Len(seq) - 1) /\ i = (i - 1) + 1
    BY <1>1
  <2> QED  BY <1>1, <2>1
<1>3. ASSUME NEW x \in Members(Tail(seq))  PROVE x \in Members(seq) \ {Head(seq)}
  <2>1. PICK i \in 1..(Len(seq) - 1) : x = seq[i + 1]  BY <1>1, <1>3 DEF Members
  <2>2. i + 1 \in 1..Len(seq) /\ i + 1 # 1  BY <1>2
  <2>3. seq[i + 1] # seq[1]  BY <1>1, <1>2, <2>2 DEF Once
  <2> QED  BY <1>1, <2>1, <2>2, <2>3 DEF Members
<1>4. ASSUME NEW x \in Members(seq), x # Head(seq)  PROVE x \in Members(Tail(seq))
  <2>1. PICK i \in 1..Len(seq) : x = seq[i]  BY <1>1, <1>4 DEF Members
  <2>2. PICK j \in 1..(Len(seq) - 1) : i = j + 1  BY <1>1, <1>2, <1>4, <2>1
  <2> QED  BY <1>1, <2>1, <2>2 DEF Members
<1>5. ASSUME NEW i \in 1..(Len(seq) - 1), NEW j \in 1..(Len(seq) - 1),
             Tail(seq)[i] = Tail(seq)[j]
      PROVE  i = j
  <2>1. seq[i + 1] = seq[j + 1]  BY <1>1, <1>5
  <2>2. i + 1 = j + 1  BY <1>1, <1>2, <2>1 DEF Once
  <2> QED  BY <2>2
<1>6. Head(seq) \in Members(seq)  BY <1>1, <1>2 DEF Members
<1>7. Once(Tail(seq))  BY <1>1, <1>5, Zenon DEF Once
<1> QED  BY <1>3, <1>4, <1>6, <1>7

LEMMA AppendEvent ==
    ASSUME NEW seq \in Seq(Event), NEW e \in Event
    PROVE  /\ MessagesOf(Append(seq, e)) = MessagesOf(seq) \cup {e.msg}
           /\ OnceIn(seq) /\ e.msg \notin MessagesOf(seq) => OnceIn(Append(seq, e))
<1>1. /\ DOMAIN seq = 1..Len(seq) /\ Len(seq) \in Nat
      /\ DOMAIN Append(seq, e) = 1..(Len(seq) + 1)
      /\ Append(seq, e)[Len(seq) + 1] = e
      /\ \A i \in 1..Len(seq) : Append(seq, e)[i] = seq[i]
  OBVIOUS
<1>2. \A i \in 1..(Len(seq) + 1) : i \in 1..Len(seq) \/ i = Len(seq) + 1
  BY <1>1
<1>3. Len(seq) + 1 \in 1..(Len(seq) + 1) /\ \A i \in 1..Len(seq) : i \in 1..(Len(seq) + 1)
  BY <1>1
<1>4. MessagesOf(Append(seq, e)) = MessagesOf(seq) \cup {e.msg}
  <2>1. ASSUME NEW x \in MessagesOf(Append(seq, e))
        PROVE  x \in MessagesOf(seq) \cup {e.msg}
    BY <1>1, <1>2, <2>1, Zenon DEF MessagesOf
  <2>2. ASSUME NEW x \in MessagesOf(seq) \cup {e.msg}
        PROVE  x \in MessagesOf(Append(seq, e))
    BY <1>1, <1>3, <2>2, Zenon DEF MessagesOf
  <2> QED  BY <2>1, <2>2
<1>5. ASSUME OnceIn(seq), e.msg \notin MessagesOf(seq), NEW i \in 1..(Len(seq) + 1),
             NEW j \in 1..(Len(seq) + 1), Append(seq, e)[i].msg = Append(seq, e)[j].msg
      PROVE  i = j
  <2>1. CASE i \in 1..Len(seq) /\ j \in 1..Len(seq)
    BY <1>1, <1>5, <2>1 DEF OnceIn
  <2>2. CASE i = Len(seq) + 1 /\ j \in 1..Len(seq)
    BY <1>1, <1>5, <2>2 DEF MessagesOf
  <2>3. CASE j = Len(seq) + 1 /\ i \in 1..Len(seq)
    BY <1>1, <1>5, <2>3 DEF MessagesOf
  <2> QED  BY <1>2, <2>1, <2>2, <2>3
<1> QED  BY <1>1, <1>4, <1>5 DEF OnceIn

LEMMA RemoveElements ==
    ASSUME NEW S, NEW seq \in Seq(S), NEW n \in DOMAIN seq
    PROVE  /\ DOMAIN RemoveAt(seq, n) = 1..(Len(seq) - 1)
           /\ \A i \in 1..(Len(seq) - 1) :
                 RemoveAt(seq, n)[i] = IF i < n THEN seq[i] ELSE seq[i + 1]
<1> DEFINE before == SubSeq(seq, 1, n - 1)
           after == SubSeq(seq, n + 1, Len(seq))
<1>1. n \in 1..Len(seq) /\ Len(seq) \in Nat  OBVIOUS
<1>2. before \in Seq(S) /\ Len(before) = n - 1 /\ \A i \in 1..(n - 1) : before[i] = seq[i]
  BY <1>1
<1>3. after \in Seq(S) /\ Len(after) = Len(seq) - n
      /\ \A i \in 1..(Len(seq) - n) : after[i] = seq[n + i]
  BY <1>1
<1>4. RemoveAt(seq, n) = before \o after  BY DEF RemoveAt
<1> HIDE DEF before, after
<1>5. before \o after \in Seq(S) /\ Len(before \o after) = Len(seq) - 1
  BY <1>1, <1>2, <1>3
<1>6. ASSUME NEW i \in 1..(Len(seq) - 1)
      PROVE  (before \o after)[i] = IF i < n THEN seq[i] ELSE seq[i + 1]
  <2>1. CASE i < n
    <3>1. (before \o after)[i] = before[i]  BY <1>1, <1>2, <1>3, <2>1
    <3>2. i \in 1..(n - 1)  BY <1>1, <2>1
    <3> QED  BY <2>1, <3>1, <3>2, <1>2
  <2>2. CASE i >= n
    <3>1. (before \o after)[i] = after[i - (n - 1)]  BY <1>1, <1>2, <1>3, <2>2
    <3>2. i - (n - 1) \in 1..(Len(seq) - n) /\ n + (i - (n - 1)) = i + 1
          /\ ~(i < n)
      BY <1>1, <2>2
    <3> QED  BY <3>1, <3>2, <1>3
  <2>3. i < n \/ i >= n  BY <1>1
  <2> QED  BY <2>1, <2>2, <2>3
<1>7. DOMAIN (before \o after) = 1..(Len(seq) - 1)  BY <1>5
<1> QED  BY <1>4, <1>6, <1>7

LEMMA RemoveEvent ==
    ASSUME NEW seq \in Seq(Event), NEW n \in DOMAIN seq, OnceIn(seq)
    PROVE  /\ MessagesOf(RemoveAt(seq, n)) = MessagesOf(seq) \ {seq[n].msg}
           /\ OnceIn(RemoveAt(seq, n))
<1> DEFINE rest == RemoveAt(seq, n)
           from(i) == IF i < n THEN i ELSE i + 1
<1>1. /\ DOMAIN rest = 1..(Len(seq) - 1)
      /\ \A i \in 1..(Len(seq) - 1) : rest[i] = IF i < n THEN seq[i] ELSE seq[i + 1]
  BY RemoveElements
<1>2. DOMAIN seq = 1..Len(seq) /\ Len(seq) \in Nat /\ n \in 1..Len(seq)
  OBVIOUS
<1> HIDE DEF rest
<1>3. \A i \in 1..(Len(seq) - 1) :
        rest[i] = seq[from(i)] /\ from(i) \in 1..Len(seq) /\ from(i) # n
  BY <1>1, <1>2
<1>4. \A i, j \in 1..(Len(seq) - 1) : from(i) = from(j) => i = j
  BY <1>2
<1>5. \A k \in 1..Len(seq) : k # n => \E i \in 1..(Len(seq) - 1) : k = from(i)
  <2> SUFFICES ASSUME NEW k \in 1..Len(seq), k # n
               PROVE  \E i \in 1..(Len(seq) - 1) : k = from(i)
    OBVIOUS
  <2>1. CASE k < n
    <3>1. k \in 1..(Len(seq) - 1) /\ k = from(k)  BY <1>2, <2>1
    <3> QED  BY <3>1
  <2>2. CASE k > n
    <3>1. k - 1 \in 1..(Len(seq) - 1) /\ k = from(k - 1)  BY <1>2, <2>2
    <3> QED  BY <3>1
  <2> QED  BY <1>2, <2>1, <2>2
<1> HIDE DEF from
<1>6. ASSUME NEW x \in MessagesOf(rest)  PROVE x \in MessagesOf(seq) \ {seq[n].msg}
  <2>1. PICK i \in 1..(Len(seq) - 1) : x = rest[i].msg  BY <1>1, <1>6 DEF MessagesOf
  <2>2. x = seq[from(i)].msg /\ from(i) \in 1..Len(seq) /\ from(i) # n  BY <1>3, <2>1
  <2> QED  BY <1>2, <2>2 DEF MessagesOf, OnceIn
<1>7. ASSUME NEW x \in MessagesOf(seq), x # seq[n].msg  PROVE x \in MessagesOf(rest)
  <2>1. PICK k \in 1..Len(seq) : x = seq[k].msg  BY <1>2, <1>7 DEF MessagesOf
  <2>2. PICK i \in 1..(Len(seq) - 1) : k = from(i)  BY <1>5, <1>7, <2>1
  <2> QED  BY <1>1, <1>3, <2>1, <2>2 DEF MessagesOf
<1>8. OnceIn(rest)
  <2> SUFFICES ASSUME NEW i \in 1..(Len(seq) - 1), NEW j \in 1..(Len(seq) - 1),
                      rest[i].msg = rest[j].msg
               PROVE  i = j
    BY <1>1, Zenon DEF OnceIn
  <2>1. seq[from(i)].msg = seq[from(j)].msg  BY <1>3
  <2>2. from(i) = from(j)  BY <1>2, <1>3, <2>1 DEF OnceIn
  <2> QED  BY <1>4, <2>2
<1>9. MessagesOf(rest) = MessagesOf(seq) \ {seq[n].msg}  BY <1>6, <1>7
<1> QED  BY <1>8, <1>9 DEF rest

LEMMA ConcatOnce ==
    ASSUME NEW S, NEW seq \in Seq(S), NEW t \in Seq(S)
    PROVE  /\ seq \o t \in Seq(S)
           /\ Members(seq \o t) = Members(seq) \cup Members(t)
           /\ Once(seq) /\ Once(t) /\ Members(seq) \cap Members(t) = {} => Once(seq \o t)
<1> DEFINE n == Len(seq)
           k == Len(t)
<1>1. /\ n \in Nat /\ k \in Nat /\ DOMAIN seq = 1..n /\ DOMAIN t = 1..k
      /\ seq \o t \in Seq(S) /\ DOMAIN (seq \o t) = 1..(n + k)
      /\ \A i \in 1..(n + k) : (seq \o t)[i] = IF i <= n THEN seq[i] ELSE t[i - n]
  BY ConcatProperties
<1> HIDE DEF n, k
<1>2. /\ \A i \in 1..(n + k) : i <= n => i \in 1..n
      /\ \A i \in 1..(n + k) : ~(i <= n) => i - n \in 1..k
      /\ \A i \in 1..n : i \in 1..(n + k) /\ i <= n
      /\ \A i \in 1..k : n + i \in 1..(n + k) /\ ~(n + i <= n) /\ n + i - n = i
      /\ \A i, j \in 1..(n + k) : i - n = j - n => i = j
  BY <1>1
<1>3. ASSUME NEW x \in Members(seq \o t)  PROVE x \in Members(seq) \cup Members(t)
  <2>1. PICK i \in 1..(n + k) : x = (seq \o t)[i]  BY <1>1, <1>3 DEF Members
  <2> QED  BY <1>1, <1>2, <2>1 DEF Members
<1>4. ASSUME NEW x \in Members(seq)  PROVE x \in Members(seq \o t)
  BY <1>1, <1>2, <1>4 DEF Members
<1>5. ASSUME NEW x \in Members(t)  PROVE x \in Members(seq \o t)
  <2>1. PICK i \in 1..k : x = t[i]  BY <1>1, <1>5 DEF Members
  <2>2. (seq \o t)[n + i] = t[i] /\ n + i \in 1..(n + k)  BY <1>1, <1>2
  <2> QED  BY <1>1, <2>1, <2>2 DEF Members
<1>6. ASSUME Once(seq), Once(t), Members(seq) \cap Members(t) = {},
             NEW i \in 1..(n + k), NEW j \in 1..(n + k), (seq \o t)[i] = (seq \o t)[j]
      PROVE  i = j
  <2>1. CASE i <= n /\ j <= n
    BY <1>1, <1>2, <1>6, <2>1 DEF Once
  <2>2. CASE ~(i <= n) /\ ~(j <= n)
    <3>1. t[i - n] = t[j - n]  BY <1>1, <1>6, <2>2
    <3>2. i - n = j - n  BY <1>1, <1>2, <1>6, <2>2, <3>1 DEF Once
    <3> QED  BY <1>2, <3>2
  <2>3. CASE i <= n /\ ~(j <= n)
    <3>1. seq[i] = t[j - n] /\ i \in DOMAIN seq /\ j - n \in DOMAIN t
      BY <1>1, <1>2, <1>6, <2>3
    <3> QED  BY <1>6, <3>1 DEF Members
  <2>4. CASE ~(i <= n) /\ j <= n
    <3>1. t[i - n] = seq[j] /\ j \in DOMAIN seq /\ i - n \in DOMAIN t
      BY <1>1, <1>2, <1>6, <2>4
    <3> QED  BY <1>6, <3>1 DEF Members
  <2> QED  BY <2>1, <2>2, <2>3, <2>4
<1>7. Members(seq \o t) = Members(seq) \cup Members(t)  BY <1>3, <1>4, <1>5
<1>8. Once(seq) /\ Once(t) /\ Members(seq) \cap Members(t) = {} => Once(seq \o t)
  BY <1>1, <1>6 DEF Once
<1> QED  BY <1>1, <1>7, <1>8

\* Processed, being processed or waiting: one of them, and all that arrived.
OnePlace ==
    /\ Once(processed) /\ OnceIn(scheduled) /\ Once(msgList)
    /\ Members(processed) \cap MessagesOf(scheduled) = {}
    /\ Members(processed) \cap Members(msgList) = {}
    /\ MessagesOf(scheduled) \cap Members(msgList) = {}
    /\ Members(processed) \cup MessagesOf(scheduled) \cup Members(msgList) = arrived

LEMMA OnePlaceInductive ==
    ASSUME TypeOK, OnePlace, [Next]_vars
    PROVE  OnePlace'
<1> USE DEF TypeOK
<1>1. ASSUME NEW m \in Messages  PROVE ServiceTime(m) \in Event /\ ServiceTime(m).msg = m
  BY ProcessingAssumption DEF ServiceTime, Event
<1>2. ASSUME NEW m \in Messages, SimulateProcessingTime(m)  PROVE OnePlace'
  <2>1. /\ m \notin arrived /\ arrived' = arrived \cup {m} /\ processed' = processed
    BY <1>2 DEF SimulateProcessingTime
  <2>2. m \notin Members(msgList) /\ m \notin MessagesOf(scheduled) /\ m \notin Members(processed)
    BY <2>1 DEF OnePlace
  <2>3. CASE msgList' = Append(msgList, m) /\ UNCHANGED <<busy, scheduled>>
    <3>1. Members(msgList') = Members(msgList) \cup {m} /\ Once(msgList')
      BY <2>2, <2>3, AppendOnce DEF OnePlace
    <3> QED  BY <2>1, <2>2, <2>3, <3>1 DEF OnePlace
  <2>4. CASE scheduled' = Append(scheduled, ServiceTime(m)) /\ UNCHANGED msgList
    <3>1. MessagesOf(scheduled') = MessagesOf(scheduled) \cup {m} /\ OnceIn(scheduled')
      BY <1>1, <2>2, <2>4, AppendEvent DEF OnePlace
    <3> QED  BY <2>1, <2>2, <2>4, <3>1 DEF OnePlace
  <2> QED  BY <1>2, <2>3, <2>4 DEF SimulateProcessingTime
<1>3. ASSUME NEW i \in Due, HandleServiceTime(i)  PROVE OnePlace'
  <2> DEFINE rest == RemoveAt(scheduled, i)
             m == scheduled[i].msg
  <2>1. i \in DOMAIN scheduled  BY DueType
  <2>2. rest \in Seq(Event)  BY <2>1, RemoveType
  <2>3. m \in Messages /\ m \in MessagesOf(scheduled)
    <3>1. scheduled[i] \in Event  BY <2>1
    <3> QED  BY <2>1, <3>1 DEF Event, MessagesOf
  <2>4. MessagesOf(rest) = MessagesOf(scheduled) \ {m} /\ OnceIn(rest)
    BY <2>1, RemoveEvent DEF OnePlace
  <2>5. processed' = Append(processed, m) /\ TriggerNextProcessingTime(rest) /\ arrived' = arrived
    BY <1>3 DEF HandleServiceTime
  <2> HIDE DEF rest, m
  <2>6. m \notin Members(processed)  BY <2>3 DEF OnePlace
  <2>7. Members(processed') = Members(processed) \cup {m} /\ Once(processed')
    BY <2>3, <2>5, <2>6, AppendOnce DEF OnePlace
  <2>8. CASE msgList = <<>>
    <3>1. scheduled' = rest /\ msgList' = msgList
      BY <2>5, <2>8 DEF TriggerNextProcessingTime
    <3> QED  BY <2>3, <2>4, <2>5, <2>7, <3>1 DEF OnePlace
  <2>9. CASE msgList # <<>>
    <3> DEFINE h == Head(msgList)
    <3>1. scheduled' = Append(rest, ServiceTime(h)) /\ msgList' = Tail(msgList)
      BY <2>5, <2>9 DEF TriggerNextProcessingTime
    <3>2. /\ Members(msgList') = Members(msgList) \ {h} /\ h \in Members(msgList)
          /\ Once(msgList')
      BY <2>9, <3>1, TailOnce DEF OnePlace
    <3>3. h \in Messages  BY <2>9, TailType
    <3> HIDE DEF h
    <3>4. h \notin MessagesOf(rest)  BY <2>4, <3>2 DEF OnePlace
    <3>5. MessagesOf(scheduled') = MessagesOf(rest) \cup {h} /\ OnceIn(scheduled')
      BY <1>1, <2>2, <2>4, <3>1, <3>3, <3>4, AppendEvent
    <3>6. /\ Members(processed') \cap MessagesOf(scheduled') = {}
          /\ Members(processed') \cap Members(msgList') = {}
          /\ MessagesOf(scheduled') \cap Members(msgList') = {}
          /\ Members(processed') \cup MessagesOf(scheduled') \cup Members(msgList') = arrived'
      BY <2>3, <2>4, <2>5, <2>7, <3>2, <3>5 DEF OnePlace
    <3> QED  BY <2>7, <3>2, <3>5, <3>6 DEF OnePlace
  <2> QED  BY <2>8, <2>9
<1>4. ASSUME TimePasses  PROVE OnePlace'
  <2>1. /\ DOMAIN scheduled' = DOMAIN scheduled
        /\ \A i \in DOMAIN scheduled : scheduled'[i].msg = scheduled[i].msg
    <3>1. \A i \in DOMAIN scheduled : scheduled[i] \in Event  OBVIOUS
    <3> QED  BY <1>4, <3>1 DEF TimePasses, Event
  <2>2. MessagesOf(scheduled)' = MessagesOf(scheduled) /\ (OnceIn(scheduled)' <=> OnceIn(scheduled))
    BY <2>1 DEF MessagesOf, OnceIn
  <2>3. processed' = processed /\ msgList' = msgList /\ arrived' = arrived
    BY <1>4 DEF TimePasses
  <2> QED  BY <2>2, <2>3 DEF OnePlace, Once, Members
<1>5. ASSUME HandleParameterChange \/ UNCHANGED vars  PROVE OnePlace'
  <2>1. UNCHANGED <<processed, scheduled, msgList, arrived>>
    BY <1>5 DEF HandleParameterChange, vars
  <2> QED  BY <2>1 DEF OnePlace
<1> QED  BY <1>2, <1>3, <1>4, <1>5 DEF Next, Terminated

LEMMA OnePlaceIsOnce == TypeOK /\ OnePlace => NothingLostOrTwice
<1> SUFFICES ASSUME TypeOK, OnePlace  PROVE NothingLostOrTwice
  OBVIOUS
<1>1. /\ InProcess \in Seq(Messages) /\ DOMAIN InProcess = DOMAIN scheduled
      /\ \A i \in DOMAIN scheduled : InProcess[i] = scheduled[i].msg
  BY InProcessType DEF InProcess
<1>2. Members(InProcess) = MessagesOf(scheduled) /\ Once(InProcess)
  <2>1. Members(InProcess) = MessagesOf(scheduled)  BY <1>1 DEF Members, MessagesOf
  <2>2. Once(InProcess)  BY <1>1 DEF Once, OnceIn, OnePlace
  <2> QED  BY <2>1, <2>2
<1>3. processed \in Seq(Messages) /\ msgList \in Seq(Messages)  BY DEF TypeOK
<1>4. /\ processed \o InProcess \in Seq(Messages)
      /\ Members(processed \o InProcess) = Members(processed) \cup MessagesOf(scheduled)
      /\ Once(processed \o InProcess)
  BY <1>1, <1>2, <1>3, ConcatOnce DEF OnePlace
<1>5. /\ Members(processed \o InProcess \o msgList) = arrived
      /\ Once(processed \o InProcess \o msgList)
  <2> DEFINE first == processed \o InProcess
  <2>1. /\ first \in Seq(Messages) /\ Once(first)
        /\ Members(first) = Members(processed) \cup MessagesOf(scheduled)
    BY <1>4
  <2> HIDE DEF first
  <2>2. Members(first) \cap Members(msgList) = {} /\ Once(msgList)
    BY <2>1 DEF OnePlace
  <2>3. /\ Members(first \o msgList) = Members(first) \cup Members(msgList)
        /\ Once(first \o msgList)
    BY <1>3, <2>1, <2>2, ConcatOnce
  <2> QED  BY <2>1, <2>3 DEF OnePlace, first
<1> QED  BY <1>5 DEF NothingLostOrTwice, Once, Members, IsInjective, Range

\* Whatever the parameters become on its way, a message that arrived is at one
\* place, once: no path of handleMessage drops it or schedules it again.
THEOREM NoMessageLostOrTwice == Spec => []NothingLostOrTwice
<1>1. Init => OnePlace
  BY DEF Init, OnePlace, Once, OnceIn, Members, MessagesOf
<1>2. TypeOK /\ OnePlace /\ [Next]_vars => OnePlace'  BY OnePlaceInductive
<1>3. TypeOK /\ OnePlace => NothingLostOrTwice  BY OnePlaceIsOnce
<1> QED  BY <1>1, <1>2, <1>3, TypeCorrect, PTL DEF Spec
=============================================================================
