--------------------------- MODULE ProcessingTime ---------------------------
(***************************************************************************)
(* ProcessingTimeSimulation: every message waits for the processing time   *)
(* before its module handles it; unless parallel processing is allowed,    *)
(* only one at a time does so and the others queue up.  Both parameters    *)
(* may change while messages are being processed.                          *)
(*                                                                         *)
(* Time is discrete.  A scheduled event counts down the time that is left  *)
(* until it is due; of two events due at the same time the simulation      *)
(* takes the one scheduled first.                                          *)
(***************************************************************************)
EXTENDS Naturals, Sequences, SequencesExt

CONSTANTS
    Messages,    \* messages, each arrives at most once
    Times,       \* values of the parameter processingTime
    MaxChanges   \* bound: parameter changes in one behaviour

ASSUME ProcessingAssumption == Times \subseteq Nat /\ MaxChanges \in Nat

VARIABLES
    processingTime,           \* _processingTime
    allowParallelProcessing,  \* _allowParallelProcessing
    busy,                     \* _busy
    msgList,                  \* _msgList, the messages that wait
    scheduled,                \* service time events in the order they were scheduled
    arrived,                  \* messages that arrived so far
    processed,                \* messages given to processScheduledMessage, in order
    changes                   \* parameter changes so far

parameters == <<processingTime, allowParallelProcessing, changes>>
vars == <<processingTime, allowParallelProcessing, busy, msgList, scheduled, arrived,
          processed, changes>>

Event == [msg : Messages, left : Nat]

\* Mutant: an event one unit too early, in the past when processing takes no time.
ServiceTime_Early(m) == [msg |-> m, left |-> processingTime - 1]

ServiceTime(m) == [msg |-> m, left |-> processingTime]

Init ==
    /\ processingTime \in Times
    /\ allowParallelProcessing \in BOOLEAN
    /\ busy = FALSE
    /\ msgList = <<>>
    /\ scheduled = <<>>
    /\ arrived = {}
    /\ processed = <<>>
    /\ changes = 0

\* Mutant: a message that is scheduled does not make the module busy.
SimulateProcessingTime_StaysIdle(m) ==
    /\ m \notin arrived
    /\ arrived' = arrived \cup {m}
    /\ IF busy /\ ~allowParallelProcessing
       THEN msgList' = Append(msgList, m) /\ UNCHANGED scheduled
       ELSE scheduled' = Append(scheduled, ServiceTime(m)) /\ UNCHANGED msgList
    /\ UNCHANGED <<busy, processed, parameters>>

SimulateProcessingTime(m) ==
    /\ m \notin arrived
    /\ arrived' = arrived \cup {m}
    /\ \/ /\ busy /\ ~allowParallelProcessing
          /\ msgList' = Append(msgList, m)
          /\ UNCHANGED <<busy, scheduled>>
       \/ /\ ~busy \/ allowParallelProcessing
          /\ busy' = TRUE
          /\ scheduled' = Append(scheduled, ServiceTime(m))
          /\ UNCHANGED msgList
    /\ UNCHANGED <<processed, parameters>>

\* Mutants: the next message stays in the list, is taken from its end, or is
\* not scheduled; an empty list leaves the module busy.
TriggerNextProcessingTime_Peek(rest) ==
    \/ msgList = <<>> /\ busy' = FALSE /\ scheduled' = rest /\ UNCHANGED msgList
    \/ /\ msgList # <<>>
       /\ scheduled' = Append(rest, ServiceTime(Head(msgList)))
       /\ UNCHANGED <<busy, msgList>>
TriggerNextProcessingTime_Back(rest) ==
    \/ msgList = <<>> /\ busy' = FALSE /\ scheduled' = rest /\ UNCHANGED msgList
    \/ /\ msgList # <<>>
       /\ scheduled' = Append(rest, ServiceTime(Last(msgList)))
       /\ msgList' = Front(msgList)
       /\ UNCHANGED busy
TriggerNextProcessingTime_Idle(rest) ==
    /\ busy' = FALSE
    /\ scheduled' = rest
    /\ UNCHANGED msgList
TriggerNextProcessingTime_Busy(rest) ==
    \/ msgList = <<>> /\ scheduled' = rest /\ UNCHANGED <<busy, msgList>>
    \/ /\ msgList # <<>>
       /\ scheduled' = Append(rest, ServiceTime(Head(msgList)))
       /\ msgList' = Tail(msgList)
       /\ UNCHANGED busy

\* With "rest" still scheduled, the oldest waiting message is scheduled, if any.
TriggerNextProcessingTime(rest) ==
    \/ /\ msgList = <<>>
       /\ busy' = FALSE
       /\ scheduled' = rest
       /\ UNCHANGED msgList
    \/ /\ msgList # <<>>
       /\ scheduled' = Append(rest, ServiceTime(Head(msgList)))
       /\ msgList' = Tail(msgList)
       /\ UNCHANGED busy

\* The event that happens next: due, and scheduled before the others that are.
Due == {i \in DOMAIN scheduled :
          scheduled[i].left = 0 /\ \A j \in 1..(i - 1) : scheduled[j].left # 0}

\* The service time of event i is over.
HandleServiceTime(i) ==
    /\ processed' = Append(processed, scheduled[i].msg)
    /\ TriggerNextProcessingTime(RemoveAt(scheduled, i))
    /\ UNCHANGED <<arrived, parameters>>

\* A unit of time passes: no event is due before.
TimePasses ==
    /\ scheduled # <<>>
    /\ \A i \in DOMAIN scheduled : scheduled[i].left > 0
    /\ scheduled' = [i \in DOMAIN scheduled |-> [scheduled[i] EXCEPT !.left = @ - 1]]
    /\ UNCHANGED <<busy, msgList, arrived, processed, parameters>>

\* What was scheduled keeps its time, what waits will get the new one.
HandleParameterChange ==
    /\ changes < MaxChanges
    /\ changes' = changes + 1
    /\ \E t \in Times, parallel \in BOOLEAN :
          /\ <<t, parallel>> # <<processingTime, allowParallelProcessing>>
          /\ processingTime' = t
          /\ allowParallelProcessing' = parallel
    /\ UNCHANGED <<busy, msgList, scheduled, arrived, processed>>

\* Nothing is left to process, and every message has arrived.
Terminated == arrived = Messages /\ scheduled = <<>> /\ UNCHANGED vars

Next ==
    \/ \E m \in Messages : SimulateProcessingTime(m)
    \/ \E i \in Due : HandleServiceTime(i)
    \/ TimePasses
    \/ HandleParameterChange
    \/ Terminated

Spec == Init /\ [][Next]_vars

\* Time goes on, and events that are due happen.
Fairness == WF_vars(TimePasses) /\ WF_vars(\E i \in Due : HandleServiceTime(i))

FairSpec == Spec /\ Fairness

-----------------------------------------------------------------------------
(* Properties.                                                             *)

InProcess == [i \in DOMAIN scheduled |-> scheduled[i].msg]

\* Every variable stays in its declared range.
TypeOK ==
    /\ processingTime \in Times
    /\ allowParallelProcessing \in BOOLEAN
    /\ busy \in BOOLEAN
    /\ msgList \in Seq(Messages)
    /\ scheduled \in Seq(Event)
    /\ arrived \subseteq Messages
    /\ processed \in Seq(Messages)
    /\ changes \in 0..MaxChanges

\* Every message that arrived is at one place, once: it is processed, or is
\* being processed, or waits, whatever the parameters were on its way.
NothingLostOrTwice ==
    LET all == processed \o InProcess \o msgList
    IN  IsInjective(all) /\ Range(all) = arrived

\* Only the end of another message's processing takes a message out of the
\* list, so a message never waits when nothing is being processed.
WaitingIsServed == msgList # <<>> => scheduled # <<>>

\* "Only allows the processing of one message at the time": as long as the
\* module does not allow more.
OneAtATime == changes = 0 /\ ~allowParallelProcessing => Len(scheduled) <= 1

\* Until the parameters change the first time, messages are processed in the
\* order of their arrival, one at a time and in parallel.
Ordered == INSTANCE OrderedProcessing WITH accepted <- InProcess \o msgList
KeepsOrder == Ordered!Init /\ [][changes = 0 => Ordered!Next]_Ordered!vars

\* Every message that arrived is processed, however the parameters change.
EventuallyProcessed == \A m \in Messages : m \in arrived ~> m \in Range(processed)
=============================================================================
