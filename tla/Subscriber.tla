----------------------------- MODULE Subscriber -----------------------------
(***************************************************************************)
(* Subscribers of message queues (operator/MessageQueueSubscriber.cc) on   *)
(* the queue of starters (job/JobStarter.cc).  Each header has a thread    *)
(* whose messages come to the GUI thread as queued signals.  A message     *)
(* writes its data and calls the function of its header; while a function  *)
(* of a subscriber waits or runs, the messages of such headers are kept.   *)
(* Here, as module Jobs leaves out, the return of a starter may submit the *)
(* next one, also in the midst of the cleanup after a failure.             *)
(***************************************************************************)
EXTENDS Integers, SequencesExt

CONSTANTS
  Header,       \* of all subscribers
  Calls,        \* the headers with a function (m_function)
  Other,        \* the other starters of the program
  NoJob,
  MaxMessages   \* bounds the messages, which are numbered as they arrive

ASSUME SubscriberAssumption ==
  /\ Calls \subseteq Header
  /\ MaxMessages \in Nat

Message == [header : Header, n : 1 .. MaxMessages]

\* The starter of a function is represented by the message that has started it.
Trigger == {m \in Message : m.header \in Calls}
Job == Trigger \cup Other

ASSUME NoJobAssumption == NoJob \notin Job /\ Trigger \cap Other = {}

VARIABLES
  arrived,          \* number of messages so far
  events,           \* queued signals receivedData
  s_triggerStarted,
  s_procSubsVec,    \* messages that are kept
  data,             \* the message the streams of a header hold; 0 is none
  shown,            \* the message the GUI shows
  refresh,          \* m_timerId # 0
  s_jobqueue,
  s_wait,
  timers,           \* number of started timers of starters
  running,          \* the starter whose function runs
  cleaning          \* in the loop of cleanup()

subscriberVars == <<s_triggerStarted, s_procSubsVec, data>>
starterVars == <<s_jobqueue, s_wait, timers, running, cleaning>>
vars == <<arrived, events, subscriberVars, shown, refresh, starterVars>>

\* The event loop has no slot or timer at work.
Free == ~cleaning

Arrive(h) ==
  /\ arrived < MaxMessages
  /\ arrived' = arrived + 1
  /\ events' = Append(events, [header |-> h, n |-> arrived'])
  /\ UNCHANGED <<subscriberVars, shown, refresh, starterVars>>

(*-------------------------------- starters -------------------------------*)

\* startJob of a function that is not of high priority
TimerAlways(w) == TRUE
NeedsTimer(w) == ~w

StartJob(j) ==
  /\ s_jobqueue' = Append(s_jobqueue, j)
  /\ s_wait' = TRUE
  /\ timers' = IF NeedsTimer(s_wait) THEN timers + 1 ELSE timers
  /\ UNCHANGED <<running, cleaning>>

\* A menu, a button, a timer function ...
StartOther(j) ==
  /\ Free
  /\ j # running /\ j \notin ToSet(s_jobqueue)
  /\ StartJob(j)
  /\ UNCHANGED <<arrived, events, subscriberVars, shown, refresh>>

\* tryAgain, called by a timer
TryAgain ==
  /\ Free /\ timers > 0
  /\ timers' = timers - 1
  /\ IF s_jobqueue = <<>>
     THEN s_wait' = FALSE /\ UNCHANGED <<s_jobqueue, running>>
     ELSE /\ running' = Head(s_jobqueue)
          /\ s_jobqueue' = Tail(s_jobqueue)
          /\ UNCHANGED s_wait
  /\ UNCHANGED <<arrived, events, subscriberVars, shown, refresh, cleaning>>

(*------------------------------- subscribers -----------------------------*)

Read(m) == data' = [data EXCEPT ![m.header] = m.n]

MustWaitNever(m) == FALSE
MustWait(m) == s_triggerStarted /\ m.header \in Calls

\* slot_receivedSubscriberData with processSubscribe
Deliver ==
  /\ Free /\ events # <<>>
  /\ events' = Tail(events)
  /\ LET m == Head(events) IN
     \/ /\ MustWait(m)
        /\ s_procSubsVec' = Append(s_procSubsVec, m)
        /\ UNCHANGED <<s_triggerStarted, data, refresh, starterVars>>
     \/ /\ ~MustWait(m) /\ m.header \in Calls
        /\ Read(m)
        /\ s_triggerStarted' = TRUE
        /\ StartJob(m)
        /\ UNCHANGED <<s_procSubsVec, refresh>>
     \/ /\ m.header \notin Calls
        /\ Read(m)
        /\ refresh' = TRUE
        /\ UNCHANGED <<s_triggerStarted, s_procSubsVec, starterVars>>
  /\ UNCHANGED <<arrived, shown>>

\* timerEvent, 100 ms later
Refresh ==
  /\ Free /\ refresh
  /\ refresh' = FALSE
  /\ shown' = data
  /\ UNCHANGED <<arrived, events, subscriberVars, starterVars>>

\* backFromJobStarter: that of a trigger lets the next message be processed.
TakenLast == Len(s_procSubsVec)
Taken == 1

Submits(j) == j \in Trigger /\ s_procSubsVec # <<>>

StartedStays(j) == Submits(j) \/ s_triggerStarted
StartedAfter(j) == Submits(j) \/ (s_triggerStarted /\ j \in Other)

BackFromJobStarter(j, queue) ==
  /\ s_triggerStarted' = StartedAfter(j)
  /\ IF Submits(j)
     THEN LET m == s_procSubsVec[Taken] IN
          /\ s_procSubsVec' = RemoveAt(s_procSubsVec, Taken)
          /\ Read(m)
          /\ s_jobqueue' = Append(queue, m)
     ELSE s_jobqueue' = queue /\ UNCHANGED <<s_procSubsVec, data>>
  /\ UNCHANGED <<arrived, events, shown, refresh>>

(*--------------------------- ends of functions ---------------------------*)

\* backFromJobController.  A job that is submitted by the return finds s_wait set.
EndOk ==
  /\ Free /\ running # NoJob
  /\ BackFromJobStarter(running, s_jobqueue)
  /\ timers' = timers + 1
  /\ running' = NoJob
  /\ UNCHANGED <<s_wait, cleaning>>

EndFailed ==
  /\ Free /\ running # NoJob
  /\ BackFromJobStarter(running, s_jobqueue)
  /\ s_wait' = FALSE
  /\ cleaning' = TRUE
  /\ running' = NoJob
  /\ UNCHANGED timers

\* cleanup: a job that is submitted in the loop starts the timer and is taken
\* by the same loop.
Cleanup ==
  /\ cleaning /\ s_jobqueue # <<>>
  /\ BackFromJobStarter(Head(s_jobqueue), Tail(s_jobqueue))
  /\ s_wait' = (s_wait \/ Submits(Head(s_jobqueue)))
  /\ timers' = IF Submits(Head(s_jobqueue)) /\ NeedsTimer(s_wait) THEN timers + 1 ELSE timers
  /\ UNCHANGED <<running, cleaning>>

CleanupDone ==
  /\ cleaning /\ s_jobqueue = <<>>
  /\ cleaning' = FALSE
  /\ UNCHANGED <<arrived, events, subscriberVars, shown, refresh,
                 s_jobqueue, s_wait, timers, running>>

(*----------------------------- specification -----------------------------*)

Init ==
  /\ arrived = 0 /\ events = <<>>
  /\ s_triggerStarted = FALSE /\ s_procSubsVec = <<>>
  /\ data = [h \in Header |-> 0] /\ shown = data /\ refresh = FALSE
  /\ s_jobqueue = <<>> /\ s_wait = FALSE /\ timers = 0
  /\ running = NoJob /\ cleaning = FALSE

Next ==
  \/ \E h \in Header : Arrive(h)
  \/ \E j \in Other : StartOther(j)
  \/ Deliver \/ Refresh \/ TryAgain
  \/ EndOk \/ EndFailed \/ Cleanup \/ CleanupDone

Spec == Init /\ [][Next]_vars

\* The event loop handles signals and timers when it is free again and again, a
\* function comes to its end, and the loop of cleanup goes on.
FairSpec ==
  /\ Spec
  /\ SF_vars(Deliver) /\ SF_vars(Refresh) /\ WF_vars(TryAgain)
  /\ WF_vars(EndOk \/ EndFailed)
  /\ WF_vars(Cleanup \/ CleanupDone)

(*------------------------------ properties -------------------------------*)

TypeOK ==
  /\ arrived \in 0 .. MaxMessages
  /\ events \in Seq(Message)
  /\ s_triggerStarted \in BOOLEAN
  /\ s_procSubsVec \in Seq(Trigger)
  /\ data \in [Header -> 0 .. MaxMessages] /\ shown \in [Header -> 0 .. MaxMessages]
  /\ refresh \in BOOLEAN
  /\ s_jobqueue \in Seq(Job)
  /\ s_wait \in BOOLEAN /\ timers \in {0, 1}
  /\ running \in Job \cup {NoJob}
  /\ cleaning \in BOOLEAN

Called(m) == running = m \/ \E i \in DOMAIN s_jobqueue : s_jobqueue[i] = m

\* A function that waits or runs finds the data of the message that has called
\* it: no later message of the header has written over them
\* (MessageQueueSubscriber.cc:158-160).
OwnData == \A m \in Trigger : Called(m) => data[m.header] = m.n

\* The functions of all subscribers are called one at a time in the order in
\* which the messages have arrived, and a message that is kept knows that the end
\* of a function will let it go on (MessageQueueSubscriber.cc:158-160, 228-237).
Rising(s) == \A i, k \in DOMAIN s : i < k => s[i].n < s[k].n
Ahead(n, s) == \A k \in DOMAIN s : n < s[k].n

OneAtATime ==
  /\ running \in Trigger => \A i \in DOMAIN s_jobqueue : s_jobqueue[i] \notin Trigger
  /\ \A i, k \in DOMAIN s_jobqueue :
       s_jobqueue[i] \in Trigger /\ s_jobqueue[k] \in Trigger => i = k

InOrder ==
  /\ OneAtATime
  /\ Rising(s_procSubsVec) /\ Rising(events)
  /\ \A i \in DOMAIN s_procSubsVec : Ahead(s_procSubsVec[i].n, events)
  /\ \A m \in Trigger : Called(m) => Ahead(m.n, s_procSubsVec) /\ Ahead(m.n, events)
  /\ s_procSubsVec # <<>> => \E m \in Trigger : Called(m)

\* The starters are a queue of jobs although the return of one submits the next:
\* none runs beside another one, a failure drops all that wait and those that
\* are submitted by dropping them, and the queue does not stop after that
\* (JobStarter.cc:353-373, 410-415).
Queue == INSTANCE JobQueue WITH
  waiting <- IF cleaning THEN <<>> ELSE s_jobqueue
ImplementsJobQueue == Queue!Spec

\* The same without the last part
ImplementsQueueSafely == Queue!SafeSpec

\* No message is forgotten, not even when the function it is to call is dropped:
\* its data are written, and without a function the GUI shows them
\* (MessageQueueSubscriber.cc:158-212, 218-222).  The manual says of a message:
\* "When a FUNCtion is defined, it is called." (config-opmessagequeue.tex:37-40)
\* A dropped function is not, which ImplementsJobQueue allows.
Queued(m) == \E i \in DOMAIN events : events[i] = m
Processed(m) == m.n <= IF m.header \in Calls THEN data[m.header] ELSE shown[m.header]
EveryMessageProcessed == \A m \in Message : Queued(m) ~> Processed(m)
=============================================================================
