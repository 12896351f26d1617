-------------------------- MODULE SubscriberProofs --------------------------
(***************************************************************************)
(* Theorems about Subscriber, for every set of headers and starters and    *)
(* every number of messages: the types and the one timer, the data and the *)
(* order of the functions, and that the queue of starters stays one when   *)
(* the return of a starter submits the next.                               *)
(***************************************************************************)
EXTENDS Subscriber, SequenceLemmas, TLAPS

(*------------------------- the inductive invariant ------------------------*)

\* s_wait is set exactly while a function runs or one timer will look at the queue.
Wakeups ==
  /\ running # NoJob => s_wait /\ timers = 0 /\ ~cleaning
  /\ running = NoJob => timers = IF s_wait THEN 1 ELSE 0
  /\ ~s_wait /\ ~cleaning => s_jobqueue = <<>>

\* What is known of the line of starters q behind the starter j
InLine(m, j, q) == j = m \/ \E i \in DOMAIN q : q[i] = m

Line(j, q) ==
  /\ j \in Trigger => \A i \in DOMAIN q : q[i] \notin Trigger
  /\ \A i, k \in DOMAIN q : q[i] \in Trigger /\ q[k] \in Trigger => i = k
  /\ \A m \in Trigger : InLine(m, j, q) =>
       /\ data[m.header] = m.n /\ m.n <= arrived
       /\ Ahead(m.n, s_procSubsVec) /\ Ahead(m.n, events)
  /\ s_triggerStarted <=> \E m \in Trigger : InLine(m, j, q)

\* What is known of the messages that wait
Kept ==
  /\ Rising(s_procSubsVec) /\ Rising(events)
  /\ \A i \in DOMAIN s_procSubsVec :
       s_procSubsVec[i].n <= arrived /\ Ahead(s_procSubsVec[i].n, events)
  /\ s_procSubsVec # <<>> => s_triggerStarted
  /\ \A i \in DOMAIN events : events[i].n <= arrived

SubscriberInv == TypeOK /\ Wakeups /\ Line(running, s_jobqueue) /\ Kept

(*--------------------------------- lemmas ---------------------------------*)

\* Messages, those that call a function, and the jobs of both kinds.
LEMMA MessageFacts ==
  /\ \A m \in Message : m.header \in Header /\ m.n \in 1 .. MaxMessages
  /\ \A m \in Trigger : m \in Message /\ m.header \in Calls /\ m \in Job /\ m # NoJob
  /\ \A m \in Message : m.header \in Calls => m \in Trigger
  /\ \A j \in Job : j \in Trigger \/ j \in Other
  /\ \A j \in Other : j \notin Trigger /\ j \in Job
BY NoJobAssumption DEF Message, Trigger, Job

\* A sequence with one more element.
LEMMA Appended ==
  ASSUME NEW S, NEW s \in Seq(S), NEW e \in S
  PROVE  /\ Append(s, e) \in Seq(S)
         /\ Len(s) \in Nat /\ DOMAIN s = 1 .. Len(s)
         /\ DOMAIN Append(s, e) = 1 .. Len(s) + 1
         /\ Append(s, e)[Len(s) + 1] = e
         /\ \A i \in DOMAIN s : Append(s, e)[i] = s[i]
OBVIOUS

\* A sequence without its first element.
LEMMA Shortened ==
  ASSUME NEW S, NEW s \in Seq(S), s # <<>>
  PROVE  /\ Tail(s) \in Seq(S) /\ Head(s) = s[1] /\ s[1] \in S /\ 1 \in DOMAIN s
         /\ \A i \in DOMAIN Tail(s) : i + 1 \in DOMAIN s /\ Tail(s)[i] = s[i + 1]
         /\ \A i \in DOMAIN s : i # 1 => i - 1 \in DOMAIN Tail(s) /\ Tail(s)[i - 1] = s[i]
         /\ DOMAIN Tail(s) \subseteq Nat /\ DOMAIN s \subseteq Nat \ {0}
<1>1. Len(s) \in Nat /\ Len(s) >= 1 /\ DOMAIN s = 1 .. Len(s) /\ s[1] \in S
  OBVIOUS
<1>2. DOMAIN Tail(s) = 1 .. Len(s) - 1
  BY TailOfSeq, <1>1
<1> QED
  BY TailOfSeq, <1>1, <1>2

\* An element of a sequence is its first one or behind it.
LEMMA HeadOrTail ==
  ASSUME NEW S, NEW s \in Seq(S), s # <<>>
  PROVE  \A m : (\E i \in DOMAIN s : s[i] = m) <=>
                (s[1] = m \/ \E i \in DOMAIN Tail(s) : Tail(s)[i] = m)
<1> TAKE m
<1>1. ASSUME NEW i \in DOMAIN s, s[i] = m, s[1] # m
      PROVE  \E k \in DOMAIN Tail(s) : Tail(s)[k] = m
  <2>1. i - 1 \in DOMAIN Tail(s) /\ Tail(s)[i - 1] = m
    BY <1>1, Shortened
  <2> QED
    BY <2>1
<1>2. ASSUME NEW k \in DOMAIN Tail(s), Tail(s)[k] = m
      PROVE  \E i \in DOMAIN s : s[i] = m
  <2>1. k + 1 \in DOMAIN s /\ s[k + 1] = m
    BY <1>2, Shortened
  <2> QED
    BY <2>1
<1> QED
  BY <1>1, <1>2, Shortened

\* To remove the first element is to take the tail.
LEMMA FirstRemoved ==
  ASSUME NEW S, NEW s \in Seq(S), s # <<>>
  PROVE  RemoveAt(s, 1) = Tail(s)
<1>1. RemoveAt(s, 1) = SubSeq(s, 1, 0) \o SubSeq(s, 2, Len(s))
  BY DEF RemoveAt
<1>2. SubSeq(s, 1, 0) = <<>>
  OBVIOUS
<1>3. SubSeq(s, 2, Len(s)) = Tail(s)
  OBVIOUS
<1> QED
  BY <1>1, <1>2, <1>3, TailOfSeq

\* Messages in order stay so with a younger one at the end.
LEMMA AppendOrdered ==
  ASSUME NEW S, NEW s \in Seq(S), NEW e \in S
  PROVE  /\ \A n : Ahead(n, s) /\ n < e.n => Ahead(n, Append(s, e))
         /\ Rising(s) /\ (\A i \in DOMAIN s : s[i].n < e.n) => Rising(Append(s, e))
<1>1. \A i \in DOMAIN Append(s, e) :
        \/ i \in DOMAIN s /\ Append(s, e)[i] = s[i]
        \/ i = Len(s) + 1 /\ Append(s, e)[i] = e
  BY Appended
<1>2. \A i, k \in DOMAIN Append(s, e) : i < k => i \in DOMAIN s
  BY Appended
<1>3. \A i \in DOMAIN s : i \in DOMAIN Append(s, e)
  BY Appended
<1> QED
  BY <1>1, <1>2, <1>3 DEF Ahead, Rising

\* Messages in order stay so without the first one.
LEMMA TailOrdered ==
  ASSUME NEW S, NEW s \in Seq(S), s # <<>>
  PROVE  /\ \A n : Ahead(n, s) => Ahead(n, Tail(s)) /\ n < s[1].n
         /\ Rising(s) => Rising(Tail(s)) /\ Ahead(s[1].n, Tail(s))
<1>1. \A n : Ahead(n, s) => Ahead(n, Tail(s)) /\ n < s[1].n
  BY Shortened DEF Ahead
<1>2. \A i \in DOMAIN Tail(s) : 1 < i + 1
  BY Shortened
<1>3. \A i, k \in DOMAIN Tail(s) : i < k => i + 1 < k + 1
  BY Shortened
<1> QED
  BY <1>1, <1>2, <1>3, Shortened DEF Ahead, Rising

\* At the start there are no messages.
LEMMA InitHolds == Init => SubscriberInv
<1> SUFFICES ASSUME Init PROVE SubscriberInv
  OBVIOUS
<1>1. TypeOK
  <2>1. /\ events \in Seq(Message) /\ s_procSubsVec \in Seq(Trigger)
        /\ s_jobqueue \in Seq(Job)
    BY DEF Init
  <2>2. arrived \in 0 .. MaxMessages /\ 0 \in 0 .. MaxMessages
    BY SubscriberAssumption DEF Init
  <2> QED
    BY <2>1, <2>2 DEF Init, TypeOK
<1>2. Wakeups /\ Kept
  BY DEF Init, Wakeups, Kept, Rising
<1>3. Line(running, s_jobqueue)
  BY MessageFacts DEF Init, Line, InLine
<1> QED
  BY <1>1, <1>2, <1>3 DEF SubscriberInv

\* A thread receives a message.
LEMMA ArriveKeepsInv == ASSUME SubscriberInv, NEW h \in Header, Arrive(h) PROVE SubscriberInv'
<1> USE DEF SubscriberInv
<1> DEFINE m == [header |-> h, n |-> arrived + 1]
<1>1. /\ arrived' \in 0 .. MaxMessages /\ arrived' = arrived + 1 /\ m \in Message
      /\ events' = Append(events, m)
  BY SubscriberAssumption DEF Arrive, TypeOK, Message
<1>2. UNCHANGED <<s_triggerStarted, s_procSubsVec, data, shown, refresh, s_jobqueue, s_wait,
                  timers, running, cleaning>>
  BY DEF Arrive, subscriberVars, starterVars
<1>3. /\ events' \in Seq(Message) /\ DOMAIN events' = 1 .. Len(events) + 1
      /\ DOMAIN events = 1 .. Len(events) /\ Len(events) \in Nat
      /\ events'[Len(events) + 1] = m /\ \A i \in DOMAIN events : events'[i] = events[i]
  BY <1>1, Appended DEF TypeOK
<1>4. /\ \A i \in DOMAIN events : events[i].n \in 1 .. MaxMessages /\ events[i].n <= arrived
      /\ \A i \in DOMAIN s_procSubsVec : s_procSubsVec[i].n \in Nat
      /\ \A t \in Trigger : t.n \in Nat
  BY MessageFacts DEF TypeOK, Kept
<1>5. TypeOK'
  BY <1>1, <1>2, <1>3 DEF TypeOK
<1>6. Wakeups'
  BY <1>2 DEF Wakeups
<1>7. m.n = arrived + 1 /\ arrived \in Nat
  BY DEF TypeOK
<1>8. Rising(events)' /\ \A i \in DOMAIN events' : events'[i].n <= arrived'
  <2>1. \A i \in DOMAIN events : events[i].n < m.n
    BY <1>4, <1>7
  <2>2. \A i \in DOMAIN events' : i \in DOMAIN events \/ i = Len(events) + 1
    BY <1>3
  <2> QED
    <3>1. Rising(events)'
      BY <1>1, <2>1, AppendOrdered DEF Kept, TypeOK
    <3>2. \A i \in DOMAIN events' : events'[i].n <= arrived'
      <4>1. \A i \in DOMAIN events : events'[i].n <= arrived'
        BY <1>1, <1>3, <1>4, <1>7
      <4> QED
        BY <1>1, <1>3, <1>7, <2>2, <4>1
    <3> QED
      BY <3>1, <3>2
<1>9. \A n \in Nat : n <= arrived /\ Ahead(n, events) => Ahead(n, events')
  <2>1. \A n \in Nat : n <= arrived => n < m.n
    BY <1>7
  <2> QED
    BY <1>1, <2>1, AppendOrdered DEF TypeOK
<1>10. \A n \in Nat : n <= arrived => n <= arrived'
  BY <1>1, <1>7
<1>11. Kept'
  BY <1>2, <1>4, <1>8, <1>9, <1>10 DEF Kept
<1>12. Line(running, s_jobqueue)'
  BY <1>2, <1>4, <1>9, <1>10 DEF Line, InLine
<1> QED
  BY <1>5, <1>6, <1>11, <1>12

\* A job is submitted; only a message whose function is called is a trigger.
LEMMA StartKeepsTypes ==
  ASSUME SubscriberInv, NEW j \in Job, StartJob(j), Free
  PROVE  /\ s_jobqueue' \in Seq(Job) /\ s_wait' /\ timers' \in {0, 1}
         /\ (s_wait \in BOOLEAN)' /\ Wakeups'
<1> USE DEF SubscriberInv
<1>1. s_jobqueue' \in Seq(Job)
  BY Appended DEF StartJob, TypeOK
<1>2. s_wait' = TRUE /\ running' = running /\ cleaning' = cleaning
      /\ timers' = IF running = NoJob THEN 1 ELSE 0
  BY DEF StartJob, NeedsTimer, Wakeups, TypeOK, Free
<1> QED
  BY <1>1, <1>2 DEF Wakeups, Free

\* The user submits a job of his own.
LEMMA StartOtherKeepsInv ==
  ASSUME SubscriberInv, NEW j \in Other, StartOther(j) PROVE SubscriberInv'
<1> USE DEF SubscriberInv
<1>1. j \in Job /\ j \notin Trigger /\ Free /\ StartJob(j)
  BY MessageFacts DEF StartOther
<1>2. UNCHANGED <<arrived, events, s_triggerStarted, s_procSubsVec, data, shown, refresh,
                  running, cleaning>> /\ s_jobqueue' = Append(s_jobqueue, j)
  BY DEF StartOther, StartJob, subscriberVars
<1>3. TypeOK' /\ Wakeups'
  BY <1>1, <1>2, StartKeepsTypes DEF TypeOK
<1>4. Kept'
  BY <1>2 DEF Kept
<1>5. \A i \in DOMAIN s_jobqueue' : s_jobqueue'[i] \in Trigger =>
        i \in DOMAIN s_jobqueue /\ s_jobqueue'[i] = s_jobqueue[i]
  <2>1. \A i \in DOMAIN s_jobqueue' : i \in DOMAIN s_jobqueue \/ i = Len(s_jobqueue) + 1
    BY <1>1, <1>2, Appended DEF TypeOK
  <2> QED
    BY <1>1, <1>2, <2>1, Appended DEF TypeOK
<1>6. \A i \in DOMAIN s_jobqueue : i \in DOMAIN s_jobqueue' /\ s_jobqueue'[i] = s_jobqueue[i]
  BY <1>1, <1>2, Appended DEF TypeOK
<1>7. \A m \in Trigger : InLine(m, running', s_jobqueue') <=> InLine(m, running, s_jobqueue)
  BY <1>2, <1>5, <1>6 DEF InLine
<1>8. Line(running, s_jobqueue)'
  BY <1>2, <1>5, <1>7 DEF Line
<1> QED
  BY <1>3, <1>4, <1>8

\* The timer of a starter takes the next job from the queue.
LEMMA TryAgainKeepsInv == ASSUME SubscriberInv, TryAgain PROVE SubscriberInv'
<1> USE DEF SubscriberInv
<1>0. running = NoJob /\ s_wait /\ timers = 1 /\ ~cleaning /\ timers' = 0
      /\ UNCHANGED <<arrived, events, s_triggerStarted, s_procSubsVec, data, shown, refresh,
                     cleaning>>
  BY DEF TryAgain, Free, Wakeups, TypeOK, subscriberVars
<1>1. Kept'
  BY <1>0 DEF Kept
<1>2. CASE s_jobqueue = <<>>
  <2>1. s_wait' = FALSE /\ UNCHANGED <<s_jobqueue, running>>
    BY <1>2 DEF TryAgain
  <2> QED
    BY <1>0, <1>1, <1>2, <2>1 DEF TypeOK, Wakeups, Line, InLine
<1>3. CASE s_jobqueue # <<>>
  <2>1. running' = Head(s_jobqueue) /\ s_jobqueue' = Tail(s_jobqueue) /\ s_wait' = s_wait
    BY <1>3 DEF TryAgain
  <2>2. running' \in Job /\ s_jobqueue' \in Seq(Job)
    BY <1>3, <2>1, Shortened DEF TypeOK
  <2>3. TypeOK' /\ Wakeups'
    BY <1>0, <2>1, <2>2, NoJobAssumption DEF TypeOK, Wakeups
  <2>4. Line(running, s_jobqueue)'
    <3>1. NoJob \notin Trigger
      BY MessageFacts
    <3>2. \A m \in Trigger : InLine(m, running', s_jobqueue') <=> InLine(m, running, s_jobqueue)
      <4>1. \A m \in Trigger : InLine(m, running, s_jobqueue) <=>
              \E i \in DOMAIN s_jobqueue : s_jobqueue[i] = m
        BY <1>0, <3>1 DEF InLine
      <4>2. \A m \in Trigger : InLine(m, running', s_jobqueue') <=>
              (s_jobqueue[1] = m \/ \E i \in DOMAIN Tail(s_jobqueue) : Tail(s_jobqueue)[i] = m)
        BY <1>3, <2>1, Shortened DEF InLine, TypeOK
      <4> QED
        <5>1. \A m : (\E i \in DOMAIN s_jobqueue : s_jobqueue[i] = m) <=>
                (s_jobqueue[1] = m \/ \E i \in DOMAIN Tail(s_jobqueue) : Tail(s_jobqueue)[i] = m)
          BY <1>3, HeadOrTail DEF TypeOK
        <5> QED
          BY <4>1, <4>2, <5>1
    <3>3. running' \in Trigger => \A i \in DOMAIN s_jobqueue' : s_jobqueue'[i] \notin Trigger
      <4>1. \A i \in DOMAIN s_jobqueue' : i + 1 # 1
        BY <1>3, <2>1, Shortened DEF TypeOK
      <4> QED
        BY <1>3, <2>1, <4>1, Shortened DEF TypeOK, Line
    <3>4. \A i, k \in DOMAIN s_jobqueue' :
            s_jobqueue'[i] \in Trigger /\ s_jobqueue'[k] \in Trigger => i = k
      <4>1. \A i, k \in DOMAIN s_jobqueue' : i + 1 = k + 1 => i = k
        BY <1>3, <2>1, Shortened DEF TypeOK
      <4> QED
        BY <1>3, <2>1, <4>1, Shortened DEF TypeOK, Line
    <3> QED
      BY <1>0, <3>2, <3>3, <3>4 DEF Line
  <2> QED
    BY <1>1, <2>3, <2>4
<1> QED
  BY <1>2, <1>3

\* slot_receivedSubscriberData takes the first signal.
LEMMA FirstSignal ==
  ASSUME SubscriberInv, Deliver
  PROVE  /\ Head(events) \in Message /\ events' \in Seq(Message) /\ Rising(events)'
         /\ Ahead(Head(events).n, events') /\ Head(events).n <= arrived
         /\ \A n : Ahead(n, events) => Ahead(n, events') /\ n < Head(events).n
         /\ \A i \in DOMAIN events' : events'[i].n <= arrived
         /\ UNCHANGED <<arrived, shown>> /\ Free
<1> USE DEF SubscriberInv
<1>1. events \in Seq(Message) /\ events # <<>> /\ events' = Tail(events)
      /\ UNCHANGED <<arrived, shown>> /\ Free
  BY DEF Deliver, TypeOK
<1>2. /\ Head(events) = events[1] /\ events[1] \in Message /\ events' \in Seq(Message)
      /\ 1 \in DOMAIN events
      /\ \A i \in DOMAIN events' : i + 1 \in DOMAIN events /\ events'[i] = events[i + 1]
  BY <1>1, Shortened
<1> QED
  BY <1>1, <1>2, TailOrdered DEF Kept

\* The GUI thread handles the signal of a message.
LEMMA DeliverKeepsInv == ASSUME SubscriberInv, Deliver PROVE SubscriberInv'
<1> USE DEF SubscriberInv
<1> DEFINE m == Head(events)
<1>0. /\ m \in Message /\ m.n \in 1 .. MaxMessages /\ m.header \in Header
      /\ m.header \in Calls => m \in Trigger
  BY FirstSignal, MessageFacts
<1>1. CASE MustWait(m)
  <2>1. /\ s_procSubsVec' = Append(s_procSubsVec, m) /\ s_triggerStarted /\ m \in Trigger
        /\ UNCHANGED <<s_triggerStarted, data, refresh, s_jobqueue, s_wait, timers, running,
                       cleaning>>
    BY <1>0, <1>1 DEF Deliver, MustWait, starterVars
  <2>2. TypeOK' /\ Wakeups'
    <3>1. s_procSubsVec' \in Seq(Trigger)
      BY <2>1, Appended DEF TypeOK
    <3> QED
      BY <2>1, <3>1, FirstSignal DEF TypeOK, Wakeups
  <2>3. Kept'
    <3>1. \A i \in DOMAIN s_procSubsVec : s_procSubsVec[i].n < m.n
      BY FirstSignal DEF Kept
    <3>2. Rising(s_procSubsVec)'
      BY <2>1, <3>1, AppendOrdered DEF Kept, TypeOK
    <3>3. \A i \in DOMAIN s_procSubsVec' :
            \/ s_procSubsVec'[i] = m
            \/ i \in DOMAIN s_procSubsVec /\ s_procSubsVec'[i] = s_procSubsVec[i]
      <4>1. \A i \in DOMAIN s_procSubsVec' :
              i \in DOMAIN s_procSubsVec \/ i = Len(s_procSubsVec) + 1
        BY <2>1, Appended DEF TypeOK
      <4> QED
        <5>1. s_procSubsVec'[Len(s_procSubsVec) + 1] = m
          BY <2>1, Appended DEF TypeOK
        <5>2. \A i \in DOMAIN s_procSubsVec : s_procSubsVec'[i] = s_procSubsVec[i]
          BY <2>1, Appended DEF TypeOK
        <5> QED
          BY <4>1, <5>1, <5>2
    <3>4. \A i \in DOMAIN s_procSubsVec' :
            s_procSubsVec'[i].n <= arrived' /\ Ahead(s_procSubsVec'[i].n, events')
      BY <3>3, FirstSignal DEF Kept
    <3> QED
      BY <2>1, <3>2, <3>4, FirstSignal DEF Kept
  <2>4. Line(running, s_jobqueue)'
    <3>1. \A n : Ahead(n, s_procSubsVec) /\ Ahead(n, events) =>
            Ahead(n, s_procSubsVec') /\ Ahead(n, events')
      BY <2>1, AppendOrdered, FirstSignal DEF TypeOK
    <3> QED
      BY <2>1, <3>1, FirstSignal DEF Line, InLine
  <2> QED
    BY <2>2, <2>3, <2>4
<1>2. CASE ~MustWait(m) /\ m.header \in Calls
  <2>1. /\ ~s_triggerStarted /\ s_triggerStarted' = TRUE /\ m \in Trigger /\ m \in Job
        /\ s_procSubsVec = <<>> /\ UNCHANGED <<s_procSubsVec, refresh>>
        /\ data' = [data EXCEPT ![m.header] = m.n]
        /\ StartJob(m) /\ UNCHANGED <<running, cleaning>>
        /\ s_jobqueue' = Append(s_jobqueue, m)
    BY <1>0, <1>2, MessageFacts DEF Deliver, MustWait, Read, StartJob, Kept
  <2>2. TypeOK' /\ Wakeups'
    <3>1. data' \in [Header -> 0 .. MaxMessages]
      BY <1>0, <2>1 DEF TypeOK
    <3> QED
      BY <2>1, <3>1, FirstSignal, StartKeepsTypes DEF TypeOK
  <2>3. Kept'
    BY <2>1, FirstSignal DEF Kept
  <2>4. \A j \in Trigger : ~InLine(j, running, s_jobqueue)
    BY <2>1 DEF Line
  <2>5. \A i \in DOMAIN s_jobqueue' : s_jobqueue'[i] \in Trigger =>
          i = Len(s_jobqueue) + 1 /\ s_jobqueue'[i] = m
    <3>1. \A i \in DOMAIN s_jobqueue' : i \in DOMAIN s_jobqueue \/ i = Len(s_jobqueue) + 1
      BY <2>1, Appended DEF TypeOK
    <3> QED
      BY <2>1, <2>4, <3>1, Appended DEF TypeOK, InLine
  <2>6. \A j \in Trigger : InLine(j, running, s_jobqueue)' <=> j = m
    <3>1. Len(s_jobqueue) + 1 \in DOMAIN s_jobqueue' /\ s_jobqueue'[Len(s_jobqueue) + 1] = m
      BY <2>1, Appended DEF TypeOK
    <3> QED
      BY <2>1, <2>4, <2>5, <3>1 DEF InLine
  <2>7. data'[m.header] = m.n
    BY <1>0, <2>1 DEF TypeOK
  <2>8. Line(running, s_jobqueue)'
    BY <2>1, <2>4, <2>5, <2>6, <2>7, FirstSignal DEF Line, InLine, Ahead
  <2> QED
    BY <2>2, <2>3, <2>8
<1>3. CASE m.header \notin Calls
  <2>1. /\ data' = [data EXCEPT ![m.header] = m.n] /\ refresh' = TRUE
        /\ UNCHANGED <<s_triggerStarted, s_procSubsVec, s_jobqueue, s_wait, timers, running,
                       cleaning>>
    BY <1>3 DEF Deliver, MustWait, Read, starterVars
  <2>2. TypeOK' /\ Wakeups'
    <3>1. data' \in [Header -> 0 .. MaxMessages]
      BY <1>0, <2>1 DEF TypeOK
    <3> QED
      BY <2>1, <3>1, FirstSignal DEF TypeOK, Wakeups
  <2>3. Kept'
    BY <2>1, FirstSignal DEF Kept
  <2>4. \A j \in Trigger : data'[j.header] = data[j.header]
    BY <1>3, <2>1, MessageFacts DEF TypeOK
  <2>5. Line(running, s_jobqueue)'
    BY <2>1, <2>4, FirstSignal DEF Line, InLine
  <2> QED
    BY <2>2, <2>3, <2>5
<1> QED
  BY <1>1, <1>2, <1>3

\* The return of the starter j, behind which the line is q: the line that is
\* left has at most the trigger of the next message.
LEMMA BackKeepsLine ==
  ASSUME SubscriberInv, NEW j \in Job, NEW q \in Seq(Job), Line(j, q),
         BackFromJobStarter(j, q), running' = NoJob
  PROVE  Line(running, s_jobqueue)' /\ Kept' /\ s_jobqueue' \in Seq(Job)
         /\ s_procSubsVec' \in Seq(Trigger) /\ data' \in [Header -> 0 .. MaxMessages]
         /\ s_triggerStarted' \in BOOLEAN
         /\ UNCHANGED <<arrived, events, shown, refresh>>
         /\ (s_jobqueue' = q \/ (Submits(j) /\ s_jobqueue' = Append(q, s_procSubsVec[1])
                                /\ s_procSubsVec[1] \in Trigger))
<1> USE DEF SubscriberInv
<1> DEFINE m == s_procSubsVec[1]
<1>0. UNCHANGED <<arrived, events, shown, refresh>> /\ s_triggerStarted' = StartedAfter(j)
      /\ s_triggerStarted' \in BOOLEAN
  BY DEF BackFromJobStarter, StartedAfter, Submits, TypeOK
<1>1. CASE Submits(j)
  <2>1. /\ s_procSubsVec # <<>> /\ j \in Trigger /\ s_triggerStarted' = TRUE
        /\ s_procSubsVec' = Tail(s_procSubsVec)
        /\ data' = [data EXCEPT ![m.header] = m.n]
        /\ s_jobqueue' = Append(q, m)
    BY <1>0, <1>1, FirstRemoved DEF BackFromJobStarter, Submits, StartedAfter, Taken, Read, TypeOK
  <2>2. m \in Trigger /\ s_procSubsVec' \in Seq(Trigger) /\ 1 \in DOMAIN s_procSubsVec
        /\ \A i \in DOMAIN s_procSubsVec' : i + 1 \in DOMAIN s_procSubsVec
                                           /\ s_procSubsVec'[i] = s_procSubsVec[i + 1]
    BY <2>1, Shortened DEF TypeOK
  <2>3. m \in Job /\ m.header \in Header /\ m.n \in 1 .. MaxMessages
    BY <2>2, MessageFacts
  <2>4. s_jobqueue' \in Seq(Job) /\ data' \in [Header -> 0 .. MaxMessages]
        /\ data'[m.header] = m.n
    BY <2>1, <2>3, Appended DEF TypeOK
  <2>5. Rising(s_procSubsVec)' /\ Ahead(m.n, s_procSubsVec')
    BY <2>1, TailOrdered DEF Kept, TypeOK
  <2>6. Kept'
    BY <1>0, <2>1, <2>2, <2>5 DEF Kept
  <2>7. \A i \in DOMAIN q : q[i] \notin Trigger
    BY <2>1 DEF Line
  <2>8. \A i \in DOMAIN s_jobqueue' : s_jobqueue'[i] \in Trigger =>
          i = Len(q) + 1 /\ s_jobqueue'[i] = m
    <3>1. \A i \in DOMAIN s_jobqueue' : i \in DOMAIN q \/ i = Len(q) + 1
      BY <2>1, <2>3, Appended
    <3> QED
      BY <2>1, <2>3, <2>7, <3>1, Appended
  <2>9. Len(q) + 1 \in DOMAIN s_jobqueue' /\ s_jobqueue'[Len(q) + 1] = m
    BY <2>1, <2>3, Appended
  <2>10. \A t \in Trigger : InLine(t, running', s_jobqueue') <=> t = m
    BY <2>8, <2>9, MessageFacts DEF InLine
  <2>11. Line(running, s_jobqueue)'
    <3>1. m.n <= arrived /\ Ahead(m.n, events)
      BY <2>2 DEF Kept
    <3>2. running' \notin Trigger
      BY MessageFacts
    <3> QED
      BY <1>0, <2>1, <2>2, <2>4, <2>5, <2>8, <2>10, <3>1, <3>2 DEF Line, InLine
  <2> QED
    BY <1>0, <1>1, <2>1, <2>2, <2>4, <2>6, <2>11
<1>2. CASE ~Submits(j)
  <2>1. s_jobqueue' = q /\ UNCHANGED <<s_procSubsVec, data>>
        /\ s_triggerStarted' = (s_triggerStarted /\ j \in Other)
    BY <1>0, <1>2 DEF BackFromJobStarter, StartedAfter
  <2>2. Kept'
    BY <1>0, <1>2, <2>1, MessageFacts DEF Kept, Submits
  <2>3. \A t \in Trigger : InLine(t, running', s_jobqueue') <=> (t # j /\ InLine(t, j, q))
    BY <2>1, MessageFacts DEF InLine, Line
  <2>4. s_triggerStarted' <=> \E t \in Trigger : InLine(t, running', s_jobqueue')
    <3>1. CASE j \in Trigger
      <4>1. s_triggerStarted' = FALSE
        BY <2>1, <3>1, MessageFacts
      <4>2. \A t \in Trigger : t # j => ~InLine(t, j, q)
        BY <3>1 DEF InLine, Line
      <4> QED
        BY <2>3, <4>1, <4>2
    <3>2. CASE j \in Other
      BY <2>1, <2>3, <3>2, MessageFacts DEF Line
    <3> QED
      BY <3>1, <3>2, MessageFacts
  <2>5. Line(running, s_jobqueue)'
    <3>1. running' \notin Trigger
      BY MessageFacts
    <3> QED
      BY <1>0, <2>1, <2>3, <2>4, <3>1 DEF Line, InLine
  <2> QED
    BY <1>0, <2>1, <2>2, <2>5 DEF TypeOK
<1> QED
  BY <1>1, <1>2

\* The running function ends, well or not.
LEMMA EndKeepsInv == ASSUME SubscriberInv, EndOk \/ EndFailed PROVE SubscriberInv'
<1> USE DEF SubscriberInv
<1>1. running \in Job /\ running' = NoJob /\ BackFromJobStarter(running, s_jobqueue)
      /\ timers = 0 /\ s_wait = TRUE /\ cleaning = FALSE
  BY DEF EndOk, EndFailed, TypeOK, Wakeups, Free
<1>2. Line(running, s_jobqueue)' /\ Kept' /\ s_jobqueue' \in Seq(Job)
      /\ s_procSubsVec' \in Seq(Trigger) /\ data' \in [Header -> 0 .. MaxMessages]
      /\ s_triggerStarted' \in BOOLEAN
      /\ UNCHANGED <<arrived, events, shown, refresh>>
  BY <1>1, BackKeepsLine DEF TypeOK
<1>3. \/ timers' = 1 /\ s_wait' = TRUE /\ cleaning' = FALSE
      \/ timers' = 0 /\ s_wait' = FALSE /\ cleaning' = TRUE
  <2>1. CASE EndOk
    BY <1>1, <2>1 DEF EndOk
  <2>2. CASE EndFailed
    BY <1>1, <2>2 DEF EndFailed
  <2> QED
    BY <2>1, <2>2
<1>4. TypeOK' /\ Wakeups'
  BY <1>1, <1>2, <1>3 DEF TypeOK, Wakeups
<1> QED
  BY <1>2, <1>4

\* The cleanup drops the first job of the queue.
LEMMA CleanupKeepsInv == ASSUME SubscriberInv, Cleanup PROVE SubscriberInv'
<1> USE DEF SubscriberInv
<1> DEFINE j == Head(s_jobqueue)
           q == Tail(s_jobqueue)
<1>1. running = NoJob /\ running' = NoJob /\ cleaning /\ cleaning' = cleaning
      /\ s_jobqueue # <<>> /\ BackFromJobStarter(j, q)
      /\ s_wait' = (s_wait \/ Submits(j))
      /\ timers' = IF Submits(j) /\ ~s_wait THEN timers + 1 ELSE timers
  BY DEF Cleanup, Wakeups, NeedsTimer
<1>2. /\ j \in Job /\ q \in Seq(Job) /\ j = s_jobqueue[1] /\ 1 \in DOMAIN s_jobqueue
      /\ \A i \in DOMAIN q : i + 1 \in DOMAIN s_jobqueue /\ q[i] = s_jobqueue[i + 1]
                           /\ i + 1 # 1
      /\ \A i, k \in DOMAIN q : i + 1 = k + 1 => i = k
  BY <1>1, Shortened DEF TypeOK
<1>3. Line(j, q)
  <2>1. \A m \in Trigger : InLine(m, j, q) <=> InLine(m, running, s_jobqueue)
    <3>1. \A m : (\E i \in DOMAIN s_jobqueue : s_jobqueue[i] = m) <=>
            (j = m \/ \E i \in DOMAIN q : q[i] = m)
      <4>1. \A m : (\E i \in DOMAIN s_jobqueue : s_jobqueue[i] = m) <=>
              (s_jobqueue[1] = m \/ \E i \in DOMAIN q : q[i] = m)
        BY <1>1, HeadOrTail DEF TypeOK
      <4> QED
        BY <1>2, <4>1
    <3> QED
      BY <1>1, <3>1, MessageFacts DEF InLine
  <2>2. j \in Trigger => \A i \in DOMAIN q : q[i] \notin Trigger
    BY <1>2 DEF Line
  <2>3. \A i, k \in DOMAIN q : q[i] \in Trigger /\ q[k] \in Trigger => i = k
    BY <1>2 DEF Line
  <2> QED
    BY <2>1, <2>2, <2>3 DEF Line
<1>4. Line(running, s_jobqueue)' /\ Kept' /\ s_jobqueue' \in Seq(Job)
      /\ s_procSubsVec' \in Seq(Trigger) /\ data' \in [Header -> 0 .. MaxMessages]
      /\ s_triggerStarted' \in BOOLEAN
      /\ UNCHANGED <<arrived, events, shown, refresh>>
  BY <1>1, <1>2, <1>3, BackKeepsLine
<1>5. s_wait' \in BOOLEAN /\ timers' = IF s_wait' THEN 1 ELSE 0
  <2>1. timers = IF s_wait THEN 1 ELSE 0
    BY <1>1 DEF Wakeups
  <2>2. CASE s_wait
    BY <1>1, <2>1, <2>2
  <2>3. CASE ~s_wait /\ Submits(j)
    <3>1. Submits(j) = TRUE /\ s_wait' = TRUE /\ timers' = timers + 1
      BY <1>1, <2>3 DEF Submits
    <3> QED
      BY <2>1, <2>3, <3>1
  <2>4. CASE ~s_wait /\ ~Submits(j)
    BY <1>1, <2>1, <2>4
  <2> QED
    BY <2>2, <2>3, <2>4
<1>6. TypeOK' /\ Wakeups'
  BY <1>1, <1>4, <1>5 DEF TypeOK, Wakeups
<1> QED
  BY <1>4, <1>6

\* Every step of Subscriber keeps the invariant.
LEMMA NextKeepsInv == SubscriberInv /\ [Next]_vars => SubscriberInv'
<1> SUFFICES ASSUME SubscriberInv, [Next]_vars PROVE SubscriberInv'
  OBVIOUS
<1>1. CASE Refresh \/ CleanupDone \/ UNCHANGED vars
  <2>1. UNCHANGED <<arrived, events, s_triggerStarted, s_procSubsVec, data, s_jobqueue, s_wait,
                    timers, running>>
        /\ (shown' = shown \/ shown' = data) /\ (refresh' = refresh \/ refresh' = FALSE)
        /\ (cleaning' = cleaning \/ (s_jobqueue = <<>> /\ cleaning /\ cleaning' = FALSE))
    BY <1>1 DEF Refresh, CleanupDone, vars, subscriberVars, starterVars
  <2> QED
    <3>1. TypeOK'
      BY <2>1 DEF SubscriberInv, TypeOK
    <3>2. (Line(running, s_jobqueue) /\ Kept)'
      BY <2>1 DEF SubscriberInv, Line, InLine, Kept
    <3>3. Wakeups'
      BY <2>1 DEF SubscriberInv, Wakeups
    <3> QED
      BY <3>1, <3>2, <3>3 DEF SubscriberInv
<1>2. CASE Next /\ ~Refresh /\ ~CleanupDone
  BY <1>2, ArriveKeepsInv, StartOtherKeepsInv, TryAgainKeepsInv, DeliverKeepsInv, EndKeepsInv,
     CleanupKeepsInv DEF Next
<1> QED
  BY <1>1, <1>2

\* The invariant of Subscriber holds in every reachable state.
LEMMA SubscriberInvariant == Spec => []SubscriberInv
<1> QED
  BY InitHolds, NextKeepsInv, PTL DEF Spec

(*-------------------------------- theorems --------------------------------*)

\* Every variable keeps its type; above all there never are two timers, so that
\* no two functions run at once.
THEOREM SubscriberTypeCorrect == Spec => []TypeOK
<1>1. SubscriberInv => TypeOK
  BY DEF SubscriberInv
<1> QED
  BY <1>1, SubscriberInvariant, PTL

\* A function finds the data of the message that has called it
\* (MessageQueueSubscriber.cc:158-160).
THEOREM FunctionsFindTheirData == Spec => []OwnData
<1>1. SubscriberInv => OwnData
  BY DEF SubscriberInv, Line, InLine, OwnData, Called
<1> QED
  BY <1>1, SubscriberInvariant, PTL

\* The functions are called one at a time and in the order of the messages
\* (MessageQueueSubscriber.cc:158-160, 228-237).
THEOREM MessagesInOrder == Spec => []InOrder
<1>1. SubscriberInv => InOrder
  BY DEF SubscriberInv, Line, InLine, Kept, InOrder, OneAtATime, Called
<1> QED
  BY <1>1, SubscriberInvariant, PTL

\* The starters are a queue of jobs, also while cleanup drops what is submitted
\* by dropping (JobStarter.cc:353-373, 410-415).
THEOREM SubscriberJobsAreQueued == Spec => ImplementsQueueSafely
<1> DEFINE waiting == IF cleaning THEN <<>> ELSE s_jobqueue
<1>1. Init => Queue!Init
  BY DEF Init, Queue!Init
<1>2. SubscriberInv /\ [Next]_vars => [Queue!Next]_(Queue!vars)
  <2> SUFFICES ASSUME SubscriberInv, [Next]_vars
               PROVE  Queue!Next \/ UNCHANGED <<waiting, running>>
    BY DEF Queue!vars
  <2> USE DEF SubscriberInv
  <2>1. CASE (\E h \in Header : Arrive(h)) \/ Refresh \/ UNCHANGED vars
    <3>1. UNCHANGED <<s_jobqueue, running, cleaning>>
      BY <2>1 DEF Arrive, Refresh, vars, starterVars
    <3> QED
      BY <3>1
  <2>2. CASE \E j \in Other : StartOther(j)
    <3> PICK j \in Other : StartOther(j)
      BY <2>2
    <3>1. j \in Job /\ j # running /\ \A i \in DOMAIN s_jobqueue : s_jobqueue[i] # j
      BY MessageFacts DEF StartOther, ToSet
    <3>2. cleaning = FALSE /\ cleaning' = FALSE /\ running' = running
          /\ s_jobqueue' = Append(s_jobqueue, j)
      BY DEF StartOther, StartJob, Free, TypeOK
    <3> QED
      BY <3>1, <3>2 DEF Queue!Next, Queue!Submit
  <2>3. CASE TryAgain
    <3>1. cleaning = FALSE /\ cleaning' = FALSE /\ running = NoJob
      BY <2>3 DEF TryAgain, Free, TypeOK, Wakeups
    <3> QED
      BY <2>3, <3>1 DEF TryAgain, Queue!Next, Queue!Run
  <2>4. CASE Deliver
    <3> DEFINE m == Head(events)
    <3>1. cleaning = FALSE
      BY <2>4 DEF Deliver, Free, TypeOK
    <3>2. CASE MustWait(m) \/ m.header \notin Calls
      BY <2>4, <3>2 DEF Deliver, MustWait, starterVars
    <3>3. CASE ~MustWait(m) /\ m.header \in Calls
      <4>1. m \in Trigger /\ m \in Job /\ ~s_triggerStarted
        BY <2>4, <3>3, FirstSignal, MessageFacts DEF MustWait
      <4>2. m # running /\ \A i \in DOMAIN s_jobqueue : s_jobqueue[i] # m
        BY <4>1 DEF Line, InLine
      <4>3. s_jobqueue' = Append(s_jobqueue, m) /\ UNCHANGED <<running, cleaning>>
        BY <2>4, <3>3 DEF Deliver, StartJob
      <4> QED
        BY <3>1, <4>1, <4>2, <4>3 DEF Queue!Next, Queue!Submit
    <3> QED
      BY <3>2, <3>3
  <2>5. CASE EndOk
    <3>1. cleaning = FALSE /\ cleaning' = FALSE /\ running \in Job /\ running # NoJob
          /\ running' = NoJob /\ BackFromJobStarter(running, s_jobqueue)
      BY <2>5 DEF EndOk, Free, TypeOK
    <3>2. \/ s_jobqueue' = s_jobqueue
          \/ /\ Submits(running) /\ s_jobqueue' = Append(s_jobqueue, s_procSubsVec[1])
             /\ s_procSubsVec[1] \in Trigger
      BY <3>1, BackKeepsLine DEF TypeOK
    <3>3. ASSUME Submits(running), s_procSubsVec[1] \in Trigger
          PROVE  s_procSubsVec[1] \in Job \ {running}
      <4>1. 1 \in DOMAIN s_procSubsVec
        BY <3>3, Shortened DEF Submits, TypeOK
      <4>2. running.n < s_procSubsVec[1].n
        BY <3>3, <4>1 DEF Line, InLine, Ahead, Submits
      <4>3. s_procSubsVec[1].n \in Nat
        BY <3>3, MessageFacts
      <4> QED
        BY <3>3, <4>2, <4>3, MessageFacts
    <3> QED
      BY <3>1, <3>2, <3>3 DEF Queue!Next, Queue!Finish
  <2>6. CASE EndFailed
    BY <2>6 DEF EndFailed, Queue!Next, Queue!Fail
  <2>7. CASE Cleanup
    BY <2>7 DEF Cleanup
  <2>8. CASE CleanupDone
    BY <2>8 DEF CleanupDone
  <2> QED
    BY <2>1, <2>2, <2>3, <2>4, <2>5, <2>6, <2>7, <2>8 DEF Next
<1> QED
  BY <1>1, <1>2, SubscriberInvariant, PTL DEF Spec, ImplementsQueueSafely, Queue!SafeSpec
=============================================================================
