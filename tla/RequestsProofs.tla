--------------------------- MODULE RequestsProofs ---------------------------
(***************************************************************************)
(* Theorems about Requests, for every number of queues and jobs: the       *)
(* types, the listener, the answer of a job, that a request keeps the      *)
(* contract of a job action, and that it ends at once when it is told to.  *)
(***************************************************************************)
EXTENDS Requests, TLAPS

(*------------------------- the inductive invariant ------------------------*)

Numbered == phase # "idle" => job \in 1 .. MaxJobs

\* A thread waits for a response with an empty list, and the list of a thread
\* that has ended is empty once its signal has been handled.
NoSignal(r, signal) == \A i \in DOMAIN events : ~(events[i].signal = signal /\ events[i].req = r)
ListsCleared ==
  \A r \in Request :
    \/ thread[r] = "recv" /\ resultDataList[r] = <<>>
    \/ thread[r] \in {"start", "end"}
    \/ thread[r] \in {"null", "off"} /\ (NoSignal(r, "finished") => resultDataList[r] = <<>>)

\* Of a job that has begun with nothing left of earlier ones, only its own
\* message and its own response are underway.
Own == {<<>>, <<Message>>}
OnlyOwn ==
  phase = "on" /\ clean =>
    /\ thread[req] = "start" => m_osVec[req] = Message
    /\ thread[req] = "recv" => sent[req] = Message
    /\ resultDataList[req] \in Own
    /\ \A i \in DOMAIN events : events[i].req = req => events[i].data \in Own

RequestsInv == TypeOK /\ Numbered /\ ListenerWaits /\ ListsCleared /\ OnlyOwn /\ OwnAnswer

(*--------------------------------- lemmas ---------------------------------*)

\* Sequences of jobs that stand for response streams.
LEMMA StreamFacts ==
  /\ <<>> \in Streams /\ <<>> \in Seq(Streams) /\ Len(<<>>) = 0
  /\ \A s \in Streams : <<s>> \in Seq(Streams) /\ Len(<<s>>) = 1
  /\ \A s \in Streams, n \in 1 .. MaxJobs : Append(s, n) \in Streams
BY DEF Streams

\* At the start all threads are idle.
LEMMA InitHolds == Init => RequestsInv
<1> SUFFICES ASSUME Init PROVE RequestsInv
  OBVIOUS
<1>1. TypeOK
  <2>1. /\ m_osVec \in [Request -> Streams] /\ sent \in [Request -> Streams]
        /\ resultDataList \in [Request -> Seq(Streams)]
        /\ \A r \in Request : Len(resultDataList[r]) <= 1
        /\ events \in Seq(Event)
    BY StreamFacts DEF Init
  <2>2. /\ thread \in [Request -> {"null", "off", "start", "recv", "end"}]
        /\ m_status \in [Request -> {"NONE", "STARTED", "WORKING", "FINISHED", "ABORTED"}]
        /\ terminated \in [Request -> BOOLEAN] /\ listener \in [Request -> BOOLEAN]
        /\ \A r \in Request : ~terminated[r]
    BY DEF Init
  <2>3. job \in 0 .. MaxJobs
    BY RequestAssumption DEF Init
  <2>4. stopped \in BOOLEAN /\ crashed \in BOOLEAN
        /\ clean \in BOOLEAN /\ wrote \in BOOLEAN
    BY DEF Init
  <2> QED
    BY <2>1, <2>2, <2>3, <2>4 DEF Init, TypeOK
<1>2. Numbered /\ ListenerWaits /\ ListsCleared /\ OnlyOwn /\ OwnAnswer
  BY DEF Init, Numbered, ListenerWaits, ListsCleared, OnlyOwn, OwnAnswer
<1> QED
  BY <1>1, <1>2 DEF RequestsInv

\* A function calls a request.
LEMMA CallKeepsInv == ASSUME RequestsInv, NEW r \in Request, Call(r) PROVE RequestsInv'
<1> USE DEF RequestsInv
<1>1. TypeOK' /\ Numbered'
  <2>1. job' \in 1 .. MaxJobs /\ phase' = "due" /\ result' = "none" /\ req' = r
    BY RequestAssumption DEF Call, TypeOK
  <2>2. stopped' \in BOOLEAN
    BY DEF Call
  <2>3. UNCHANGED <<thread, m_status, terminated, m_osVec, sent, resultDataList, listener,
                    events, crashed, clean, wrote>>
    BY DEF Call, threadVars, historyVars
  <2>4. Numbered'
    BY <2>1 DEF Numbered
  <2> QED
    BY <2>1, <2>2, <2>3, <2>4 DEF TypeOK, IsRunning
<1>2. (ListenerWaits /\ ListsCleared /\ OnlyOwn /\ OwnAnswer)'
  BY DEF Call, TypeOK, ListenerWaits, ListsCleared, NoSignal, OnlyOwn, OwnAnswer, threadVars,
     historyVars
<1> QED
  BY <1>1, <1>2

\* The thread of a request begins.
LEMMA BeginKeepsInv ==
  ASSUME RequestsInv, NEW written \in BOOLEAN, Begin(written) PROVE RequestsInv'
<1> USE DEF RequestsInv
<1>1. req \in Request /\ job \in 1 .. MaxJobs
  BY DEF Begin, TypeOK, Numbered
<1>2. TypeOK'
  <2>1. m_osVec' \in [Request -> Streams]
    <3>1. <<>> \in Streams /\ Append(m_osVec[req], job) \in Streams
      BY <1>1, StreamFacts DEF TypeOK
    <3> QED
      BY <1>1, <3>1 DEF Begin, ReadInputData, TypeOK
  <2>2. clean' \in BOOLEAN /\ wrote' \in BOOLEAN
    BY DEF Begin, ReadInputData, NothingLeft, IsRunning
  <2>3. /\ thread' \in [Request -> {"null", "off", "start", "recv", "end"}]
        /\ m_status' \in [Request -> {"NONE", "STARTED", "WORKING", "FINISHED", "ABORTED"}]
        /\ listener' \in [Request -> BOOLEAN]
    BY <1>1 DEF Begin, ReadInputData, TypeOK
  <2>4. \A r \in Request : terminated'[r] => IsRunning(r)'
    BY <1>1 DEF Begin, TypeOK, IsRunning
  <2> QED
    BY <1>1, <2>1, <2>2, <2>3, <2>4 DEF Begin, TypeOK
<1>3. Numbered' /\ ListenerWaits' /\ OwnAnswer'
  BY <1>1 DEF Begin, TypeOK, Numbered, ListenerWaits, OwnAnswer
<1>4. ListsCleared'
  BY <1>1 DEF Begin, TypeOK, IsRunning, ListsCleared, NoSignal
<1>5. OnlyOwn'
  <2> SUFFICES ASSUME clean' PROVE OnlyOwn'
    BY DEF OnlyOwn
  <2>1. NothingLeft(req)
    BY DEF Begin
  <2>2. m_osVec'[req] = Message'
    BY <1>1, <2>1 DEF Begin, ReadInputData, Message, NothingLeft, TypeOK
  <2>3. thread'[req] = "start"
    BY <1>1, <2>1 DEF Begin, NothingLeft, TypeOK
  <2>4. resultDataList[req] = <<>>
    BY <1>1, <2>1 DEF NothingLeft, ListsCleared, NoSignal, IsRunning, TypeOK
  <2> QED
    BY <2>1, <2>2, <2>3, <2>4 DEF Begin, OnlyOwn, NothingLeft, Own
<1> QED
  BY <1>2, <1>3, <1>4, <1>5

\* The GUI thread terminates a thread.
LEMMA TerminateKeepsInv ==
  ASSUME RequestsInv, NEW R \in SUBSET Request, Terminate(R), stopped' \in BOOLEAN
  PROVE  RequestsInv'
<1> USE DEF RequestsInv
<1>0. phase' \in {phase, "idle"} /\ result' \in {result, "aborted"}
      /\ (phase' # phase => result' = "aborted")
  BY DEF Terminate, ToldOfStop, EndJob
<1>1. TypeOK'
  <2>1. listener' \in [Request -> BOOLEAN] /\ terminated' \in [Request -> BOOLEAN]
        /\ crashed' \in BOOLEAN
    BY DEF Terminate, ToldOfStop, ListenersAfter, TypeOK, IsRunning
  <2>2. \A r \in Request : terminated'[r] => IsRunning(r)'
    BY DEF Terminate, ToldOfStop, TypeOK, IsRunning
  <2> QED
    BY <1>0, <2>1, <2>2 DEF Terminate, ToldOfStop, TypeOK, historyVars
<1>2. ListenerWaits'
  BY DEF Terminate, ToldOfStop, EndJob, ListenersAfter, ListenerWaits, TypeOK
<1>3. Numbered' /\ OnlyOwn'
  BY <1>0 DEF Terminate, ToldOfStop, Numbered, OnlyOwn, Own, Message, historyVars
<1>4. ListsCleared'
  BY DEF Terminate, ListsCleared, NoSignal
<1>5. OwnAnswer'
  BY <1>0 DEF Terminate, ToldOfStop, EndJob, OwnAnswer, Message, historyVars
<1> QED
  BY <1>1, <1>2, <1>3, <1>4, <1>5

\* The waiting job is told to stop.
LEMMA StopKeepsInv == ASSUME RequestsInv, Cancel \/ Abort \/ Quit PROVE RequestsInv'
<1>1. CASE Cancel
  <2>1. {req} \in SUBSET Request /\ Terminate({req}) /\ stopped' \in BOOLEAN
    BY <1>1 DEF Cancel, RequestsInv, TypeOK
  <2> QED
    BY <2>1, TerminateKeepsInv
<1>2. CASE Abort \/ Quit
  <2>1. Terminate(Request) /\ stopped' \in BOOLEAN
    BY <1>2 DEF Abort, Quit, RequestsInv, TypeOK
  <2> QED
    BY <2>1, TerminateKeepsInv
<1> QED
  BY <1>1, <1>2

\* What the thread does before its end
LEMMA ThreadKeepsInv ==
  ASSUME RequestsInv, NEW r \in Request, Send(r) \/ Receive(r) \/ Fail(r)
  PROVE  RequestsInv'
<1> USE DEF RequestsInv
<1>1. /\ thread' \in [Request -> {"null", "off", "start", "recv", "end"}]
      /\ \A s \in Request \ {r} : /\ thread'[s] = thread[s]
                                  /\ m_osVec'[s] = m_osVec[s] /\ sent'[s] = sent[s]
                                  /\ resultDataList'[s] = resultDataList[s]
      /\ UNCHANGED <<phase, result, req, job, stopped, terminated, listener, events, crashed,
                     clean, wrote, answer>>
      /\ thread[r] \in {"start", "recv"} /\ thread'[r] \in {"recv", "end"}
  BY DEF Send, Receive, Fail, Cleared, TypeOK, jobVars, historyVars
<1>2. /\ m_osVec' \in [Request -> Streams]
      /\ sent' \in [Request -> Streams]
      /\ m_status' \in [Request -> {"NONE", "STARTED", "WORKING", "FINISHED", "ABORTED"}]
  <2>1. CASE Send(r)
    BY <2>1, StreamFacts DEF Send, TypeOK
  <2>2. CASE Receive(r) \/ Fail(r)
    BY <2>2 DEF Receive, Fail, TypeOK
  <2> QED
    BY <2>1, <2>2
<1>3. /\ resultDataList' \in [Request -> Seq(Streams)]
      /\ Len(resultDataList'[r]) <= 1
      /\ thread'[r] = "recv" => resultDataList'[r] = <<>>
  <2>1. CASE Send(r)
    BY <2>1 DEF Send, Cleared, TypeOK
  <2>2. CASE Receive(r)
    <3>1. resultDataList[r] = <<>>
      BY <2>2 DEF Receive, ListsCleared
    <3>2. resultDataList'[r] \in {<<>>, <<sent[r]>>} /\ thread'[r] = "end"
      BY <2>2, <3>1 DEF Receive, TypeOK
    <3>3. sent[r] \in Streams
      BY DEF TypeOK
    <3> QED
      <4>1. resultDataList' \in [Request -> Seq(Streams)]
        <5>1. \A response \in {<<>>, <<sent[r]>>} :
                resultDataList[r] \o response \in Seq(Streams)
          <6>1. <<>> \in Seq(Streams) /\ <<sent[r]>> \in Seq(Streams)
            BY <3>3, StreamFacts
          <6>2. \A a, b \in Seq(Streams) : a \o b \in Seq(Streams)
            OBVIOUS
          <6> QED
            BY <3>1, <6>1, <6>2
        <5> QED
          BY <2>2, <5>1 DEF Receive, TypeOK
      <4> QED
        <5>1. Len(<<>>) = 0 /\ Len(<<sent[r]>>) = 1
          BY <3>3, StreamFacts
        <5>2. Len(resultDataList'[r]) <= 1
          <6>1. CASE resultDataList'[r] = <<>>
            BY <5>1, <6>1
          <6>2. CASE resultDataList'[r] = <<sent[r]>>
            BY <6>2
          <6> QED
            BY <3>2, <6>1, <6>2
        <5> QED
          BY <3>2, <4>1, <5>2
  <2>3. CASE Fail(r)
    BY <2>3 DEF Fail, TypeOK
  <2> QED
    BY <2>1, <2>2, <2>3
<1>4. TypeOK'
  BY <1>1, <1>2, <1>3 DEF TypeOK, IsRunning
<1>5. (Numbered /\ ListenerWaits /\ OwnAnswer)'
  BY <1>1 DEF Numbered, ListenerWaits, OwnAnswer, Message
<1>6. ListsCleared'
  BY <1>1, <1>3 DEF ListsCleared, NoSignal
<1>7. OnlyOwn'
  <2> SUFFICES ASSUME phase = "on", clean PROVE OnlyOwn'
    BY <1>1 DEF OnlyOwn
  <2>1. CASE req # r
    BY <1>1, <2>1 DEF OnlyOwn, Own, Message, TypeOK
  <2>2. CASE req = r /\ Send(r)
    BY <1>1, <2>2 DEF OnlyOwn, Own, Message, Send, Cleared, TypeOK
  <2>3. CASE req = r /\ Receive(r)
    <3>1. resultDataList[r] = <<>> /\ sent[r] = Message
      BY <2>3 DEF Receive, ListsCleared, OnlyOwn
    <3>2. resultDataList'[r] \in Own /\ thread'[r] = "end"
      BY <2>3, <3>1 DEF Receive, TypeOK, Own
    <3> QED
      BY <1>1, <2>3, <3>2 DEF OnlyOwn, Own, Message
  <2>4. CASE req = r /\ Fail(r)
    BY <1>1, <2>4 DEF OnlyOwn, Own, Message, Fail, TypeOK
  <2> QED
    BY <2>1, <2>2, <2>3, <2>4
<1> QED
  BY <1>4, <1>5, <1>6, <1>7

\* A thread reaches its end.
LEMMA ThreadEndKeepsInv ==
  ASSUME RequestsInv, NEW r \in Request, ThreadEnd(r) PROVE RequestsInv'
<1> USE DEF RequestsInv
<1> DEFINE e == [signal |-> "finished", req |-> r, data |-> <<>>]
<1>1. /\ Len(events) \in Nat /\ Len(events') = Len(events) + 1
      /\ \A i \in DOMAIN events : i \in DOMAIN events' /\ events'[i] = events[i]
      /\ \A i \in DOMAIN events' : i \in DOMAIN events \/ i = Len(events) + 1
      /\ Len(events) + 1 \in DOMAIN events' /\ events'[Len(events) + 1] = e
  BY DEF ThreadEnd, TypeOK
<1>2. TypeOK'
  <2>1. e \in Event
    BY StreamFacts DEF Event
  <2>2. events' \in Seq(Event)
    BY <2>1 DEF ThreadEnd, TypeOK
  <2>3. /\ thread' \in [Request -> {"null", "off", "start", "recv", "end"}]
        /\ terminated' \in [Request -> BOOLEAN]
        /\ \A s \in Request : terminated'[s] => IsRunning(s)'
    BY DEF ThreadEnd, TypeOK, IsRunning
  <2> QED
    BY <2>2, <2>3 DEF ThreadEnd, TypeOK, jobVars, historyVars
<1>3. (Numbered /\ ListenerWaits /\ OwnAnswer)'
  BY DEF ThreadEnd, Numbered, ListenerWaits, OwnAnswer, Message, jobVars, historyVars
<1>4. ListsCleared'
  <2> SUFFICES ASSUME NEW s \in Request, thread'[s] \in {"null", "off"}, NoSignal(s, "finished")'
               PROVE  resultDataList'[s] = <<>>
    BY DEF ThreadEnd, ListsCleared, TypeOK
  <2>1. s # r
    BY <1>1 DEF NoSignal
  <2>2. thread'[s] = thread[s] /\ resultDataList' = resultDataList
    BY <2>1 DEF ThreadEnd, TypeOK
  <2>3. NoSignal(s, "finished")
    BY <1>1 DEF NoSignal
  <2> QED
    BY <2>2, <2>3 DEF ListsCleared
<1>5. OnlyOwn'
  <2> SUFFICES ASSUME phase = "on", clean PROVE OnlyOwn'
    BY DEF OnlyOwn, ThreadEnd, jobVars, historyVars
  <2>1. \A i \in DOMAIN events' : events'[i].req = req => events'[i].data \in Own
    BY <1>1 DEF OnlyOwn, Own
  <2>2. UNCHANGED <<req, job, wrote, m_osVec, sent, resultDataList>>
        /\ \A s \in Request : thread'[s] \in {thread[s], "off"}
    BY DEF ThreadEnd, TypeOK, jobVars, historyVars
  <2> QED
    BY <2>1, <2>2 DEF OnlyOwn, Own, Message, TypeOK
<1> QED
  BY <1>2, <1>3, <1>4, <1>5

\* The first signal of the event queue, and the others.
LEMMA FirstEvent ==
  ASSUME TypeOK, events # <<>>
  PROVE  /\ Head(events).req \in Request /\ Head(events).data \in Seq(Streams)
         /\ 1 \in DOMAIN events /\ Head(events) = events[1]
         /\ Tail(events) \in Seq(Event)
         /\ Len(events) \in Nat /\ Len(Tail(events)) = Len(events) - 1
         /\ \A i \in DOMAIN Tail(events) :
              i + 1 \in DOMAIN events /\ Tail(events)[i] = events[i + 1]
         /\ \A i \in DOMAIN events : i # 1 =>
              i - 1 \in DOMAIN Tail(events) /\ Tail(events)[i - 1] = events[i]
<1>1. events \in Seq(Event) /\ Len(events) \in Nat /\ Len(events) >= 1
      /\ DOMAIN events = 1 .. Len(events) /\ Head(events) = events[1] /\ events[1] \in Event
  BY DEF TypeOK
<1>2. /\ Tail(events) \in Seq(Event) /\ Len(Tail(events)) = Len(events) - 1
      /\ DOMAIN Tail(events) = 1 .. Len(events) - 1
      /\ \A i \in 1 .. Len(events) - 1 : Tail(events)[i] = events[i + 1]
  BY <1>1
<1> QED
  BY <1>1, <1>2 DEF Event

\* The GUI thread handles the end of a thread.
LEMMA FinishedKeepsInv == ASSUME RequestsInv, Slot_finished PROVE RequestsInv'
<1> USE DEF RequestsInv
<1> DEFINE r == Head(events).req
           e == [signal |-> "receivedData", req |-> r, data |-> resultDataList[r]]
           S == Tail(events)
<1>0. events # <<>> /\ Head(events).signal = "finished" /\ events' = Append(S, e)
      /\ UNCHANGED <<phase, result, req, job, stopped, thread, m_status, terminated, m_osVec,
                     sent, listener, crashed, clean, wrote, answer>>
  BY DEF Slot_finished, IsSignal, jobVars, historyVars
<1>1. /\ r \in Request /\ resultDataList[r] \in Seq(Streams)
      /\ e \in Event
      /\ resultDataList' = [resultDataList EXCEPT ![r] = <<>>]
  <2>1. r \in Request /\ resultDataList[r] \in Seq(Streams)
    BY <1>0, FirstEvent DEF TypeOK
  <2>2. e \in Event
    BY <2>1 DEF Event
  <2> QED
    BY <2>1, <2>2 DEF Slot_finished, Cleared
<1>2. /\ events' \in Seq(Event)
      /\ \A i \in DOMAIN events' : (i \in DOMAIN S /\ events'[i] = S[i]) \/ events'[i] = e
      /\ \A i \in DOMAIN S : i \in DOMAIN events' /\ events'[i] = S[i]
  BY <1>0, <1>1, FirstEvent
<1>3. TypeOK'
  <2>1. resultDataList' \in [Request -> Seq(Streams)]
        /\ \A s \in Request : Len(resultDataList'[s]) <= 1
    BY <1>1 DEF TypeOK
  <2> QED
    BY <1>0, <1>2, <2>1 DEF TypeOK, IsRunning
<1>4. (Numbered /\ ListenerWaits /\ OwnAnswer)'
  BY <1>0 DEF Numbered, ListenerWaits, OwnAnswer, Message
<1>5. ListsCleared'
  <2> SUFFICES ASSUME NEW s \in Request, thread[s] \in {"null", "off"},
                      NoSignal(s, "finished")', s # r
               PROVE  resultDataList[s] = <<>>
    BY <1>0, <1>1 DEF ListsCleared, TypeOK
  <2>1. \A i \in DOMAIN S : ~(S[i].signal = "finished" /\ S[i].req = s)
    BY <1>2 DEF NoSignal
  <2>2. NoSignal(s, "finished")
    BY <1>0, <2>1, FirstEvent DEF NoSignal
  <2> QED
    BY <2>2 DEF ListsCleared
<1>6. OnlyOwn'
  <2> SUFFICES ASSUME phase = "on", clean PROVE OnlyOwn'
    BY <1>0 DEF OnlyOwn
  <2>1. \A i \in DOMAIN S : S[i].req = req => S[i].data \in Own
    BY <1>0, FirstEvent DEF OnlyOwn
  <2>2. r = req => e.data \in Own
    BY DEF OnlyOwn
  <2>3. resultDataList'[req] \in Own
    BY <1>1 DEF OnlyOwn, Own, TypeOK
  <2> QED
    BY <1>0, <1>2, <2>1, <2>2, <2>3 DEF OnlyOwn, Own, Message
<1> QED
  BY <1>3, <1>4, <1>5, <1>6

\* The GUI thread handles a response.
LEMMA ReceivedKeepsInv == ASSUME RequestsInv, Slot_receivedRequestData PROVE RequestsInv'
<1> USE DEF RequestsInv
<1> DEFINE e == Head(events)
<1>0. events # <<>> /\ e.signal = "receivedData" /\ events' = Tail(events)
      /\ UNCHANGED <<req, job, stopped, thread, m_status, terminated, m_osVec, sent,
                     resultDataList, crashed, clean, wrote>>
      /\ listener' = [listener EXCEPT ![e.req] = FALSE]
      /\ \/ /\ listener[e.req] /\ phase' = "idle" /\ answer' = e.data
            /\ result' = IF e.data = <<>> THEN "aborted" ELSE "ok"
         \/ ~listener[e.req] /\ UNCHANGED <<phase, result, answer>>
  BY DEF Slot_receivedRequestData, IsSignal, Told, EndJob, threadVars
<1>1. e.req \in Request
  BY <1>0, FirstEvent
<1>2. TypeOK'
  BY <1>0, <1>1, FirstEvent DEF TypeOK, IsRunning
<1>3. Numbered' /\ ListenerWaits'
  BY <1>0, <1>1 DEF Numbered, ListenerWaits, TypeOK
<1>4. ListsCleared'
  <2> SUFFICES ASSUME NEW s \in Request, NoSignal(s, "finished")'
               PROVE  NoSignal(s, "finished")
    BY <1>0 DEF ListsCleared
  <2> QED
    BY <1>0, FirstEvent DEF NoSignal
<1>5. OnlyOwn'
  BY <1>0, FirstEvent DEF OnlyOwn, Own, Message
<1>6. OwnAnswer'
  <2>1. CASE listener[e.req]
    <3>1. phase = "on" /\ e.req = req
      BY <1>1, <2>1 DEF ListenerWaits
    <3>2. clean => e.data \in Own
      BY <1>0, <3>1, FirstEvent DEF OnlyOwn
    <3> QED
      BY <1>0, <2>1, <3>2 DEF OwnAnswer, Own, Message
  <2>2. CASE ~listener[e.req]
    BY <1>0, <2>2 DEF OwnAnswer, Message
  <2> QED
    BY <2>1, <2>2
<1> QED
  BY <1>2, <1>3, <1>4, <1>5, <1>6

\* Every step of Requests keeps the invariant.
LEMMA NextKeepsInv == RequestsInv /\ [Next]_vars => RequestsInv'
<1> SUFFICES ASSUME RequestsInv, [Next]_vars PROVE RequestsInv'
  OBVIOUS
<1>1. CASE UNCHANGED vars
  BY <1>1 DEF vars, jobVars, threadVars, historyVars, RequestsInv, TypeOK, IsRunning,
     Numbered, ListenerWaits, ListsCleared, NoSignal, OnlyOwn, Own, Message, OwnAnswer
<1>2. CASE Next
  BY <1>2, CallKeepsInv, BeginKeepsInv, StopKeepsInv, ThreadKeepsInv, ThreadEndKeepsInv,
     FinishedKeepsInv, ReceivedKeepsInv DEF Next, Thread, Signal
<1> QED
  BY <1>1, <1>2

\* The invariant of Requests holds in every reachable state.
LEMMA RequestsInvariant == Spec => []RequestsInv
<1> QED
  BY InitHolds, NextKeepsInv, PTL DEF Spec

(*-------------------------------- theorems --------------------------------*)

\* Every variable keeps its type, and a thread never collects two responses.
THEOREM RequestsTypeCorrect == Spec => []TypeOK
<1>1. RequestsInv => TypeOK
  BY DEF RequestsInv
<1> QED
  BY <1>1, RequestsInvariant, PTL

\* The listener is set exactly while its job waits (MessageQueueRequest.cc:109-112, 175-177).
THEOREM ListenerOfWaitingJob == Spec => []ListenerWaits
<1>1. RequestsInv => ListenerWaits
  BY DEF RequestsInv
<1> QED
  BY <1>1, RequestsInvariant, PTL

\* A job that begins with nothing left of earlier ones gets the response to its
\* own message, which is empty when its streams could not be written
\* (MessageQueueThreads.cc:155-187, 217-252, MessageQueueRequest.cc:144-178).
THEOREM JobsGetTheirAnswer == Spec => []OwnAnswer
<1>1. RequestsInv => OwnAnswer
  BY DEF RequestsInv
<1> QED
  BY <1>1, RequestsInvariant, PTL

\* A request keeps the contract of a job action (JobRequest.cc:47-86).
THEOREM RequestKeepsContract == Spec => ImplementsAction
<1>1. Init => Action!Init
  BY DEF Init, Action!Init
<1>2. RequestsInv /\ [Next]_vars => [Action!Next]_(Action!vars)
  <2> SUFFICES ASSUME RequestsInv, [Next]_vars, ~UNCHANGED <<phase, result>>
               PROVE  Action!Next
    BY DEF Action!vars
  <2>1. ASSUME NEW R \in SUBSET Request, Terminate(R)
        PROVE  Action!Next
    <3>1. phase = "on" /\ phase' = "idle" /\ result' = "aborted"
      BY <2>1 DEF Terminate, ToldOfStop, EndJob, RequestsInv, ListenerWaits
    <3> QED
      BY <3>1 DEF Action!Next, Action!End
  <2>2. ASSUME NEW r \in Request, Call(r)
        PROVE  Action!Next
    BY <2>2 DEF Call, Action!Next, Action!Call
  <2>3. ASSUME NEW written \in BOOLEAN, Begin(written)
        PROVE  Action!Next
    BY <2>3 DEF Begin, Action!Next, Action!Begin
  <2>4. CASE Slot_receivedRequestData
    <3>1. events # <<>> /\ listener[Head(events).req] /\ phase' = "idle"
          /\ result' \in {"ok", "aborted"}
      BY <2>4 DEF Slot_receivedRequestData, IsSignal, Told, EndJob
    <3>2. phase = "on"
      BY <3>1, FirstEvent DEF RequestsInv, ListenerWaits
    <3> QED
      BY <3>1, <3>2 DEF Action!Next, Action!End
  <2>5. CASE Cancel \/ Abort \/ Quit
    BY <2>1, <2>5 DEF Cancel, Abort, Quit, RequestsInv, TypeOK
  <2>6. CASE Slot_finished \/ (\E r \in Request : Thread(r)) \/ UNCHANGED vars
    BY <2>6 DEF Slot_finished, Thread, Send, Receive, Fail, ThreadEnd, vars, jobVars
  <2> QED
    BY <2>2, <2>3, <2>4, <2>5, <2>6 DEF Next, Signal
<1> QED
  BY <1>1, <1>2, RequestsInvariant, PTL DEF Spec, ImplementsAction, Action!SafeSpec

\* A cancel, an abort and a quit end the request that is on in the same step and
\* as aborted (MessageQueueRequest.cc:106-124, JobRequest.cc:65-86).
THEOREM RequestStopsAtOnce == Spec => StopsAtOnce
<1>1. ASSUME RequestsInv, [Next]_vars, phase = "on", Cancel \/ Abort \/ Quit
      PROVE  phase' = "idle" /\ result' = "aborted"
  <2>1. req \in Request /\ listener[req]
    BY <1>1 DEF RequestsInv, TypeOK, ListenerWaits
  <2>2. \E R \in SUBSET Request : req \in R /\ Terminate(R)
    BY <1>1, <2>1 DEF Cancel, Abort, Quit
  <2> QED
    BY <2>1, <2>2 DEF Terminate, ToldOfStop, EndJob
<1>2. RequestsInv /\ [Next]_vars =>
        [phase = "on" /\ (Cancel \/ Abort \/ Quit) =>
           crashed' \/ (phase' = "idle" /\ result' = "aborted")]_vars
  BY <1>1
<1> QED
  BY <1>2, RequestsInvariant, PTL DEF Spec, StopsAtOnce
=============================================================================
