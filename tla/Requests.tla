------------------------------ MODULE Requests ------------------------------
(***************************************************************************)
(* Requests to a message queue (operator/MessageQueueRequest.cc, the       *)
(* request thread of MessageQueueThreads.cc, job/JobRequest.cc): a job     *)
(* action that lets a thread send its input streams and wait for the       *)
(* response, which comes back to the GUI thread as two queued signals.     *)
(* The streams of a job are represented by its number.                     *)
(***************************************************************************)
EXTENDS Integers, Sequences

CONSTANTS
  Request,      \* the request queues of the application (s_requestMap)
  None,         \* no request
  MaxJobs       \* bound on the number of jobs

ASSUME RequestAssumption == None \notin Request /\ MaxJobs \in Nat

VARIABLES
  phase,        \* of the job: "idle", "due" (a timer starts it), "on"
  result,       \* the result of the last job
  req,          \* the request of the job
  job,          \* the number of the job
  stopped,      \* m_stopped of its controller
  thread,       \* "null" (not created), "off", "start", "recv" or "end"
  m_status,     \* of every thread
  terminated,   \* terminate() has been called and the thread still runs
  m_osVec,      \* the streams every thread has to send
  sent,         \* the streams its run has sent
  resultDataList, \* what it has received: at most one response
  listener,     \* whether m_listener is set
  events,       \* the queued signals of the threads
  crashed,      \* the null pointer of a thread has been used
  clean,        \* history: nothing of earlier jobs was left when this one began
  wrote,        \* history: the streams of this one could be written
  answer        \* history: the data of the last signal that has ended a job

jobVars == <<phase, result, req, job, stopped>>
threadVars == <<thread, m_status, terminated, m_osVec, sent, resultDataList>>
historyVars == <<clean, wrote, answer>>
vars == <<jobVars, threadVars, listener, events, crashed, historyVars>>

IsRunning(r) == thread[r] \in {"start", "recv", "end"}

\* checkRequest
CheckRequest(r) == IsRunning(r) => m_status[r] \in {"ABORTED", "FINISHED"}

\* JobCodeRequest::execute with nextJobAction
Call(r) ==
  /\ phase = "idle" /\ job < MaxJobs
  /\ CheckRequest(r)
  /\ phase' = "due" /\ result' = "none" /\ stopped' = FALSE
  /\ req' = r /\ job' = job + 1
  /\ UNCHANGED <<threadVars, listener, events, crashed, historyVars>>

NothingLeft(r) ==
  /\ ~IsRunning(r) /\ m_osVec[r] = <<>>
  /\ \A i \in DOMAIN events : events[i].req # r

\* readInputData, in the GUI thread: a stream that cannot be written empties
\* the streams to send.  The signal of the error is connected to nothing.
ReadInputData(written) ==
  /\ m_status' = [m_status EXCEPT ![req] = IF written THEN "STARTED" ELSE "ABORTED"]
  /\ m_osVec' = [m_osVec EXCEPT ![req] = IF written THEN Append(@, job) ELSE <<>>]
  /\ wrote' = written

\* startJobAction with startRequest, which does not look at the result of
\* readInputData; start() does nothing when the thread still runs.
Begin(written) ==
  /\ phase = "due" /\ phase' = "on"
  /\ listener' = [listener EXCEPT ![req] = TRUE]
  /\ ReadInputData(written)
  /\ thread' = [thread EXCEPT ![req] = IF IsRunning(req) THEN @ ELSE "start"]
  /\ clean' = NothingLeft(req)
  /\ UNCHANGED <<result, req, job, stopped, terminated, sent, resultDataList,
                 events, crashed, answer>>

EndJob(rslt) == phase' = "idle" /\ result' = rslt

ListenersKept(R) == listener
ListenersAfter(R) == [r \in Request |-> listener[r] /\ r \notin R]

\* terminateRequest of the requests R tells the listener of the job.
ToldWhileRunning(R) == req \in R /\ listener[req] /\ IsRunning(req)
ToldOfStop(R) == req \in R /\ listener[req]

\* To ask a thread that does not exist whether it runs is a crash.
Terminate(R) ==
  /\ IF ToldOfStop(R) THEN EndJob("aborted") ELSE UNCHANGED <<phase, result>>
  /\ listener' = ListenersAfter(R)
  /\ terminated' = [r \in Request |-> terminated[r] \/ (r \in R /\ IsRunning(r))]
  /\ crashed' = (\E r \in R : thread[r] = "null")
  /\ UNCHANGED <<req, job, thread, m_status, m_osVec, sent, resultDataList, events,
                 historyVars>>

\* JobController::stop with stopJobAction
Cancel ==
  /\ phase # "idle" /\ ~stopped
  /\ stopped' = TRUE
  /\ Terminate({req})

\* execute_abort of the progress bar, which stops the job and all requests
Abort ==
  /\ phase # "idle"
  /\ stopped' = TRUE
  /\ Terminate(Request)

\* QuitApplication, when the user says that the connections be closed
Quit ==
  /\ \E r \in Request : ~CheckRequest(r)
  /\ Terminate(Request)
  /\ UNCHANGED stopped

(*------------------------------ the thread -------------------------------*)

\* clear() of resultDataList, by the thread and by the GUI thread
NotCleared(r) == resultDataList
Cleared(r) == [resultDataList EXCEPT ![r] = <<>>]

\* The streams are sent, or a header without any, and the thread waits.
Send(r) ==
  /\ thread[r] = "start"
  /\ thread' = [thread EXCEPT ![r] = "recv"]
  /\ sent' = [sent EXCEPT ![r] = m_osVec[r]]
  /\ m_osVec' = [m_osVec EXCEPT ![r] = <<>>]
  /\ m_status' = [m_status EXCEPT ![r] = "WORKING"]
  /\ resultDataList' = Cleared(r)
  /\ UNCHANGED <<jobVars, terminated, listener, events, crashed,
                 historyVars>>

\* The response, or nothing when the time is over.
Receive(r) ==
  /\ thread[r] = "recv"
  /\ \E response \in {<<>>, <<sent[r]>>} :
       resultDataList' = [resultDataList EXCEPT ![r] = @ \o response]
  /\ thread' = [thread EXCEPT ![r] = "end"]
  /\ m_status' = [m_status EXCEPT ![r] = "FINISHED"]
  /\ UNCHANGED <<jobVars, terminated, m_osVec, sent, listener, events, crashed,
                 historyVars>>

\* An exception of the socket, before the streams are sent
Fail(r) ==
  /\ thread[r] = "start"
  /\ thread' = [thread EXCEPT ![r] = "end"]
  /\ m_status' = [m_status EXCEPT ![r] = "ABORTED"]
  /\ UNCHANGED <<jobVars, terminated, m_osVec, sent, resultDataList, listener,
                 events, crashed, historyVars>>

\* The thread comes to its end, or to the point where it is terminated.
ThreadEnd(r) ==
  /\ thread[r] = "end" \/ (IsRunning(r) /\ terminated[r])
  /\ thread' = [thread EXCEPT ![r] = "off"]
  /\ terminated' = [terminated EXCEPT ![r] = FALSE]
  /\ events' = Append(events, [signal |-> "finished", req |-> r, data |-> <<>>])
  /\ UNCHANGED <<jobVars, m_status, m_osVec, sent, resultDataList, listener, crashed,
                 historyVars>>

(*------------------------------ the signals ------------------------------*)

IsSignal(signal) == events # <<>> /\ Head(events).signal = signal

\* slot_finished passes the result on with a second queued signal ...
Slot_finished ==
  /\ IsSignal("finished")
  /\ LET r == Head(events).req IN
       /\ events' = Append(Tail(events), [signal |-> "receivedData", req |-> r,
                                          data |-> resultDataList[r]])
       /\ resultDataList' = Cleared(r)
  /\ UNCHANGED <<jobVars, thread, m_status, terminated, m_osVec, sent, listener, crashed,
                 historyVars>>

\* ... which tells the listener, if there is (still or again) one.
ToldWithDataOnly(e) == listener[e.req] /\ e.data # <<>>
Told(e) == listener[e.req]

Slot_receivedRequestData ==
  /\ IsSignal("receivedData")
  /\ LET e == Head(events) IN
       /\ IF Told(e)
          THEN EndJob(IF e.data = <<>> THEN "aborted" ELSE "ok") /\ answer' = e.data
          ELSE UNCHANGED <<phase, result, answer>>
       /\ listener' = [listener EXCEPT ![e.req] = FALSE]
  /\ events' = Tail(events)
  /\ UNCHANGED <<req, job, stopped, threadVars, crashed, clean, wrote>>

(*----------------------------- specification -----------------------------*)

Init ==
  /\ phase = "idle" /\ result = "none" /\ req = None /\ job = 0 /\ stopped = FALSE
  /\ thread = [r \in Request |-> "null"]
  /\ m_status = [r \in Request |-> "NONE"]
  /\ terminated = [r \in Request |-> FALSE]
  /\ m_osVec = [r \in Request |-> <<>>]
  /\ sent = [r \in Request |-> <<>>]
  /\ resultDataList = [r \in Request |-> <<>>]
  /\ listener = [r \in Request |-> FALSE]
  /\ events = <<>> /\ crashed = FALSE
  /\ clean = TRUE /\ wrote = TRUE /\ answer = <<>>

Thread(r) == Send(r) \/ Receive(r) \/ Fail(r) \/ ThreadEnd(r)

Signal == Slot_finished \/ Slot_receivedRequestData

Next ==
  /\ ~crashed
  /\ \/ \E r \in Request : Call(r) \/ Thread(r)
     \/ \E written \in BOOLEAN : Begin(written)
     \/ Cancel \/ Abort \/ Quit
     \/ Signal

Spec == Init /\ [][Next]_vars

\* Timers fire, queued signals arrive and threads run; a response comes or the
\* time for it is over.
FairSpec ==
  /\ Spec
  /\ WF_vars(~crashed /\ \E written \in BOOLEAN : Begin(written))
  /\ WF_vars(~crashed /\ Signal)
  /\ \A r \in Request : WF_vars(~crashed /\ Thread(r))

(*------------------------------ properties -------------------------------*)

Streams == Seq(1 .. MaxJobs)
Event == [signal : {"finished", "receivedData"}, req : Request, data : Seq(Streams)]

TypeOK ==
  /\ phase \in {"idle", "due", "on"}
  /\ result \in {"none", "ok", "aborted"}
  /\ req \in Request \cup {None} /\ job \in 0 .. MaxJobs
  /\ phase # "idle" => req \in Request
  /\ stopped \in BOOLEAN /\ crashed \in BOOLEAN
  /\ clean \in BOOLEAN /\ wrote \in BOOLEAN
  /\ thread \in [Request -> {"null", "off", "start", "recv", "end"}]
  /\ m_status \in [Request -> {"NONE", "STARTED", "WORKING", "FINISHED", "ABORTED"}]
  /\ terminated \in [Request -> BOOLEAN] /\ listener \in [Request -> BOOLEAN]
  /\ m_osVec \in [Request -> Streams] /\ sent \in [Request -> Streams]
  /\ resultDataList \in [Request -> Seq(Streams)]
  /\ \A r \in Request :
       Len(resultDataList[r]) <= 1 /\ (terminated[r] => IsRunning(r))
  /\ events \in Seq(Event)

\* A request ends once after its start (JobRequest.cc:47-86), well or as aborted,
\* and not before it has begun.
Action == INSTANCE ActionContract
ImplementsAction == Action!SafeSpec

\* A cancel, an abort and a quit end the request that is on in the same step and
\* as aborted, whatever its thread does at that time and although a response may
\* be among the signals already (MessageQueueRequest.cc:109-112), unless they
\* come upon a thread of another request that was never created.
StopsAtOnce ==
  [][phase = "on" /\ (Cancel \/ Abort \/ Quit) =>
       crashed' \/ (phase' = "idle" /\ result' = "aborted")]_vars

\* A job that begins when nothing of the earlier jobs of its request is left
\* ends well only with the response to its own message, whatever other requests,
\* cancels and late responses there are (MessageQueueThreads.cc:217-252).  When
\* its streams could not be written that message is a header without data, and
\* the job ends well all the same, since startRequest ignores the result of
\* readInputData (MessageQueueRequest.cc:63).
Message == IF wrote THEN <<job>> ELSE <<>>
OwnAnswer == phase = "idle" /\ result = "ok" /\ clean => answer = <<Message>>

\* The listener of a request is set while its job waits and at no other time:
\* no signal of a thread ends the job of another request, and none is missed
\* (MessageQueueRequest.cc:109-112, 175-177).
ListenerWaits == \A r \in Request : listener[r] <=> phase = "on" /\ req = r

\* Every job comes to its end, whatever is cancelled and whatever of an earlier
\* job is left in the thread, unless the null pointer is used
\* (MessageQueueRequest.cc:42-67, 106-124, 144-178).
EveryJobEnds == phase # "idle" ~> phase = "idle" \/ crashed
=============================================================================
