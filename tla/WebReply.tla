------------------------------ MODULE WebReply ------------------------------
(***************************************************************************)
(* The reply queues of a program without a screen (MessageQueueReply.cc,   *)
(* MessageQueueThreads.cc, JobAction.cc, JobFunction.cc).  Each queue has  *)
(* a thread that receives a request, hands it to the GUI thread and polls  *)
(* a status until the function of the request is done.  Dialogs of the     *)
(* function become queries to the same client, for which the GUI thread    *)
(* waits.  The jobs are those of JobQueue, which module Jobs implements.   *)
(*                                                                         *)
(* One step is the work of one event in the GUI thread, or what a reply    *)
(* thread does between two looks at its status.  A client sends one        *)
(* request and waits for the response (ZMQ_REQ).                           *)
(***************************************************************************)
EXTENDS Integers, SequencesExt

CONSTANTS
  Queue,         \* message queues of pattern REPLY, each with its thread
  Header,
  Function,
  None,
  HeadersOf,     \* the headers that the clients of a queue send
  FunctionOf,    \* the function of a header, or None
  AbortHeaders,  \* ProgressDialogAbortCommand
  Item,          \* the data that the request streams of a header write
  WebApi,        \* functions with a web reply data item  (m_webReplyResultDataitem)
  UpdateForms,   \* functions at whose end the GUI updates
  AfterUpdate,   \* the function AFTER_UPDATE_FORMS, which the program defines
  Asks,          \* functions that open dialogs
  MayFail,       \* functions that may abort
  Timed,         \* functions of TimerFunctions ...
  MaxPending,    \* ... and their limit of pending functions; 0 is no limit
  Interrupts,    \* queues whose client may send anything when it is asked
  Trigger,       \* names of JobStarter objects; bounds those of one kind at a time
  MaxAborts      \* bounds the abort commands that are underway

Job == [fn : Function, from : Queue \cup {None}, trigger : Trigger]

ASSUME WebAssumption ==
  /\ None \notin Queue \cup Header \cup Function \cup Job
  /\ HeadersOf \in [Queue -> SUBSET Header]
  /\ FunctionOf \in [Header -> Function \cup {None}]
  /\ DOMAIN Item = Header
  /\ AfterUpdate \in Function
  /\ WebApi \subseteq Function /\ MayFail \subseteq Function
  /\ Timed \subseteq Function \ (WebApi \cup {AfterUpdate})
  /\ \A h \in Header : FunctionOf[h] # None => FunctionOf[h] # AfterUpdate
  /\ \A h \in AbortHeaders : FunctionOf[h] = None
  /\ Trigger # {} /\ MaxPending \in Nat /\ MaxAborts \in Nat

VARIABLES
  exchange,   \* of each queue with its client: where the message is, and its header
  status,     \* m_status of every thread
  expected,   \* m_expectedQueryResultMembers of every thread is not empty
  streams,    \* m_responseStreams: the header whose they are
  events,     \* queued signals receivedData
  waiting,    \* s_jobqueue
  running,    \* the job that runs
  wait,       \* s_wait
  thread,     \* m_mqReplyThread of every function
  registered, \* the thread of s_replyResultData
  asking,     \* the query the GUI thread waits for
  data,       \* the queue that has written an item last
  aborts      \* abort commands that wait for their timer

jobVars == <<waiting, running, wait>>
threadVars == <<status, expected>>
guiVars == <<thread, registered, asking, data, aborts>>
vars == <<exchange, status, expected, streams, events, waiting, running, wait,
          thread, registered, asking, data, aborts>>

JQ == INSTANCE JobQueue WITH NoJob <- None

(*-------------------------------- clients --------------------------------*)

Exchange == [phase : {"idle", "sent", "working", "asked", "answered", "writing"},
             header : Header \cup {None}, fits : BOOLEAN]

In(q, phase) == exchange[q].phase = phase
Moved(q, phase) == exchange' = [exchange EXCEPT ![q].phase = phase]

SendRequest(q, h) ==
  /\ In(q, "idle") /\ h \in HeadersOf[q]
  /\ h \in AbortHeaders => aborts < MaxAborts
  /\ exchange' = [exchange EXCEPT ![q] = [phase |-> "sent", header |-> h, fits |-> TRUE]]
  /\ UNCHANGED <<threadVars, streams, events, jobVars, guiVars>>

\* The answer fits the query when it has one of the members it asks for.
AnswerQuery(q) ==
  /\ In(q, "asked")
  /\ \E h \in HeadersOf[q], fits \in {TRUE} \cup {q \notin Interrupts} :
       exchange' = [exchange EXCEPT ![q] =
         [phase |-> "answered", header |-> IF fits THEN @.header ELSE h, fits |-> fits]]
  /\ UNCHANGED <<threadVars, streams, events, jobVars, guiVars>>

(*---------------------------- reply threads ------------------------------*)

Emit(q, h) == events' = Append(events, [queue |-> q, header |-> h])

ReceiveKeepingStatus(q) ==
  /\ In(q, "sent")
  /\ Emit(q, exchange[q].header)
  /\ Moved(q, "working")
  /\ UNCHANGED <<threadVars, streams, jobVars, guiVars>>

Receive(q) ==
  /\ In(q, "sent")
  /\ status' = [status EXCEPT ![q] = "WORKING"]
  /\ Emit(q, exchange[q].header)
  /\ Moved(q, "working")
  /\ UNCHANGED <<expected, streams, jobVars, guiVars>>

SendQuery(q) ==
  /\ In(q, "working") /\ status[q] = "SEND_QUERY"
  /\ status' = [status EXCEPT ![q] = "WORKING_QUERY"]
  /\ Moved(q, "asked")
  /\ UNCHANGED <<expected, streams, events, jobVars, guiVars>>

\* An answer without the expected members is taken for a new request.
ReceiveAnswer(q) ==
  /\ In(q, "answered")
  /\ status' = [status EXCEPT ![q] = "WORKING_QUERY_DONE"]
  /\ IF expected[q] /\ ~exchange[q].fits
     THEN Emit(q, exchange[q].header)
     ELSE UNCHANGED events
  /\ Moved(q, "working")
  /\ UNCHANGED <<expected, streams, jobVars, guiVars>>

\* The thread sees RECEIVE_DONE and writes the response streams ...
WriteResponse(q) ==
  /\ In(q, "working") /\ status[q] = "RECEIVE_DONE"
  /\ Moved(q, "writing")
  /\ UNCHANGED <<threadVars, streams, events, jobVars, guiVars>>

\* ... and sends them.  The status stays as it is until the next request.
SendResponse(q) ==
  /\ In(q, "writing")
  /\ exchange' = [exchange EXCEPT ![q] =
       [phase |-> "idle", header |-> streams[q], fits |-> TRUE]]
  /\ UNCHANGED <<threadVars, streams, events, jobVars, guiVars>>

(*------------------------------ GUI thread -------------------------------*)

Free == asking.queue = None

nPendingFunctions(line, w) == Len(line) + IF w THEN 1 ELSE 0

InLine == (ToSet(waiting) \cup {running}) \ {None}
JobsOf(f) == {j \in InLine : j.fn = f}
Made(f, q) == {[fn |-> f, from |-> q, trigger |-> t] : t \in Trigger}
                \ InLine

\* The update of the GUI starts AFTER_UPDATE_FORMS; its signals are blocked
\* until that has ended.
Updated(line, k) ==
  IF JobsOf(AfterUpdate) = {}
  THEN Append(line, [fn |-> AfterUpdate, from |-> None, trigger |-> k])
  ELSE line

\* slot_receivedReplyData
ThreadsSet(q, f) == [g \in Function |-> IF g \in {f, AfterUpdate} THEN q ELSE thread[g]]

Deliver ==
  /\ Free /\ events # <<>>
  /\ LET q == Head(events).queue
         h == Head(events).header
         f == FunctionOf[h]
     IN
     /\ events' = Tail(events)
     /\ data' = [data EXCEPT ![Item[h]] = q]
     /\ streams' = [streams EXCEPT ![q] = h]
     /\ thread' = ThreadsSet(q, f)
     /\ \/ /\ f # None
           /\ \E j \in Made(f, q) : JQ!Submit(j)
           /\ wait' = TRUE
           /\ UNCHANGED <<status, aborts>>
        \/ /\ f = None
           /\ status' = [status EXCEPT ![q] = "RECEIVE_DONE"]
           /\ aborts' = IF h \in AbortHeaders THEN aborts + 1 ELSE aborts
           /\ \E k \in Trigger : waiting' = Updated(waiting, k)
           /\ wait' = (wait \/ waiting' # waiting)
           /\ UNCHANGED running
  /\ UNCHANGED <<exchange, expected, registered, asking>>

TimerMaySubmit == MaxPending = 0 \/ nPendingFunctions(waiting, wait) + 1 <= MaxPending

\* startFunction of a TimerFunction
TimerTick(f) ==
  /\ Free /\ TimerMaySubmit
  /\ \E j \in Made(f, None) : JQ!Submit(j)
  /\ wait' = TRUE
  /\ UNCHANGED <<exchange, threadVars, streams, events, guiVars>>

\* tryAgain
TryAgain ==
  /\ Free /\ wait /\ running = None
  /\ \/ JQ!Run /\ UNCHANGED wait
     \/ waiting = <<>> /\ wait' = FALSE /\ UNCHANGED <<waiting, running>>
  /\ UNCHANGED <<exchange, threadVars, streams, events, guiVars>>

\* getMessageQueueReplyThread: of the function, or of the starter that called it
ThreadOf(job) == IF thread[job.fn] # None THEN thread[job.fn] ELSE job.from

(*--------------------------------- queries -------------------------------*)

\* doQuery: the status first and then the expected members.
AskClient ==
  /\ Free /\ running # None
  /\ running.fn \in Asks /\ ThreadOf(running) # None
  /\ status' = [status EXCEPT ![ThreadOf(running)] = "SEND_QUERY"]
  /\ \E e \in BOOLEAN : asking' = [queue |-> ThreadOf(running), expects |-> e, told |-> FALSE]
  /\ UNCHANGED <<exchange, expected, streams, events, jobVars, thread, registered, data, aborts>>

TellExpected ==
  /\ ~Free /\ ~asking.told
  /\ expected' = [expected EXCEPT ![asking.queue] = asking.expects]
  /\ asking' = [asking EXCEPT !.told = TRUE]
  /\ UNCHANGED <<exchange, status, streams, events, jobVars, thread, registered, data, aborts>>

NotAsking == [queue |-> None, expects |-> FALSE, told |-> TRUE]

QueryDone ==
  /\ ~Free /\ asking.told
  /\ status[asking.queue] = "WORKING_QUERY_DONE"
  /\ asking' = NotAsking
  /\ UNCHANGED <<exchange, threadVars, streams, events, jobVars, thread, registered, data, aborts>>

(*---------------------------- ends of functions --------------------------*)

\* epilog: with a web reply data item the result is registered, without one
\* the thread goes on at once.  endJobAction: after the controller has ended
\* the registered result is sent when no function is pending any more.
Registers(f) == f # AfterUpdate /\ f \in WebApi
DoneNever(f) == FALSE
DoneAtOnce(f) == f # AfterUpdate /\ f \notin WebApi

MaySendWhenQuiet(f, pending) == pending = 0
MaySend(f, pending) == pending = 0 \/ (pending = 1 /\ f = AfterUpdate)

Epilog(pending) ==
  LET f    == running.fn
      t    == ThreadOf(running)
      due  == IF Registers(f) THEN t ELSE registered
      sent == IF MaySend(f, pending) THEN due ELSE None
  IN
  /\ status' = [q \in Queue |-> IF q = sent \/ (q = t /\ DoneAtOnce(f))
                                THEN "RECEIVE_DONE" ELSE status[q]]
  /\ registered' = IF sent = None THEN due ELSE None

EndOk ==
  /\ Free /\ running # None
  /\ JQ!Finish
  /\ \E k \in Trigger :
       waiting' = IF running.fn \in UpdateForms THEN Updated(waiting, k) ELSE waiting
  /\ Epilog(nPendingFunctions(waiting', wait))
  /\ UNCHANGED <<exchange, expected, streams, events, wait, thread, asking, data, aborts>>

\* A function that fails or is canceled drops the jobs that wait; their
\* triggers have nothing to do then.
EndFailed ==
  /\ JQ!Fail
  /\ wait' = FALSE
  /\ Epilog(0)

Abort ==
  /\ Free /\ running # None /\ running.fn \in MayFail
  /\ EndFailed
  /\ UNCHANGED <<exchange, expected, streams, events, thread, asking, data, aborts>>

AbortDueAgain == TRUE
AbortDue == aborts > 0

\* One second after its command: execute_abort cancels what runs then.
AbortTimer ==
  /\ Free /\ AbortDue
  /\ aborts' = aborts - 1
  /\ IF running # None
     THEN EndFailed
     ELSE UNCHANGED <<jobVars, status, registered>>
  /\ UNCHANGED <<exchange, expected, streams, events, thread, asking, data>>

(*----------------------------- specification -----------------------------*)

Init ==
  /\ exchange = [q \in Queue |-> [phase |-> "idle", header |-> None, fits |-> TRUE]]
  /\ status = [q \in Queue |-> "STARTED"]
  /\ expected = [q \in Queue |-> FALSE]
  /\ streams = [q \in Queue |-> None]
  /\ events = <<>>
  /\ waiting = <<>> /\ running = None /\ wait = FALSE
  /\ thread = [f \in Function |-> None]
  /\ registered = None
  /\ asking = NotAsking
  /\ data = [i \in {Item[h] : h \in Header} |-> None]
  /\ aborts = 0

ReplyThread(q) ==
  \/ Receive(q) \/ SendQuery(q) \/ ReceiveAnswer(q)
  \/ WriteResponse(q) \/ SendResponse(q)

Client(q) == (\E h \in Header : SendRequest(q, h)) \/ AnswerQuery(q)

GuiThread ==
  \/ Deliver \/ (\E f \in Timed : TimerTick(f)) \/ TryAgain
  \/ AskClient \/ TellExpected \/ QueryDone
  \/ EndOk \/ Abort \/ AbortTimer

Next == (\E q \in Queue : ReplyThread(q) \/ Client(q)) \/ GuiThread

Spec == Init /\ [][Next]_vars

\* The threads are scheduled, the event loop handles every event it has, a
\* client answers the query it is asked, and a function comes to its end.
FairSpec ==
  /\ Spec
  /\ \A q \in Queue : WF_vars(ReplyThread(q)) /\ WF_vars(AnswerQuery(q))
  /\ SF_vars(Deliver) /\ WF_vars(TryAgain)
  /\ WF_vars(TellExpected) /\ WF_vars(QueryDone)
  /\ SF_vars(EndOk)

(*------------------------------ properties -------------------------------*)

Status == {"STARTED", "WORKING", "RECEIVE_DONE", "SEND_QUERY", "WORKING_QUERY",
           "WORKING_QUERY_DONE"}

TypeOK ==
  /\ exchange \in [Queue -> Exchange]
  /\ status \in [Queue -> Status]
  /\ expected \in [Queue -> BOOLEAN]
  /\ streams \in [Queue -> Header \cup {None}]
  /\ events \in Seq([queue : Queue, header : Header])
  /\ waiting \in Seq(Job) /\ running \in Job \cup {None} /\ wait \in BOOLEAN
  /\ thread \in [Function -> Queue \cup {None}]
  /\ registered \in Queue \cup {None}
  /\ asking \in [queue : Queue \cup {None}, expects : BOOLEAN, told : BOOLEAN]
  /\ data \in [{Item[h] : h \in Header} -> Queue \cup {None}]
  /\ aborts \in Nat

\* A request is in the hands of the GUI thread as a signal, a job or a
\* registered result.
Announced(q) == \E i \in DOMAIN events : events[i].queue = q
Queued(q) == \E i \in DOMAIN waiting : waiting[i].from = q
Runs(q) == running # None /\ running.from = q
Outstanding(q) == Announced(q) \/ Queued(q) \/ Runs(q) \/ registered = q

Phase(q) ==
  CASE exchange[q].phase = "idle" -> "idle"
    [] exchange[q].phase = "sent" -> "working"
    [] exchange[q].phase \in {"asked", "answered"} -> "asked"
    [] OTHER -> IF Outstanding(q) THEN "working"
                ELSE IF In(q, "writing") \/ status[q] = "RECEIVE_DONE" THEN "done"
                ELSE "lost"

\* Every request is answered once, with the response of its own header, and
\* only when its function, the jobs that follow from it and every query have
\* come to their end ("wait if function has finished, or a function interrupt
\* (Query)", MessageQueueThreads.cc:409; JobFunction.cc:475-494,
\* JobAction.cc:122-130).
RS == INSTANCE ReplyService WITH
  NoHeader <- None,
  exchange <- [q \in Queue |-> [phase |-> Phase(q), header |-> exchange[q].header]]
ImplementsReplySafely == RS!SafeSpec

\* A request gets no answer only if it waited behind a function that failed or
\* was canceled: JobStarter::cleanup tells its trigger, which does nothing
\* (JobStarter.cc:410-415, MessageQueueReply.cc:233-236).
LostOnlyWithFailure ==
  [][\A q \in Queue : Phase(q) # "lost" /\ Phase(q)' = "lost" =>
       Queued(q) /\ running # None /\ running' = None /\ waiting' = <<>>]_vars

\* No thread polls for a status that nobody will set, and the GUI thread waits
\* for no query for ever (MessageQueueThreads.cc:410, 530): a request is
\* answered or lost.  One whose function has a web reply needs that the other
\* clients are quiet some day: its result is sent when no other function is
\* pending (JobAction.cc:122-124).
Quiet == <>[][\A q \in Queue, h \in Header : ~SendRequest(q, h)]_vars
Sent(q, h) == In(q, "sent") /\ exchange[q].header = h
Settled(q) == In(q, "idle") \/ Phase(q) = "lost"

AnsweredOrLost ==
  \A q \in Queue :
    /\ \A h \in Header : FunctionOf[h] \notin WebApi => (Sent(q, h) ~> Settled(q))
    /\ Quiet => (In(q, "sent") ~> Settled(q))
=============================================================================
