--------------------------- MODULE WebReplyProofs ---------------------------
(***************************************************************************)
(* Theorems about WebReply: its types, and that the reply queues keep what *)
(* they promise to their clients when each queue has functions of its own. *)
(*                                                                         *)
(* A request that is being worked on is in one place: it is a signal to    *)
(* the GUI thread, a job that waits or runs, a registered result, a        *)
(* response that is due, or it is lost.  WebInv says which place that is,  *)
(* and what the status of its thread and the functions hold then.          *)
(***************************************************************************)
EXTENDS WebReply, SequenceLemmas

(*------------------------------ types ------------------------------------*)

\* What a thread has received is a header that its clients send.
HeadersKnown ==
  /\ \A q \in Queue : ~In(q, "idle") => exchange[q].header \in HeadersOf[q]
  /\ \A i \in DOMAIN events : events[i].header \in HeadersOf[events[i].queue]

TypeInv == TypeOK /\ HeadersKnown

Signal == [queue : Queue, header : Header]

\* The exchange of a queue moves on.
LEMMA MovedExchange ==
  ASSUME TypeInv, NEW q \in Queue,
         NEW p \in {"sent", "working", "asked", "answered", "writing"},
         Moved(q, p), ~In(q, "idle")
  PROVE  /\ exchange' \in [Queue -> Exchange]
         /\ exchange'[q].phase = p /\ exchange'[q].header = exchange[q].header
         /\ exchange'[q].fits = exchange[q].fits
         /\ \A r \in Queue \ {q} : exchange'[r] = exchange[r]
         /\ \A r \in Queue : ~In(r, "idle")' => exchange'[r].header \in HeadersOf[r]
<1>1. exchange \in [Queue -> Exchange] /\ exchange' = [exchange EXCEPT ![q].phase = p]
  BY DEF TypeInv, TypeOK, Moved
<1>2. /\ exchange' \in [Queue -> Exchange]
      /\ exchange'[q].phase = p /\ exchange'[q].header = exchange[q].header
      /\ exchange'[q].fits = exchange[q].fits
      /\ \A r \in Queue \ {q} : exchange'[r] = exchange[r]
  BY <1>1 DEF Exchange
<1> QED
  BY <1>2 DEF TypeInv, HeadersKnown, In

\* A signal with a header that the clients of its queue send.
LEMMA Emitted ==
  ASSUME TypeInv, NEW q \in Queue, NEW h \in HeadersOf[q], Emit(q, h)
  PROVE  /\ events' \in Seq(Signal)
         /\ \A i \in DOMAIN events' : events'[i].header \in HeadersOf[events'[i].queue]
         /\ DOMAIN events = 1..Len(events) /\ Len(events) \in Nat
         /\ DOMAIN events' = 1..(Len(events) + 1)
         /\ \A i \in DOMAIN events : events'[i] = events[i]
         /\ events'[Len(events) + 1] = [queue |-> q, header |-> h]
<1>1. events \in Seq(Signal) /\ [queue |-> q, header |-> h] \in Signal
  BY WebAssumption DEF TypeInv, TypeOK, Signal
<1>2. events' = Append(events, [queue |-> q, header |-> h])
  BY DEF Emit
<1>3. /\ events' \in Seq(Signal)
      /\ DOMAIN events = 1..Len(events) /\ Len(events) \in Nat
      /\ DOMAIN events' = 1..(Len(events) + 1)
      /\ \A i \in DOMAIN events : events'[i] = events[i]
      /\ events'[Len(events) + 1] = [queue |-> q, header |-> h]
  BY <1>1, <1>2, AppendedSeq
<1>4. \A i \in DOMAIN events' : i \in DOMAIN events \/ i = Len(events) + 1
  BY <1>3
<1> QED
  BY <1>3, <1>4 DEF TypeInv, HeadersKnown

\* Where neither exchanges nor signals change, their headers are known.
LEMMA SameHeaders ==
  ASSUME TypeInv, events' = events, exchange' = exchange
  PROVE  HeadersKnown'
BY DEF TypeInv, HeadersKnown, In

\* The jobs that a call of a function makes.
LEMMA MadeJobs ==
  ASSUME NEW f \in Function, NEW q \in Queue \cup {None}, NEW j \in Made(f, q)
  PROVE  j \in Job /\ j.fn = f /\ j.from = q
BY DEF Made, Job

\* The update after a job adds at most that of AFTER_UPDATE_FORMS.
LEMMA UpdatedLine ==
  ASSUME NEW line \in Seq(Job), NEW k \in Trigger
  PROVE  /\ Updated(line, k) \in Seq(Job)
         /\ \/ Updated(line, k) = line
            \/ \E j \in Job : /\ j.fn = AfterUpdate /\ j.from = None
                              /\ Updated(line, k) = Append(line, j)
<1> DEFINE j == [fn |-> AfterUpdate, from |-> None, trigger |-> k]
<1>1. j \in Job /\ j.fn = AfterUpdate /\ j.from = None
  BY WebAssumption DEF Job
<1>2. Append(line, j) \in Seq(Job)
  BY <1>1, AppendedSeq
<1>3. Updated(line, k) = line \/ Updated(line, k) = Append(line, j)
  BY DEF Updated
<1> QED
  BY <1>1, <1>2, <1>3

\* A step of a client keeps the types.
LEMMA ClientTypes ==
  ASSUME TypeInv, NEW q \in Queue, Client(q)
  PROVE  TypeInv'
<1>1. ASSUME NEW h \in Header, SendRequest(q, h)
      PROVE  TypeInv'
  <2>1. /\ h \in HeadersOf[q] /\ UNCHANGED events
        /\ exchange' = [exchange EXCEPT ![q] = [phase |-> "sent", header |-> h, fits |-> TRUE]]
    BY <1>1 DEF SendRequest
  <2>2. [phase |-> "sent", header |-> h, fits |-> TRUE] \in Exchange
    BY DEF Exchange
  <2>3. /\ exchange' \in [Queue -> Exchange]
        /\ exchange'[q].header = h
        /\ \A r \in Queue \ {q} : exchange'[r] = exchange[r]
    BY <2>1, <2>2 DEF TypeInv, TypeOK
  <2>4. HeadersKnown'
    BY <2>1, <2>3 DEF TypeInv, HeadersKnown, In
  <2> QED
    BY <1>1, <2>3, <2>4 DEF SendRequest, TypeInv, TypeOK, threadVars, jobVars, guiVars
<1>2. ASSUME AnswerQuery(q)
      PROVE  TypeInv'
  <2>1. PICK x : /\ exchange' = [exchange EXCEPT ![q] = x]
                 /\ x \in Exchange /\ x.header \in HeadersOf[q]
    <3>1. PICK h \in HeadersOf[q], fits \in {TRUE} \cup {q \notin Interrupts} :
             exchange' = [exchange EXCEPT ![q] =
               [phase |-> "answered", header |-> IF fits THEN @.header ELSE h, fits |-> fits]]
      BY <1>2 DEF AnswerQuery
    <3> DEFINE y == [phase |-> "answered",
                     header |-> IF fits THEN exchange[q].header ELSE h, fits |-> fits]
    <3>2. exchange[q].header \in HeadersOf[q] /\ HeadersOf[q] \subseteq Header
      BY <1>2, WebAssumption DEF AnswerQuery, In, TypeInv, HeadersKnown
    <3>3. y \in Exchange /\ y.header \in HeadersOf[q]
      BY <3>1, <3>2 DEF Exchange
    <3>4. exchange' = [exchange EXCEPT ![q] = y]
      BY <3>1
    <3> QED
      BY <3>3, <3>4
  <2>2. /\ exchange' \in [Queue -> Exchange]
        /\ exchange'[q].header \in HeadersOf[q]
        /\ \A r \in Queue \ {q} : exchange'[r] = exchange[r]
    BY <2>1 DEF TypeInv, TypeOK
  <2>3. UNCHANGED events
    BY <1>2 DEF AnswerQuery
  <2>4. HeadersKnown'
    BY <2>2, <2>3 DEF TypeInv, HeadersKnown, In
  <2> QED
    BY <1>2, <2>2, <2>4 DEF AnswerQuery, TypeInv, TypeOK, threadVars, jobVars, guiVars
<1> QED
  BY <1>1, <1>2 DEF Client

\* A step of a reply thread keeps the types.
LEMMA ThreadTypes ==
  ASSUME TypeInv, NEW q \in Queue, ReplyThread(q)
  PROVE  TypeInv'
<1>0. ~In(q, "idle") => exchange[q].header \in HeadersOf[q]
  BY DEF TypeInv, HeadersKnown
<1>1. CASE Receive(q)
  <2>1. ~In(q, "idle") /\ Moved(q, "working") /\ Emit(q, exchange[q].header)
    BY <1>1 DEF Receive, In
  <2>2. /\ exchange' \in [Queue -> Exchange]
        /\ \A r \in Queue : ~In(r, "idle")' => exchange'[r].header \in HeadersOf[r]
    BY <2>1, MovedExchange
  <2>3. events' \in Seq(Signal)
        /\ \A i \in DOMAIN events' : events'[i].header \in HeadersOf[events'[i].queue]
    BY <1>0, <2>1, Emitted
  <2>4. status' \in [Queue -> Status]
    BY <1>1 DEF Receive, TypeInv, TypeOK, Status
  <2> QED
    BY <1>1, <2>2, <2>3, <2>4 DEF Receive, TypeInv, TypeOK, HeadersKnown, Signal, jobVars, guiVars
<1>2. CASE SendQuery(q)
  <2>1. ~In(q, "idle") /\ Moved(q, "asked")
    BY <1>2 DEF SendQuery, In
  <2>2. /\ exchange' \in [Queue -> Exchange]
        /\ \A r \in Queue : ~In(r, "idle")' => exchange'[r].header \in HeadersOf[r]
    BY <2>1, MovedExchange
  <2>3. status' \in [Queue -> Status]
    BY <1>2 DEF SendQuery, TypeInv, TypeOK, Status
  <2> QED
    BY <1>2, <2>2, <2>3 DEF SendQuery, TypeInv, TypeOK, HeadersKnown, jobVars, guiVars
<1>3. CASE ReceiveAnswer(q)
  <2>1. ~In(q, "idle") /\ Moved(q, "working")
        /\ (Emit(q, exchange[q].header) \/ UNCHANGED events)
    BY <1>3 DEF ReceiveAnswer, In
  <2>2. /\ exchange' \in [Queue -> Exchange]
        /\ \A r \in Queue : ~In(r, "idle")' => exchange'[r].header \in HeadersOf[r]
    BY <2>1, MovedExchange
  <2>3. events' \in Seq(Signal)
        /\ \A i \in DOMAIN events' : events'[i].header \in HeadersOf[events'[i].queue]
    <3>1. CASE Emit(q, exchange[q].header)
      BY <1>0, <2>1, <3>1, Emitted
    <3>2. CASE UNCHANGED events
      BY <3>2 DEF TypeInv, TypeOK, HeadersKnown, Signal
    <3> QED
      BY <2>1, <3>1, <3>2
  <2>4. status' \in [Queue -> Status]
    BY <1>3 DEF ReceiveAnswer, TypeInv, TypeOK, Status
  <2> QED
    BY <1>3, <2>2, <2>3, <2>4
    DEF ReceiveAnswer, TypeInv, TypeOK, HeadersKnown, Signal, jobVars, guiVars
<1>4. CASE WriteResponse(q)
  <2>1. ~In(q, "idle") /\ Moved(q, "writing")
    BY <1>4 DEF WriteResponse, In
  <2>2. /\ exchange' \in [Queue -> Exchange]
        /\ \A r \in Queue : ~In(r, "idle")' => exchange'[r].header \in HeadersOf[r]
    BY <2>1, MovedExchange
  <2> QED
    BY <1>4, <2>2 DEF WriteResponse, TypeInv, TypeOK, HeadersKnown, threadVars, jobVars, guiVars
<1>5. CASE SendResponse(q)
  <2> DEFINE x == [phase |-> "idle", header |-> streams[q], fits |-> TRUE]
  <2>1. exchange' = [exchange EXCEPT ![q] = x] /\ UNCHANGED events
    BY <1>5 DEF SendResponse
  <2>2. x \in Exchange /\ x.phase = "idle"
    BY DEF Exchange, TypeInv, TypeOK
  <2>3. /\ exchange' \in [Queue -> Exchange]
        /\ exchange'[q].phase = "idle"
        /\ \A r \in Queue \ {q} : exchange'[r] = exchange[r]
    BY <2>1, <2>2 DEF TypeInv, TypeOK
  <2>4. HeadersKnown'
    BY <2>1, <2>3 DEF TypeInv, HeadersKnown, In
  <2> QED
    BY <1>5, <2>3, <2>4 DEF SendResponse, TypeInv, TypeOK, threadVars, jobVars, guiVars
<1> QED
  BY <1>1, <1>2, <1>3, <1>4, <1>5 DEF ReplyThread

\* The signal that the GUI thread handles: its queue, header and function.
LEMMA HeadSignal ==
  ASSUME TypeInv, events # <<>>, NEW q, NEW h, q = Head(events).queue, h = Head(events).header
  PROVE  /\ q \in Queue /\ h \in HeadersOf[q] /\ h \in Header
         /\ FunctionOf[h] \in Function \cup {None} /\ FunctionOf[h] # AfterUpdate
         /\ events[1].queue = q /\ events[1].header = h /\ 1 \in DOMAIN events
<1>1. events \in Seq(Signal)
  BY DEF TypeInv, TypeOK, Signal
<1>2. events[1] \in Signal /\ Head(events) = events[1] /\ 1 \in DOMAIN events
  BY <1>1, TailedSeq
<1>3. q \in Queue /\ h \in Header /\ events[1].queue = q /\ events[1].header = h
  BY <1>2 DEF Signal
<1> QED
  BY <1>2, <1>3, WebAssumption DEF TypeInv, HeadersKnown

\* The delivery of a signal keeps the types.
LEMMA DeliverTypes ==
  ASSUME TypeInv, Deliver
  PROVE  TypeInv'
<1> DEFINE q == Head(events).queue
           h == Head(events).header
           f == FunctionOf[h]
<1>1. events # <<>> /\ events' = Tail(events)
      /\ UNCHANGED <<exchange, expected, registered, asking>>
      /\ data' = [data EXCEPT ![Item[h]] = q] /\ streams' = [streams EXCEPT ![q] = h]
      /\ thread' = ThreadsSet(q, f)
  BY DEF Deliver
<1>2. q \in Queue /\ h \in Header /\ f \in Function \cup {None}
  BY <1>1, HeadSignal
<1>3. \/ /\ f # None
         /\ \E j \in Made(f, q) : JQ!Submit(j)
         /\ wait' = TRUE
         /\ UNCHANGED <<status, aborts>>
      \/ /\ f = None
         /\ status' = [status EXCEPT ![q] = "RECEIVE_DONE"]
         /\ aborts' \in {aborts, aborts + 1}
         /\ \E k \in Trigger : waiting' = Updated(waiting, k)
         /\ wait' = (wait \/ waiting' # waiting)
         /\ UNCHANGED running
  BY DEF Deliver
<1> HIDE DEF q, h, f
<1>4. events' \in Seq(Signal)
      /\ \A i \in DOMAIN events' : events'[i].header \in HeadersOf[events'[i].queue]
  <2>1. events \in Seq(Signal)
    BY DEF TypeInv, TypeOK, Signal
  <2>2. /\ events' \in Seq(Signal)
        /\ \A i \in DOMAIN events' : i + 1 \in DOMAIN events /\ events'[i] = events[i + 1]
    BY <1>1, <2>1, TailedSeq
  <2> QED
    BY <2>2 DEF TypeInv, HeadersKnown
<1>5. /\ data' \in [{Item[k] : k \in Header} -> Queue \cup {None}]
      /\ streams' \in [Queue -> Header \cup {None}]
      /\ thread' \in [Function -> Queue \cup {None}]
  BY <1>1, <1>2 DEF TypeInv, TypeOK, ThreadsSet
<1>6. waiting' \in Seq(Job) /\ running' \in Job \cup {None} /\ wait' \in BOOLEAN
  <2>1. waiting \in Seq(Job) /\ running \in Job \cup {None} /\ wait \in BOOLEAN
    BY DEF TypeInv, TypeOK
  <2>2. CASE f # None
    <3>1. PICK j \in Made(f, q) : JQ!Submit(j)
      BY <1>3, <2>2
    <3>2. j \in Job
      BY <1>2, <2>2, MadeJobs
    <3>3. waiting' = Append(waiting, j) /\ UNCHANGED running
      BY <3>1 DEF JQ!Submit
    <3> QED
      BY <1>3, <2>1, <2>2, <3>2, <3>3, AppendedSeq
  <2>3. CASE f = None
    BY <1>3, <2>1, <2>3, UpdatedLine
  <2> QED
    BY <2>2, <2>3
<1>7. status' \in [Queue -> Status] /\ aborts' \in Nat
  BY <1>2, <1>3 DEF TypeInv, TypeOK, Status
<1>8. HeadersKnown'
  BY <1>1, <1>4 DEF TypeInv, HeadersKnown, In
<1> QED
  BY <1>1, <1>4, <1>5, <1>6, <1>7, <1>8 DEF TypeInv, TypeOK, Signal

\* epilog and endJobAction set the status and the registered thread only.
LEMMA EpilogTypes ==
  ASSUME TypeInv, running # None, NEW pending, Epilog(pending)
  PROVE  status' \in [Queue -> Status] /\ registered' \in Queue \cup {None}
<1>1. running \in Job /\ ThreadOf(running) \in Queue \cup {None}
  BY DEF TypeInv, TypeOK, ThreadOf, Job
<1> DEFINE due  == IF Registers(running.fn) THEN ThreadOf(running) ELSE registered
           sent == IF MaySend(running.fn, pending) THEN due ELSE None
<1>2. due \in Queue \cup {None}
  BY <1>1 DEF TypeInv, TypeOK
<1>3. registered' = IF sent = None THEN due ELSE None
  BY DEF Epilog
<1>4. status' = [q \in Queue |-> IF q = sent \/ (q = ThreadOf(running) /\ DoneAtOnce(running.fn))
                                 THEN "RECEIVE_DONE" ELSE status[q]]
  BY DEF Epilog
<1> HIDE DEF due, sent
<1>5. status' \in [Queue -> Status]
  BY <1>4 DEF TypeInv, TypeOK, Status
<1> QED
  BY <1>2, <1>3, <1>5

\* The failure of a function keeps the types.
LEMMA EndFailedTypes ==
  ASSUME TypeInv, EndFailed
  PROVE  /\ status' \in [Queue -> Status] /\ registered' \in Queue \cup {None}
         /\ waiting' \in Seq(Job) /\ running' \in Job \cup {None} /\ wait' \in BOOLEAN
<1>1. running # None /\ running' = None /\ waiting' = <<>> /\ wait' = FALSE /\ Epilog(0)
  BY DEF EndFailed, JQ!Fail
<1>2. <<>> \in Seq(Job)
  OBVIOUS
<1>3. status' \in [Queue -> Status] /\ registered' \in Queue \cup {None}
  BY <1>1, EpilogTypes
<1> QED
  BY <1>1, <1>2, <1>3

\* Every step of the GUI thread keeps the types.
LEMMA GuiTypes ==
  ASSUME TypeInv, GuiThread
  PROVE  TypeInv'
<1>0. waiting \in Seq(Job) /\ running \in Job \cup {None} /\ wait \in BOOLEAN
  BY DEF TypeInv, TypeOK
<1>1. CASE Deliver
  BY <1>1, DeliverTypes
<1>2. ASSUME NEW f \in Timed, TimerTick(f)
      PROVE  TypeInv'
  <2>1. PICK j \in Made(f, None) : JQ!Submit(j)
    BY <1>2 DEF TimerTick
  <2>2. j \in Job
    BY <2>1, WebAssumption, MadeJobs
  <2>3. waiting' \in Seq(Job) /\ running' = running
    BY <1>0, <2>1, <2>2, AppendedSeq DEF JQ!Submit
  <2>4. HeadersKnown'
    BY <1>2, SameHeaders DEF TimerTick
  <2> QED
    BY <1>2, <2>3, <2>4 DEF TimerTick, TypeInv, TypeOK, threadVars, guiVars
<1>3. CASE TryAgain
  <2>1. waiting' \in Seq(Job) /\ running' \in Job \cup {None} /\ wait' \in BOOLEAN
    <3>1. CASE JQ!Run /\ UNCHANGED wait
      <4>1. waiting # <<>> /\ running' = Head(waiting) /\ waiting' = Tail(waiting)
        BY <3>1 DEF JQ!Run
      <4> QED
        BY <1>0, <3>1, <4>1, TailedSeq
    <3>2. CASE wait' = FALSE /\ UNCHANGED <<waiting, running>>
      BY <1>0, <3>2
    <3> QED
      BY <1>3, <3>1, <3>2 DEF TryAgain
  <2>2. HeadersKnown'
    BY <1>3, SameHeaders DEF TryAgain
  <2> QED
    BY <1>3, <2>1, <2>2 DEF TryAgain, TypeInv, TypeOK, threadVars, guiVars
<1>4. CASE AskClient
  <2>1. HeadersKnown'
    BY <1>4, SameHeaders DEF AskClient
  <2>2. ThreadOf(running) \in Queue
    BY <1>0, <1>4 DEF AskClient, ThreadOf, TypeInv, TypeOK, Job
  <2>3. /\ status' \in [Queue -> Status]
        /\ asking' \in [queue : Queue \cup {None}, expects : BOOLEAN, told : BOOLEAN]
    BY <1>4, <2>2 DEF AskClient, TypeInv, TypeOK, Status
  <2> QED
    BY <1>4, <2>1, <2>3 DEF AskClient, TypeInv, TypeOK, jobVars
<1>5. CASE TellExpected
  <2>1. HeadersKnown'
    BY <1>5, SameHeaders DEF TellExpected
  <2>2. /\ expected' \in [Queue -> BOOLEAN]
        /\ asking' \in [queue : Queue \cup {None}, expects : BOOLEAN, told : BOOLEAN]
    BY <1>5 DEF TellExpected, TypeInv, TypeOK, Free
  <2> QED
    BY <1>5, <2>1, <2>2 DEF TellExpected, TypeInv, TypeOK, jobVars
<1>6. CASE QueryDone
  <2>1. HeadersKnown'
    BY <1>6, SameHeaders DEF QueryDone
  <2>2. asking' \in [queue : Queue \cup {None}, expects : BOOLEAN, told : BOOLEAN]
    BY <1>6 DEF QueryDone, NotAsking
  <2> QED
    BY <1>6, <2>1, <2>2 DEF QueryDone, TypeInv, TypeOK, threadVars, jobVars
<1>7. CASE EndOk
  <2>1. HeadersKnown'
    BY <1>7, SameHeaders DEF EndOk
  <2>2. status' \in [Queue -> Status] /\ registered' \in Queue \cup {None}
    BY <1>7, EpilogTypes DEF EndOk
  <2>3. PICK k \in Trigger :
          waiting' = IF running.fn \in UpdateForms THEN Updated(waiting, k) ELSE waiting
    BY <1>7 DEF EndOk
  <2>4. waiting' \in Seq(Job) /\ running' = None
    BY <1>0, <1>7, <2>3, UpdatedLine DEF EndOk, JQ!Finish
  <2> QED
    BY <1>7, <2>1, <2>2, <2>4 DEF EndOk, TypeInv, TypeOK
<1>8. CASE Abort
  <2>1. HeadersKnown'
    BY <1>8, SameHeaders DEF Abort
  <2> QED
    BY <1>8, <2>1, EndFailedTypes DEF Abort, TypeInv, TypeOK
<1>9. CASE AbortTimer
  <2>1. HeadersKnown'
    BY <1>9, SameHeaders DEF AbortTimer
  <2>2. /\ status' \in [Queue -> Status] /\ registered' \in Queue \cup {None}
        /\ waiting' \in Seq(Job) /\ running' \in Job \cup {None} /\ wait' \in BOOLEAN
    <3>1. CASE running # None
      BY <1>9, <3>1, EndFailedTypes DEF AbortTimer
    <3>2. CASE running = None
      BY <1>9, <3>2 DEF AbortTimer, jobVars, TypeInv, TypeOK
    <3> QED
      BY <3>1, <3>2
  <2>3. aborts' \in Nat
    BY <1>9 DEF AbortTimer, AbortDue, TypeInv, TypeOK
  <2> QED
    BY <1>9, <2>1, <2>2, <2>3 DEF AbortTimer, TypeInv, TypeOK
<1> QED
  BY <1>1, <1>2, <1>3, <1>4, <1>5, <1>6, <1>7, <1>8, <1>9 DEF GuiThread

\* The types at the start.
LEMMA InitTypes == Init => TypeInv
<1> SUFFICES ASSUME Init
             PROVE  TypeInv
  OBVIOUS
<1>1. /\ exchange \in [Queue -> Exchange] /\ status \in [Queue -> Status]
      /\ expected \in [Queue -> BOOLEAN] /\ streams \in [Queue -> Header \cup {None}]
      /\ thread \in [Function -> Queue \cup {None}]
      /\ data \in [{Item[h] : h \in Header} -> Queue \cup {None}]
  BY DEF Init, Exchange, Status
<1>2. events \in Seq([queue : Queue, header : Header]) /\ waiting \in Seq(Job)
  BY DEF Init
<1>3. asking \in [queue : Queue \cup {None}, expects : BOOLEAN, told : BOOLEAN]
  BY DEF Init, NotAsking
<1>4. TypeOK
  BY <1>1, <1>2, <1>3 DEF Init, TypeOK
<1>5. HeadersKnown
  BY DEF Init, HeadersKnown, In
<1> QED
  BY <1>4, <1>5 DEF TypeInv

\* Every step of WebReply keeps the types.
LEMMA NextTypes == TypeInv /\ [Next]_vars => TypeInv'
<1> SUFFICES ASSUME TypeInv, [Next]_vars
             PROVE  TypeInv'
  OBVIOUS
<1>1. CASE UNCHANGED vars
  <2>1. HeadersKnown'
    BY <1>1, SameHeaders DEF vars
  <2> QED
    BY <1>1, <2>1 DEF vars, TypeInv, TypeOK
<1>2. CASE Next
  BY <1>2, ThreadTypes, ClientTypes, GuiTypes DEF Next
<1> QED
  BY <1>1, <1>2

\* The variables keep their types: every status that a thread polls is one that
\* its code knows, and no query is for a queue that does not exist.
THEOREM WebReplyTypeCorrect == Spec => []TypeOK
<1>1. TypeInv => TypeOK
  BY DEF TypeInv
<1> QED
  BY <1>1, InitTypes, NextTypes, PTL DEF Spec

(*----------------------- queues with own functions -----------------------*)

\* The programs that MessageQueueReply.inc describes: no function is called by
\* the requests of two queues, one queue at most calls functions with a web
\* reply, timers do not call functions of requests, the function
\* AFTER_UPDATE_FORMS opens no dialog, and clients answer what they are asked.
OwnFunctions ==
  /\ Interrupts = {}
  /\ \A q, r \in Queue : \A h \in HeadersOf[q], k \in HeadersOf[r] :
       /\ FunctionOf[h] # None
       /\ FunctionOf[h] = FunctionOf[k] \/ {FunctionOf[h], FunctionOf[k]} \subseteq WebApi
       => q = r
  /\ \A q \in Queue : \A h \in HeadersOf[q] : FunctionOf[h] \notin Timed
  /\ AfterUpdate \notin Asks

\* A request is in one place only: while its signal is on the way nothing else
\* of its queue is, ...
AtSignal(q, h) ==
  /\ In(q, "working") /\ status[q] = "WORKING" /\ h = exchange[q].header
  /\ ~Queued(q) /\ ~Runs(q) /\ registered # q

SignalsApart ==
  /\ \A i, j \in DOMAIN events : events[i].queue = events[j].queue => i = j
  /\ \A i \in DOMAIN events : AtSignal(events[i].queue, events[i].header)

\* ... a job has the function of the header, which knows the thread, ...
RightJob(j) ==
  IF j.from = None THEN j.fn \in Timed \cup {AfterUpdate}
  ELSE j.fn = FunctionOf[exchange[j.from].header] /\ thread[j.fn] = j.from

InWork(q) == In(q, "working") /\ status[q] = "WORKING" /\ ~Runs(q) /\ registered # q

LineApart ==
  /\ \A i, j \in DOMAIN waiting :
       waiting[i].from = waiting[j].from /\ waiting[i].from # None => i = j
  /\ \A i \in DOMAIN waiting :
       RightJob(waiting[i]) /\ (waiting[i].from # None => InWork(waiting[i].from))

\* ... also while it runs and asks the client ...
Working(q) ==
  \/ In(q, "working") /\ status[q] \in {"WORKING", "SEND_QUERY", "WORKING_QUERY_DONE"}
  \/ (In(q, "asked") \/ In(q, "answered")) /\ status[q] = "WORKING_QUERY"

RunningKnown ==
  running # None =>
    /\ RightJob(running)
    /\ running.from # None => registered # running.from /\ Working(running.from)

\* ... and its result may be registered.
RegisteredKnown ==
  registered # None =>
    /\ In(registered, "working") /\ status[registered] \in {"WORKING", "WORKING_QUERY_DONE"}
    /\ FunctionOf[exchange[registered].header] \in WebApi

\* The query that the GUI thread waits for is that of the request that runs.
AskingKnown ==
  /\ asking.queue # None => Runs(asking.queue)
  /\ \A q \in Queue :
       status[q] = "SEND_QUERY" \/ In(q, "asked") \/ In(q, "answered") => asking.queue = q
  /\ \A q \in Queue : In(q, "answered") => exchange[q].fits

ThreadsKnown == \A f \in Timed : thread[f] = None

\* The response streams are those of the header that was received last.
StreamsKnown ==
  \A q \in Queue :
    ~In(q, "idle") /\ ~In(q, "sent") /\ ~Announced(q) => streams[q] = exchange[q].header

WebInv ==
  /\ TypeInv /\ SignalsApart /\ LineApart /\ RunningKnown
  /\ RegisteredKnown /\ AskingKnown /\ ThreadsKnown /\ StreamsKnown

(*------------------------------- phases ----------------------------------*)

\* The phase of a request by the place where it is.
LEMMA PhaseCases ==
  ASSUME NEW q \in Queue
  PROVE  /\ In(q, "idle") => Phase(q) = "idle"
         /\ In(q, "sent") => Phase(q) = "working"
         /\ In(q, "asked") \/ In(q, "answered") => Phase(q) = "asked"
         /\ In(q, "working") /\ Outstanding(q) => Phase(q) = "working"
         /\ In(q, "working") /\ ~Outstanding(q) =>
              Phase(q) = IF status[q] = "RECEIVE_DONE" THEN "done" ELSE "lost"
         /\ In(q, "writing") /\ ~Outstanding(q) => Phase(q) = "done"
<1> HIDE DEF Outstanding
<1> QED
  BY DEF Phase, In

\* The phase of a request by the place where it is, after the step.
LEMMA PhaseCasesNext ==
  ASSUME NEW q \in Queue
  PROVE  /\ In(q, "idle")' => Phase(q)' = "idle"
         /\ In(q, "sent")' => Phase(q)' = "working"
         /\ In(q, "asked")' \/ In(q, "answered")' => Phase(q)' = "asked"
         /\ In(q, "working")' /\ Outstanding(q)' => Phase(q)' = "working"
         /\ In(q, "working")' /\ ~Outstanding(q)' =>
              Phase(q)' = IF status'[q] = "RECEIVE_DONE" THEN "done" ELSE "lost"
         /\ In(q, "writing")' /\ ~Outstanding(q)' => Phase(q)' = "done"
<1> HIDE DEF Outstanding
<1> QED
  BY DEF Phase, In

\* The client of q sees nothing new.
SamePhase(q) == Phase(q)' = Phase(q) /\ exchange'[q].header = exchange[q].header

PhaseMoves(q, from, to) ==
  /\ Phase(q) = from /\ Phase(q)' = to
  /\ exchange'[q].header = exchange[q].header
  /\ \A r \in Queue \ {q} : SamePhase(r)

\* A request that stays where it is keeps its phase.
LEMMA PhaseStays ==
  ASSUME NEW q \in Queue, exchange'[q] = exchange[q],
         Outstanding(q)' <=> Outstanding(q),
         Outstanding(q) \/ status'[q] = status[q]
  PROVE  SamePhase(q)
<1> HIDE DEF Outstanding
<1> QED
  BY DEF SamePhase, Phase, In

\* Requests are of queues; jobs and signals too.
LEMMA TokenTypes ==
  ASSUME TypeInv
  PROVE  /\ \A i \in DOMAIN events : events[i].queue \in Queue /\ events[i].header \in Header
         /\ \A i \in DOMAIN waiting : waiting[i] \in Job /\ waiting[i].from \in Queue \cup {None}
                                      /\ waiting[i].fn \in Function
         /\ running # None => running \in Job /\ running.from \in Queue \cup {None}
                              /\ running.fn \in Function
         /\ registered \in Queue \cup {None} /\ None \notin Queue
<1>1. events \in Seq(Signal) /\ waiting \in Seq(Job)
  BY DEF TypeInv, TypeOK, Signal
<1>2. \A i \in DOMAIN events : events[i] \in Signal
  BY <1>1
<1>3. \A i \in DOMAIN waiting : waiting[i] \in Job
  BY <1>1
<1> QED
  BY <1>2, <1>3, WebAssumption DEF TypeInv, TypeOK, Signal, Job

\* A request that is answered or has not been received is in no place.
LEMMA NoRequest ==
  ASSUME WebInv, NEW q \in Queue,
         \/ In(q, "idle") \/ In(q, "sent") \/ In(q, "writing")
         \/ In(q, "working") /\ status[q] = "RECEIVE_DONE"
  PROVE  /\ ~Announced(q) /\ ~Queued(q) /\ ~Runs(q) /\ registered # q /\ ~Outstanding(q)
         /\ asking.queue # q /\ status[q] # "SEND_QUERY"
<1>1. ~(In(q, "working") /\ status[q] \in {"WORKING", "SEND_QUERY", "WORKING_QUERY_DONE"})
      /\ ~In(q, "asked") /\ ~In(q, "answered")
  BY DEF In
<1>2. ~Announced(q)
  BY <1>1 DEF WebInv, SignalsApart, AtSignal, Announced
<1>3. q # None
  BY WebAssumption
<1>4. ~Queued(q)
  BY <1>1, <1>3 DEF WebInv, LineApart, InWork, Queued
<1>5. ~Runs(q)
  BY <1>1, <1>3 DEF WebInv, RunningKnown, Working, Runs
<1>6. registered # q
  BY <1>1, <1>3 DEF WebInv, RegisteredKnown
<1>7. asking.queue # q /\ status[q] # "SEND_QUERY"
  BY <1>3, <1>5 DEF WebInv, AskingKnown
<1> QED
  BY <1>2, <1>4, <1>5, <1>6, <1>7 DEF Outstanding

\* A request whose function runs is in no other place.
LEMMA RunsOnly ==
  ASSUME WebInv, NEW q \in Queue, Runs(q)
  PROVE  /\ ~Announced(q) /\ ~Queued(q) /\ registered # q /\ Working(q)
         /\ running # None /\ running.from = q /\ RightJob(running)
<1>1. running # None /\ running.from = q /\ q # None
  BY WebAssumption DEF Runs
<1> QED
  BY <1>1 DEF WebInv, SignalsApart, AtSignal, LineApart, InWork, RunningKnown,
              Announced, Queued, Runs

\* The exchange or the status of one queue changes, whose request runs or is in
\* no place: the places of the other ones are as they were.
LEMMA OthersStay ==
  ASSUME WebInv, NEW q \in Queue, ~Announced(q), ~Queued(q), registered # q,
         UNCHANGED <<events, waiting, running, registered, thread>>,
         \A r \in Queue \ {q} : exchange'[r] = exchange[r] /\ status'[r] = status[r]
  PROVE  /\ SignalsApart' /\ LineApart' /\ RegisteredKnown' /\ ThreadsKnown'
         /\ \A r \in Queue : /\ Announced(r)' <=> Announced(r)
                             /\ Outstanding(r)' <=> Outstanding(r)
         /\ \A r \in Queue \ {q} : SamePhase(r)
<1>1. \A r \in Queue : /\ Announced(r)' <=> Announced(r)
                       /\ Queued(r)' <=> Queued(r)
                       /\ Runs(r)' <=> Runs(r)
  BY DEF Announced, Queued, Runs
<1>2. \A r \in Queue : Outstanding(r)' <=> Outstanding(r)
  BY <1>1 DEF Outstanding
<1>3. SignalsApart'
  <2>1. \A i \in DOMAIN events : events[i].queue \in Queue \ {q}
    BY TokenTypes DEF WebInv, Announced
  <2> QED
    BY <1>1, <2>1 DEF WebInv, SignalsApart, AtSignal, In
<1>4. LineApart'
  <2>1. \A i \in DOMAIN waiting : waiting[i].from \in (Queue \cup {None}) \ {q}
    BY TokenTypes DEF WebInv, Queued
  <2> QED
    BY <1>1, <2>1 DEF WebInv, LineApart, InWork, RightJob, In
<1>5. RegisteredKnown' /\ ThreadsKnown'
  BY TokenTypes DEF WebInv, RegisteredKnown, ThreadsKnown, In
<1>6. \A r \in Queue \ {q} : SamePhase(r)
  BY <1>2, PhaseStays
<1> QED
  BY <1>1, <1>2, <1>3, <1>4, <1>5, <1>6

\* A client sends a request.
LEMMA SendRequestKeeps ==
  ASSUME OwnFunctions, WebInv, TypeInv', NEW q \in Queue, NEW h \in Header, SendRequest(q, h)
  PROVE  /\ WebInv'
         /\ Phase(q) = "idle" /\ Phase(q)' = "working" /\ exchange'[q].header = h
         /\ \A r \in Queue \ {q} : SamePhase(r)
<1>1. /\ In(q, "idle")
      /\ exchange' = [exchange EXCEPT ![q] = [phase |-> "sent", header |-> h, fits |-> TRUE]]
      /\ UNCHANGED <<status, streams, events, waiting, running, thread, registered, asking>>
  BY DEF SendRequest, threadVars, jobVars, guiVars
<1>2. /\ exchange'[q].phase = "sent" /\ exchange'[q].header = h
      /\ \A r \in Queue \ {q} : exchange'[r] = exchange[r]
  BY <1>1 DEF WebInv, TypeInv, TypeOK
<1>3. /\ ~Announced(q) /\ ~Queued(q) /\ ~Runs(q) /\ registered # q
      /\ asking.queue # q /\ status[q] # "SEND_QUERY"
  BY <1>1, NoRequest
<1>4. /\ SignalsApart' /\ LineApart' /\ RegisteredKnown' /\ ThreadsKnown'
      /\ \A r \in Queue : Announced(r)' <=> Announced(r)
      /\ \A r \in Queue \ {q} : SamePhase(r)
  BY <1>1, <1>2, <1>3, OthersStay
<1>5. RunningKnown'
  BY <1>1, <1>2, <1>3, TokenTypes DEF WebInv, RunningKnown, RightJob, Working, Runs, In
<1>6. AskingKnown'
  BY <1>1, <1>2, <1>3 DEF WebInv, AskingKnown, Runs, In
<1>7. StreamsKnown'
  BY <1>1, <1>2, <1>4 DEF WebInv, StreamsKnown, In
<1>8. In(q, "sent")'
  BY <1>2 DEF In
<1> QED
  BY <1>1, <1>2, <1>4, <1>5, <1>6, <1>7, <1>8, PhaseCases, PhaseCasesNext DEF WebInv

\* A client answers a query.
LEMMA AnswerQueryKeeps ==
  ASSUME OwnFunctions, WebInv, TypeInv', NEW q \in Queue, AnswerQuery(q)
  PROVE  WebInv' /\ \A r \in Queue : SamePhase(r)
<1>1. /\ In(q, "asked")
      /\ exchange' = [exchange EXCEPT ![q] =
           [phase |-> "answered", header |-> exchange[q].header, fits |-> TRUE]]
      /\ UNCHANGED <<status, streams, events, waiting, running, thread, registered, asking>>
  <2>1. PICK h \in HeadersOf[q], fits \in {TRUE} \cup {q \notin Interrupts} :
           exchange' = [exchange EXCEPT ![q] =
             [phase |-> "answered", header |-> IF fits THEN @.header ELSE h, fits |-> fits]]
    BY DEF AnswerQuery
  <2>2. fits = TRUE
    BY DEF OwnFunctions
  <2> QED
    BY <2>1, <2>2 DEF AnswerQuery, threadVars, jobVars, guiVars
<1>2. /\ exchange'[q].phase = "answered" /\ exchange'[q].header = exchange[q].header
      /\ exchange'[q].fits
      /\ \A r \in Queue \ {q} : exchange'[r] = exchange[r]
  BY <1>1 DEF WebInv, TypeInv, TypeOK
<1>3. Runs(q)
  BY <1>1, WebAssumption DEF WebInv, AskingKnown
<1>4. ~Announced(q) /\ ~Queued(q) /\ registered # q /\ Working(q) /\ running.from = q
  BY <1>3, RunsOnly
<1>5. /\ SignalsApart' /\ LineApart' /\ RegisteredKnown' /\ ThreadsKnown'
      /\ \A r \in Queue : Announced(r)' <=> Announced(r)
      /\ \A r \in Queue \ {q} : SamePhase(r)
  BY <1>1, <1>2, <1>4, OthersStay
<1>6. RunningKnown'
  BY <1>1, <1>2, <1>4 DEF WebInv, RunningKnown, RightJob, Working, In
<1>7. AskingKnown'
  BY <1>1, <1>2 DEF WebInv, AskingKnown, Runs, In
<1>8. StreamsKnown'
  BY <1>1, <1>2, <1>5 DEF WebInv, StreamsKnown, In
<1>9. SamePhase(q)
  <2>1. In(q, "answered")'
    BY <1>2 DEF In
  <2> QED
    BY <1>1, <1>2, <2>1, PhaseCases, PhaseCasesNext DEF SamePhase
<1> QED
  BY <1>5, <1>6, <1>7, <1>8, <1>9 DEF WebInv

\* A thread receives a request and hands it over as a signal.
LEMMA ReceiveKeeps ==
  ASSUME OwnFunctions, WebInv, TypeInv', NEW q \in Queue, Receive(q)
  PROVE  WebInv' /\ \A r \in Queue : SamePhase(r)
<1> DEFINE n == Len(events) + 1
           h == exchange[q].header
<1>1. /\ In(q, "sent") /\ Moved(q, "working") /\ Emit(q, h)
      /\ status' = [status EXCEPT ![q] = "WORKING"]
      /\ UNCHANGED <<streams, waiting, running, thread, registered, asking>>
  BY DEF Receive, jobVars, guiVars
<1>2. ~In(q, "idle") /\ h \in HeadersOf[q]
  BY <1>1 DEF In, WebInv, TypeInv, HeadersKnown
<1>3. /\ exchange'[q].phase = "working" /\ exchange'[q].header = h
      /\ \A r \in Queue \ {q} : exchange'[r] = exchange[r]
  BY <1>1, <1>2, MovedExchange DEF WebInv
<1>4. /\ status'[q] = "WORKING" /\ \A r \in Queue \ {q} : status'[r] = status[r]
  BY <1>1 DEF WebInv, TypeInv, TypeOK
<1>5. /\ DOMAIN events = 1..Len(events) /\ Len(events) \in Nat
      /\ DOMAIN events' = 1..n
      /\ \A i \in DOMAIN events : events'[i] = events[i]
      /\ events'[n].queue = q /\ events'[n].header = h
  <2> HIDE DEF h
  <2>1. TypeInv
    BY DEF WebInv
  <2>2. /\ DOMAIN events = 1..Len(events) /\ Len(events) \in Nat
        /\ DOMAIN events' = 1..(Len(events) + 1)
        /\ \A i \in DOMAIN events : events'[i] = events[i]
        /\ events'[Len(events) + 1] = [queue |-> q, header |-> h]
    BY <1>1, <1>2, <2>1, Emitted
  <2> QED
    BY <2>2
<1>6. n \in DOMAIN events' /\ DOMAIN events' = DOMAIN events \cup {n} /\ n \notin DOMAIN events
  BY <1>5
<1> HIDE DEF n, h
<1>7. /\ ~Announced(q) /\ ~Queued(q) /\ ~Runs(q) /\ registered # q
      /\ asking.queue # q /\ status[q] # "SEND_QUERY"
  BY <1>1, NoRequest
<1>8. \A r \in Queue : /\ Announced(r)' <=> Announced(r) \/ r = q
                       /\ Queued(r)' <=> Queued(r)
                       /\ Runs(r)' <=> Runs(r)
  <2>1. \A r \in Queue : Announced(r)' <=> Announced(r) \/ r = q
    BY <1>5, <1>6 DEF Announced
  <2> QED
    BY <1>1, <2>1 DEF Queued, Runs
<1>9. SignalsApart'
  <2>1. \A i \in DOMAIN events : events[i].queue \in Queue \ {q}
    BY <1>7, TokenTypes DEF WebInv, Announced
  <2>2. \A i, j \in DOMAIN events' : events'[i].queue = events'[j].queue => i = j
    BY <1>5, <1>6, <2>1 DEF WebInv, SignalsApart
  <2>3. ASSUME NEW i \in DOMAIN events'
        PROVE  AtSignal(events[i].queue, events[i].header)'
    <3>1. CASE i = n
      BY <1>1, <1>3, <1>4, <1>5, <1>7, <1>8, <3>1 DEF AtSignal, In
    <3>2. CASE i \in DOMAIN events
      BY <1>1, <1>3, <1>4, <1>5, <1>8, <2>1, <3>2 DEF WebInv, SignalsApart, AtSignal, In
    <3> QED
      BY <1>6, <3>1, <3>2
  <2> QED
    BY <2>2, <2>3 DEF SignalsApart
<1>10. LineApart'
  <2>1. \A i \in DOMAIN waiting : waiting[i].from \in (Queue \cup {None}) \ {q}
    BY <1>7, TokenTypes DEF WebInv, Queued
  <2> QED
    BY <1>1, <1>3, <1>4, <1>8, <2>1 DEF WebInv, LineApart, InWork, RightJob, In
<1>11. RunningKnown' /\ RegisteredKnown' /\ ThreadsKnown'
  BY <1>1, <1>3, <1>4, <1>7, TokenTypes
  DEF WebInv, RunningKnown, RegisteredKnown, ThreadsKnown, RightJob, Working, Runs, In
<1>12. AskingKnown'
  BY <1>1, <1>3, <1>4, <1>7 DEF WebInv, AskingKnown, Runs, In
<1>13. StreamsKnown'
  BY <1>1, <1>3, <1>8 DEF WebInv, StreamsKnown, In
<1>14. SamePhase(q)
  <2>1. In(q, "working")' /\ Outstanding(q)'
    BY <1>3, <1>8 DEF In, Outstanding
  <2> QED
    BY <1>1, <1>3, <2>1, PhaseCases, PhaseCasesNext DEF SamePhase, h
<1>15. \A r \in Queue \ {q} : SamePhase(r)
  <2>1. \A r \in Queue \ {q} : Outstanding(r)' <=> Outstanding(r)
    BY <1>1, <1>8 DEF Outstanding
  <2> QED
    BY <1>3, <1>4, <2>1, PhaseStays
<1> QED
  BY <1>9, <1>10, <1>11, <1>12, <1>13, <1>14, <1>15 DEF WebInv

\* A thread sends a query to its client.
LEMMA SendQueryKeeps ==
  ASSUME OwnFunctions, WebInv, TypeInv', NEW q \in Queue, SendQuery(q)
  PROVE  WebInv' /\ PhaseMoves(q, "working", "asked")
<1>1. /\ In(q, "working") /\ status[q] = "SEND_QUERY" /\ Moved(q, "asked")
      /\ status' = [status EXCEPT ![q] = "WORKING_QUERY"]
      /\ UNCHANGED <<streams, events, waiting, running, thread, registered, asking>>
  BY DEF SendQuery, jobVars, guiVars
<1>2. ~In(q, "idle")
  BY <1>1 DEF In
<1>3. /\ exchange'[q].phase = "asked" /\ exchange'[q].header = exchange[q].header
      /\ \A r \in Queue \ {q} : exchange'[r] = exchange[r]
      /\ status'[q] = "WORKING_QUERY" /\ \A r \in Queue \ {q} : status'[r] = status[r]
  BY <1>1, <1>2, MovedExchange DEF WebInv, TypeInv, TypeOK
<1>4. asking.queue = q /\ Runs(q)
  BY <1>1, WebAssumption DEF WebInv, AskingKnown
<1>5. ~Announced(q) /\ ~Queued(q) /\ registered # q /\ running.from = q
  BY <1>4, RunsOnly
<1>6. /\ SignalsApart' /\ LineApart' /\ RegisteredKnown' /\ ThreadsKnown'
      /\ \A r \in Queue : Announced(r)' <=> Announced(r)
      /\ \A r \in Queue \ {q} : SamePhase(r)
  BY <1>1, <1>3, <1>5, OthersStay
<1>7. RunningKnown'
  BY <1>1, <1>3, <1>5 DEF WebInv, RunningKnown, RightJob, Working, In
<1>8. AskingKnown'
  BY <1>1, <1>3, <1>4 DEF WebInv, AskingKnown, Runs, In
<1>9. StreamsKnown'
  BY <1>1, <1>3, <1>6 DEF WebInv, StreamsKnown, In
<1>10. Outstanding(q) /\ In(q, "asked")'
  BY <1>3, <1>4 DEF Outstanding, In
<1> QED
  BY <1>1, <1>3, <1>6, <1>7, <1>8, <1>9, <1>10, PhaseCases, PhaseCasesNext DEF WebInv, PhaseMoves

\* A thread receives the answer to its query.
LEMMA ReceiveAnswerKeeps ==
  ASSUME OwnFunctions, WebInv, TypeInv', NEW q \in Queue, ReceiveAnswer(q)
  PROVE  WebInv' /\ PhaseMoves(q, "asked", "working")
<1>1. exchange[q].fits
  BY DEF ReceiveAnswer, WebInv, AskingKnown
<1>2. /\ In(q, "answered") /\ Moved(q, "working")
      /\ status' = [status EXCEPT ![q] = "WORKING_QUERY_DONE"]
      /\ UNCHANGED <<streams, events, waiting, running, thread, registered, asking>>
  BY <1>1 DEF ReceiveAnswer, jobVars, guiVars
<1>3. ~In(q, "idle")
  BY <1>2 DEF In
<1>4. /\ exchange'[q].phase = "working" /\ exchange'[q].header = exchange[q].header
      /\ \A r \in Queue \ {q} : exchange'[r] = exchange[r]
      /\ status'[q] = "WORKING_QUERY_DONE" /\ \A r \in Queue \ {q} : status'[r] = status[r]
  BY <1>2, <1>3, MovedExchange DEF WebInv, TypeInv, TypeOK
<1>5. asking.queue = q /\ Runs(q)
  BY <1>2, WebAssumption DEF WebInv, AskingKnown
<1>6. ~Announced(q) /\ ~Queued(q) /\ registered # q /\ running.from = q
  BY <1>5, RunsOnly
<1>7. /\ SignalsApart' /\ LineApart' /\ RegisteredKnown' /\ ThreadsKnown'
      /\ \A r \in Queue : /\ Announced(r)' <=> Announced(r)
                          /\ Outstanding(r)' <=> Outstanding(r)
      /\ \A r \in Queue \ {q} : SamePhase(r)
  BY <1>2, <1>4, <1>6, OthersStay
<1>8. RunningKnown'
  BY <1>2, <1>4, <1>6 DEF WebInv, RunningKnown, RightJob, Working, In
<1>9. AskingKnown'
  BY <1>2, <1>4, <1>5 DEF WebInv, AskingKnown, Runs, In
<1>10. StreamsKnown'
  BY <1>2, <1>4, <1>7 DEF WebInv, StreamsKnown, In
<1>11. Outstanding(q)' /\ In(q, "working")'
  <2>1. Outstanding(q)
    BY <1>5 DEF Outstanding
  <2> QED
    BY <1>4, <1>7, <2>1 DEF In
<1> QED
  BY <1>2, <1>4, <1>7, <1>8, <1>9, <1>10, <1>11, PhaseCases, PhaseCasesNext DEF WebInv, PhaseMoves

\* A thread writes the response.
LEMMA WriteResponseKeeps ==
  ASSUME OwnFunctions, WebInv, TypeInv', NEW q \in Queue, WriteResponse(q)
  PROVE  WebInv' /\ \A r \in Queue : SamePhase(r)
<1>1. /\ In(q, "working") /\ status[q] = "RECEIVE_DONE" /\ Moved(q, "writing")
      /\ UNCHANGED <<status, streams, events, waiting, running, thread, registered, asking>>
  BY DEF WriteResponse, threadVars, jobVars, guiVars
<1>2. ~In(q, "idle") /\ ~In(q, "sent")
  BY <1>1 DEF In
<1>3. /\ exchange'[q].phase = "writing" /\ exchange'[q].header = exchange[q].header
      /\ \A r \in Queue \ {q} : exchange'[r] = exchange[r]
  BY <1>1, <1>2, MovedExchange DEF WebInv
<1>4. /\ ~Announced(q) /\ ~Queued(q) /\ ~Runs(q) /\ registered # q /\ ~Outstanding(q)
      /\ asking.queue # q
  BY <1>1, NoRequest
<1>5. /\ SignalsApart' /\ LineApart' /\ RegisteredKnown' /\ ThreadsKnown'
      /\ \A r \in Queue : /\ Announced(r)' <=> Announced(r)
                          /\ Outstanding(r)' <=> Outstanding(r)
      /\ \A r \in Queue \ {q} : SamePhase(r)
  BY <1>1, <1>3, <1>4, OthersStay
<1>6. RunningKnown'
  BY <1>1, <1>3, <1>4, TokenTypes DEF WebInv, RunningKnown, RightJob, Working, Runs, In
<1>7. AskingKnown'
  BY <1>1, <1>3, <1>4 DEF WebInv, AskingKnown, Runs, In
<1>8. StreamsKnown'
  BY <1>1, <1>2, <1>3, <1>5 DEF WebInv, StreamsKnown, In
<1>9. SamePhase(q)
  <2>1. In(q, "writing")'
    BY <1>3 DEF In
  <2> QED
    BY <1>1, <1>3, <1>4, <1>5, <2>1, PhaseCases, PhaseCasesNext DEF SamePhase
<1> QED
  BY <1>5, <1>6, <1>7, <1>8, <1>9 DEF WebInv

\* A thread sends the response, and the exchange is over.
LEMMA SendResponseKeeps ==
  ASSUME OwnFunctions, WebInv, TypeInv', NEW q \in Queue, SendResponse(q)
  PROVE  WebInv' /\ PhaseMoves(q, "done", "idle")
<1>1. /\ In(q, "writing")
      /\ exchange' = [exchange EXCEPT ![q] =
           [phase |-> "idle", header |-> streams[q], fits |-> TRUE]]
      /\ UNCHANGED <<status, streams, events, waiting, running, thread, registered, asking>>
  BY DEF SendResponse, threadVars, jobVars, guiVars
<1>2. /\ ~Announced(q) /\ ~Queued(q) /\ ~Runs(q) /\ registered # q /\ ~Outstanding(q)
      /\ asking.queue # q /\ status[q] # "SEND_QUERY"
  BY <1>1, NoRequest
<1>3. streams[q] = exchange[q].header
  BY <1>1, <1>2 DEF WebInv, StreamsKnown, In
<1>4. /\ exchange'[q].phase = "idle" /\ exchange'[q].header = exchange[q].header
      /\ \A r \in Queue \ {q} : exchange'[r] = exchange[r]
  BY <1>1, <1>3 DEF WebInv, TypeInv, TypeOK
<1>5. /\ SignalsApart' /\ LineApart' /\ RegisteredKnown' /\ ThreadsKnown'
      /\ \A r \in Queue : Announced(r)' <=> Announced(r)
      /\ \A r \in Queue \ {q} : SamePhase(r)
  BY <1>1, <1>2, <1>4, OthersStay
<1>6. RunningKnown'
  BY <1>1, <1>2, <1>4, TokenTypes DEF WebInv, RunningKnown, RightJob, Working, Runs, In
<1>7. AskingKnown'
  BY <1>1, <1>2, <1>4 DEF WebInv, AskingKnown, Runs, In
<1>8. StreamsKnown'
  BY <1>1, <1>4, <1>5 DEF WebInv, StreamsKnown, In
<1>9. In(q, "idle")'
  BY <1>4 DEF In
<1> QED
  BY <1>1, <1>2, <1>4, <1>5, <1>6, <1>7, <1>8, <1>9, PhaseCases, PhaseCasesNext
  DEF WebInv, PhaseMoves

(*------------------------------ GUI thread -------------------------------*)

\* The thread of a job is the queue that its request came from, and a job of
\* no request has none unless it is AFTER_UPDATE_FORMS.
LEMMA ThreadOfJob ==
  ASSUME WebInv, running # None
  PROVE  /\ running.from # None => /\ ThreadOf(running) = running.from
                                   /\ running.from \in Queue
                                   /\ running.fn = FunctionOf[exchange[running.from].header]
                                   /\ running.fn # AfterUpdate
         /\ running.from = None =>
              \/ running.fn = AfterUpdate
              \/ running.fn \in Timed /\ ThreadOf(running) = None
<1>1. RightJob(running) /\ (running.from # None => Working(running.from))
  BY DEF WebInv, RunningKnown
<1>2. running.from \in Queue \cup {None} /\ None \notin Queue
  BY TokenTypes DEF WebInv
<1>3. ASSUME running.from # None
      PROVE  /\ ThreadOf(running) = running.from /\ running.from \in Queue
             /\ running.fn = FunctionOf[exchange[running.from].header]
             /\ running.fn # AfterUpdate
  <2>1. running.fn = FunctionOf[exchange[running.from].header]
        /\ thread[running.fn] = running.from
    BY <1>1, <1>3 DEF RightJob
  <2>2. exchange[running.from].header \in Header
    <3>1. ~In(running.from, "idle")
      BY <1>1, <1>3 DEF Working, In
    <3> QED
      BY <1>2, <1>3, <3>1, WebAssumption DEF WebInv, TypeInv, HeadersKnown
  <2>3. FunctionOf[exchange[running.from].header] # None
    BY <1>2, <2>1, TokenTypes, WebAssumption DEF WebInv
  <2> QED
    BY <1>2, <1>3, <2>1, <2>2, <2>3, WebAssumption DEF ThreadOf
<1>4. ASSUME running.from = None, running.fn # AfterUpdate
      PROVE  running.fn \in Timed /\ ThreadOf(running) = None
  BY <1>1, <1>4 DEF RightJob, ThreadOf, WebInv, ThreadsKnown
<1> QED
  BY <1>3, <1>4

\* The running function asks its client.
LEMMA AskClientKeeps ==
  ASSUME OwnFunctions, WebInv, TypeInv', AskClient
  PROVE  WebInv' /\ \A r \in Queue : SamePhase(r)
<1> DEFINE q == ThreadOf(running)
<1>1. /\ Free /\ running # None /\ running.fn \in Asks /\ q # None
      /\ status' = [status EXCEPT ![q] = "SEND_QUERY"]
      /\ asking'.queue = q
      /\ UNCHANGED <<exchange, streams, events, waiting, running, thread, registered>>
  BY DEF AskClient, jobVars
<1>2. running.from = q /\ q \in Queue
  BY <1>1, ThreadOfJob, WebAssumption DEF OwnFunctions
<1> HIDE DEF q
<1>3. Runs(q) /\ Outstanding(q)
  BY <1>1, <1>2 DEF Runs, Outstanding
<1>4. ~Announced(q) /\ ~Queued(q) /\ registered # q /\ Working(q) /\ RightJob(running)
  BY <1>2, <1>3, RunsOnly
<1>5. asking.queue = None
  BY <1>1 DEF Free
<1>6. ~In(q, "asked") /\ ~In(q, "answered")
  BY <1>2, <1>5, WebAssumption DEF WebInv, AskingKnown
<1>7. In(q, "working")
  BY <1>4, <1>6 DEF Working
<1>8. status'[q] = "SEND_QUERY" /\ \A r \in Queue \ {q} : status'[r] = status[r]
  BY <1>1, <1>2 DEF WebInv, TypeInv, TypeOK
<1>9. /\ SignalsApart' /\ LineApart' /\ RegisteredKnown' /\ ThreadsKnown'
      /\ \A r \in Queue : /\ Announced(r)' <=> Announced(r)
                          /\ Outstanding(r)' <=> Outstanding(r)
      /\ \A r \in Queue \ {q} : SamePhase(r)
  BY <1>1, <1>2, <1>4, <1>8, OthersStay
<1>10. RunningKnown'
  BY <1>1, <1>2, <1>4, <1>7, <1>8 DEF RunningKnown, RightJob, Working, In
<1>11. AskingKnown'
  <2>1. \A r \in Queue : status'[r] = "SEND_QUERY" => r = q
    BY <1>5, <1>8, WebAssumption DEF WebInv, AskingKnown
  <2>2. \A r \in Queue : ~In(r, "asked")' /\ ~In(r, "answered")'
    BY <1>1, <1>5, WebAssumption DEF WebInv, AskingKnown, In
  <2> QED
    BY <1>1, <1>3, <2>1, <2>2 DEF AskingKnown, Runs
<1>12. StreamsKnown'
  BY <1>1, <1>9 DEF WebInv, StreamsKnown, In
<1>13. SamePhase(q)
  BY <1>1, <1>2, <1>3, <1>9, PhaseStays
<1> QED
  BY <1>9, <1>10, <1>11, <1>12, <1>13 DEF WebInv

\* Steps that leave every request where it is.
LEMMA AllStay ==
  ASSUME WebInv, UNCHANGED <<exchange, status, streams, events, waiting, running, registered,
                             thread>>
  PROVE  /\ SignalsApart' /\ LineApart' /\ RunningKnown' /\ RegisteredKnown'
         /\ ThreadsKnown' /\ StreamsKnown'
         /\ \A r \in Queue : SamePhase(r) /\ (Runs(r)' <=> Runs(r))
<1>1. \A r \in Queue : /\ Announced(r)' <=> Announced(r)
                       /\ Queued(r)' <=> Queued(r)
                       /\ Runs(r)' <=> Runs(r)
  BY DEF Announced, Queued, Runs
<1>2. SignalsApart'
  BY DEF WebInv, SignalsApart, AtSignal, In, Queued, Runs
<1>3. LineApart'
  BY DEF WebInv, LineApart, InWork, RightJob, In, Runs
<1>4. RunningKnown' /\ RegisteredKnown' /\ ThreadsKnown'
  BY DEF WebInv, RunningKnown, RegisteredKnown, ThreadsKnown, RightJob, Working, In
<1>5. StreamsKnown'
  BY <1>1 DEF WebInv, StreamsKnown, In
<1>6. \A r \in Queue : SamePhase(r)
  BY <1>1, PhaseStays DEF Outstanding
<1> QED
  BY <1>1, <1>2, <1>3, <1>4, <1>5, <1>6

\* doQuery tells the thread what answer it expects.
LEMMA TellExpectedKeeps ==
  ASSUME OwnFunctions, WebInv, TypeInv', TellExpected
  PROVE  WebInv' /\ \A r \in Queue : SamePhase(r)
<1>1. /\ UNCHANGED <<exchange, status, streams, events, waiting, running, registered, thread>>
      /\ asking' = [asking EXCEPT !.told = TRUE]
  BY DEF TellExpected, jobVars
<1>2. asking'.queue = asking.queue
  BY <1>1 DEF WebInv, TypeInv, TypeOK
<1>3. AskingKnown'
  BY <1>1, <1>2 DEF WebInv, AskingKnown, Runs, In
<1> QED
  BY <1>1, <1>3, AllStay DEF WebInv

\* doQuery finds the answer, and the function goes on.
LEMMA QueryDoneKeeps ==
  ASSUME OwnFunctions, WebInv, TypeInv', QueryDone
  PROVE  WebInv' /\ \A r \in Queue : SamePhase(r)
<1>1. /\ UNCHANGED <<exchange, status, streams, events, waiting, running, registered, thread>>
      /\ asking.queue # None /\ status[asking.queue] = "WORKING_QUERY_DONE"
      /\ asking'.queue = None
  BY DEF QueryDone, jobVars, threadVars, NotAsking, Free
<1>2. asking.queue \in Queue /\ Runs(asking.queue)
  BY <1>1 DEF WebInv, TypeInv, TypeOK, AskingKnown
<1>3. Working(asking.queue)
  BY <1>2, RunsOnly
<1>4. \A q \in Queue : status[q] # "SEND_QUERY" /\ ~In(q, "asked") /\ ~In(q, "answered")
  BY <1>1, <1>3 DEF WebInv, AskingKnown, Working, In
<1>5. AskingKnown'
  BY <1>1, <1>4 DEF AskingKnown, In
<1> QED
  BY <1>1, <1>5, AllStay DEF WebInv

\* The line gets a job of no request.
LEMMA LineGrows ==
  ASSUME WebInv, NEW j \in Job, j.from = None, j.fn \in Timed \cup {AfterUpdate},
         waiting' = Append(waiting, j),
         \A i \in DOMAIN waiting : RightJob(waiting[i])'
                                   /\ (waiting[i].from # None => InWork(waiting[i].from)')
  PROVE  LineApart' /\ \A q \in Queue : Queued(q)' <=> Queued(q)
<1>1. waiting \in Seq(Job)
  BY DEF WebInv, TypeInv, TypeOK
<1> DEFINE n == Len(waiting) + 1
<1>2. /\ DOMAIN waiting' = DOMAIN waiting \cup {n}
      /\ \A i \in DOMAIN waiting : waiting'[i] = waiting[i]
      /\ waiting'[n] = j
  BY <1>1, AppendedSeq
<1> HIDE DEF n
<1>3. \A q \in Queue : Queued(q)' <=> Queued(q)
  BY <1>2, WebAssumption DEF Queued
<1>4. \A i, k \in DOMAIN waiting' :
        waiting'[i].from = waiting'[k].from /\ waiting'[i].from # None => i = k
  BY <1>2 DEF WebInv, LineApart
<1>5. RightJob(j)'
  BY DEF RightJob
<1>6. ASSUME NEW i \in DOMAIN waiting'
      PROVE  RightJob(waiting[i])' /\ (waiting'[i].from # None => InWork(waiting[i].from)')
  <2>1. CASE i = n
    BY <1>2, <1>5, <2>1 DEF RightJob
  <2>2. CASE i \in DOMAIN waiting
    BY <1>2, <2>2 DEF RightJob, InWork, In, Runs
  <2> QED
    BY <1>2, <2>1, <2>2
<1> QED
  BY <1>3, <1>4, <1>6 DEF LineApart

\* A timer of the application submits its function.
LEMMA TimerTickKeeps ==
  ASSUME OwnFunctions, WebInv, TypeInv', NEW f \in Timed, TimerTick(f)
  PROVE  WebInv' /\ \A r \in Queue : SamePhase(r)
<1>1. /\ UNCHANGED <<exchange, status, streams, events, registered, thread, asking>>
      /\ \E j \in Made(f, None) : JQ!Submit(j)
  BY DEF TimerTick, threadVars, guiVars
<1>2. PICK j \in Made(f, None) : JQ!Submit(j)
  BY <1>1
<1>3. j \in Job /\ j.fn = f /\ j.from = None
  BY <1>2, WebAssumption, MadeJobs
<1>4. waiting' = Append(waiting, j) /\ running' = running
  BY <1>2 DEF JQ!Submit
<1>5. LineApart' /\ \A q \in Queue : Queued(q)' <=> Queued(q)
  BY <1>1, <1>3, <1>4, LineGrows DEF WebInv, LineApart, InWork, RightJob, In, Runs
<1>6. \A q \in Queue : /\ Announced(q)' <=> Announced(q)
                       /\ Runs(q)' <=> Runs(q)
  BY <1>1, <1>4 DEF Announced, Runs
<1>7. SignalsApart'
  BY <1>1, <1>5, <1>6, TokenTypes DEF WebInv, SignalsApart, AtSignal, In
<1>8. RunningKnown' /\ RegisteredKnown' /\ ThreadsKnown'
  BY <1>1, <1>4
  DEF WebInv, RunningKnown, RegisteredKnown, ThreadsKnown, RightJob, Working, In
<1>9. AskingKnown' /\ StreamsKnown'
  BY <1>1, <1>4, <1>6 DEF WebInv, AskingKnown, StreamsKnown, Runs, In
<1>10. \A r \in Queue : SamePhase(r)
  BY <1>1, <1>5, <1>6, PhaseStays DEF Outstanding
<1> QED
  BY <1>5, <1>7, <1>8, <1>9, <1>10 DEF WebInv

\* The timer of a starter takes the next job from the queue.
LEMMA TryAgainKeeps ==
  ASSUME OwnFunctions, WebInv, TypeInv', TryAgain
  PROVE  WebInv' /\ \A r \in Queue : SamePhase(r)
<1>1. UNCHANGED <<exchange, status, streams, events, registered, thread, asking>>
  BY DEF TryAgain, threadVars, guiVars
<1>2. CASE UNCHANGED <<waiting, running>>
  <2>1. AskingKnown'
    BY <1>1, <1>2 DEF WebInv, AskingKnown, Runs, In
  <2> QED
    BY <1>1, <1>2, <2>1, AllStay DEF WebInv
<1>3. CASE JQ!Run
  <2> DEFINE j == Head(waiting)
  <2>1. /\ running = None /\ waiting # <<>>
        /\ running' = j /\ waiting' = Tail(waiting)
    BY <1>3 DEF JQ!Run
  <2>2. waiting \in Seq(Job)
    BY DEF WebInv, TypeInv, TypeOK
  <2>3. /\ j \in Job /\ j = waiting[1] /\ 1 \in DOMAIN waiting
        /\ \A i \in DOMAIN waiting' : /\ i + 1 \in DOMAIN waiting /\ i + 1 # 1
                                      /\ waiting'[i] = waiting[i + 1]
        /\ \A i \in DOMAIN waiting : i # 1 => /\ i - 1 \in DOMAIN waiting'
                                              /\ waiting'[i - 1] = waiting[i]
        /\ DOMAIN waiting = 1..Len(waiting) /\ DOMAIN waiting' = 1..(Len(waiting) - 1)
        /\ Len(waiting) \in Nat
    BY <2>1, <2>2, TailedSeq
  <2> HIDE DEF j
  <2>4. \A q \in Queue : ~Runs(q)
    BY <2>1 DEF Runs
  <2>5. RightJob(j) /\ (j.from # None => InWork(j.from))
    BY <2>3 DEF WebInv, LineApart
  <2>6. \A i \in DOMAIN waiting' : waiting'[i].from = j.from => j.from = None
    BY <2>3 DEF WebInv, LineApart
  <2>7. \A q \in Queue : Runs(q)' <=> j.from = q
    BY <2>1, <2>3, WebAssumption DEF Runs
  <2>8. \A q \in Queue : Queued(q) <=> Queued(q)' \/ Runs(q)'
    <3>1. ASSUME NEW q \in Queue, Queued(q)
          PROVE  Queued(q)' \/ Runs(q)'
      <4>1. PICK i \in DOMAIN waiting : waiting[i].from = q
        BY <3>1 DEF Queued
      <4>2. CASE i = 1
        BY <2>3, <2>7, <4>1, <4>2
      <4>3. CASE i # 1
        BY <2>3, <4>1, <4>3 DEF Queued
      <4> QED
        BY <4>2, <4>3
    <3>2. ASSUME NEW q \in Queue, Queued(q)'
          PROVE  Queued(q)
      BY <2>3, <3>2 DEF Queued
    <3>3. ASSUME NEW q \in Queue, Runs(q)'
          PROVE  Queued(q)
      BY <2>3, <2>7, <3>3 DEF Queued
    <3> QED
      BY <3>1, <3>2, <3>3
  <2>9. SignalsApart'
    BY <1>1, <2>4, <2>8, TokenTypes DEF WebInv, SignalsApart, AtSignal, In
  <2>10. LineApart'
    <3>1. \A i, k \in DOMAIN waiting' :
            waiting'[i].from = waiting'[k].from /\ waiting'[i].from # None => i = k
      <4>1. \A i, k \in DOMAIN waiting' : i + 1 = k + 1 => i = k
        BY <2>3
      <4> QED
        BY <2>3, <4>1 DEF WebInv, LineApart
    <3>2. ASSUME NEW i \in DOMAIN waiting'
          PROVE  RightJob(waiting[i])' /\ (waiting'[i].from # None => InWork(waiting[i].from)')
      <4>1. /\ RightJob(waiting[i + 1])
            /\ waiting[i + 1].from # None => InWork(waiting[i + 1].from)
            /\ waiting'[i] = waiting[i + 1]
            /\ waiting[i + 1].from \in Queue \cup {None}
        BY <2>3, TokenTypes DEF WebInv, LineApart
      <4>2. RightJob(waiting[i])'
        BY <1>1, <4>1 DEF RightJob
      <4>3. waiting'[i].from # None => ~Runs(waiting[i].from)'
        BY <2>6, <2>7, <4>1
      <4> QED
        BY <1>1, <4>1, <4>2, <4>3 DEF InWork, In
    <3> QED
      BY <3>1, <3>2 DEF LineApart
  <2>11. RunningKnown'
    BY <1>1, <2>1, <2>5 DEF RunningKnown, RightJob, InWork, Working, In
  <2>12. asking.queue = None
    BY <2>1 DEF WebInv, AskingKnown, Runs
  <2>13. AskingKnown'
    BY <1>1, <2>12 DEF WebInv, AskingKnown, In
  <2>14. RegisteredKnown' /\ ThreadsKnown'
    BY <1>1 DEF WebInv, RegisteredKnown, ThreadsKnown, In
  <2>15. \A q \in Queue : Announced(q)' <=> Announced(q)
    BY <1>1 DEF Announced
  <2>16. StreamsKnown'
    BY <1>1, <2>15 DEF WebInv, StreamsKnown, In
  <2>17. \A r \in Queue : SamePhase(r)
    <3>1. \A r \in Queue : Outstanding(r)' <=> Outstanding(r)
      BY <1>1, <2>4, <2>8, <2>15 DEF Outstanding
    <3> QED
      BY <1>1, <3>1, PhaseStays
  <2> QED
    BY <2>9, <2>10, <2>11, <2>13, <2>14, <2>16, <2>17 DEF WebInv
<1> QED
  BY <1>2, <1>3 DEF TryAgain

(*------------------------------ ends of requests ---------------------------*)

\* When requests come to their end: those whose responses are due, and those
\* that waited behind a function that failed and are lost.
PhasesEnd(due, lost) ==
  /\ due \subseteq Queue /\ lost \subseteq Queue \ due
  /\ \A q \in due \cup lost : Phase(q) = "working"
  /\ \A q \in due : Phase(q)' = "done" /\ exchange'[q].header = exchange[q].header
  /\ \A q \in lost : Phase(q)' = "lost" /\ exchange'[q].header = exchange[q].header
  /\ \A q \in Queue \ (due \cup lost) : SamePhase(q)

\* The GUI thread handles the signal of a request.
LEMMA DeliverKeeps ==
  ASSUME OwnFunctions, WebInv, TypeInv', Deliver
  PROVE  WebInv' /\ \E due \in SUBSET Queue : PhasesEnd(due, {})
<1>0. PICK q, h, f : q = Head(events).queue /\ h = Head(events).header /\ f = FunctionOf[h]
  OBVIOUS
<1>1. events # <<>> /\ events' = Tail(events)
      /\ UNCHANGED <<exchange, expected, registered, asking, running>>
      /\ streams' = [streams EXCEPT ![q] = h]
      /\ thread' = ThreadsSet(q, f)
  BY <1>0 DEF Deliver, JQ!Submit
<1>2. /\ q \in Queue /\ h \in HeadersOf[q] /\ h \in Header
      /\ f = FunctionOf[h] /\ f \in Function \cup {None} /\ f # AfterUpdate
      /\ events[1].queue = q /\ events[1].header = h /\ 1 \in DOMAIN events
  BY <1>0, <1>1, HeadSignal DEF WebInv
<1>3. \/ /\ f # None
         /\ \E j \in Made(f, q) : JQ!Submit(j)
         /\ UNCHANGED status
      \/ /\ f = None
         /\ status' = [status EXCEPT ![q] = "RECEIVE_DONE"]
         /\ \E k \in Trigger : waiting' = Updated(waiting, k)
  BY <1>0 DEF Deliver
<1>4. /\ \A i \in DOMAIN events' : /\ i + 1 \in DOMAIN events /\ i + 1 # 1
                                   /\ events'[i] = events[i + 1]
      /\ \A i \in DOMAIN events : i # 1 => /\ i - 1 \in DOMAIN events'
                                           /\ events'[i - 1] = events[i]
      /\ DOMAIN events = 1..Len(events) /\ DOMAIN events' = 1..(Len(events) - 1)
      /\ Len(events) \in Nat
  <2>1. events \in Seq(Signal)
    BY DEF WebInv, TypeInv, TypeOK, Signal
  <2> QED
    BY <1>1, <2>1, TailedSeq
<1>5. AtSignal(q, h)
  BY <1>2 DEF WebInv, SignalsApart
<1>6. ASSUME NEW i \in DOMAIN events'
      PROVE  events'[i].queue \in Queue \ {q}
  <2>1. i + 1 \in DOMAIN events /\ i + 1 # 1 /\ events'[i] = events[i + 1]
    BY <1>4
  <2>2. events[i + 1].queue \in Queue
    BY <2>1, TokenTypes DEF WebInv
  <2>3. events[i + 1].queue # events[1].queue
    BY <1>2, <2>1 DEF WebInv, SignalsApart
  <2> QED
    BY <1>2, <2>1, <2>2, <2>3
<1>7. ~Announced(q)' /\ \A r \in Queue \ {q} : Announced(r)' <=> Announced(r)
  <2>1. ASSUME NEW r \in Queue \ {q}, Announced(r)
        PROVE  Announced(r)'
    <3>1. PICK i \in DOMAIN events : events[i].queue = r
      BY <2>1 DEF Announced
    <3> QED
      BY <1>2, <1>4, <3>1 DEF Announced
  <2>2. ASSUME NEW r \in Queue \ {q}, Announced(r)'
        PROVE  Announced(r)
    BY <1>4, <2>2 DEF Announced
  <2>3. ~Announced(q)'
    BY <1>6 DEF Announced
  <2> QED
    BY <2>1, <2>2, <2>3
<1>8. Announced(q)
  BY <1>2 DEF Announced
<1>9. \A i, k \in DOMAIN events' : events'[i].queue = events'[k].queue => i = k
  <2>1. \A i, k \in DOMAIN events' : i + 1 = k + 1 => i = k
    BY <1>4
  <2> QED
    BY <1>4, <2>1 DEF WebInv, SignalsApart
<1>10. streams'[q] = exchange'[q].header /\ \A r \in Queue \ {q} : streams'[r] = streams[r]
  BY <1>1, <1>2, <1>5 DEF AtSignal, WebInv, TypeInv, TypeOK
<1>11. StreamsKnown'
  BY <1>1, <1>7, <1>10 DEF WebInv, StreamsKnown, In
<1>12. ThreadsKnown'
  <2>1. \A g \in Timed : g \in Function /\ g # f /\ g # AfterUpdate
    BY <1>2, WebAssumption DEF OwnFunctions
  <2>2. \A g \in Timed : thread'[g] = thread[g]
    BY <1>1, <2>1 DEF ThreadsSet
  <2> QED
    BY <2>2 DEF WebInv, ThreadsKnown
<1>13. \A r \in Queue : Runs(r)' <=> Runs(r)
  BY <1>1 DEF Runs
\* The jobs of other requests have other functions.
<1>14. ASSUME NEW j \in Job, RightJob(j), j.from # q, j.from # None => ~In(j.from, "idle")
       PROVE  RightJob(j)'
  <2>1. CASE j.from = None
    BY <1>14, <2>1 DEF RightJob
  <2>2. CASE j.from # None
    <3>1. j.from \in Queue /\ j.fn \in Function
      BY <2>2 DEF Job
    <3>2. exchange[j.from].header \in HeadersOf[j.from]
      BY <1>14, <2>2, <3>1 DEF WebInv, TypeInv, HeadersKnown
    <3>3. j.fn = FunctionOf[exchange[j.from].header] /\ thread[j.fn] = j.from
      BY <1>14, <2>2 DEF RightJob
    <3>4. j.fn # f
      BY <1>2, <1>14, <3>1, <3>2, <3>3, WebAssumption DEF OwnFunctions
    <3>5. j.fn # AfterUpdate
      BY <3>1, <3>2, <3>3, WebAssumption
    <3> QED
      BY <1>1, <2>2, <3>1, <3>3, <3>4, <3>5 DEF RightJob, ThreadsSet
  <2> QED
    BY <2>1, <2>2
<1>15. ASSUME NEW j \in Job, j.from # q, RightJob(j), j.from # None => Working(j.from)
       PROVE  RightJob(j)'
  <2>1. j.from # None => ~In(j.from, "idle")
    BY <1>15 DEF Working, In
  <2> QED
    BY <1>14, <1>15, <2>1
<1>16. RunningKnown'
  <2> SUFFICES ASSUME running' # None
               PROVE  /\ RightJob(running)'
                      /\ running'.from # None => /\ registered' # running'.from
                                                 /\ Working(running.from)'
    BY DEF RunningKnown
  <2>0. PICK j : j = running
    OBVIOUS
  <2>1. /\ running' = j /\ j \in Job /\ RightJob(j)
        /\ j.from \in Queue \cup {None}
        /\ j.from # None => registered # j.from /\ Working(j.from)
    BY <1>1, <2>0, TokenTypes DEF WebInv, RunningKnown
  <2>2. j.from # q
    BY <1>1, <1>5, <2>1 DEF AtSignal, Runs
  <2>3. RightJob(j)'
    BY <1>15, <2>1, <2>2
  <2>4. \A r \in Queue \ {q} : status'[r] = status[r]
    BY <1>2, <1>3 DEF WebInv, TypeInv, TypeOK
  <2>5. j.from # None => Working(j.from)'
    BY <1>1, <2>1, <2>2, <2>4 DEF Working, In
  <2> QED
    BY <1>1, <2>1, <2>3, <2>5 DEF RightJob, Working, In
<1>17. ASSUME NEW i \in DOMAIN waiting, NEW j, j = waiting[i]
       PROVE  /\ RightJob(j)' /\ j.from # q /\ j.from \in Queue \cup {None}
              /\ j.from # None => InWork(j.from)
  <2>1. RightJob(j) /\ (j.from # None => InWork(j.from))
    BY <1>17 DEF WebInv, LineApart
  <2>2. j \in Job /\ j.from \in Queue \cup {None}
    BY <1>17, TokenTypes DEF WebInv
  <2>3. j.from # q
    BY <1>5, <1>17 DEF AtSignal, Queued
  <2> QED
    BY <1>15, <2>1, <2>2, <2>3 DEF InWork, Working
<1>18. CASE f # None
  <2>1. PICK job \in Made(f, q) : JQ!Submit(job)
    BY <1>3, <1>18
  <2>2. job \in Job /\ job.fn = f /\ job.from = q /\ q # None
    BY <1>2, <1>18, <2>1, MadeJobs, WebAssumption
  <2>3. waiting' = Append(waiting, job) /\ UNCHANGED status
    BY <1>3, <1>18, <2>1 DEF JQ!Submit
  <2> DEFINE n == Len(waiting) + 1
  <2>4. /\ DOMAIN waiting' = DOMAIN waiting \cup {n}
        /\ \A i \in DOMAIN waiting : waiting'[i] = waiting[i]
        /\ waiting'[n] = job /\ n \notin DOMAIN waiting
    <3>1. waiting \in Seq(Job)
      BY DEF WebInv, TypeInv, TypeOK
    <3> QED
      BY <2>2, <2>3, <3>1, AppendedSeq
  <2> HIDE DEF n
  <2>5. \A r \in Queue : Queued(r)' <=> Queued(r) \/ r = q
    BY <2>2, <2>4 DEF Queued
  <2>6. RightJob(job)' /\ InWork(q)'
    BY <1>1, <1>2, <1>5, <1>13, <2>2, <2>3, <1>18
    DEF AtSignal, RightJob, ThreadsSet, InWork, In
  <2>7. LineApart'
    <3>1. \A i, k \in DOMAIN waiting' :
            waiting'[i].from = waiting'[k].from /\ waiting'[i].from # None => i = k
      BY <1>17, <2>2, <2>4 DEF WebInv, LineApart
    <3>2. ASSUME NEW i \in DOMAIN waiting'
          PROVE  RightJob(waiting[i])' /\ (waiting'[i].from # None => InWork(waiting[i].from)')
      <4>1. CASE i = n
        BY <2>2, <2>4, <2>6, <4>1 DEF RightJob, InWork, In, Runs
      <4>2. CASE i \in DOMAIN waiting
        <5>0. PICK j : j = waiting[i]
          OBVIOUS
        <5>1. /\ waiting'[i] = j /\ RightJob(j)' /\ j.from \in Queue \cup {None}
              /\ j.from # None => InWork(j.from)
          BY <1>17, <2>4, <4>2, <5>0
        <5>2. j.from # None => InWork(j.from)'
          BY <1>1, <1>13, <2>3, <5>1 DEF InWork, In
        <5> QED
          BY <5>1, <5>2 DEF RightJob, InWork, In, Runs
      <4> QED
        BY <2>4, <4>1, <4>2
    <3> QED
      BY <3>1, <3>2 DEF LineApart
  <2>8. SignalsApart'
    <3>1. ASSUME NEW i \in DOMAIN events'
          PROVE  AtSignal(events[i].queue, events[i].header)'
      <4>0. PICK r, k : r = events'[i].queue /\ k = events'[i].header
        OBVIOUS
      <4>1. r \in Queue \ {q} /\ AtSignal(r, k)
        BY <1>4, <1>6, <4>0 DEF WebInv, SignalsApart
      <4>2. AtSignal(r, k)'
        BY <1>1, <1>13, <2>3, <2>5, <4>1 DEF AtSignal, In
      <4> QED
        BY <4>0, <4>2 DEF AtSignal, In, Queued, Runs
    <3> QED
      BY <1>9, <3>1 DEF SignalsApart
  <2>9. RegisteredKnown' /\ AskingKnown'
    BY <1>1, <1>13, <2>3, TokenTypes DEF WebInv, RegisteredKnown, AskingKnown, In, TypeInv, TypeOK, Runs
  <2>10. \A r \in Queue : SamePhase(r)
    <3>1. \A r \in Queue \ {q} : Outstanding(r)' <=> Outstanding(r)
      BY <1>1, <1>7, <1>13, <2>5 DEF Outstanding
    <3>2. Outstanding(q) /\ Outstanding(q)'
      BY <1>2, <1>8, <2>5 DEF Outstanding
    <3> QED
      BY <1>1, <2>3, <3>1, <3>2, PhaseStays
  <2>11. PhasesEnd({}, {})
    BY <2>10 DEF PhasesEnd
  <2> QED
    BY <1>11, <1>12, <1>16, <2>7, <2>8, <2>9, <2>11 DEF WebInv
<1>19. CASE f = None
  <2>1. /\ status'[q] = "RECEIVE_DONE" /\ \A r \in Queue \ {q} : status'[r] = status[r]
    BY <1>2, <1>3, <1>19 DEF WebInv, TypeInv, TypeOK
  <2>2. LineApart' /\ \A r \in Queue : Queued(r)' <=> Queued(r)
    <3>1. PICK k \in Trigger : waiting' = Updated(waiting, k)
      BY <1>3, <1>19
    <3>2. waiting \in Seq(Job)
      BY DEF WebInv, TypeInv, TypeOK
    <3>3. ASSUME NEW i \in DOMAIN waiting, NEW j, j = waiting[i]
          PROVE  RightJob(j)' /\ (j.from # None => InWork(j.from)')
      <4>1. /\ RightJob(j)' /\ j.from # q /\ j.from \in Queue \cup {None}
            /\ j.from # None => InWork(j.from)
        BY <1>17, <3>3
      <4> QED
        BY <1>1, <1>13, <2>1, <4>1 DEF InWork, In
    <3>4. CASE waiting' = waiting
      BY <3>3, <3>4 DEF WebInv, LineApart, Queued, RightJob, InWork, In, Runs
    <3>5. CASE waiting' # waiting
      <4>1. PICK j \in Job : /\ j.fn = AfterUpdate /\ j.from = None
                             /\ waiting' = Append(waiting, j)
        BY <3>1, <3>2, <3>5, UpdatedLine
      <4>2. \A i \in DOMAIN waiting : waiting'[i] = waiting[i]
        BY <3>2, <4>1, AppendedSeq
      <4>3. \A i \in DOMAIN waiting :
              RightJob(waiting[i])' /\ (waiting[i].from # None => InWork(waiting[i].from)')
        BY <3>3, <4>2 DEF RightJob, InWork, In, Runs
      <4> QED
        BY <4>1, <4>3, LineGrows
    <3> QED
      BY <3>4, <3>5
  <2>3. SignalsApart'
    <3>1. ASSUME NEW i \in DOMAIN events'
          PROVE  AtSignal(events[i].queue, events[i].header)'
      <4>0. PICK r, k : r = events'[i].queue /\ k = events'[i].header
        OBVIOUS
      <4>1. r \in Queue \ {q} /\ AtSignal(r, k)
        BY <1>4, <1>6, <4>0 DEF WebInv, SignalsApart
      <4>2. AtSignal(r, k)'
        BY <1>1, <1>13, <2>1, <2>2, <4>1 DEF AtSignal, In
      <4> QED
        BY <4>0, <4>2 DEF AtSignal, In, Queued, Runs
    <3> QED
      BY <1>9, <3>1 DEF SignalsApart
  <2>4. RegisteredKnown' /\ AskingKnown'
    BY <1>1, <1>5, <1>13, <2>1, TokenTypes
    DEF WebInv, RegisteredKnown, AskingKnown, AtSignal, In, TypeInv, TypeOK, Runs
  <2>5. \A r \in Queue \ {q} : SamePhase(r)
    <3>1. \A r \in Queue \ {q} : Outstanding(r)' <=> Outstanding(r)
      BY <1>1, <1>7, <1>13, <2>2 DEF Outstanding
    <3> QED
      BY <1>1, <2>1, <3>1, PhaseStays
  <2>6. Phase(q) = "working" /\ Phase(q)' = "done" /\ exchange'[q].header = exchange[q].header
    <3>1. Outstanding(q) /\ In(q, "working")
      BY <1>5, <1>8 DEF Outstanding, AtSignal
    <3>2. ~Outstanding(q)' /\ In(q, "working")'
      BY <1>1, <1>2, <1>5, <1>7, <1>13, <2>2 DEF Outstanding, AtSignal, In
    <3> QED
      BY <1>1, <1>2, <2>1, <3>1, <3>2, PhaseCases, PhaseCasesNext
  <2>7. PhasesEnd({q}, {})
    BY <1>2, <2>5, <2>6 DEF PhasesEnd
  <2> QED
    BY <1>2, <1>11, <1>12, <1>16, <2>2, <2>3, <2>4, <2>7 DEF WebInv
<1> QED
  BY <1>18, <1>19

\* What epilog and endJobAction do for the requests: the one whose function
\* ended and a registered one are done or registered; the others stay.
LEMMA EpilogEffect ==
  ASSUME OwnFunctions, WebInv, running # None, NEW pending, Epilog(pending)
  PROVE  /\ \A q \in Queue :
              \/ /\ Runs(q) \/ registered = q
                 /\ status'[q] = "RECEIVE_DONE" /\ registered' # q
              \/ /\ status'[q] = status[q]
                 /\ registered' = q <=> Runs(q) \/ registered = q
         /\ registered' # None =>
              /\ Runs(registered') \/ registered = registered'
              /\ FunctionOf[exchange[registered'].header] \in WebApi
<1>0. PICK f, t, due, sent :
        /\ f = running.fn /\ t = ThreadOf(running)
        /\ due = IF Registers(f) THEN t ELSE registered
        /\ sent = IF MaySend(f, pending) THEN due ELSE None
  OBVIOUS
<1>1. /\ registered' = IF sent = None THEN due ELSE None
      /\ \A q \in Queue : status'[q] = IF q = sent \/ (q = t /\ DoneAtOnce(f))
                                       THEN "RECEIVE_DONE" ELSE status[q]
  BY <1>0 DEF Epilog
<1>2. registered \in Queue \cup {None} /\ None \notin Queue
      /\ running.from \in Queue \cup {None}
      /\ \A q \in Queue : Runs(q) <=> running.from = q
  BY TokenTypes DEF WebInv, Runs
<1>3. /\ running.from # None => /\ t = running.from /\ registered # t
                                /\ f = FunctionOf[exchange[t].header] /\ f # AfterUpdate
      /\ running.from = None => f = AfterUpdate \/ (f \in Timed /\ t = None)
  BY <1>0, ThreadOfJob DEF WebInv, RunningKnown
<1>4. CASE running.from # None /\ f \in WebApi
  <2>1. registered = None
    <3> SUFFICES ASSUME registered # None
                 PROVE  FALSE
      OBVIOUS
    <3>1. FunctionOf[exchange[registered].header] \in WebApi /\ In(registered, "working")
      BY DEF WebInv, RegisteredKnown
    <3>2. registered \in Queue /\ t \in Queue /\ registered # t /\ f \in Function
      BY <1>2, <1>3, <1>4, WebAssumption
    <3>3. Working(t)
      BY <1>3, <1>4 DEF WebInv, RunningKnown
    <3>4. /\ exchange[t].header \in HeadersOf[t]
          /\ exchange[registered].header \in HeadersOf[registered]
      BY <3>1, <3>2, <3>3 DEF WebInv, TypeInv, HeadersKnown, Working, In
    <3>5. FunctionOf[exchange[t].header] # None
      BY <1>3, <1>4, <3>2, WebAssumption
    <3> QED
      BY <1>3, <1>4, <3>1, <3>2, <3>4, <3>5 DEF OwnFunctions
  <2>2. Registers(f) /\ ~DoneAtOnce(f) /\ due = t
    BY <1>0, <1>3, <1>4 DEF Registers, DoneAtOnce
  <2>3. CASE sent = t
    BY <1>1, <1>2, <1>3, <1>4, <2>1, <2>2, <2>3
  <2>4. CASE sent = None
    BY <1>1, <1>2, <1>3, <1>4, <2>1, <2>2, <2>4
  <2> QED
    BY <1>0, <2>2, <2>3, <2>4
<1>5. CASE running.from # None /\ f \notin WebApi
  <2>1. ~Registers(f) /\ DoneAtOnce(f) /\ due = registered
    BY <1>0, <1>3, <1>5 DEF Registers, DoneAtOnce
  <2>2. registered # None => FunctionOf[exchange[registered].header] \in WebApi
    BY DEF WebInv, RegisteredKnown
  <2>3. CASE sent = registered
    BY <1>1, <1>2, <1>3, <1>5, <2>1, <2>2, <2>3
  <2>4. CASE sent = None
    BY <1>1, <1>2, <1>3, <1>5, <2>1, <2>2, <2>4
  <2> QED
    BY <1>0, <2>1, <2>3, <2>4
<1>6. CASE running.from = None
  <2>1. ~Registers(f) /\ due = registered
        /\ \A q \in Queue : ~(q = t /\ DoneAtOnce(f))
    BY <1>0, <1>2, <1>3, <1>6, WebAssumption DEF Registers, DoneAtOnce
  <2>2. registered # None => FunctionOf[exchange[registered].header] \in WebApi
    BY DEF WebInv, RegisteredKnown
  <2>3. CASE sent = registered
    BY <1>1, <1>2, <1>6, <2>1, <2>2, <2>3
  <2>4. CASE sent = None
    BY <1>1, <1>2, <1>6, <2>1, <2>2, <2>4
  <2> QED
    BY <1>0, <2>1, <2>3, <2>4
<1> QED
  BY <1>4, <1>5, <1>6

\* The end of a function: its request and a registered one may be due, and if
\* it failed those that wait are lost.
LEMMA EndKeeps ==
  ASSUME OwnFunctions, WebInv, TypeInv', Free, running # None, running' = None,
         NEW pending, Epilog(pending),
         UNCHANGED <<exchange, streams, events, thread, asking>>,
         \/ waiting' = waiting \/ waiting' = <<>>
         \/ \E j \in Job : /\ j.fn = AfterUpdate /\ j.from = None
                           /\ waiting' = Append(waiting, j)
  PROVE  /\ WebInv'
         /\ \E due, lost \in SUBSET Queue :
              /\ PhasesEnd(due, lost)
              /\ \A q \in lost : Queued(q) /\ waiting' = <<>>
<1>1. /\ \A q \in Queue :
           \/ /\ Runs(q) \/ registered = q
              /\ status'[q] = "RECEIVE_DONE" /\ registered' # q
           \/ /\ status'[q] = status[q]
              /\ registered' = q <=> Runs(q) \/ registered = q
      /\ registered' # None =>
           /\ Runs(registered') \/ registered = registered'
           /\ FunctionOf[exchange[registered'].header] \in WebApi
  BY EpilogEffect
<1>2. asking.queue = None
  BY DEF Free
<1>3. \A q \in Queue : ~In(q, "asked") /\ ~In(q, "answered") /\ status[q] # "SEND_QUERY"
  BY <1>2, WebAssumption DEF WebInv, AskingKnown
<1>4. \A q \in Queue : Runs(q) =>
        In(q, "working") /\ status[q] \in {"WORKING", "WORKING_QUERY_DONE"}
  BY <1>3, RunsOnly DEF Working
<1>5. registered' \in Queue \cup {None} /\ registered \in Queue \cup {None} /\ None \notin Queue
  BY WebAssumption DEF WebInv, TypeInv, TypeOK
<1>6. RegisteredKnown'
  <2> SUFFICES ASSUME registered' # None
               PROVE  RegisteredKnown'
    BY DEF RegisteredKnown
  <2>0. PICK q \in Queue : registered' = q
    BY <1>5
  <2>1. Runs(q) \/ registered = q
    BY <1>1, <1>5, <2>0
  <2>2. In(q, "working") /\ status[q] \in {"WORKING", "WORKING_QUERY_DONE"}
    BY <1>4, <1>5, <2>1 DEF WebInv, RegisteredKnown
  <2>3. status'[q] = status[q]
    BY <1>1, <2>0
  <2> QED
    BY <1>1, <2>0, <2>2, <2>3 DEF RegisteredKnown, In
<1>7. \A q \in Queue : ~Runs(q)'
  BY DEF Runs
<1>8. RunningKnown' /\ ThreadsKnown'
  BY DEF RunningKnown, ThreadsKnown, WebInv
<1>9. \A q \in Queue : Announced(q)' <=> Announced(q)
  BY DEF Announced
<1>10. StreamsKnown'
  BY <1>9 DEF WebInv, StreamsKnown, In
<1>11. AskingKnown'
  BY <1>1, <1>2, <1>3 DEF WebInv, AskingKnown, In
\* A request whose signal or job waits stays as it is.
<1>12. ASSUME NEW q \in Queue, ~Runs(q), registered # q
       PROVE  status'[q] = status[q] /\ registered' # q
  BY <1>1, <1>12
<1>13. /\ \A q \in Queue : Queued(q)' => Queued(q)
       /\ waiting' # <<>> => \A q \in Queue : Queued(q)' <=> Queued(q)
       /\ LineApart'
  <2>1. CASE waiting' = <<>>
    <3>1. DOMAIN waiting' = {}
      BY <2>1
    <3> QED
      BY <2>1, <3>1 DEF Queued, LineApart
  <2>2. ASSUME NEW i \in DOMAIN waiting, NEW j, j = waiting[i]
        PROVE  RightJob(j)' /\ (j.from # None => InWork(j.from)')
    <3>1. /\ RightJob(j) /\ (j.from # None => InWork(j.from))
          /\ j.from \in Queue \cup {None}
      BY <2>2, TokenTypes DEF WebInv, LineApart
    <3>2. RightJob(j)'
      BY <3>1 DEF RightJob
    <3>3. j.from # None => InWork(j.from)'
      BY <1>7, <1>12, <3>1 DEF InWork, In
    <3> QED
      BY <3>2, <3>3
  <2>3. CASE waiting' = waiting
    BY <2>2, <2>3 DEF WebInv, LineApart, Queued, RightJob, InWork, In, Runs
  <2>4. CASE \E j \in Job : /\ j.fn = AfterUpdate /\ j.from = None
                            /\ waiting' = Append(waiting, j)
    <3>1. PICK j \in Job : /\ j.fn = AfterUpdate /\ j.from = None
                           /\ waiting' = Append(waiting, j)
      BY <2>4
    <3>2. waiting \in Seq(Job)
      BY DEF WebInv, TypeInv, TypeOK
    <3>3. \A i \in DOMAIN waiting : waiting'[i] = waiting[i]
      BY <3>1, <3>2, AppendedSeq
    <3>4. \A i \in DOMAIN waiting :
            RightJob(waiting[i])' /\ (waiting[i].from # None => InWork(waiting[i].from)')
      BY <2>2, <3>3 DEF RightJob, InWork, In, Runs
    <3> QED
      BY <3>1, <3>4, LineGrows
  <2> QED
    BY <2>1, <2>3, <2>4
<1>14. SignalsApart'
  <2>1. ASSUME NEW i \in DOMAIN events, NEW q, NEW h,
               q = events[i].queue, h = events[i].header
        PROVE  AtSignal(q, h)'
    <3>1. q \in Queue /\ AtSignal(q, h)
      BY <2>1, TokenTypes DEF WebInv, SignalsApart
    <3> QED
      BY <1>7, <1>12, <1>13, <3>1 DEF AtSignal, In
  <2> QED
    BY <2>1 DEF WebInv, SignalsApart, AtSignal, In, Queued, Runs
<1>15. WebInv'
  BY <1>6, <1>8, <1>10, <1>11, <1>13, <1>14 DEF WebInv
<1>16. \E due, lost \in SUBSET Queue :
         /\ PhasesEnd(due, lost)
         /\ \A q \in lost : Queued(q) /\ waiting' = <<>>
  <2>0. PICK due, lost \in SUBSET Queue :
          /\ due = {q \in Queue : (Runs(q) \/ registered = q) /\ registered' # q}
          /\ lost = {q \in Queue : Queued(q) /\ waiting' = <<>>}
    OBVIOUS
  <2>1. \A q \in Queue : Queued(q) => /\ ~Runs(q) /\ registered # q /\ ~Announced(q)
                                      /\ In(q, "working") /\ status[q] = "WORKING"
    BY WebAssumption DEF WebInv, SignalsApart, AtSignal, LineApart, InWork, Queued, Announced
  <2>2. ASSUME NEW q \in due
        PROVE  Phase(q) = "working" /\ Phase(q)' = "done"
    <3>1. q \in Queue /\ In(q, "working") /\ Outstanding(q)
      BY <1>4, <1>5, <2>0, <2>2 DEF WebInv, RegisteredKnown, Outstanding
    <3>2. status'[q] = "RECEIVE_DONE" /\ registered' # q
      BY <1>1, <2>0, <2>2
    <3>3. ~Announced(q)
      BY <2>0, <2>2 DEF WebInv, SignalsApart, AtSignal, Announced
    <3>4. ~Queued(q)
      BY <2>0, <2>1, <2>2
    <3>5. ~Outstanding(q)' /\ In(q, "working")'
      BY <1>7, <1>9, <1>13, <3>1, <3>2, <3>3, <3>4 DEF Outstanding, In
    <3> QED
      BY <3>1, <3>2, <3>5, PhaseCases, PhaseCasesNext
  <2>3. ASSUME NEW q \in lost
        PROVE  Phase(q) = "working" /\ Phase(q)' = "lost" /\ q \notin due
    <3>1. q \in Queue /\ Queued(q) /\ waiting' = <<>>
      BY <2>0, <2>3
    <3>2. /\ ~Runs(q) /\ registered # q /\ ~Announced(q)
          /\ In(q, "working") /\ status[q] = "WORKING"
      BY <2>1, <3>1
    <3>3. status'[q] = "WORKING" /\ registered' # q
      BY <1>12, <3>1, <3>2
    <3>4. ~Queued(q)'
      BY <3>1 DEF Queued
    <3>5. ~Outstanding(q)' /\ In(q, "working")' /\ Outstanding(q)
      BY <1>7, <1>9, <3>1, <3>2, <3>3, <3>4 DEF Outstanding, In
    <3> QED
      BY <2>0, <3>1, <3>2, <3>3, <3>5, PhaseCases, PhaseCasesNext
  <2>4. ASSUME NEW q \in Queue \ (due \cup lost)
        PROVE  SamePhase(q)
    <3>1. status'[q] = status[q] /\ (registered' = q <=> Runs(q) \/ registered = q)
      BY <1>1, <2>0, <2>4
    <3>2. Queued(q)' <=> Queued(q)
      BY <1>13, <2>0, <2>4
    <3>3. Outstanding(q)' <=> Outstanding(q)
      BY <1>7, <1>9, <3>1, <3>2 DEF Outstanding
    <3> QED
      BY <3>1, <3>3, PhaseStays
  <2>5. PhasesEnd(due, lost)
    BY <2>2, <2>3, <2>4 DEF PhasesEnd
  <2>6. \A q \in lost : Queued(q) /\ waiting' = <<>>
    BY <2>0
  <2> QED
    BY <2>5, <2>6
<1> QED
  BY <1>15, <1>16

(*------------------------------- theorems --------------------------------*)

\* What a step may do to the clients.
PhaseStep ==
  \/ \A r \in Queue : SamePhase(r)
  \/ \E q \in Queue, h \in Header :
       /\ Phase(q) = "idle" /\ Phase(q)' = "working" /\ exchange'[q].header = h
       /\ \A r \in Queue \ {q} : SamePhase(r)
  \/ \E q \in Queue : \/ PhaseMoves(q, "working", "asked")
                      \/ PhaseMoves(q, "asked", "working")
                      \/ PhaseMoves(q, "done", "idle")
  \/ \E due, lost \in SUBSET Queue :
       /\ PhasesEnd(due, lost)
       /\ \A q \in lost : Queued(q) /\ running # None /\ running' = None /\ waiting' = <<>>

\* Every step of the GUI thread keeps the invariant and moves the phases as promised.
LEMMA GuiKeeps ==
  ASSUME OwnFunctions, WebInv, TypeInv', GuiThread
  PROVE  WebInv' /\ PhaseStep
<1>1. CASE Deliver
  BY <1>1, DeliverKeeps DEF PhaseStep
<1>2. ASSUME NEW f \in Timed, TimerTick(f)
      PROVE  WebInv' /\ PhaseStep
  BY <1>2, TimerTickKeeps DEF PhaseStep
<1>3. CASE TryAgain
  BY <1>3, TryAgainKeeps DEF PhaseStep
<1>4. CASE AskClient
  BY <1>4, AskClientKeeps DEF PhaseStep
<1>5. CASE TellExpected
  BY <1>5, TellExpectedKeeps DEF PhaseStep
<1>6. CASE QueryDone
  BY <1>6, QueryDoneKeeps DEF PhaseStep
<1>7. CASE EndOk
  <2>1. /\ Free /\ running # None /\ running' = None
        /\ UNCHANGED <<exchange, streams, events, thread, asking>>
    BY <1>7 DEF EndOk, JQ!Finish
  <2>2. PICK k \in Trigger :
          waiting' = IF running.fn \in UpdateForms THEN Updated(waiting, k) ELSE waiting
    BY <1>7 DEF EndOk
  <2>3. waiting \in Seq(Job)
    BY DEF WebInv, TypeInv, TypeOK
  <2>4. \/ waiting' = waiting
        \/ \E j \in Job : /\ j.fn = AfterUpdate /\ j.from = None
                          /\ waiting' = Append(waiting, j)
    BY <2>2, <2>3, UpdatedLine
  <2>5. PICK pending : Epilog(pending)
    BY <1>7 DEF EndOk
  <2> QED
    BY <2>1, <2>4, <2>5, EndKeeps DEF PhaseStep
<1>8. ASSUME Free, EndFailed, UNCHANGED <<exchange, streams, events, thread, asking>>
      PROVE  WebInv' /\ PhaseStep
  <2>1. running # None /\ running' = None /\ waiting' = <<>> /\ Epilog(0)
    BY <1>8 DEF EndFailed, JQ!Fail
  <2> QED
    BY <1>8, <2>1, EndKeeps DEF PhaseStep
<1>9. CASE Abort
  BY <1>8, <1>9 DEF Abort
<1>10. CASE AbortTimer
  <2>1. CASE running # None
    BY <1>8, <1>10, <2>1 DEF AbortTimer
  <2>2. CASE running = None
    <3>1. UNCHANGED <<exchange, status, streams, events, waiting, running, registered, thread,
                      asking>>
      BY <1>10, <2>2 DEF AbortTimer, jobVars
    <3>2. AskingKnown'
      BY <3>1 DEF WebInv, AskingKnown, Runs, In
    <3> QED
      BY <3>1, <3>2, AllStay DEF WebInv, PhaseStep
  <2> QED
    BY <2>1, <2>2
<1> QED
  BY <1>1, <1>2, <1>3, <1>4, <1>5, <1>6, <1>7, <1>9, <1>10 DEF GuiThread

\* Every step keeps the invariant and moves the phases as promised.
LEMMA WebStep ==
  ASSUME OwnFunctions, WebInv, [Next]_vars
  PROVE  WebInv' /\ PhaseStep
<1>1. TypeInv'
  BY NextTypes DEF WebInv
<1>2. ASSUME NEW q \in Queue, Client(q)
      PROVE  WebInv' /\ PhaseStep
  <2>1. ASSUME NEW h \in Header, SendRequest(q, h)
        PROVE  WebInv' /\ PhaseStep
    BY <1>1, <2>1, SendRequestKeeps DEF PhaseStep
  <2>2. ASSUME AnswerQuery(q)
        PROVE  WebInv' /\ PhaseStep
    BY <1>1, <2>2, AnswerQueryKeeps DEF PhaseStep
  <2> QED
    BY <1>2, <2>1, <2>2 DEF Client
<1>3. ASSUME NEW q \in Queue, ReplyThread(q)
      PROVE  WebInv' /\ PhaseStep
  <2>1. CASE Receive(q)
    BY <1>1, <2>1, ReceiveKeeps DEF PhaseStep
  <2>2. CASE SendQuery(q)
    BY <1>1, <2>2, SendQueryKeeps DEF PhaseStep
  <2>3. CASE ReceiveAnswer(q)
    BY <1>1, <2>3, ReceiveAnswerKeeps DEF PhaseStep
  <2>4. CASE WriteResponse(q)
    BY <1>1, <2>4, WriteResponseKeeps DEF PhaseStep
  <2>5. CASE SendResponse(q)
    BY <1>1, <2>5, SendResponseKeeps DEF PhaseStep
  <2> QED
    BY <1>3, <2>1, <2>2, <2>3, <2>4, <2>5 DEF ReplyThread
<1>4. CASE UNCHANGED vars
  <2>1. UNCHANGED <<exchange, status, streams, events, waiting, running, registered, thread,
                    asking>>
    BY <1>4 DEF vars
  <2>2. AskingKnown'
    BY <2>1 DEF WebInv, AskingKnown, Runs, In
  <2> QED
    BY <1>1, <2>1, <2>2, AllStay DEF WebInv, PhaseStep
<1>5. CASE GuiThread
  BY <1>1, <1>5, GuiKeeps
<1> QED
  BY <1>2, <1>3, <1>4, <1>5 DEF Next

\* At the start no request is anywhere.
LEMMA InitWeb == Init => WebInv
<1> SUFFICES ASSUME Init
             PROVE  WebInv
  OBVIOUS
<1>1. TypeInv
  BY InitTypes
<1>2. DOMAIN events = {} /\ DOMAIN waiting = {}
  BY DEF Init
<1>3. SignalsApart /\ LineApart
  BY <1>2 DEF SignalsApart, LineApart
<1>4. RunningKnown /\ RegisteredKnown
  BY DEF Init, RunningKnown, RegisteredKnown
<1>5. \A q \in Queue : In(q, "idle") /\ status[q] = "STARTED"
  BY DEF Init, In
<1>6. AskingKnown /\ StreamsKnown
  BY <1>5 DEF Init, AskingKnown, StreamsKnown, NotAsking, In
<1>7. ThreadsKnown
  BY WebAssumption DEF Init, ThreadsKnown
<1> QED
  BY <1>1, <1>3, <1>4, <1>6, <1>7 DEF WebInv

\* The invariant holds in every reachable state, if queues have functions of their own.
LEMMA WebInvariant ==
  ASSUME OwnFunctions
  PROVE  Spec => []WebInv
<1>1. WebInv /\ [Next]_vars => WebInv'
  BY WebStep
<1> QED
  BY <1>1, InitWeb, PTL DEF Spec

\* A request gets no answer only if its job waited behind one that failed or was
\* canceled (JobStarter::cleanup, MessageQueueReply.cc:233-236).
THEOREM RequestsLostWithFailureOnly ==
  ASSUME OwnFunctions
  PROVE  Spec => LostOnlyWithFailure
<1> DEFINE OnlyWithFailure ==
             \A q \in Queue : Phase(q) # "lost" /\ Phase(q)' = "lost" =>
               Queued(q) /\ running # None /\ running' = None /\ waiting' = <<>>
<1>1. ASSUME WebInv, [Next]_vars
      PROVE  [OnlyWithFailure]_vars
  <2>1. PhaseStep
    BY <1>1, WebStep
  <2> SUFFICES ASSUME NEW q \in Queue, Phase(q) # "lost", Phase(q)' = "lost"
               PROVE  Queued(q) /\ running # None /\ running' = None /\ waiting' = <<>>
    OBVIOUS
  <2>2. PICK due, lost \in SUBSET Queue :
          /\ PhasesEnd(due, lost)
          /\ \A r \in lost : Queued(r) /\ running # None /\ running' = None /\ waiting' = <<>>
    BY <2>1 DEF PhaseStep, SamePhase, PhaseMoves
  <2>3. q \in lost
    BY <2>2 DEF PhasesEnd, SamePhase
  <2> QED
    BY <2>2, <2>3
<1> QED
  BY <1>1, WebInvariant, PTL DEF Spec, LostOnlyWithFailure

\* The reply queues keep what ReplyService promises: a request is answered once,
\* with the response of its own header, and not before its function has ended
\* (MessageQueueReplyThread::process_request, JobFunction::epilog, JobAction::endJobAction).
THEOREM RepliesKeepPromise ==
  ASSUME OwnFunctions
  PROVE  Spec => ImplementsReplySafely
<1>1. Init => RS!Init
  BY DEF Init, RS!Init, Phase
<1>2. ASSUME WebInv, [Next]_vars
      PROVE  [RS!Next]_(RS!vars)
  <2>1. PhaseStep
    BY <1>2, WebStep
  <2>2. CASE \A r \in Queue : SamePhase(r)
    BY <2>2 DEF RS!vars, SamePhase
  <2>3. ASSUME NEW q \in Queue, NEW h \in Header,
               Phase(q) = "idle", Phase(q)' = "working", exchange'[q].header = h,
               \A r \in Queue \ {q} : SamePhase(r)
        PROVE  RS!Request(q, h)
    BY <2>3 DEF RS!Request, SamePhase
  <2>4. ASSUME NEW q \in Queue, NEW a, NEW b, PhaseMoves(q, a, b)
        PROVE  RS!Move(q, a, b)
    BY <2>4 DEF RS!Move, PhaseMoves, SamePhase
  <2>5. ASSUME NEW due \in SUBSET Queue, NEW lost \in SUBSET Queue, PhasesEnd(due, lost)
        PROVE  RS!End(due, lost) /\ lost \in SUBSET (Queue \ due)
    BY <2>5 DEF RS!End, PhasesEnd, SamePhase
  <2> QED
    BY <2>1, <2>2, <2>3, <2>4, <2>5
    DEF PhaseStep, RS!Next, RS!Ask, RS!Answer, RS!Respond
<1> QED
  BY <1>1, <1>2, WebInvariant, PTL DEF Spec, ImplementsReplySafely, RS!SafeSpec
=============================================================================
