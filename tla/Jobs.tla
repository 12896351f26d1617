-------------------------------- MODULE Jobs --------------------------------
(***************************************************************************)
(* The jobs of INTENS (job/JobStarter.cc, JobController.cc, JobAction.cc,  *)
(* JobFunction.cc): starters queue up for their functions, a function runs *)
(* in slices between which the event loop turns, may run a process and may *)
(* be canceled, and each runs under a controller that owns a transaction   *)
(* of the data pool.                                                       *)
(*                                                                         *)
(* A controller is the m_next_controller of the action that called it and  *)
(* is named by that caller: a starter or a task button calls a function, a *)
(* function calls a process.  A starter name that is free again stands for *)
(* a new object.  One step is the work of one event; a call that the code  *)
(* makes at once where it else starts a timer (high priority functions,    *)
(* the return from a process) is a step that no other step may precede.    *)
(***************************************************************************)
EXTENDS Integers, SequencesExt

CONSTANTS
  Starter,       \* JobStarter objects: triggers of fields, timers, sockets ...
  Button,        \* JobActionButtonListener objects of tasks
  Function,      \* JobFunction and JobTask objects
  Action,        \* the function of every starter and button (m_function, m_action)
  Nobody, Dangling,  \* values of m_active_controller that are no controller
  HighPriority,  \* functions that run without timers      (setHighPriority)
  SilentFunction,\* functions that leave the mouse alone   (setSilentFunction)
  UpdateForms,   \* functions at whose end the GUI updates (getUpdateForms)
  Input,         \* starters and buttons of key and mouse events
  Early,         \* triggers of data fields: their transaction begins before they queue
  BlockUndo,     \* starters that block undo               (startJob( true ))
  AfterUpdate    \* the trigger of AFTER_UPDATE_FORMS, or Nobody

Caller == Starter \cup Button \cup Function

ASSUME ActorAssumption ==
  /\ Starter \cap Button = {} /\ (Starter \cup Button) \cap Function = {}
  /\ Nobody \notin Caller /\ Dangling \notin Caller \cup {Nobody}
  /\ Action \in [Starter \cup Button -> Function]
  /\ IsFiniteSet(Caller)

ASSUME OptionAssumption ==
  /\ BlockUndo \subseteq Starter
  /\ Early \subseteq Starter \ BlockUndo
  /\ \/ AfterUpdate = Nobody
     \/ /\ AfterUpdate \in BlockUndo \ Input
        /\ Action[AfterUpdate] \notin HighPriority

VARIABLES
  queue,       \* s_jobqueue
  wait,        \* s_wait
  controller,  \* the m_next_controller of every caller
  timers,      \* timers of starters ("again") and of actions ("start") that are on
  engine,      \* m_engine of every function and when it goes on
  canceled,    \* m_canceled of every function
  counter,     \* JobController::s_objectCounter
  active,      \* JobManager::m_active_controller
  open,        \* owners of the open transactions, the outermost first
  allowed,     \* undo is allowed: the trail records committed transactions
  failed       \* the assert that was violated, or "deleted": undefined behaviour

queueVars == <<queue, wait>>
codeVars  == <<engine, canceled>>
vars == <<queue, wait, controller, timers, engine, canceled, counter, active,
          open, allowed, failed>>

(*----------------------------- controllers -------------------------------*)

Controller == [state : {"none", "made", "on"}, tx : BOOLEAN,
               block : BOOLEAN, stopped : BOOLEAN, grab : BOOLEAN]

NoController == [state |-> "none", tx |-> FALSE, block |-> FALSE,
                 stopped |-> FALSE, grab |-> FALSE]

New(block) == [NoController EXCEPT !.state = "made", !.block = block]

Exists(c) == controller[c].state # "none"
On(c) == controller[c].state = "on"

\* The loop listener of a controller keeps keys and mouse from the widgets.
Grabbed == \E c \in Caller : controller[c].grab

\* The timers of high priority are calls, and so is a function in state "now".
AtOnce(t) == t[2] \notin Function /\ Action[t[2]] \in HighPriority
InCall == (\E t \in timers : AtOnce(t)) \/ (\E f \in Function : engine[f] = "now")

Event == failed = "none" /\ ~InCall
Fires(t) == failed = "none" /\ t \in timers /\ (InCall => AtOnce(t))

(*---------------------------- transactions -------------------------------*)

\* Begin appends the owner; commit and rollback end the transactions of the
\* owner and of those above, or none when the owner's is not open (any more).
BegunFirst(c) == <<c>> \o open
Begun(c) == Append(open, c)
EndedAll(c) == <<>>
Ended(c) ==
  IF c \in ToSet(open)
  THEN SubSeq(open, 1, (CHOOSE i \in DOMAIN open : open[i] = c) - 1)
  ELSE open

(*------------------------------- starters --------------------------------*)

Free(s) ==
  ~Exists(s) /\ <<"again", s>> \notin timers /\ s \notin ToSet(queue)

\* startJob.  The comparison with the front of the queue in push() concerns
\* base items, which a starter gets only when it leaves the queue.
StartJobAndWake(s) ==
  /\ queue' = Append(queue, s)
  /\ wait' = TRUE
  /\ timers' = timers \cup {<<"again", s>>}
StartJobInFront(s) ==
  /\ queue' = <<s>> \o queue
  /\ wait' = TRUE
  /\ timers' = IF wait THEN timers ELSE timers \cup {<<"again", s>>}
StartJob(s) ==
  /\ queue' = Append(queue, s)
  /\ wait' = TRUE
  /\ timers' = IF wait THEN timers ELSE timers \cup {<<"again", s>>}

Submit(s) ==
  /\ Event /\ Free(s)
  /\ s \notin Early \cup {AfterUpdate}
  /\ s \in Input => ~Grabbed
  /\ StartJob(s)
  /\ UNCHANGED <<controller, engine, canceled, counter, active, open, allowed, failed>>

\* doFinalWork of a data field: the transaction of the job to come takes in
\* the new value of the field.  setRunningMode() never refuses.
Edit(s) ==
  /\ Event /\ Free(s)
  /\ s \in Early
  /\ s \in Input => ~Grabbed
  /\ controller' = [controller EXCEPT ![s] = [New(FALSE) EXCEPT !.tx = TRUE]]
  /\ counter' = counter + 1
  /\ open' = Begun(s)
  /\ StartJob(s)
  /\ UNCHANGED <<engine, canceled, active, allowed, failed>>

\* startNextJobAction: makes the controller unless there is one already, and
\* starts the timer of the action.
StartNext(c, block) ==
  /\ controller' = [controller EXCEPT ![c] = IF Exists(c) THEN @ ELSE New(block)]
  /\ counter' = IF Exists(c) THEN counter ELSE counter + 1

TryAgain(s) ==
  /\ Fires(<<"again", s>>)
  /\ IF queue = <<>>
     THEN /\ wait' = FALSE
          /\ timers' = timers \ {<<"again", s>>}
          /\ UNCHANGED <<queue, controller, counter>>
     ELSE /\ queue' = Tail(queue)
          /\ StartNext(Head(queue), Head(queue) \in BlockUndo)
          /\ timers' = (timers \ {<<"again", s>>}) \cup {<<"start", Head(queue)>>}
          /\ UNCHANGED wait
  /\ UNCHANGED <<engine, canceled, active, open, allowed, failed>>

\* ButtonPressed of a task button passes the queue by.
Press(b) ==
  /\ Event
  /\ b \in Input => ~Grabbed
  /\ StartNext(b, FALSE)
  /\ timers' = timers \cup {<<"start", b>>}
  /\ UNCHANGED <<queue, wait, engine, canceled, active, open, allowed, failed>>

(*------------------------------ controllers ------------------------------*)

\* JobController::start for a controller whose action is a function.
Start(c) ==
  LET k == controller[c]
      f == Action[c]
      first == counter = 1
  IN
  /\ Fires(<<"start", c>>) /\ Exists(c)
  /\ timers' = timers \ {<<"start", c>>}
  /\ controller' = [controller EXCEPT ![c] =
       [k EXCEPT !.state = "on", !.tx = TRUE,
                 !.grab = @ \/ (first /\ f \notin SilentFunction)]]
  /\ active' = IF first THEN c ELSE active
  /\ open' = IF k.tx THEN open ELSE Begun(c)
  /\ allowed' = (allowed /\ (k.block => k.tx))
  /\ \/ /\ engine[f] = "none"
        /\ engine' = [engine EXCEPT ![f] = IF f \in HighPriority THEN "now" ELSE "timer"]
        /\ canceled' = [canceled EXCEPT ![f] = FALSE]
        /\ UNCHANGED failed
     \/ /\ engine[f] # "none"
        /\ failed' = "in use"            \* assert( m_engine == 0 )
        /\ UNCHANGED codeVars
  /\ UNCHANGED <<queue, wait, counter>>

\* The timer task still has the pointer to a controller that has ended and
\* deleted itself since: what the call does is undefined.
StartDeleted(c) ==
  /\ Fires(<<"start", c>>) /\ ~Exists(c)
  /\ failed' = "deleted"
  /\ UNCHANGED <<queue, wait, controller, timers, engine, canceled, counter, active,
                 open, allowed>>

\* JobController::start for the process of function f
StartProcess(f) ==
  /\ Fires(<<"start", f>>)
  /\ timers' = timers \ {<<"start", f>>}
  /\ controller' = [controller EXCEPT ![f].state = "on", ![f].tx = TRUE]
  /\ open' = Begun(f)
  /\ UNCHANGED <<queue, wait, engine, canceled, counter, active, allowed, failed>>

\* JobController::end, in parts: the last controller takes the active one with
\* it, another one leaves a pointer to itself ...
ActiveLeft(c) == IF counter > 1 /\ active = c THEN Dangling ELSE active
ActiveAfter(c) == IF counter = 1 THEN Nobody ELSE IF active = c THEN Dangling ELSE active

\* ... and its commit or rollback allows undo again if it has blocked it.
OpenLeft(c) == open
OpenAfter(c) == IF controller[c].tx THEN Ended(c) ELSE open
AllowedAlways(c) == TRUE
AllowedNever(c) == allowed
AllowedAfter(c) == allowed \/ (controller[c].tx /\ controller[c].block)

CounterTwice == counter - 2
CounterAfter == counter - 1

EndController(c) ==
  /\ controller' = [controller EXCEPT ![c] = NoController]
  /\ counter' = CounterAfter
  /\ active' = ActiveAfter(c)
  /\ open' = OpenAfter(c)
  /\ allowed' = AllowedAfter(c)

\* The update of all forms at the end of the only controller starts the
\* function AFTER_UPDATE_FORMS, unless an earlier one is still due.
UpdateStarts(c) ==
  /\ counter = 1 /\ Action[c] \in UpdateForms
  /\ AfterUpdate # Nobody
  /\ Free(AfterUpdate)

\* A starter whose job failed drops those that wait.
CleanupOne == IF queue = <<>> THEN <<>> ELSE Tail(queue)
Cleanup == <<>>

\* backFromJobController of the caller; a starter asserts that s_wait is set.
Back(c, rslt) ==
  LET starts == UpdateStarts(c)
      line == IF starts THEN Append(queue, AfterUpdate) ELSE queue
  IN
  /\ failed' = IF c \in Starter /\ ~wait THEN "not waiting" ELSE "none"
  /\ \/ /\ c \in Button
        /\ queue' = line
        /\ wait' = (wait \/ starts)
        /\ timers' = IF starts /\ ~wait THEN timers \cup {<<"again", AfterUpdate>>} ELSE timers
     \/ /\ c \in Starter /\ rslt = "ok"
        /\ queue' = line
        /\ timers' = timers \cup {<<"again", c>>}
        /\ UNCHANGED wait
     \/ /\ c \in Starter /\ rslt # "ok"
        /\ queue' = Cleanup
        /\ wait' = FALSE
        /\ UNCHANGED timers

End(c, rslt) == EndController(c) /\ Back(c, rslt)

(*------------------------------- functions -------------------------------*)

ControllerOf(f) == CHOOSE c \in Starter \cup Button : On(c) /\ Action[c] = f

\* A function goes on when its timer fires or it was called back.
Executing(f) ==
  \/ engine[f] = "now" /\ failed = "none"
  \/ engine[f] = "timer" /\ Event

\* op_Interrupt after a slice of its code
Pause(f) ==
  /\ Executing(f) /\ ~canceled[f]
  /\ f \notin HighPriority
  /\ engine' = [engine EXCEPT ![f] = "timer"]
  /\ UNCHANGED <<queue, wait, controller, timers, canceled, counter, active, open,
                 allowed, failed>>

\* op_Wait: the function runs a process.
RunProcess(f) ==
  /\ Executing(f) /\ ~canceled[f]
  /\ engine' = [engine EXCEPT ![f] = "wait"]
  /\ StartNext(f, FALSE)
  /\ timers' = timers \cup {<<"start", f>>}
  /\ UNCHANGED <<queue, wait, canceled, active, open, allowed, failed>>

Epilog(f, rslt) ==
  /\ Executing(f)
  /\ engine' = [engine EXCEPT ![f] = "none"]
  /\ End(ControllerOf(f), IF canceled[f] THEN "canceled" ELSE rslt)
  /\ UNCHANGED canceled

\* The worker finds the process terminated, and the function goes on.
ProcessEnds(f) ==
  /\ Event /\ On(f)
  /\ EndController(f)
  /\ engine' = [engine EXCEPT ![f] = "now"]
  /\ UNCHANGED <<queue, wait, timers, canceled, failed>>

\* Cancel, in the dialog of the active controller: the function ends now or,
\* when it waits for a process, as soon as the process is stopped.
Cancel(c) ==
  LET f == Action[c] IN
  /\ Event
  /\ active = c /\ On(c) /\ ~controller[c].stopped
  /\ IF Exists(f)
     THEN /\ controller' = [controller EXCEPT ![c].stopped = TRUE]
          /\ canceled' = [canceled EXCEPT ![f] = TRUE]
          /\ UNCHANGED <<queue, wait, timers, engine, counter, active, open, allowed, failed>>
     ELSE /\ engine' = [engine EXCEPT ![f] = "none"]
          /\ End(c, "canceled")
          /\ UNCHANGED canceled

(*------------------------------ properties -------------------------------*)

TypeOK ==
  /\ queue \in Seq(Starter) /\ wait \in BOOLEAN
  /\ controller \in [Caller -> Controller]
  /\ timers \subseteq ({"again"} \X Starter) \cup ({"start"} \X Caller)
  /\ engine \in [Function -> {"none", "timer", "now", "wait"}]
  /\ canceled \in [Function -> BOOLEAN]
  /\ counter \in Nat
  /\ active \in Caller \cup {Nobody, Dangling}
  /\ open \in Seq(Caller)
  /\ allowed \in BOOLEAN
  /\ failed \in {"none", "in use", "deleted", "not waiting"}

\* A starter is about to look at the queue, or has left it and its function is
\* due or runs.
Looking(s) == <<"again", s>> \in timers
Running(s) == On(s) \/ <<"start", s>> \in timers
Attentive(s) == Looking(s) \/ Running(s)

\* No wakeup is lost and none comes twice (JobStarter.cc:219-231, 247-259,
\* 363-371): while s_wait is set, exactly one starter runs or is about to look
\* at the queue, and while it is not set the queue is empty.
OneWakeup ==
  /\ \A s \in Starter : ~(Looking(s) /\ Running(s))
  /\ \A s, t \in Starter : Attentive(s) /\ Attentive(t) => s = t
  /\ wait <=> \E s \in Starter : Attentive(s)
  /\ ~wait => queue = <<>>

\* A running job is in a transaction of its own, so that a rollback takes back
\* what it has changed ("Falls noch keine Datapool-Transaktion gestartet wurde,
\* wird dies nun veranlasst", JobController.cc:121), and the transaction of a
\* process is inside that of its function.
JobInOwnTransaction ==
  \A c \in Caller : On(c) =>
    \E i \in DOMAIN open :
      /\ open[i] = c
      /\ c \in Function => ControllerOf(c) \in ToSet(SubSeq(open, 1, i - 1))

\* When no job is left, nothing of a job is left: no transaction, no controller
\* that is counted, no grab of the mouse, no block of undo (JobController.cc:155,
\* 178, 243-263).
QuietIsClean ==
  (~wait /\ timers = {} /\ \A c \in Caller : ~On(c)) =>
    /\ open = <<>> /\ counter = 0
    /\ active = Nobody /\ ~Grabbed
    /\ allowed

\* The job that runs is the one that Cancel and the progress dialog are about
\* (JobController.cc:69-73, 243-249).
ActiveIsLive ==
  /\ active \in Starter \cup Button => On(active)
  /\ active # Dangling
  /\ \A c \in Starter \cup Button : On(c) => active = c

\* The trail holds pointers to its owners (DataTTrailPoint): every open
\* transaction has a controller that still exists and that will end it.
OwnersKnown ==
  /\ IsInjective(open)
  /\ \A i \in DOMAIN open : controller[open[i]].tx

\* Undo is allowed exactly when no job that blocks it has a transaction
\* (JobController.cc:135-146, 159-163, 178-182).
UndoBlocked == allowed = ~\E c \in Caller : controller[c].tx /\ controller[c].block

\* The end of a job ends the transaction of that job and of no other one: no
\* end comes out of order (DataTTrail.cc:111-115).
OneTransactionEnds == [][Len(open') >= Len(open) - 1]_vars

\* The asserts of startJobAction (JobFunction.cc:206) and backFromJobController
\* (JobStarter.cc:356) hold, and no timer starts a deleted controller.
AssertsHold == failed = "none"

(*------------------------------ refinement -------------------------------*)

\* The starter whose function is due or runs; OneWakeup says that it is the only one.
RunningJob ==
  LET R == {s \in Starter : Running(s)} IN IF R = {} THEN Nobody ELSE CHOOSE s \in R : TRUE

Queue == INSTANCE JobQueue WITH
  Job <- Starter, NoJob <- Nobody,
  waiting <- queue,
  running <- RunningJob

\* The starters are a queue of jobs: one at a time, in the order of submission
\* whatever the priority of their functions (JobStarter.cc:390), dropped when
\* one fails, and never left waiting while nothing runs.  The manual says
\* otherwise of PRIORITY=HIGH: "This option adds the function at the beginning of
\* the function queue" (config-functions.tex:35).
ImplementsJobQueue == Queue!Spec

\* The same without the last part, for runs in which an assert may fail.
ImplementsQueueSafely == Queue!SafeSpec

(*----------------------------- specification -----------------------------*)

Init ==
  /\ queue = <<>> /\ wait = FALSE
  /\ controller = [c \in Caller |-> NoController]
  /\ timers = {}
  /\ engine = [f \in Function |-> "none"]
  /\ canceled = [f \in Function |-> FALSE]
  /\ counter = 0
  /\ active = Nobody
  /\ open = <<>>
  /\ allowed = TRUE
  /\ failed = "none"

Next ==
  \/ \E s \in Starter : Submit(s) \/ Edit(s) \/ TryAgain(s)
  \/ \E b \in Button : Press(b)
  \/ \E c \in Starter \cup Button : Start(c) \/ StartDeleted(c) \/ Cancel(c)
  \/ \E f \in Function :
       \/ StartProcess(f) \/ Pause(f) \/ RunProcess(f) \/ ProcessEnds(f)
       \/ \E rslt \in {"ok", "aborted"} : Epilog(f, rslt)

\* The zero timers of starters fire: the event loop of the GUI never stops.
Spec == Init /\ [][Next]_vars /\ \A s \in Starter : WF_vars(TryAgain(s))
=============================================================================
