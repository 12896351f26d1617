----------------------------- MODULE Processes ------------------------------
(***************************************************************************)
(* A process group (operator/ProcessGroup.cc, Worker.cc, BatchProcess.cc,  *)
(* ProcessWrapper.cc with Qt): a job action that runs processes one after  *)
(* the other.  A worker looks at the current process every 50 ms; what     *)
(* becomes of the child process arrives as signals of QProcess in between; *)
(* the user may cancel at any time.  One step is the work of one event.    *)
(***************************************************************************)
EXTENDS Integers, Sequences

CONSTANTS
  Process,
  Group,        \* the groups an application may configure: sequences of processes
  Daemon,       \* processes that are started detached         (isDaemon)
  Pseudo,       \* processes whose command is echo
  Input,        \* processes whose input may be incomplete     (checkInput)
  NoShell       \* processes started without a shell, whose start may fail

ASSUME GroupAssumption ==
  /\ Group \subseteq Seq(Process)
  /\ \A g \in Group :
       g # <<>> /\ \A i, j \in DOMAIN g : g[i] = g[j] => i = j
  /\ Daemon \cup Pseudo \cup Input \cup NoShell \subseteq Process

VARIABLES
  m_processes,  \* the processes of the group in their order
  phase,        \* of the controller of the group: "idle", "due", "on"
  result,       \* the result of the last job
  stopped,      \* m_stopped of the controller
  m_stopped,    \* of the group
  m_current,    \* index of the current process; one more is end()
  m_is_running, \* of every process
  m_exitCode,   \* of every ProcessQt
  exitStatus,   \* m_ExitStatus of every process
  child         \* of every process: "none", "running", "killed" or "failed"

groupVars == <<m_processes, m_stopped, m_current>>
processVars == <<m_is_running, m_exitCode, exitStatus, child>>
vars == <<phase, result, stopped, groupVars, processVars>>

AtEnd(i) == i > Len(m_processes)
Current == m_processes[m_current]
IsRunning == ~AtEnd(m_current) /\ m_is_running[Current]

\* startNextJobAction makes a new controller and starts the timer.
Call ==
  /\ phase = "idle"
  /\ phase' = "due" /\ result' = "none" /\ stopped' = FALSE
  /\ UNCHANGED <<groupVars, processVars>>

FirstFromZero == 0
First == 1

\* startJobAction with prepareStart
Begin ==
  /\ phase = "due"
  /\ phase' = "on"
  /\ m_current' = First
  /\ m_stopped' = FALSE
  /\ UNCHANGED <<result, stopped, m_processes, processVars>>

\* JobController::stop, stopJobAction and, while there is a current process,
\* QProcess::kill, which does nothing when none runs.
Kill == [p \in Process |->
  IF ~AtEnd(m_current) /\ p = Current /\ child[p] = "running" THEN "killed" ELSE child[p]]

Cancel ==
  /\ phase \in {"due", "on"} /\ ~stopped
  /\ stopped' = TRUE
  /\ m_stopped' = TRUE
  /\ child' = IF m_stopped THEN child ELSE Kill
  /\ UNCHANGED <<phase, result, m_processes, m_current, m_is_running, m_exitCode, exitStatus>>

(*--------------------------------- worker --------------------------------*)

\* backFromWorker
BackAnyhow(rslt) == rslt
Back(rslt) == IF m_stopped THEN "canceled" ELSE rslt

EndWorker(rslt) ==
  /\ phase' = "idle"
  /\ result' = Back(rslt)

\* work() while the current process does not run: checkInput ...
InputIncomplete ==
  /\ phase = "on" /\ ~IsRunning
  /\ Current \in Input
  /\ EndWorker("aborted")
  /\ UNCHANGED <<stopped, groupVars, processVars>>

\* ... the pseudo process, after which the others of the group do not come ...
WritePseudo ==
  /\ phase = "on" /\ ~IsRunning
  /\ Current \in Pseudo
  /\ EndWorker("ok")
  /\ UNCHANGED <<stopped, groupVars, processVars>>

\* ... or start(), which is the end for a daemon.
ExitCodeAtStart == -1

StartDaemon ==
  /\ phase = "on" /\ ~IsRunning
  /\ Current \in Daemon \ Pseudo
  /\ m_exitCode' = [m_exitCode EXCEPT ![Current] = ExitCodeAtStart]
  /\ exitStatus' = [exitStatus EXCEPT ![Current] = 0]
  /\ EndWorker("ok")
  /\ UNCHANGED <<stopped, groupVars, m_is_running, child>>

Start ==
  /\ phase = "on" /\ ~IsRunning
  /\ Current \notin Daemon \cup Pseudo
  /\ m_exitCode' = [m_exitCode EXCEPT ![Current] = ExitCodeAtStart]
  /\ exitStatus' = [exitStatus EXCEPT ![Current] = 0]
  /\ m_is_running' = [m_is_running EXCEPT ![Current] = TRUE]
  /\ child' = [child EXCEPT ![Current] = "running"]
  /\ UNCHANGED <<phase, result, stopped, groupVars>>

ChildTerminatedOrFaulty(p) == m_exitCode[p] # -1 \/ exitStatus[p] # 0
ChildTerminatedWell(p) == m_exitCode[p] = 0
ChildTerminated(p) == m_exitCode[p] # -1 /\ child[p] \notin {"running", "killed"}

\* work() when the current process has terminated
Terminated ==
  /\ phase = "on" /\ IsRunning
  /\ ChildTerminated(Current)
  /\ m_is_running' = [m_is_running EXCEPT ![Current] = FALSE]
  /\ UNCHANGED <<stopped, m_processes, m_stopped, m_exitCode, exitStatus, child>>

Succeeded(p) == exitStatus[p] = 0

GoOn ==
  /\ Terminated
  /\ Succeeded(Current)
  /\ m_current' = m_current + 1
  /\ IF AtEnd(m_current + 1) THEN EndWorker("ok") ELSE UNCHANGED <<phase, result>>

Failed ==
  /\ Terminated
  /\ ~Succeeded(Current)
  /\ EndWorker("aborted")
  /\ UNCHANGED m_current

(*---------------------------- signals of QProcess -----------------------*)

\* finished; a child that is killed may have come to its end before.
Finished(p) ==
  /\ child[p] \in {"running", "killed"}
  /\ \E code \in {0, 1} :
       /\ m_exitCode' = [m_exitCode EXCEPT ![p] = code]
       /\ exitStatus' = [exitStatus EXCEPT ![p] = code]
  /\ child' = [child EXCEPT ![p] = "none"]
  /\ UNCHANGED <<phase, result, stopped, groupVars, m_is_running>>

\* error( FailedToStart ), after which finished does not come
FailsToStart(p) ==
  /\ p \in NoShell /\ child[p] = "running"
  /\ exitStatus' = [exitStatus EXCEPT ![p] = 1]
  /\ child' = [child EXCEPT ![p] = "failed"]
  /\ UNCHANGED <<phase, result, stopped, groupVars, m_is_running, m_exitCode>>

\* error( WriteError ) and the like, while the child goes on
ErrorOf(p) ==
  /\ child[p] \in {"running", "killed"}
  /\ exitStatus' = [exitStatus EXCEPT ![p] = 1]
  /\ UNCHANGED <<phase, result, stopped, groupVars, m_is_running, m_exitCode, child>>

(*----------------------------- specification -----------------------------*)

Init ==
  /\ m_processes \in Group
  /\ phase = "idle" /\ result = "none" /\ stopped = FALSE
  /\ m_stopped = TRUE /\ m_current = 1
  /\ m_is_running = [p \in Process |-> FALSE]
  /\ m_exitCode = [p \in Process |-> -1]
  /\ exitStatus = [p \in Process |-> 0]
  /\ child = [p \in Process |-> "none"]

Worker ==
  \/ InputIncomplete \/ WritePseudo \/ StartDaemon \/ Start \/ GoOn \/ Failed

Next ==
  \/ Call \/ Begin \/ Cancel \/ Worker
  \/ \E p \in Process : Finished(p) \/ FailsToStart(p) \/ ErrorOf(p)

Spec == Init /\ [][Next]_vars

\* Timers fire, and a child that is killed comes to its end.
FairSpec ==
  /\ Spec
  /\ WF_vars(Begin) /\ WF_vars(Worker)
  /\ \A p \in Process : WF_vars(child[p] = "killed" /\ Finished(p))

(*------------------------------ properties -------------------------------*)

TypeOK ==
  /\ m_processes \in Group
  /\ phase \in {"idle", "due", "on"}
  /\ result \in {"none", "ok", "canceled", "aborted"}
  /\ stopped \in BOOLEAN /\ m_stopped \in BOOLEAN
  /\ m_current \in 1 .. Len(m_processes) + 1
  /\ m_is_running \in [Process -> BOOLEAN]
  /\ m_exitCode \in [Process -> {-1, 0, 1}]
  /\ exitStatus \in [Process -> {0, 1}]
  /\ child \in [Process -> {"none", "running", "killed", "failed"}]

\* The group ends once, and as canceled when the cancel came while it was on
\* (ProcessGroup.cc:211-231).  A cancel before is forgotten by prepareStart
\* (ProcessGroup.cc:105).
Action == INSTANCE ActionContract WITH
  phase <- IF phase = "on" /\ m_stopped THEN "stopping" ELSE phase
ImplementsAction == Action!SafeSpec

NoOrphan == phase # "on" => \A p \in Process : child[p] = "none" /\ ~m_is_running[p]

\* The processes run one after the other, each after the success of those
\* before it; the group ends well only after the success of all it has run, and
\* no child process outlives it, except a daemon (ProcessGroup.cc:166-181,
\* ProcessWrapper.cc:190-196).
OneAfterTheOther ==
  /\ NoOrphan
  /\ phase = "on" \/ result = "ok" =>
       \A i \in DOMAIN m_processes : i # m_current =>
         LET p == m_processes[i] IN
         /\ child[p] = "none" /\ ~m_is_running[p]
         /\ i < m_current => exitStatus[p] = 0

\* A cancel ends the job, with two exceptions: the current process was not (yet)
\* there to be killed and another one starts (ProcessGroup.cc:116-123, 129-160),
\* or it has failed to start (ProcessWrapper.cc:190-196, 326-333).
Escaped == phase = "on" /\ IsRunning /\ child[Current] \in {"running", "failed"}
StoppedEnds == (phase = "on" /\ m_stopped) ~> (phase # "on" \/ Escaped)
=============================================================================
