-------------------------- MODULE ProcessesProofs ---------------------------
(***************************************************************************)
(* Theorems about Processes, for all groups and all sets of processes: the *)
(* types, the order of the processes, no child left behind, and that a     *)
(* group keeps the contract of a job action.                               *)
(***************************************************************************)
EXTENDS Processes, TLAPS

(*------------------------- the inductive invariant ------------------------*)

SucceededBefore(i) ==
  \A j \in DOMAIN m_processes : j < i => exitStatus[m_processes[j]] = 0

\* While the group is on there is a current process, only it can have a child,
\* and those before it have succeeded.
Ongoing ==
  phase = "on" =>
    /\ m_current \in DOMAIN m_processes
    /\ \A p \in Process :
         p # Current \/ ~m_is_running[Current] => child[p] = "none" /\ ~m_is_running[p]
    /\ SucceededBefore(m_current)

\* A child has no exit code before its end.
Uncoded == \A p \in Process : child[p] # "none" => m_exitCode[p] = -1

Ended ==
  /\ phase # "idle" => result = "none"
  /\ result = "ok" => SucceededBefore(m_current)

ProcessesInv == TypeOK /\ NoOrphan /\ Ongoing /\ Uncoded /\ Ended

(*-------------------------------- lemmas ----------------------------------*)

\* A group is a sequence of at least one process, without repetition.
LEMMA GroupIsSequence ==
  ASSUME TypeOK
  PROVE  /\ m_processes \in Seq(Process)
         /\ Len(m_processes) \in Nat /\ Len(m_processes) >= 1
         /\ DOMAIN m_processes = 1 .. Len(m_processes)
         /\ \A i \in DOMAIN m_processes : m_processes[i] \in Process
         /\ \A i, j \in DOMAIN m_processes : m_processes[i] = m_processes[j] => i = j
BY GroupAssumption DEF TypeOK

\* At the start the group is off.
LEMMA InitHolds == Init => ProcessesInv
<1> SUFFICES ASSUME Init PROVE ProcessesInv
  OBVIOUS
<1>1. m_processes \in Seq(Process) /\ Len(m_processes) \in Nat
  BY GroupAssumption DEF Init
<1>2. TypeOK
  <2>1. m_current \in 1 .. Len(m_processes) + 1
    BY <1>1 DEF Init
  <2>2. stopped \in BOOLEAN /\ m_stopped \in BOOLEAN
    BY DEF Init
  <2>3. /\ m_is_running \in [Process -> BOOLEAN]
        /\ m_exitCode \in [Process -> {-1, 0, 1}]
        /\ exitStatus \in [Process -> {0, 1}]
        /\ child \in [Process -> {"none", "running", "killed", "failed"}]
    BY DEF Init
  <2> QED
    BY <2>1, <2>2, <2>3 DEF Init, TypeOK
<1>3. NoOrphan /\ Ongoing /\ Uncoded /\ Ended
  BY DEF Init, NoOrphan, Ongoing, Uncoded, Ended
<1> QED
  BY <1>2, <1>3 DEF ProcessesInv

\* Between the jobs
LEMMA StartKeepsInv == ASSUME ProcessesInv, Call \/ Begin PROVE ProcessesInv'
<1> USE DEF ProcessesInv
<1>0. Len(m_processes) \in Nat /\ Len(m_processes) >= 1
      /\ DOMAIN m_processes = 1 .. Len(m_processes)
  BY GroupIsSequence
<1>1. CASE Call
  <2>1. TypeOK'
    BY <1>1 DEF Call, TypeOK, groupVars, processVars
  <2>2. (NoOrphan /\ Ongoing /\ Uncoded /\ Ended)'
    BY <1>1 DEF Call, NoOrphan, Ongoing, Uncoded, Ended, groupVars, processVars
  <2> QED
    BY <2>1, <2>2
<1>2. CASE Begin
  <2>1. TypeOK'
    <3>1. m_current' \in 1 .. Len(m_processes') + 1
      BY <1>0, <1>2 DEF Begin, First
    <3>2. m_stopped' \in BOOLEAN
      BY <1>2 DEF Begin
    <3> QED
      BY <1>2, <3>1, <3>2 DEF Begin, TypeOK, processVars
  <2>2. (NoOrphan /\ Uncoded /\ Ended)'
    BY <1>2 DEF Begin, NoOrphan, Uncoded, Ended, processVars
  <2>3. Ongoing'
    BY <1>0, <1>2 DEF Begin, First, NoOrphan, Ongoing, SucceededBefore, Current, processVars
  <2> QED
    BY <2>1, <2>2, <2>3
<1> QED
  BY <1>1, <1>2

\* A cancel changes only what becomes of the current child.
LEMMA CancelKeepsInv == ASSUME ProcessesInv, Cancel PROVE ProcessesInv'
<1> USE DEF ProcessesInv
<1>1. /\ child' \in [Process -> {"none", "running", "killed", "failed"}]
      /\ \A p \in Process : (child'[p] = "none") <=> (child[p] = "none")
  BY DEF Cancel, Kill, TypeOK
<1>2. TypeOK'
  BY <1>1 DEF Cancel, TypeOK
<1>3. (NoOrphan /\ Uncoded)'
  BY <1>1 DEF Cancel, NoOrphan, Uncoded
<1>4. Ongoing'
  <2>1. Current' = Current
    BY DEF Cancel, Current
  <2> QED
    BY <1>1, <2>1 DEF Cancel, Ongoing, SucceededBefore
<1>5. Ended'
  BY DEF Cancel, Ended, SucceededBefore
<1> QED
  BY <1>2, <1>3, <1>4, <1>5

\* The worker ends the job before a child has been started.
LEMMA EarlyEndKeepsInv ==
  ASSUME ProcessesInv, InputIncomplete \/ WritePseudo \/ StartDaemon
  PROVE  ProcessesInv'
<1> USE DEF ProcessesInv
<1>0. m_processes' = m_processes /\ m_current' = m_current /\ m_is_running' = m_is_running
      /\ child' = child /\ phase = "on" /\ phase' = "idle" /\ ~m_is_running[Current]
      /\ m_current \in DOMAIN m_processes
  BY GroupIsSequence DEF InputIncomplete, WritePseudo, StartDaemon, EndWorker, IsRunning,
     AtEnd, Ongoing, groupVars, processVars
<1>1. \A p \in Process : child[p] = "none" /\ ~m_is_running[p]
  BY <1>0 DEF Ongoing
<1>2. Current \in Process /\ \A j \in DOMAIN m_processes :
        m_processes[j] \in Process /\ (m_processes[j] = Current => j = m_current)
  BY <1>0, GroupIsSequence DEF Current
<1>3. TypeOK'
  BY <1>0, <1>2 DEF InputIncomplete, WritePseudo, StartDaemon, EndWorker, Back,
     ExitCodeAtStart, TypeOK, groupVars, processVars
<1>4. (NoOrphan /\ Ongoing /\ Uncoded)'
  BY <1>0, <1>1 DEF NoOrphan, Ongoing, Uncoded
<1>5. exitStatus' \in [Process -> {0, 1}]
      /\ \A p \in Process : p # Current => exitStatus'[p] = exitStatus[p]
  BY <1>2 DEF InputIncomplete, WritePseudo, StartDaemon, TypeOK, processVars
<1>6. SucceededBefore(m_current)'
  <2> SUFFICES ASSUME NEW j \in DOMAIN m_processes, j < m_current
               PROVE  exitStatus'[m_processes[j]] = 0
    BY <1>0 DEF SucceededBefore
  <2>1. m_processes[j] # Current /\ m_processes[j] \in Process
    BY <1>0, <1>2, GroupIsSequence
  <2>2. exitStatus[m_processes[j]] = 0
    BY <1>0 DEF Ongoing, SucceededBefore
  <2> QED
    BY <1>5, <2>1, <2>2
<1>7. Ended'
  BY <1>0, <1>6 DEF Ended
<1> QED
  BY <1>3, <1>4, <1>7

\* The worker starts the current process.
LEMMA ChildStartKeepsInv == ASSUME ProcessesInv, Start PROVE ProcessesInv'
<1> USE DEF ProcessesInv
<1>0. phase = "on" /\ ~m_is_running[Current] /\ m_current \in DOMAIN m_processes
      /\ Current' = Current /\ Current \in Process
  BY GroupIsSequence DEF Start, IsRunning, AtEnd, Ongoing, Current, groupVars
<1>1. TypeOK'
  BY <1>0 DEF Start, ExitCodeAtStart, TypeOK, groupVars
<1>2. (NoOrphan /\ Ended)'
  BY <1>0 DEF Start, NoOrphan, Ended
<1>3. Uncoded'
  BY <1>0 DEF Start, ExitCodeAtStart, Uncoded, TypeOK
<1>4. Ongoing'
  <2>1. \A p \in Process : p # Current => child'[p] = "none" /\ ~m_is_running'[p]
    BY <1>0 DEF Start, Ongoing, TypeOK
  <2>2. m_is_running'[Current]
    BY <1>0 DEF Start, TypeOK
  <2>3. SucceededBefore(m_current)'
    <3> SUFFICES ASSUME NEW j \in DOMAIN m_processes, j < m_current
                 PROVE  exitStatus'[m_processes[j]] = 0
      BY DEF Start, SucceededBefore, groupVars
    <3>1. m_processes[j] # Current /\ m_processes[j] \in Process
      BY <1>0, GroupIsSequence DEF Current
    <3>2. exitStatus[m_processes[j]] = 0
      BY <1>0 DEF Ongoing, SucceededBefore
    <3> QED
      BY <1>0, <3>1, <3>2 DEF Start, TypeOK
  <2> QED
    BY <1>0, <2>1, <2>2, <2>3 DEF Start, Ongoing, groupVars
<1> QED
  BY <1>1, <1>2, <1>3, <1>4

\* The worker sees the end of the current process.
LEMMA TerminatedKeepsInv == ASSUME ProcessesInv, GoOn \/ Failed PROVE ProcessesInv'
<1> USE DEF ProcessesInv
<1>0. /\ phase = "on" /\ m_current \in 1 .. Len(m_processes) /\ Len(m_processes) \in Nat
      /\ DOMAIN m_processes = 1 .. Len(m_processes)
      /\ Current \in Process /\ m_processes' = m_processes
      /\ exitStatus' = exitStatus /\ child' = child /\ m_exitCode' = m_exitCode
      /\ m_is_running' = [m_is_running EXCEPT ![Current] = FALSE]
  BY GroupIsSequence DEF GoOn, Failed, Terminated, Ongoing, Current
<1>1. child[Current] = "none"
  BY <1>0 DEF GoOn, Failed, Terminated, ChildTerminated, Uncoded, TypeOK
<1>2. \A p \in Process : child'[p] = "none" /\ ~m_is_running'[p]
  BY <1>0, <1>1 DEF Ongoing, TypeOK
<1>3. TypeOK'
  BY <1>0 DEF GoOn, Failed, Terminated, EndWorker, Back, AtEnd, TypeOK
<1>4. (NoOrphan /\ Uncoded)'
  BY <1>0, <1>2 DEF NoOrphan, Uncoded
<1>5. CASE GoOn
  <2>1. m_current' = m_current + 1 /\ exitStatus[m_processes[m_current]] = 0
    BY <1>5 DEF GoOn, Succeeded, Current
  <2>2. SucceededBefore(m_current)'
    <3> SUFFICES ASSUME NEW j \in 1 .. Len(m_processes), j < m_current + 1
                 PROVE  exitStatus[m_processes[j]] = 0
      BY <1>0, <2>1 DEF SucceededBefore
    <3>1. CASE j = m_current
      BY <2>1, <3>1
    <3>2. CASE j < m_current
      BY <1>0, <3>2 DEF Ongoing, SucceededBefore
    <3> QED
      BY <1>0, <3>1, <3>2
  <2>3. phase' = "on" => m_current' \in DOMAIN m_processes'
    BY <1>0, <1>5, <2>1 DEF GoOn, AtEnd, EndWorker
  <2>4. Ongoing'
    BY <1>2, <2>2, <2>3 DEF Ongoing
  <2>5. Ended'
    BY <1>0, <1>5, <2>2 DEF GoOn, EndWorker, Ended
  <2> QED
    BY <1>3, <1>4, <2>4, <2>5
<1>6. CASE Failed
  <2>1. phase' = "idle" /\ result' # "ok"
    BY <1>6 DEF Failed, EndWorker, Back
  <2> QED
    BY <1>3, <1>4, <2>1 DEF Ongoing, Ended
<1> QED
  BY <1>5, <1>6

\* A signal of a child: there is one only while the group is on, and it is that
\* of the current process.
LEMMA SignalKeepsInv ==
  ASSUME ProcessesInv, NEW p \in Process, Finished(p) \/ FailsToStart(p) \/ ErrorOf(p)
  PROVE  ProcessesInv'
<1> USE DEF ProcessesInv
<1>0. /\ phase' = phase /\ result' = result /\ m_processes' = m_processes
      /\ m_current' = m_current /\ m_is_running' = m_is_running /\ child[p] # "none"
      /\ \A q \in Process : q # p => exitStatus'[q] = exitStatus[q] /\ child'[q] = child[q]
                                     /\ m_exitCode'[q] = m_exitCode[q]
  BY DEF Finished, FailsToStart, ErrorOf, TypeOK, groupVars
<1>1. phase = "on" /\ p = Current /\ m_is_running[Current]
  BY <1>0 DEF NoOrphan, Ongoing
<1>2. TypeOK'
  BY DEF Finished, FailsToStart, ErrorOf, TypeOK, groupVars
<1>3. (NoOrphan /\ Ended)'
  BY <1>0, <1>1 DEF NoOrphan, Ended
<1>4. Uncoded'
  BY DEF Finished, FailsToStart, ErrorOf, Uncoded, TypeOK
<1>5. Ongoing'
  <2>1. Current' = Current /\ m_current \in DOMAIN m_processes
    BY <1>0, <1>1 DEF Current, Ongoing
  <2>2. \A q \in Process : q # Current => child'[q] = "none" /\ ~m_is_running'[q]
    BY <1>0, <1>1 DEF Ongoing
  <2>3. SucceededBefore(m_current)'
    <3> SUFFICES ASSUME NEW j \in DOMAIN m_processes, j < m_current
                 PROVE  exitStatus'[m_processes[j]] = 0
      BY <1>0 DEF SucceededBefore
    <3>1. m_processes[j] # p /\ m_processes[j] \in Process
      BY <1>1, <2>1, GroupIsSequence DEF Current
    <3>2. exitStatus[m_processes[j]] = 0
      BY <1>1 DEF Ongoing, SucceededBefore
    <3> QED
      BY <1>0, <3>1, <3>2
  <2> QED
    BY <1>0, <1>1, <2>1, <2>2, <2>3 DEF Ongoing
<1> QED
  BY <1>2, <1>3, <1>4, <1>5

\* Every step of Processes keeps the invariant.
LEMMA InvInductive == ProcessesInv /\ [Next]_vars => ProcessesInv'
<1> SUFFICES ASSUME ProcessesInv, [Next]_vars PROVE ProcessesInv'
  OBVIOUS
<1>1. CASE Call \/ Begin
  BY <1>1, StartKeepsInv
<1>2. CASE Cancel
  BY <1>2, CancelKeepsInv
<1>3. CASE Worker
  BY <1>3, EarlyEndKeepsInv, ChildStartKeepsInv, TerminatedKeepsInv DEF Worker
<1>4. CASE \E p \in Process : Finished(p) \/ FailsToStart(p) \/ ErrorOf(p)
  BY <1>4, SignalKeepsInv
<1>5. CASE UNCHANGED vars
  BY <1>5 DEF vars, groupVars, processVars, ProcessesInv, TypeOK, NoOrphan, Ongoing,
     Uncoded, Ended, SucceededBefore, Current
<1> QED
  BY <1>1, <1>2, <1>3, <1>4, <1>5 DEF Next

\* The invariant of Processes holds in every reachable state.
LEMMA InvHolds == Spec => []ProcessesInv
<1>1. Init => ProcessesInv
  BY InitHolds
<1>2. ProcessesInv /\ [Next]_vars => ProcessesInv'
  BY InvInductive
<1> QED
  BY <1>1, <1>2, PTL DEF Spec

(*-------------------------------- theorems --------------------------------*)

\* The variables keep their types for every set of groups (ProcessGroup.cc).
THEOREM ProcessesTypeCorrect == Spec => []TypeOK
<1>1. ProcessesInv => TypeOK
  BY DEF ProcessesInv
<1> QED
  BY <1>1, InvHolds, PTL

\* Processes run one at a time, in order, each after the success of those before,
\* and none outlives the job (ProcessGroup.cc:166-181).
THEOREM ProcessesInOrder == Spec => []OneAfterTheOther
<1>1. ProcessesInv => OneAfterTheOther
  <2> SUFFICES ASSUME ProcessesInv, phase = "on" \/ result = "ok",
                      NEW i \in DOMAIN m_processes, i # m_current
               PROVE  LET p == m_processes[i] IN
                      /\ child[p] = "none" /\ ~m_is_running[p]
                      /\ i < m_current => exitStatus[p] = 0
    BY DEF OneAfterTheOther, ProcessesInv
  <2>1. m_processes[i] \in Process
        /\ (m_current \in DOMAIN m_processes => m_processes[i] # Current)
    BY GroupIsSequence DEF ProcessesInv, Current
  <2>2. child[m_processes[i]] = "none" /\ ~m_is_running[m_processes[i]]
    BY <2>1 DEF ProcessesInv, NoOrphan, Ongoing
  <2>3. SucceededBefore(m_current)
    BY DEF ProcessesInv, Ongoing, Ended
  <2> QED
    BY <2>2, <2>3 DEF SucceededBefore
<1> QED
  BY <1>1, InvHolds, PTL

(*------------------------------ the contract ------------------------------*)

\* How the worker ends: as Back says of the result of work().
LEMMA EndMapsToEnd ==
  ASSUME phase = "on", m_stopped \in BOOLEAN, m_stopped' = m_stopped,
         EndWorker("ok") \/ EndWorker("aborted")
  PROVE  Action!Next
<1>1. phase' = "idle"
  BY DEF EndWorker
<1>2. CASE m_stopped
  BY <1>1, <1>2 DEF EndWorker, Back, Action!Next, Action!End
<1>3. CASE ~m_stopped
  BY <1>1, <1>3 DEF EndWorker, Back, Action!Next, Action!End
<1> QED
  BY <1>2, <1>3

\* A process group keeps the contract of a job action: it ends once after each
\* start, and not as if all had gone well when it was canceled while it was on
\* (ProcessGroup.cc:201-274).
THEOREM GroupKeepsContract == Spec => ImplementsAction
<1>1. Init => Action!Init
  BY DEF Init, Action!Init
<1>2. ProcessesInv /\ [Next]_vars => [Action!Next]_(Action!vars)
  <2> SUFFICES ASSUME ProcessesInv, [Next]_vars
               PROVE  Action!Next \/ UNCHANGED Action!vars
    OBVIOUS
  <2>0. m_stopped \in BOOLEAN
    BY DEF ProcessesInv, TypeOK
  <2>1. CASE Call
    BY <2>1 DEF Call, Action!Next, Action!Call
  <2>2. CASE Begin
    BY <2>2 DEF Begin, Action!Next, Action!Begin
  <2>3. CASE Cancel
    BY <2>0, <2>3 DEF Cancel, Action!Next, Action!Stop, Action!vars
  <2>4. CASE Worker
    <3>1. CASE InputIncomplete \/ WritePseudo \/ StartDaemon \/ Failed
      BY <2>0, <3>1, EndMapsToEnd DEF InputIncomplete, WritePseudo, StartDaemon, Failed,
         Terminated, groupVars
    <3>2. CASE Start
      BY <3>2 DEF Start, Action!vars, groupVars
    <3>3. CASE GoOn
      BY <2>0, <3>3, EndMapsToEnd DEF GoOn, Terminated, Action!vars
    <3> QED
      BY <2>4, <3>1, <3>2, <3>3 DEF Worker
  <2>5. CASE \E p \in Process : Finished(p) \/ FailsToStart(p) \/ ErrorOf(p)
    BY <2>5 DEF Finished, FailsToStart, ErrorOf, Action!vars, groupVars
  <2>6. CASE UNCHANGED vars
    BY <2>6 DEF vars, groupVars, Action!vars
  <2> QED
    BY <2>1, <2>2, <2>3, <2>4, <2>5, <2>6 DEF Next
<1> QED
  BY <1>1, <1>2, InvHolds, PTL DEF Spec, ImplementsAction, Action!SafeSpec
=============================================================================
