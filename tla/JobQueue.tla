------------------------------ MODULE JobQueue ------------------------------
(***************************************************************************)
(* What the job system does for the parts of the program that submit jobs: *)
(* jobs run one at a time in the order of their submission, a job that     *)
(* fails takes the waiting ones with it, and as long as a job waits and    *)
(* none runs, the next one will be run.  There is no priority here because *)
(* the code has none in its queue; the manual describes one.               *)
(***************************************************************************)
EXTENDS Sequences

CONSTANTS Job, NoJob

VARIABLES
  waiting,  \* submitted jobs, the oldest first
  running   \* the job that runs

vars == <<waiting, running>>

Init == waiting = <<>> /\ running = NoJob

Submit(j) ==
  /\ j # running
  /\ \A i \in DOMAIN waiting : waiting[i] # j
  /\ waiting' = Append(waiting, j)
  /\ UNCHANGED running

Run ==
  /\ running = NoJob /\ waiting # <<>>
  /\ running' = Head(waiting)
  /\ waiting' = Tail(waiting)

\* The job has done its work; the user interface it updates may submit
\* another one at the same moment.
Finish ==
  /\ running # NoJob
  /\ running' = NoJob
  /\ \/ UNCHANGED waiting
     \/ \E j \in Job \ {running} : waiting' = Append(waiting, j)

\* The job was canceled or failed: those that wait are told so, none of
\* them runs.
Fail ==
  /\ running # NoJob
  /\ running' = NoJob
  /\ waiting' = <<>>

Next == (\E j \in Job : Submit(j)) \/ Run \/ Finish \/ Fail

SafeSpec == Init /\ [][Next]_vars

Spec == SafeSpec /\ WF_vars(Run)
=============================================================================
