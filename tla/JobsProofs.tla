----------------------------- MODULE JobsProofs -----------------------------
(***************************************************************************)
(* Theorems about Jobs for every set of starters, buttons and functions:   *)
(* the types, the queue that is never forgotten and never read by two, the *)
(* owners on the trail, the block of undo, and that the starters implement *)
(* a queue of jobs.  They need one another: that undo is allowed in time,  *)
(* for instance, rests on the fact that at most one starter has a job.     *)
(* The last part is about programs in which every job goes through the     *)
(* queue: there the chain of controllers is the trail of transactions, no  *)
(* assert fails and nothing is left of a job that has ended.               *)
(***************************************************************************)
EXTENDS Jobs, SequenceLemmas

(*------------------------- the inductive invariant -----------------------*)

\* A queued starter is queued once, and its job has not begun.
QueueApart ==
  /\ \A i, j \in DOMAIN queue : queue[i] = queue[j] => i = j
  /\ \A i \in DOMAIN queue : ~Running(queue[i])

\* The timers of starters and processes start a controller that exists and
\* has not been started (those of buttons may not).
StartsOnce ==
  \A c \in Starter \cup Function :
    <<"start", c>> \in timers => controller[c].state = "made"

\* A function waits exactly while its process has a controller.
WaitsForProcess == \A f \in Function : Exists(f) <=> engine[f] = "wait"

\* A function at work has a controller to return to.
HasController ==
  \A f \in Function : engine[f] # "none" =>
    \E c \in Starter \cup Button : On(c) /\ Action[c] = f

CounterExact == counter = Cardinality({c \in Caller : Exists(c)})

\* Only starters block undo, and only data fields begin a transaction early.
ControllerKinds ==
  \A c \in Caller :
    /\ controller[c].block => c \in BlockUndo
    /\ controller[c].tx => On(c) \/ (c \in Early /\ Exists(c))

JobInv ==
  /\ TypeOK /\ OneWakeup /\ OwnersKnown /\ UndoBlocked
  /\ QueueApart /\ StartsOnce /\ WaitsForProcess /\ HasController
  /\ CounterExact /\ ControllerKinds

(*--------------------- what the parts of the steps do --------------------*)

\* The controllers stay as many as they are when none comes or goes.
LEMMA SameControllers ==
  ASSUME CounterExact, counter' = counter,
         \A c \in Caller : Exists(c)' <=> Exists(c)
  PROVE  CounterExact'
<1>1. {c \in Caller : Exists(c)'} = {c \in Caller : Exists(c)}
  OBVIOUS
<1> QED
  BY <1>1 DEF CounterExact

\* One controller more is made, and the count grows by one.
LEMMA OneMore ==
  ASSUME TypeOK, CounterExact, NEW c \in Caller, counter' = counter + 1,
         ~Exists(c), Exists(c)', \A d \in Caller \ {c} : Exists(d)' <=> Exists(d)
  PROVE  counter' \in Nat /\ CounterExact'
<1> DEFINE K == {d \in Caller : Exists(d)}
<1>1. IsFiniteSet(K) /\ c \notin K
  BY ActorAssumption, FS_Subset
<1>2. {d \in Caller : Exists(d)'} = K \cup {c}
  OBVIOUS
<1>3. Cardinality(K \cup {c}) = Cardinality(K) + 1
  BY <1>1, FS_AddElement
<1>4. counter' \in Nat
  <2>1. counter \in Nat
    BY DEF TypeOK
  <2> QED
    BY <2>1
<1> QED
  BY <1>2, <1>3, <1>4 DEF CounterExact

\* startNextJobAction: the caller has a controller afterwards, the one it had
\* if there was one.
LEMMA NextController ==
  ASSUME TypeOK, CounterExact, NEW c \in Caller, NEW b \in BOOLEAN, StartNext(c, b)
  PROVE  /\ controller' \in [Caller -> Controller]
         /\ \A d \in Caller \ {c} : controller'[d] = controller[d]
         /\ controller'[c] = IF Exists(c) THEN controller[c] ELSE New(b)
         /\ New(b).state = "made" /\ ~New(b).tx /\ New(b).block = b
         /\ Exists(c)'
         /\ counter' \in Nat
         /\ CounterExact'
<1>1. New(b) \in Controller /\ New(b).state = "made" /\ ~New(b).tx /\ New(b).block = b
  BY DEF New, NoController, Controller
<1>2. /\ controller' \in [Caller -> Controller]
      /\ \A d \in Caller \ {c} : controller'[d] = controller[d]
      /\ controller'[c] = IF Exists(c) THEN controller[c] ELSE New(b)
  BY <1>1 DEF StartNext, TypeOK
<1>3. Exists(c)'
  BY <1>1, <1>2 DEF Exists
<1>4. counter' \in Nat
  <2>1. counter \in Nat
    BY DEF TypeOK
  <2>2. counter' = counter \/ counter' = counter + 1
    BY DEF StartNext
  <2> QED
    BY <2>1, <2>2
<1>5. CounterExact'
  <2>1. CASE Exists(c)
    BY <1>2, <2>1, SameControllers DEF StartNext, Exists
  <2>2. CASE ~Exists(c)
    BY <1>2, <1>3, <2>2, OneMore DEF StartNext, Exists
  <2> QED
    BY <2>1, <2>2
<1> QED
  BY <1>1, <1>2, <1>3, <1>4, <1>5

\* Begin: an owner that has no open transaction becomes the innermost one.
LEMMA Beginning ==
  ASSUME TypeOK, OwnersKnown, NEW c \in Caller, ~controller[c].tx, open' = Begun(c),
         controller'[c].tx, \A d \in Caller \ {c} : controller'[d] = controller[d]
  PROVE  open' \in Seq(Caller) /\ OwnersKnown'
<1>1. open \in Seq(Caller) /\ open' = Append(open, c)
  BY DEF TypeOK, Begun
<1>2. /\ open' \in Seq(Caller) /\ Len(open') = Len(open) + 1
      /\ open'[Len(open) + 1] = c
      /\ \A i \in 1..Len(open) : open'[i] = open[i] /\ open[i] \in Caller
  BY <1>1
<1>3. \A i \in 1..Len(open) : open[i] # c /\ controller[open[i]].tx
  BY <1>1 DEF OwnersKnown
<1>4. \A i, j \in 1..Len(open) : open[i] = open[j] => i = j
  BY <1>1 DEF OwnersKnown, IsInjective
<1>5. DOMAIN open' = 1..(Len(open) + 1)
  BY <1>2
<1>6. \A i, j \in DOMAIN open' : open'[i] = open'[j] => i = j
  BY <1>1, <1>2, <1>3, <1>4, <1>5
<1>7. \A i \in DOMAIN open' : controller'[open'[i]].tx
  BY <1>1, <1>2, <1>3, <1>5
<1> QED
  BY <1>2, <1>6, <1>7 DEF OwnersKnown, IsInjective

\* The owners that a commit or rollback leaves are open before it, in the same
\* places, and the one that ends is not among them.
LEMMA OwnersLeft ==
  ASSUME TypeOK, OwnersKnown, NEW c \in Caller
  PROVE  /\ Ended(c) \in Seq(Caller)
         /\ Len(Ended(c)) <= Len(open)
         /\ \A i \in 1..Len(Ended(c)) : Ended(c)[i] = open[i] /\ open[i] # c
<1>0. open \in Seq(Caller)
  BY DEF TypeOK
<1>1. open \in Seq(Caller) /\ DOMAIN open = 1..Len(open) /\ Len(open) \in Nat
  BY <1>0
<1>2. \A i, j \in 1..Len(open) : open[i] = open[j] => i = j
  BY <1>1 DEF OwnersKnown, IsInjective
<1>3. CASE c \in ToSet(open)
  <2>1. PICK k \in 1..Len(open) : /\ open[k] = c
                                 /\ Ended(c) = SubSeq(open, 1, k - 1)
    <3>1. \E i \in DOMAIN open : open[i] = c
      BY <1>3 DEF ToSet
    <3> DEFINE k == CHOOSE i \in DOMAIN open : open[i] = c
    <3>2. k \in DOMAIN open /\ open[k] = c
      BY <3>1
    <3>3. Ended(c) = SubSeq(open, 1, k - 1)
      BY <1>3 DEF Ended
    <3> QED
      BY <1>1, <3>2, <3>3
  <2>2. k - 1 \in Nat /\ k - 1 <= Len(open)
    BY <1>1, <2>1
  <2>3. /\ SubSeq(open, 1, k - 1) \in Seq(Caller)
        /\ Len(SubSeq(open, 1, k - 1)) = k - 1
        /\ \A i \in 1..(k - 1) : SubSeq(open, 1, k - 1)[i] = open[i]
    BY <1>1, <2>2, Prefix
  <2>4. \A i \in 1..(k - 1) : open[i] # c
    BY <1>1, <1>2, <2>1
  <2> QED
    BY <2>1, <2>2, <2>3, <2>4
<1>4. CASE c \notin ToSet(open)
  <2>1. \A i \in 1..Len(open) : open[i] # c
    BY <1>1, <1>4 DEF ToSet
  <2> QED
    BY <1>1, <1>4, <2>1 DEF Ended
<1> QED
  BY <1>3, <1>4

\* JobController::end of a controller that exists.  That undo is allowed again at
\* the right moment rests on the premise that no second job blocks it.
LEMMA Ending ==
  ASSUME TypeOK, CounterExact, OwnersKnown, UndoBlocked, ControllerKinds,
         NEW c \in Caller, Exists(c), EndController(c),
         \A d \in Caller : controller[d].tx /\ controller[d].block
                          /\ controller[c].tx /\ controller[c].block => d = c
  PROVE  /\ controller' = [controller EXCEPT ![c] = NoController]
         /\ controller' \in [Caller -> Controller]
         /\ controller'[c] = NoController
         /\ \A d \in Caller \ {c} : controller'[d] = controller[d]
         /\ counter' \in Nat /\ CounterExact'
         /\ active' \in Caller \cup {Nobody, Dangling}
         /\ open' \in Seq(Caller) /\ OwnersKnown'
         /\ allowed' \in BOOLEAN /\ UndoBlocked'
         /\ ControllerKinds'
<1>1. NoController \in Controller /\ NoController.state = "none"
      /\ ~NoController.tx /\ ~NoController.block
  BY DEF NoController, Controller
<1>2. controller' = [controller EXCEPT ![c] = NoController]
  BY DEF EndController
<1>3. /\ controller' \in [Caller -> Controller]
      /\ controller'[c] = NoController
      /\ \A d \in Caller \ {c} : controller'[d] = controller[d]
  BY <1>1, <1>2 DEF TypeOK
<1>4. counter' \in Nat /\ CounterExact'
  <2> DEFINE K == {d \in Caller : Exists(d)}
  <2>1. IsFiniteSet(K) /\ c \in K
    BY ActorAssumption, FS_Subset
  <2>2. {d \in Caller : Exists(d)'} = K \ {c}
    BY <1>1, <1>3 DEF Exists
  <2>3. IsFiniteSet(K \ {c}) /\ Cardinality(K \ {c}) = Cardinality(K) - 1
    BY <2>1, FS_RemoveElement
  <2>4. counter' = Cardinality(K \ {c})
    BY <2>3 DEF CounterExact, EndController, CounterAfter
  <2> QED
    BY <2>2, <2>3, <2>4, FS_CardinalityType DEF CounterExact
<1>5. active' \in Caller \cup {Nobody, Dangling}
  BY DEF EndController, ActiveAfter, TypeOK
<1>6. open' \in Seq(Caller) /\ OwnersKnown'
  <2>0. open \in Seq(Caller)
    BY DEF TypeOK
  <2>1. \A i \in 1..Len(open) : controller[open[i]].tx /\ open[i] \in Caller
    BY <2>0 DEF OwnersKnown
  <2>2. \A i, j \in 1..Len(open) : open[i] = open[j] => i = j
    BY <2>0 DEF OwnersKnown, IsInjective
  <2>3. /\ open' \in Seq(Caller)
        /\ Len(open') <= Len(open)
        /\ \A i \in 1..Len(open') : open'[i] = open[i] /\ open[i] # c
    <3>1. CASE controller[c].tx
      BY <3>1, OwnersLeft DEF EndController, OpenAfter
    <3>2. CASE ~controller[c].tx
      BY <2>0, <2>1, <3>2 DEF EndController, OpenAfter
    <3> QED
      BY <3>1, <3>2
  <2>4. 1..Len(open') \subseteq 1..Len(open)
    BY <2>0, <2>3
  <2>5. \A i \in 1..Len(open') : controller'[open'[i]].tx
    BY <1>3, <2>1, <2>3, <2>4
  <2>6. \A i, j \in 1..Len(open') : open'[i] = open'[j] => i = j
    BY <2>2, <2>3, <2>4
  <2>7. DOMAIN open' = 1..Len(open')
    BY <2>3
  <2> QED
    BY <2>3, <2>5, <2>6, <2>7 DEF OwnersKnown, IsInjective
<1>7. allowed' \in BOOLEAN /\ UndoBlocked'
  <2> DEFINE Blocks(d) == controller[d].tx /\ controller[d].block
  <2>1. \A d \in Caller : (Blocks(d))' <=> d # c /\ Blocks(d)
    BY <1>1, <1>3
  <2>2. allowed' = (allowed \/ Blocks(c))
    BY DEF EndController, AllowedAfter
  <2>3. allowed = ~\E d \in Caller : Blocks(d)
    BY DEF UndoBlocked
  <2>4. UndoBlocked' <=> allowed' = ~\E d \in Caller : (Blocks(d))'
    BY DEF UndoBlocked
  <2>5. CASE Blocks(c)
    BY <2>1, <2>2, <2>4, <2>5
  <2>6. CASE ~Blocks(c)
    BY <2>1, <2>2, <2>3, <2>4, <2>6
  <2> QED
    BY <2>5, <2>6
<1>8. ControllerKinds'
  BY <1>1, <1>3 DEF ControllerKinds, On, Exists
<1> QED
  BY <1>2, <1>3, <1>4, <1>5, <1>6, <1>7, <1>8

\* A starter that is neither in the queue nor at work may queue up.
LEMMA Enqueued ==
  ASSUME TypeOK, QueueApart, NEW s \in Starter, s \notin ToSet(queue),
         queue' = Append(queue, s),
         ~Running(s)', \A t \in Starter : Running(t)' => Running(t)
  PROVE  queue' \in Seq(Starter) /\ QueueApart'
<1>1. queue \in Seq(Starter)
  BY DEF TypeOK
<1>2. /\ queue' \in Seq(Starter) /\ DOMAIN queue' = 1..(Len(queue) + 1)
      /\ queue'[Len(queue) + 1] = s
      /\ \A i \in 1..Len(queue) : queue'[i] = queue[i] /\ queue[i] \in Starter
  BY <1>1
<1>3. /\ \A i \in 1..Len(queue) : queue[i] # s /\ ~Running(queue[i])
      /\ \A i, j \in 1..Len(queue) : queue[i] = queue[j] => i = j
  BY <1>1 DEF ToSet, QueueApart
<1>4. \A i, j \in DOMAIN queue' : queue'[i] = queue'[j] => i = j
  BY <1>1, <1>2, <1>3
<1>5. \A i \in DOMAIN queue' : (~Running(queue[i]))'
  <2> TAKE i \in DOMAIN queue'
  <2>1. CASE i = Len(queue) + 1
    BY <1>2, <2>1 DEF Running, On
  <2>2. CASE i # Len(queue) + 1
    <3>1. i \in 1..Len(queue)
      BY <1>1, <1>2, <2>2
    <3>2. queue'[i] = queue[i] /\ queue[i] \in Starter /\ ~Running(queue[i])
      BY <1>2, <1>3, <3>1
    <3> QED
      BY <3>2 DEF Running, On
  <2> QED
    BY <2>1, <2>2
<1> QED
  BY <1>2, <1>4, <1>5 DEF QueueApart

\* A starter that nobody is about to start does not run.
LEMMA FreeStarter ==
  ASSUME StartsOnce, NEW s \in Starter, Free(s)
  PROVE  ~Attentive(s) /\ s \notin ToSet(queue) /\ controller[s].state = "none"
BY DEF StartsOnce, Free, Exists, Attentive, Looking, Running, On

\* startJob
LEMMA Queueing ==
  ASSUME TypeOK, OneWakeup, QueueApart, StartsOnce,
         NEW s \in Starter, Free(s), StartJob(s),
         \A c \in (Starter \cup Function) \ {s} : controller'[c].state = controller[c].state,
         controller'[s].state # "on"
  PROVE  /\ queue' \in Seq(Starter)
         /\ wait' \in BOOLEAN
         /\ timers' \subseteq ({"again"} \X Starter) \cup ({"start"} \X Caller)
         /\ OneWakeup' /\ QueueApart' /\ StartsOnce'
<1>1. ~Attentive(s) /\ s \notin ToSet(queue) /\ controller[s].state = "none"
  BY FreeStarter
<1>2. /\ \A c \in Caller : <<"start", c>> \in timers' <=> <<"start", c>> \in timers
      /\ \A t \in Starter :
           <<"again", t>> \in timers' <=> <<"again", t>> \in timers \/ (~wait /\ t = s)
  BY DEF StartJob, TypeOK
<1>3. \A t \in Starter : Running(t)' <=> Running(t)
  BY <1>1, <1>2 DEF Running, On, Caller, Attentive
<1>4. \A t \in Starter : Looking(t)' <=> Looking(t) \/ (~wait /\ t = s)
  BY <1>2 DEF Looking
<1>5. wait' = TRUE /\ queue' = Append(queue, s)
  BY DEF StartJob
<1>6. OneWakeup'
  <2>1. CASE wait
    BY <1>3, <1>4, <1>5, <2>1 DEF OneWakeup, Attentive
  <2>2. CASE ~wait
    BY <1>1, <1>3, <1>4, <1>5, <2>2 DEF OneWakeup, Attentive
  <2> QED
    BY <2>1, <2>2
<1>7. queue' \in Seq(Starter) /\ QueueApart'
  BY <1>1, <1>3, <1>5, Enqueued DEF Attentive
<1>8. StartsOnce'
  BY <1>1, <1>2, ActorAssumption DEF StartsOnce, Caller, Attentive, Running
<1>9. timers' \subseteq ({"again"} \X Starter) \cup ({"start"} \X Caller)
  <2>1. timers \subseteq ({"again"} \X Starter) \cup ({"start"} \X Caller)
    BY DEF TypeOK
  <2>2. <<"again", s>> \in {"again"} \X Starter
    OBVIOUS
  <2> QED
    BY <2>1, <2>2 DEF StartJob
<1> QED
  BY <1>5, <1>6, <1>7, <1>8, <1>9

(*-------------------------------- the steps ------------------------------*)

\* A job is submitted to the queue.
LEMMA SubmitKeeps ==
  ASSUME JobInv, NEW s \in Starter, Submit(s)
  PROVE  JobInv'
<1>1. /\ Free(s) /\ StartJob(s)
      /\ UNCHANGED <<controller, engine, canceled, counter, active, open, allowed, failed>>
  BY DEF Submit
<1>2. controller[s].state = "none"
  BY <1>1, FreeStarter DEF JobInv
<1>3. /\ queue' \in Seq(Starter)
      /\ wait' \in BOOLEAN
      /\ timers' \subseteq ({"again"} \X Starter) \cup ({"start"} \X Caller)
      /\ OneWakeup' /\ QueueApart' /\ StartsOnce'
  BY <1>1, <1>2, Queueing DEF JobInv
<1>4. TypeOK'
  BY <1>1, <1>3 DEF JobInv, TypeOK
<1>5. OwnersKnown' /\ UndoBlocked' /\ ControllerKinds'
  BY <1>1 DEF JobInv, OwnersKnown, UndoBlocked, ControllerKinds, On, Exists
<1>6. WaitsForProcess' /\ HasController'
  BY <1>1 DEF JobInv, WaitsForProcess, HasController, Exists, On
<1>7. CounterExact'
  BY <1>1, SameControllers DEF JobInv, Exists
<1> QED
  BY <1>3, <1>4, <1>5, <1>6, <1>7 DEF JobInv

\* The edit of a field begins its transaction and submits its job.
LEMMA EditKeeps ==
  ASSUME JobInv, NEW s \in Starter, Edit(s)
  PROVE  JobInv'
<1> DEFINE k == [New(FALSE) EXCEPT !.tx = TRUE]
<1>1. /\ Free(s) /\ StartJob(s) /\ s \in Early
      /\ controller' = [controller EXCEPT ![s] = k]
      /\ counter' = counter + 1 /\ open' = Begun(s)
      /\ UNCHANGED <<engine, canceled, active, allowed, failed>>
  BY DEF Edit
<1>2. controller[s].state = "none"
  BY <1>1, FreeStarter DEF JobInv
<1>3. k \in Controller /\ k.state = "made" /\ k.tx /\ ~k.block
  BY DEF New, NoController, Controller
<1>4. /\ controller' \in [Caller -> Controller]
      /\ controller'[s] = k
      /\ \A c \in Caller \ {s} : controller'[c] = controller[c]
  BY <1>1, <1>3 DEF JobInv, TypeOK, Caller
<1>5. ~controller[s].tx
  BY <1>2 DEF JobInv, ControllerKinds, Exists, On, Caller
<1>6. /\ queue' \in Seq(Starter)
      /\ wait' \in BOOLEAN
      /\ timers' \subseteq ({"again"} \X Starter) \cup ({"start"} \X Caller)
      /\ OneWakeup' /\ QueueApart' /\ StartsOnce'
  BY <1>1, <1>3, <1>4, Queueing DEF JobInv, Caller
<1>7. open' \in Seq(Caller) /\ OwnersKnown'
  BY <1>1, <1>3, <1>4, <1>5, Beginning DEF JobInv, Caller
<1>8. counter' \in Nat /\ CounterExact'
  BY <1>1, <1>2, <1>3, <1>4, OneMore DEF JobInv, Caller, Exists
<1>9. TypeOK'
  BY <1>1, <1>4, <1>6, <1>7, <1>8 DEF JobInv, TypeOK
<1>10. UndoBlocked'
  BY <1>1, <1>3, <1>4, <1>5 DEF JobInv, UndoBlocked, Caller
<1>11. ControllerKinds'
  BY <1>1, <1>3, <1>4 DEF JobInv, ControllerKinds, On, Exists, Caller
<1>12. WaitsForProcess'
  BY <1>1, <1>4, ActorAssumption DEF JobInv, WaitsForProcess, Exists, Caller
<1>13. HasController'
  BY <1>1, <1>2, <1>4 DEF JobInv, HasController, On, Caller
<1> QED
  BY <1>6, <1>7, <1>8, <1>9, <1>10, <1>11, <1>12, <1>13 DEF JobInv

\* The timer of a starter takes the next job from the queue.
LEMMA TryAgainKeeps ==
  ASSUME JobInv, NEW s \in Starter, TryAgain(s)
  PROVE  JobInv'
<1>1. /\ Looking(s)
      /\ UNCHANGED <<engine, canceled, active, open, allowed, failed>>
  BY DEF TryAgain, Fires, Looking
<1>2. \A t \in Starter : Attentive(t) <=> t = s
  BY <1>1 DEF JobInv, OneWakeup, Attentive
<1>3. queue \in Seq(Starter)
  BY DEF JobInv, TypeOK
<1>4. CASE queue = <<>>
  <2>1. wait' = FALSE /\ timers' = timers \ {<<"again", s>>}
        /\ UNCHANGED <<queue, controller, counter>>
    BY <1>4 DEF TryAgain
  <2>2. \A t \in Starter : Running(t)' = Running(t) /\ ~Running(t)
    BY <1>1, <1>2, <2>1 DEF JobInv, OneWakeup, Attentive, Running, On
  <2>3. \A t \in Starter : ~Looking(t)'
    BY <1>2, <2>1 DEF Attentive, Looking
  <2>4. OneWakeup'
    BY <1>4, <2>1, <2>2, <2>3 DEF OneWakeup, Attentive
  <2>5. TypeOK'
    BY <1>1, <2>1 DEF JobInv, TypeOK
  <2>6. QueueApart'
    BY <1>4, <2>1 DEF QueueApart
  <2>7. StartsOnce'
    BY <2>1 DEF JobInv, StartsOnce
  <2>8. OwnersKnown' /\ UndoBlocked' /\ ControllerKinds'
    BY <1>1, <2>1 DEF JobInv, OwnersKnown, UndoBlocked, ControllerKinds, On, Exists
  <2>9. WaitsForProcess' /\ HasController'
    BY <1>1, <2>1 DEF JobInv, WaitsForProcess, HasController, Exists, On
  <2>10. CounterExact'
    BY <2>1, SameControllers DEF JobInv, Exists
  <2> QED
    BY <2>4, <2>5, <2>6, <2>7, <2>8, <2>9, <2>10 DEF JobInv
<1>5. CASE queue # <<>>
  <2>0. PICK h \in Starter : h = Head(queue) /\ h = queue[1]
    BY <1>3, <1>5, TailOfSeq, NonEmptySeq
  <2> DEFINE b == h \in BlockUndo
  <2>1. /\ queue' = Tail(queue) /\ wait' = wait
        /\ StartNext(h, b)
        /\ timers' = (timers \ {<<"again", s>>}) \cup {<<"start", h>>}
    BY <1>5, <2>0 DEF TryAgain
  <2>2. /\ h = queue[1] /\ Len(queue) \in Nat \ {0}
        /\ queue' \in Seq(Starter) /\ DOMAIN queue' = 1..(Len(queue) - 1)
        /\ \A i \in 1..(Len(queue) - 1) : queue'[i] = queue[i + 1]
    BY <1>3, <1>5, <2>0, <2>1, TailOfSeq, NonEmptySeq
  <2>3. /\ \A i, j \in 1..Len(queue) : queue[i] = queue[j] => i = j
        /\ \A i \in 1..Len(queue) : queue[i] \in Starter /\ ~Running(queue[i])
    BY <1>3 DEF JobInv, QueueApart
  <2>4. ~Running(h)
    BY <2>2, <2>3
  <2>5. /\ controller' \in [Caller -> Controller]
        /\ \A d \in Caller \ {h} : controller'[d] = controller[d]
        /\ controller'[h] = IF Exists(h) THEN controller[h] ELSE New(b)
        /\ New(b).state = "made" /\ ~New(b).tx /\ New(b).block = b
        /\ Exists(h)' /\ counter' \in Nat /\ CounterExact'
    <3>1. h \in Caller /\ b \in BOOLEAN
      BY DEF Caller
    <3> QED
      BY <2>1, <3>1, NextController DEF JobInv
  <2>6. /\ controller'[h].state = "made"
        /\ controller'[h].tx => controller[h].tx /\ controller'[h].block = controller[h].block
        /\ controller[h].tx => controller'[h] = controller[h]
        /\ controller'[h].block => h \in BlockUndo
    <3>1. CASE Exists(h)
      <4>1. controller[h].state \in {"none", "made", "on"}
        BY <2>2 DEF JobInv, TypeOK, Controller, Caller
      <4> QED
        BY <2>2, <2>4, <2>5, <3>1, <4>1 DEF JobInv, ControllerKinds, Exists, Running, On, Caller
    <3>2. CASE ~Exists(h)
      BY <2>2, <2>4, <2>5, <3>2 DEF JobInv, ControllerKinds, Running, On, Caller
    <3> QED
      BY <3>1, <3>2
  <2>7. /\ \A t \in Starter : Running(t)' <=> (Running(t) \/ t = h)
        /\ \A t \in Starter : Looking(t)' <=> (Looking(t) /\ t # s)
    BY <2>1, <2>2, <2>4, <2>5, <2>6 DEF Running, Looking, On, Caller
  <2>8. OneWakeup'
    <3>1. wait' /\ h \in Starter
      BY <1>2, <2>1, <2>2 DEF JobInv, OneWakeup
    <3>2. \A t \in Starter : ~Looking(t)' /\ (Running(t)' <=> t = h)
      BY <1>1, <1>2, <2>7 DEF JobInv, OneWakeup, Attentive
    <3> QED
      BY <3>1, <3>2 DEF OneWakeup, Attentive
  <2>9. QueueApart'
    <3>1. \A i, j \in DOMAIN queue' : queue'[i] = queue'[j] => i = j
      BY <2>2, <2>3
    <3>2. \A i \in DOMAIN queue' : (~Running(queue[i]))'
      <4> TAKE i \in DOMAIN queue'
      <4>1. i + 1 \in 1..Len(queue) /\ i + 1 # 1 /\ queue'[i] = queue[i + 1]
        BY <2>2
      <4>2. queue[i + 1] # h /\ queue[i + 1] \in Starter /\ ~Running(queue[i + 1])
        BY <2>2, <2>3, <4>1
      <4>3. \A t \in Starter : t # h /\ ~Running(t) => ~Running(t)'
        BY <2>7
      <4> QED
        BY <4>1, <4>2, <4>3 DEF Running, On
    <3> QED
      BY <3>1, <3>2 DEF QueueApart
  <2>10. StartsOnce'
    BY <2>1, <2>2, <2>5, <2>6 DEF JobInv, StartsOnce, Caller
  <2>11. TypeOK'
    <3>1. timers' \subseteq ({"again"} \X Starter) \cup ({"start"} \X Caller)
      <4>1. timers \subseteq ({"again"} \X Starter) \cup ({"start"} \X Caller)
        BY DEF JobInv, TypeOK
      <4>2. <<"start", h>> \in {"start"} \X Caller
        BY <2>2 DEF Caller
      <4> QED
        BY <2>1, <4>1, <4>2
    <3> QED
      BY <1>1, <2>1, <2>2, <2>5, <3>1 DEF JobInv, TypeOK
  <2>12. OwnersKnown'
    <3>1. open' = open /\ open \in Seq(Caller)
      BY <1>1 DEF JobInv, TypeOK
    <3>2. \A c \in Caller : controller[c].tx => controller'[c].tx
      BY <2>5, <2>6
    <3> QED
      BY <3>1, <3>2 DEF JobInv, OwnersKnown
  <2>13. UndoBlocked'
    BY <1>1, <2>2, <2>5, <2>6 DEF JobInv, UndoBlocked, Caller
  <2>14. ControllerKinds'
    BY <2>2, <2>4, <2>5, <2>6 DEF JobInv, ControllerKinds, Running, On, Exists, Caller
  <2>15. WaitsForProcess'
    BY <1>1, <2>2, <2>5, ActorAssumption DEF JobInv, WaitsForProcess, Exists, Caller
  <2>16. HasController'
    <3>1. \A c \in Starter \cup Button : On(c) => On(c)'
      BY <2>4, <2>5 DEF Running, On, Caller
    <3> QED
      BY <1>1, <3>1 DEF JobInv, HasController
  <2> QED
    BY <2>5, <2>8, <2>9, <2>10, <2>11, <2>12, <2>13, <2>14, <2>15, <2>16 DEF JobInv
<1> QED
  BY <1>4, <1>5

\* The timers may only gain what they may hold.
LEMMA TimerAdded ==
  ASSUME TypeOK, NEW t \in ({"again"} \X Starter) \cup ({"start"} \X Caller),
         timers' \subseteq timers \cup {t}
  PROVE  timers' \subseteq ({"again"} \X Starter) \cup ({"start"} \X Caller)
<1>1. timers \subseteq ({"again"} \X Starter) \cup ({"start"} \X Caller)
  BY DEF TypeOK
<1> QED
  BY <1>1

\* The queue is right as long as the starters at work are the same.
LEMMA SameAttention ==
  ASSUME JobInv, UNCHANGED <<queue, wait>>,
         \A s \in Starter : Looking(s)' <=> Looking(s),
         \A s \in Starter : Running(s)' <=> Running(s)
  PROVE  OneWakeup' /\ QueueApart'
<1>1. OneWakeup'
  BY DEF JobInv, OneWakeup, Attentive
<1>2. queue \in Seq(Starter)
  BY DEF JobInv, TypeOK
<1>3. QueueApart'
  BY <1>2 DEF JobInv, QueueApart, Running, On
<1> QED
  BY <1>1, <1>3

\* Controllers of other callers than starters do not concern the queue.
LEMMA StartersUntouched ==
  ASSUME JobInv, UNCHANGED <<queue, wait>>,
         \A s \in Starter : controller'[s] = controller[s],
         \A s \in Starter : <<"again", s>> \in timers' <=> <<"again", s>> \in timers,
         \A s \in Starter : <<"start", s>> \in timers' <=> <<"start", s>> \in timers
  PROVE  OneWakeup' /\ QueueApart'
<1>1. /\ \A s \in Starter : Looking(s)' <=> Looking(s)
      /\ \A s \in Starter : Running(s)' <=> Running(s)
  BY DEF Looking, Running, On
<1> QED
  BY <1>1, SameAttention

\* A task button makes its controller without the queue.
LEMMA PressKeeps ==
  ASSUME JobInv, NEW b \in Button, Press(b)
  PROVE  JobInv'
<1>1. /\ StartNext(b, FALSE)
      /\ timers' = timers \cup {<<"start", b>>}
      /\ UNCHANGED <<queue, wait, engine, canceled, active, open, allowed, failed>>
  BY DEF Press
<1>2. b \in Caller /\ b \notin Starter /\ b \notin Function
  BY ActorAssumption DEF Caller
<1>3. /\ controller' \in [Caller -> Controller]
      /\ \A d \in Caller \ {b} : controller'[d] = controller[d]
      /\ controller'[b] = IF Exists(b) THEN controller[b] ELSE New(FALSE)
      /\ New(FALSE).state = "made" /\ ~New(FALSE).tx /\ New(FALSE).block = FALSE
      /\ Exists(b)' /\ counter' \in Nat /\ CounterExact'
  BY <1>1, <1>2, NextController DEF JobInv
<1>4. ~Exists(b) => ~controller[b].tx
  BY <1>2 DEF JobInv, ControllerKinds, On, Exists
<1>5. OneWakeup' /\ QueueApart'
  BY <1>1, <1>2, <1>3, StartersUntouched DEF Caller
<1>6. TypeOK'
  <2>1. timers' \subseteq ({"again"} \X Starter) \cup ({"start"} \X Caller)
    BY <1>1, <1>2, TimerAdded DEF JobInv
  <2> QED
    BY <1>1, <1>3, <2>1 DEF JobInv, TypeOK
<1>7. StartsOnce'
  BY <1>1, <1>2, <1>3 DEF JobInv, StartsOnce, Caller
<1>8. OwnersKnown'
  <2>1. open' = open /\ open \in Seq(Caller)
    BY <1>1 DEF JobInv, TypeOK
  <2>2. \A c \in Caller : controller[c].tx => controller'[c].tx
    BY <1>3, <1>4
  <2> QED
    BY <2>1, <2>2 DEF JobInv, OwnersKnown
<1>9. UndoBlocked' /\ ControllerKinds'
  BY <1>1, <1>2, <1>3, <1>4 DEF JobInv, UndoBlocked, ControllerKinds, On, Exists
<1>10. WaitsForProcess'
  BY <1>1, <1>2, <1>3 DEF JobInv, WaitsForProcess, Exists, Caller
<1>11. HasController'
  <2>1. \A c \in Starter \cup Button : On(c) => On(c)'
    BY <1>3 DEF Exists, On, Caller
  <2> QED
    BY <1>1, <2>1 DEF JobInv, HasController
<1> QED
  BY <1>3, <1>5, <1>6, <1>7, <1>8, <1>9, <1>10, <1>11 DEF JobInv

\* A timer that fires for a controller that is gone starts nothing.
LEMMA StartDeletedKeeps ==
  ASSUME JobInv, NEW c \in Starter \cup Button, StartDeleted(c)
  PROVE  JobInv'
<1>1. /\ failed' = "deleted"
      /\ UNCHANGED <<queue, wait, controller, timers, engine, canceled, counter, active,
                     open, allowed>>
  BY DEF StartDeleted
<1>2. TypeOK'
  BY <1>1 DEF JobInv, TypeOK
<1>3. OneWakeup' /\ QueueApart'
  BY <1>1, StartersUntouched
<1>4. OwnersKnown' /\ UndoBlocked' /\ ControllerKinds'
  BY <1>1 DEF JobInv, OwnersKnown, UndoBlocked, ControllerKinds, On, Exists
<1>5. StartsOnce' /\ WaitsForProcess' /\ HasController'
  BY <1>1 DEF JobInv, StartsOnce, WaitsForProcess, HasController, Exists, On
<1>6. CounterExact'
  BY <1>1, SameControllers DEF JobInv, Exists
<1> QED
  BY <1>2, <1>3, <1>4, <1>5, <1>6 DEF JobInv

\* A function goes on by a timer.
LEMMA PauseKeeps ==
  ASSUME JobInv, NEW f \in Function, Pause(f)
  PROVE  JobInv'
<1>1. /\ engine' = [engine EXCEPT ![f] = "timer"]
      /\ engine[f] \in {"now", "timer"}
      /\ UNCHANGED <<queue, wait, controller, timers, canceled, counter, active, open,
                     allowed, failed>>
  BY DEF Pause, Executing
<1>2. TypeOK'
  BY <1>1 DEF JobInv, TypeOK
<1>3. OneWakeup' /\ QueueApart'
  BY <1>1, StartersUntouched
<1>4. OwnersKnown' /\ UndoBlocked' /\ ControllerKinds'
  BY <1>1 DEF JobInv, OwnersKnown, UndoBlocked, ControllerKinds, On, Exists
<1>5. StartsOnce' /\ WaitsForProcess' /\ HasController'
  BY <1>1 DEF JobInv, TypeOK, StartsOnce, WaitsForProcess, HasController, Exists, On
<1>6. CounterExact'
  BY <1>1, SameControllers DEF JobInv, Exists
<1> QED
  BY <1>2, <1>3, <1>4, <1>5, <1>6 DEF JobInv

\* The controller of a starter or a button begins its job.
LEMMA StartKeeps ==
  ASSUME JobInv, NEW c \in Starter \cup Button, Start(c)
  PROVE  JobInv'
<1> DEFINE k == controller[c]
           f == Action[c]
           first == counter = 1
<1>1. /\ <<"start", c>> \in timers /\ Exists(c)
      /\ timers' = timers \ {<<"start", c>>}
      /\ controller' = [controller EXCEPT ![c] =
           [k EXCEPT !.state = "on", !.tx = TRUE,
                     !.grab = @ \/ (first /\ f \notin SilentFunction)]]
      /\ active' \in {c, active}
      /\ open' = IF k.tx THEN open ELSE Begun(c)
      /\ allowed' = (allowed /\ (k.block => k.tx))
      /\ UNCHANGED <<queue, wait, counter>>
  BY DEF Start, Fires
<1>2. \/ engine[f] = "none" /\ engine' = [engine EXCEPT ![f] = "now"] /\ failed' = failed
         /\ canceled' = [canceled EXCEPT ![f] = FALSE]
      \/ engine[f] = "none" /\ engine' = [engine EXCEPT ![f] = "timer"] /\ failed' = failed
         /\ canceled' = [canceled EXCEPT ![f] = FALSE]
      \/ engine' = engine /\ failed' = "in use" /\ canceled' = canceled
  BY DEF Start, codeVars
<1>3. c \in Caller /\ c \notin Function /\ f \in Function
  BY ActorAssumption DEF Caller
<1>4. k \in Controller
  BY <1>3 DEF JobInv, TypeOK
<1>5. /\ controller' \in [Caller -> Controller]
      /\ \A d \in Caller \ {c} : controller'[d] = controller[d]
      /\ controller'[c].state = "on" /\ controller'[c].tx
      /\ controller'[c].block = k.block
  <2> DEFINE n == [k EXCEPT !.state = "on", !.tx = TRUE,
                           !.grab = @ \/ (first /\ f \notin SilentFunction)]
  <2>1. n \in Controller /\ n.state = "on" /\ n.tx /\ n.block = k.block
    BY <1>4 DEF Controller
  <2>2. controller' = [controller EXCEPT ![c] = n]
    BY <1>1
  <2> HIDE DEF n
  <2> QED
    BY <1>3, <2>1, <2>2 DEF JobInv, TypeOK
<1>6. \A d \in Caller : /\ Exists(d)' <=> Exists(d)
                        /\ On(d) => On(d)'
  BY <1>1, <1>3, <1>5 DEF Exists, On
<1>7. On(c)'
  BY <1>5 DEF On
<1>8. OneWakeup' /\ QueueApart'
  <2>1. \A s \in Starter : Looking(s)' <=> Looking(s)
    BY <1>1 DEF Looking
  <2>2. \A s \in Starter : Running(s)' <=> Running(s)
    BY <1>1, <1>3, <1>5 DEF Running, On, Caller
  <2> QED
    BY <1>1, <2>1, <2>2, SameAttention
<1>9. TypeOK'
  <2>1. timers' \subseteq ({"again"} \X Starter) \cup ({"start"} \X Caller)
    BY <1>1 DEF JobInv, TypeOK
  <2>2. open' \in Seq(Caller)
    <3>1. open \in Seq(Caller)
      BY DEF JobInv, TypeOK
    <3> QED
      BY <1>1, <1>3, <3>1 DEF Begun
  <2>3. engine' \in [Function -> {"none", "timer", "now", "wait"}]
        /\ canceled' \in [Function -> BOOLEAN]
        /\ failed' \in {"none", "in use", "deleted", "not waiting"}
    BY <1>2 DEF JobInv, TypeOK
  <2>4. allowed' \in BOOLEAN
    BY <1>1
  <2>5. active' \in Caller \cup {Nobody, Dangling}
    BY <1>1, <1>3 DEF JobInv, TypeOK
  <2> QED
    BY <1>1, <1>5, <2>1, <2>2, <2>3, <2>4, <2>5 DEF JobInv, TypeOK
<1>10. StartsOnce'
  BY <1>1, <1>3, <1>5 DEF JobInv, StartsOnce, Caller
<1>11. OwnersKnown'
  <2>1. CASE k.tx
    <3>1. open' = open /\ open \in Seq(Caller)
      BY <1>1, <2>1 DEF JobInv, TypeOK
    <3>2. \A d \in Caller : controller[d].tx => controller'[d].tx
      BY <1>5
    <3> QED
      BY <3>1, <3>2 DEF JobInv, OwnersKnown
  <2>2. CASE ~k.tx
    BY <1>1, <1>3, <1>5, <2>2, Beginning DEF JobInv
  <2> QED
    BY <2>1, <2>2
<1>12. UndoBlocked'
  <2> DEFINE Blocks(d) == controller[d].tx /\ controller[d].block
  <2>1. \A d \in Caller : (Blocks(d))' <=> Blocks(d) \/ (d = c /\ k.block)
    BY <1>3, <1>5
  <2>2. allowed = ~\E d \in Caller : Blocks(d)
    BY DEF JobInv, UndoBlocked
  <2>3. UndoBlocked' <=> allowed' = ~\E d \in Caller : (Blocks(d))'
    BY DEF UndoBlocked
  <2>4. CASE Blocks(c)
    BY <1>1, <1>3, <2>1, <2>2, <2>3, <2>4
  <2>5. CASE ~Blocks(c)
    BY <1>1, <1>3, <2>1, <2>2, <2>3, <2>5
  <2> QED
    BY <2>4, <2>5
<1>13. ControllerKinds'
  BY <1>3, <1>5, <1>6, <1>7 DEF JobInv, ControllerKinds
<1>14. WaitsForProcess'
  <2>1. \A g \in Function : (engine'[g] = "wait") <=> (engine[g] = "wait")
    BY <1>2, <1>3 DEF JobInv, TypeOK
  <2> QED
    BY <1>6, <2>1 DEF JobInv, WaitsForProcess, Caller
<1>15. HasController'
  <2>1. \A g \in Function : engine'[g] # "none" => engine[g] # "none" \/ g = f
    BY <1>2, <1>3 DEF JobInv, TypeOK
  <2> QED
    BY <1>6, <1>7, <2>1 DEF JobInv, HasController, Caller
<1>16. CounterExact'
  BY <1>1, <1>6, SameControllers DEF JobInv
<1> QED
  BY <1>8, <1>9, <1>10, <1>11, <1>12, <1>13, <1>14, <1>15, <1>16 DEF JobInv

\* The controller of a process begins.
LEMMA StartProcessKeeps ==
  ASSUME JobInv, NEW f \in Function, StartProcess(f)
  PROVE  JobInv'
<1>1. /\ <<"start", f>> \in timers
      /\ timers' = timers \ {<<"start", f>>}
      /\ controller' = [controller EXCEPT ![f].state = "on", ![f].tx = TRUE]
      /\ open' = Begun(f)
      /\ UNCHANGED <<queue, wait, engine, canceled, counter, active, allowed, failed>>
  BY DEF StartProcess, Fires
<1>2. f \in Caller /\ f \notin Starter \cup Button
  BY ActorAssumption DEF Caller
<1>3. controller[f] \in Controller /\ controller[f].state = "made"
  BY <1>1, <1>2 DEF JobInv, TypeOK, StartsOnce
<1>4. f \notin BlockUndo /\ f \notin Early
  BY <1>2, OptionAssumption
<1>5. ~controller[f].tx /\ ~controller[f].block
  BY <1>2, <1>3, <1>4 DEF JobInv, ControllerKinds, On
<1>6. /\ controller' \in [Caller -> Controller]
      /\ \A d \in Caller \ {f} : controller'[d] = controller[d]
      /\ controller'[f].state = "on" /\ controller'[f].tx
      /\ controller'[f].block = controller[f].block
  BY <1>1, <1>2, <1>3 DEF JobInv, TypeOK, Controller
<1>7. OneWakeup' /\ QueueApart'
  BY <1>1, <1>2, <1>6, StartersUntouched DEF Caller
<1>8. open' \in Seq(Caller) /\ OwnersKnown'
  BY <1>1, <1>2, <1>5, <1>6, Beginning DEF JobInv
<1>9. TypeOK'
  BY <1>1, <1>6, <1>8 DEF JobInv, TypeOK
<1>10. StartsOnce'
  BY <1>1, <1>2, <1>6 DEF JobInv, StartsOnce, Caller
<1>11. UndoBlocked'
  BY <1>1, <1>2, <1>5, <1>6 DEF JobInv, UndoBlocked
<1>12. \A d \in Caller : (Exists(d)' <=> Exists(d)) /\ (On(d) => On(d)')
  BY <1>2, <1>3, <1>6 DEF Exists, On
<1>13. ControllerKinds'
  BY <1>2, <1>6, <1>12 DEF JobInv, ControllerKinds, On
<1>14. WaitsForProcess' /\ HasController'
  BY <1>1, <1>12 DEF JobInv, WaitsForProcess, HasController, Caller
<1>15. CounterExact'
  BY <1>1, <1>12, SameControllers DEF JobInv
<1> QED
  BY <1>7, <1>8, <1>9, <1>10, <1>11, <1>13, <1>14, <1>15 DEF JobInv

\* A function makes the controller of its process and waits.
LEMMA RunProcessKeeps ==
  ASSUME JobInv, NEW f \in Function, RunProcess(f)
  PROVE  JobInv'
<1>1. /\ engine[f] \in {"now", "timer"}
      /\ engine' = [engine EXCEPT ![f] = "wait"]
      /\ StartNext(f, FALSE)
      /\ timers' = timers \cup {<<"start", f>>}
      /\ UNCHANGED <<queue, wait, canceled, active, open, allowed, failed>>
  BY DEF RunProcess, Executing
<1>2. f \in Caller /\ f \notin Starter \cup Button
  BY ActorAssumption DEF Caller
<1>3. ~Exists(f)
  BY <1>1 DEF JobInv, WaitsForProcess
<1>4. /\ controller' \in [Caller -> Controller]
      /\ \A d \in Caller \ {f} : controller'[d] = controller[d]
      /\ controller'[f].state = "made"
      /\ ~controller'[f].tx /\ controller'[f].block = FALSE
      /\ Exists(f)' /\ counter' \in Nat /\ CounterExact'
  BY <1>1, <1>2, <1>3, NextController DEF JobInv
<1>5. ~controller[f].tx
  BY <1>2, <1>3 DEF JobInv, ControllerKinds, On, Exists
<1>6. OneWakeup' /\ QueueApart'
  BY <1>1, <1>2, <1>4, StartersUntouched DEF Caller
<1>7. TypeOK'
  <2>1. timers' \subseteq ({"again"} \X Starter) \cup ({"start"} \X Caller)
    BY <1>1, <1>2, TimerAdded DEF JobInv
  <2> QED
    BY <1>1, <1>4, <2>1 DEF JobInv, TypeOK
<1>8. StartsOnce'
  BY <1>1, <1>2, <1>4 DEF JobInv, StartsOnce, Caller
<1>9. OwnersKnown'
  <2>1. open' = open /\ open \in Seq(Caller)
    BY <1>1 DEF JobInv, TypeOK
  <2>2. \A c \in Caller : controller[c].tx => controller'[c].tx
    BY <1>4, <1>5
  <2> QED
    BY <2>1, <2>2 DEF JobInv, OwnersKnown
<1>10. UndoBlocked' /\ ControllerKinds'
  BY <1>1, <1>2, <1>4, <1>5 DEF JobInv, UndoBlocked, ControllerKinds, On, Exists
<1>11. WaitsForProcess'
  BY <1>1, <1>2, <1>4 DEF JobInv, TypeOK, WaitsForProcess, Exists, Caller
<1>12. HasController'
  <2>1. \A c \in Starter \cup Button : On(c) => On(c)'
    BY <1>2, <1>4 DEF On, Caller
  <2>2. \A g \in Function : engine'[g] # "none" => engine[g] # "none"
    BY <1>1 DEF JobInv, TypeOK
  <2> QED
    BY <2>1, <2>2 DEF JobInv, HasController
<1> QED
  BY <1>4, <1>6, <1>7, <1>8, <1>9, <1>10, <1>11, <1>12 DEF JobInv

\* Two jobs that block undo would both be at work for a starter.
LEMMA OneBlocker ==
  ASSUME JobInv, NEW c \in Caller, NEW d \in Caller,
         controller[c].tx, controller[c].block, controller[d].tx, controller[d].block
  PROVE  d = c
<1>1. c \in Starter /\ d \in Starter /\ On(c) /\ On(d)
  BY OptionAssumption DEF JobInv, ControllerKinds
<1> QED
  BY <1>1 DEF JobInv, OneWakeup, Attentive, Running

\* A process ends and returns to its function.
LEMMA ProcessEndsKeeps ==
  ASSUME JobInv, NEW f \in Function, ProcessEnds(f)
  PROVE  JobInv'
<1>1. /\ On(f) /\ EndController(f)
      /\ engine' = [engine EXCEPT ![f] = "now"]
      /\ UNCHANGED <<queue, wait, timers, canceled, failed>>
  BY DEF ProcessEnds
<1>2. f \in Caller /\ f \notin Starter \cup Button /\ Exists(f)
  BY <1>1, ActorAssumption DEF Caller, On, Exists
<1>3. /\ controller' \in [Caller -> Controller]
      /\ controller'[f] = NoController
      /\ \A d \in Caller \ {f} : controller'[d] = controller[d]
      /\ counter' \in Nat /\ CounterExact'
      /\ active' \in Caller \cup {Nobody, Dangling}
      /\ open' \in Seq(Caller) /\ OwnersKnown'
      /\ allowed' \in BOOLEAN /\ UndoBlocked'
      /\ ControllerKinds'
  BY <1>1, <1>2, Ending, OneBlocker DEF JobInv
<1>4. OneWakeup' /\ QueueApart'
  BY <1>1, <1>2, <1>3, StartersUntouched DEF Caller
<1>5. TypeOK'
  BY <1>1, <1>3 DEF JobInv, TypeOK
<1>6. <<"start", f>> \notin timers
  BY <1>1 DEF JobInv, StartsOnce, On
<1>7. StartsOnce'
  BY <1>1, <1>3, <1>6 DEF JobInv, StartsOnce, Caller
<1>8. engine[f] = "wait"
  BY <1>2 DEF JobInv, WaitsForProcess
<1>9. WaitsForProcess'
  <2>1. ~Exists(f)' /\ \A g \in Function \ {f} : Exists(g)' <=> Exists(g)
    BY <1>3 DEF Exists, NoController, Caller
  <2>2. engine'[f] = "now" /\ \A g \in Function \ {f} : engine'[g] = engine[g]
    BY <1>1 DEF JobInv, TypeOK
  <2> QED
    BY <2>1, <2>2 DEF JobInv, WaitsForProcess
<1>10. HasController'
  <2>1. \A c \in Starter \cup Button : On(c) => On(c)'
    BY <1>2, <1>3 DEF On, Caller
  <2>2. \A g \in Function : engine'[g] # "none" => engine[g] # "none"
    BY <1>1, <1>8 DEF JobInv, TypeOK
  <2> QED
    BY <2>1, <2>2 DEF JobInv, HasController
<1> QED
  BY <1>3, <1>4, <1>5, <1>7, <1>9, <1>10 DEF JobInv

\* The end of a job: its controller ends and the caller goes on.
LEMMA EndKeeps ==
  ASSUME JobInv, NEW c \in Starter \cup Button, NEW rslt, On(c), End(c, rslt),
         ~Exists(Action[c]),
         engine' = [engine EXCEPT ![Action[c]] = "none"], UNCHANGED canceled
  PROVE  JobInv'
<1> DEFINE f == Action[c]
           starts == UpdateStarts(c)
           line == IF starts THEN Append(queue, AfterUpdate) ELSE queue
<1>1. EndController(c) /\ Back(c, rslt)
  BY DEF End
<1>2. c \in Caller /\ c \notin Function /\ f \in Function /\ Exists(c)
  BY ActorAssumption DEF Caller, On, Exists
<1>3. /\ controller' \in [Caller -> Controller]
      /\ controller'[c] = NoController
      /\ \A d \in Caller \ {c} : controller'[d] = controller[d]
      /\ counter' \in Nat /\ CounterExact'
      /\ active' \in Caller \cup {Nobody, Dangling}
      /\ open' \in Seq(Caller) /\ OwnersKnown'
      /\ allowed' \in BOOLEAN /\ UndoBlocked'
      /\ ControllerKinds'
  BY <1>1, <1>2, Ending, OneBlocker DEF JobInv
<1>4. ~On(c)' /\ controller'[c].state = "none"
  BY <1>3 DEF On, NoController
<1>5. WaitsForProcess'
  BY <1>2, <1>3 DEF JobInv, TypeOK, WaitsForProcess, Exists, Caller
<1>6. HasController'
  <2>1. \A d \in Starter \cup Button : On(d) /\ Action[d] # f => On(d)'
    BY <1>3 DEF On, Caller
  <2>2. \A g \in Function : engine'[g] # "none" => engine[g] # "none" /\ g # f
    BY <1>2 DEF JobInv, TypeOK
  <2> QED
    BY <2>1, <2>2 DEF JobInv, HasController
<1>7. starts => /\ AfterUpdate \in Starter \ {c} /\ Free(AfterUpdate)
                /\ ~Attentive(AfterUpdate) /\ AfterUpdate \notin ToSet(queue)
                /\ controller[AfterUpdate].state = "none"
  <2> SUFFICES ASSUME starts
               PROVE  /\ AfterUpdate \in Starter \ {c} /\ Free(AfterUpdate)
                      /\ ~Attentive(AfterUpdate) /\ AfterUpdate \notin ToSet(queue)
                      /\ controller[AfterUpdate].state = "none"
    OBVIOUS
  <2>1. AfterUpdate \in Starter /\ Free(AfterUpdate)
    BY OptionAssumption DEF UpdateStarts
  <2>2. AfterUpdate # c
    BY <1>2, <2>1 DEF Free
  <2> QED
    BY <2>1, <2>2, FreeStarter DEF JobInv
<1>8. /\ queue' \in Seq(Starter) /\ wait' \in BOOLEAN
      /\ timers' \subseteq ({"again"} \X Starter) \cup ({"start"} \X Caller)
      /\ OneWakeup' /\ QueueApart' /\ StartsOnce'
  <2>1. CASE c \in Button /\ starts
    <3>1. c \notin Starter \cup Function
      BY <2>1, ActorAssumption DEF Caller
    <3>2. StartJob(AfterUpdate)
      BY <1>1, <2>1, <3>1 DEF Back, StartJob
    <3>3. \A d \in Starter \cup Function : controller'[d] = controller[d]
      BY <1>3, <3>1 DEF Caller
    <3> QED
      BY <1>7, <2>1, <3>2, <3>3, Queueing DEF JobInv
  <2>2. CASE c \in Button /\ ~starts
    <3>1. c \notin Starter \cup Function
      BY <2>2, ActorAssumption DEF Caller
    <3>2. UNCHANGED <<queue, wait, timers>>
      BY <1>1, <2>2, <3>1 DEF Back, JobInv, TypeOK
    <3>3. \A d \in Starter \cup Function : controller'[d] = controller[d]
      BY <1>3, <3>1 DEF Caller
    <3>4. OneWakeup' /\ QueueApart'
      BY <3>2, <3>3, StartersUntouched
    <3>5. StartsOnce'
      BY <3>2, <3>3 DEF JobInv, StartsOnce
    <3> QED
      BY <3>2, <3>4, <3>5 DEF JobInv, TypeOK
  <2>3. CASE c \in Starter
    <3>1. /\ Running(c) /\ ~Looking(c) /\ wait
          /\ \A t \in Starter : Attentive(t) => t = c
      BY <2>3 DEF JobInv, OneWakeup, Attentive, Running
    <3>2. <<"start", c>> \notin timers
      BY <2>3 DEF JobInv, StartsOnce, On
    <3>3. \A d \in (Starter \cup Function) \ {c} : controller'[d] = controller[d]
      BY <1>3 DEF Caller
    <3>4. \/ /\ queue' = line /\ wait' /\ timers' = timers \cup {<<"again", c>>}
          \/ /\ queue' = <<>> /\ ~wait' /\ timers' = timers
      BY <1>1, <2>3, <3>1, ActorAssumption DEF Back, Cleanup
    <3>5. \A d \in Caller : <<"start", d>> \in timers' <=> <<"start", d>> \in timers
      BY <3>4
    <3>6. \A t \in Starter : ~Running(t)'
      BY <1>4, <3>1, <3>2, <3>3, <3>5 DEF Attentive, Running, On, Caller
    <3>7. StartsOnce'
      BY <3>2, <3>3, <3>5 DEF JobInv, StartsOnce, Caller
    <3>8. CASE queue' = line /\ wait' /\ timers' = timers \cup {<<"again", c>>}
      <4>1. timers' \subseteq ({"again"} \X Starter) \cup ({"start"} \X Caller)
        BY <2>3, <3>8, TimerAdded DEF JobInv
      <4>2. \A t \in Starter : Looking(t)' <=> t = c
        BY <3>1, <3>8 DEF Looking, Attentive
      <4>3. OneWakeup'
        BY <2>3, <3>6, <3>8, <4>2 DEF OneWakeup, Attentive
      <4>4. queue' \in Seq(Starter) /\ QueueApart'
        <5>1. CASE starts
          BY <1>7, <3>6, <3>8, <5>1, Enqueued DEF JobInv
        <5>2. CASE ~starts
          <6>1. queue' = queue /\ queue \in Seq(Starter)
            BY <3>8, <5>2 DEF JobInv, TypeOK
          <6> QED
            BY <3>6, <6>1 DEF JobInv, QueueApart, Running, On
        <5> QED
          BY <5>1, <5>2
      <4> QED
        BY <3>7, <3>8, <4>1, <4>3, <4>4
    <3>9. CASE queue' = <<>> /\ ~wait' /\ timers' = timers
      <4>1. \A t \in Starter : ~Looking(t)'
        BY <3>1, <3>9 DEF Looking, Attentive
      <4>2. OneWakeup'
        BY <3>6, <3>9, <4>1 DEF OneWakeup, Attentive
      <4>3. QueueApart'
        BY <3>9 DEF QueueApart
      <4>4. timers' \subseteq ({"again"} \X Starter) \cup ({"start"} \X Caller)
        BY <3>9 DEF JobInv, TypeOK
      <4>5. wait' \in BOOLEAN
        BY <1>1, <3>1 DEF Back
      <4>6. queue' \in Seq(Starter)
        BY <3>9
      <4> QED
        BY <3>7, <4>2, <4>3, <4>4, <4>5, <4>6
    <3> QED
      BY <3>4, <3>8, <3>9
  <2> QED
    BY <2>1, <2>2, <2>3
<1>9. TypeOK'
  <2>1. failed' \in {"none", "not waiting"}
    BY <1>1 DEF Back
  <2>2. engine' \in [Function -> {"none", "timer", "now", "wait"}]
    BY DEF JobInv, TypeOK
  <2> QED
    BY <1>3, <1>8, <2>1, <2>2 DEF JobInv, TypeOK
<1> QED
  BY <1>3, <1>5, <1>6, <1>8, <1>9 DEF JobInv

\* A function ends, and with it the job of its controller.
LEMMA EpilogKeeps ==
  ASSUME JobInv, NEW f \in Function, NEW rslt, Epilog(f, rslt)
  PROVE  JobInv'
<1>1. /\ engine[f] \in {"now", "timer"}
      /\ engine' = [engine EXCEPT ![f] = "none"]
      /\ UNCHANGED canceled
  BY DEF Epilog, Executing
<1>2. PICK c \in Starter \cup Button : c = ControllerOf(f) /\ On(c) /\ Action[c] = f
  BY <1>1 DEF JobInv, HasController, ControllerOf
<1>3. PICK r : End(c, r)
  BY <1>2 DEF Epilog
<1>4. ~Exists(f)
  BY <1>1 DEF JobInv, WaitsForProcess
<1> QED
  BY <1>1, <1>2, <1>3, <1>4, EndKeeps

\* The user cancels a job.
LEMMA CancelKeeps ==
  ASSUME JobInv, NEW c \in Starter \cup Button, Cancel(c)
  PROVE  JobInv'
<1> DEFINE f == Action[c]
<1>1. c \in Caller /\ c \notin Function /\ f \in Function /\ On(c)
  BY ActorAssumption DEF Caller, Cancel
<1>2. CASE Exists(f)
  <2>1. /\ controller' = [controller EXCEPT ![c].stopped = TRUE]
        /\ canceled' = [canceled EXCEPT ![f] = TRUE]
        /\ UNCHANGED <<queue, wait, timers, engine, counter, active, open, allowed, failed>>
    BY <1>2 DEF Cancel
  <2>2. controller[c] \in Controller
    BY <1>1 DEF JobInv, TypeOK
  <2>3. /\ controller' \in [Caller -> Controller]
        /\ \A d \in Caller : /\ controller'[d].state = controller[d].state
                            /\ controller'[d].tx = controller[d].tx
                            /\ controller'[d].block = controller[d].block
    BY <1>1, <2>1, <2>2 DEF JobInv, TypeOK, Controller
  <2>4. \A d \in Caller : (Exists(d)' <=> Exists(d)) /\ (On(d)' <=> On(d))
    BY <2>3 DEF Exists, On
  <2>5. OneWakeup' /\ QueueApart'
    <3>1. \A s \in Starter : Looking(s)' <=> Looking(s)
      BY <2>1 DEF Looking
    <3>2. \A s \in Starter : Running(s)' <=> Running(s)
      BY <2>1, <2>4 DEF Running, Caller
    <3> QED
      BY <2>1, <3>1, <3>2, SameAttention
  <2>6. TypeOK'
    BY <2>1, <2>3 DEF JobInv, TypeOK
  <2>7. StartsOnce'
    BY <2>1, <2>3 DEF JobInv, StartsOnce, Caller
  <2>8. OwnersKnown'
    <3>1. open' = open /\ open \in Seq(Caller)
      BY <2>1 DEF JobInv, TypeOK
    <3> QED
      BY <2>3, <3>1 DEF JobInv, OwnersKnown
  <2>9. UndoBlocked' /\ ControllerKinds'
    BY <2>1, <2>3, <2>4 DEF JobInv, UndoBlocked, ControllerKinds
  <2>10. WaitsForProcess' /\ HasController'
    BY <2>1, <2>4 DEF JobInv, WaitsForProcess, HasController, Caller
  <2>11. CounterExact'
    BY <2>1, <2>4, SameControllers DEF JobInv
  <2> QED
    BY <2>5, <2>6, <2>7, <2>8, <2>9, <2>10, <2>11 DEF JobInv
<1>3. CASE ~Exists(f)
  <2>1. /\ engine' = [engine EXCEPT ![f] = "none"]
        /\ End(c, "canceled")
        /\ UNCHANGED canceled
    BY <1>3 DEF Cancel
  <2> QED
    BY <1>1, <1>3, <2>1, EndKeeps
<1> QED
  BY <1>2, <1>3

(*-------------------------------- theorems -------------------------------*)

\* At the start there is no job.
LEMMA InitJobInv == Init => JobInv
<1> SUFFICES ASSUME Init
             PROVE  JobInv
  OBVIOUS
<1>1. NoController \in Controller /\ NoController.state = "none"
      /\ ~NoController.tx /\ ~NoController.block
  BY DEF NoController, Controller
<1>2. controller \in [Caller -> Controller] /\ \A c \in Caller : controller[c] = NoController
  BY <1>1 DEF Init
<1>3. \A c \in Caller : ~On(c) /\ ~Exists(c)
  BY <1>1, <1>2 DEF On, Exists
<1>4. TypeOK
  <2>1. queue \in Seq(Starter) /\ open \in Seq(Caller) /\ counter \in Nat
    BY DEF Init
  <2>2. timers = {} /\ wait \in BOOLEAN /\ allowed \in BOOLEAN
    BY DEF Init
  <2>3. /\ engine \in [Function -> {"none", "timer", "now", "wait"}]
        /\ canceled \in [Function -> BOOLEAN]
    BY DEF Init
  <2>4. active = Nobody /\ failed = "none"
    BY DEF Init
  <2> QED
    BY <1>2, <2>1, <2>2, <2>3, <2>4 DEF TypeOK
<1>5. OneWakeup /\ QueueApart
  BY <1>3 DEF Init, OneWakeup, QueueApart, Attentive, Looking, Running, Caller
<1>6. StartsOnce /\ WaitsForProcess /\ HasController
  BY <1>3 DEF Init, StartsOnce, WaitsForProcess, HasController, Caller
<1>7. OwnersKnown
  BY DEF Init, OwnersKnown, IsInjective
<1>8. UndoBlocked /\ ControllerKinds
  BY <1>1, <1>2 DEF Init, UndoBlocked, ControllerKinds
<1>9. CounterExact
  <2>1. {c \in Caller : Exists(c)} = {}
    BY <1>3
  <2> QED
    BY <2>1, FS_EmptySet DEF Init, CounterExact
<1> QED
  BY <1>4, <1>5, <1>6, <1>7, <1>8, <1>9 DEF JobInv

\* Every step of Jobs keeps the invariant.
LEMMA NextJobInv == JobInv /\ [Next]_vars => JobInv'
<1> SUFFICES ASSUME JobInv, [Next]_vars
             PROVE  JobInv'
  OBVIOUS
<1>1. CASE UNCHANGED vars
  <2>1. /\ UNCHANGED <<queue, wait, controller, timers, engine, canceled, counter, active,
                       open, allowed, failed>>
    BY <1>1 DEF vars
  <2>2. OneWakeup' /\ QueueApart'
    BY <2>1, StartersUntouched
  <2>3. TypeOK'
    BY <2>1 DEF JobInv, TypeOK
  <2>4. OwnersKnown' /\ UndoBlocked' /\ ControllerKinds'
    BY <2>1 DEF JobInv, OwnersKnown, UndoBlocked, ControllerKinds, On, Exists
  <2>5. StartsOnce' /\ WaitsForProcess' /\ HasController'
    BY <2>1 DEF JobInv, StartsOnce, WaitsForProcess, HasController, Exists, On
  <2>6. CounterExact'
    BY <2>1, SameControllers DEF JobInv, Exists
  <2> QED
    BY <2>2, <2>3, <2>4, <2>5, <2>6 DEF JobInv
<1>2. CASE \E s \in Starter : Submit(s) \/ Edit(s) \/ TryAgain(s)
  BY <1>2, SubmitKeeps, EditKeeps, TryAgainKeeps
<1>3. CASE \E b \in Button : Press(b)
  BY <1>3, PressKeeps
<1>4. CASE \E c \in Starter \cup Button : Start(c) \/ StartDeleted(c) \/ Cancel(c)
  BY <1>4, StartKeeps, StartDeletedKeeps, CancelKeeps
<1>5. CASE \E f \in Function :
             \/ StartProcess(f) \/ Pause(f) \/ RunProcess(f) \/ ProcessEnds(f)
             \/ \E rslt \in {"ok", "aborted"} : Epilog(f, rslt)
  BY <1>5, StartProcessKeeps, PauseKeeps, RunProcessKeeps, ProcessEndsKeeps, EpilogKeeps
<1> QED
  BY <1>1, <1>2, <1>3, <1>4, <1>5 DEF Next

\* The invariant of Jobs holds in every reachable state.
LEMMA JobInvariant == Spec => []JobInv
BY InitJobInv, NextJobInv, PTL DEF Spec

\* The variables keep their types (TypeOK): in particular the count of controllers
\* (JobController::s_objectCounter) never becomes negative, whatever is canceled,
\* dropped or started twice.
THEOREM JobsTypeCorrect == Spec => []TypeOK
<1>1. JobInv => TypeOK
  BY DEF JobInv
<1> QED
  BY <1>1, JobInvariant, PTL

\* The wakeup of starters (JobStarter::startJob, tryAgain, backFromJobController):
\* while s_wait is set exactly one starter is at work or about to look at the
\* queue, for any number of starters, buttons and functions.
THEOREM WakeupNeverLost == Spec => []OneWakeup
<1>1. JobInv => OneWakeup
  BY DEF JobInv
<1> QED
  BY <1>1, JobInvariant, PTL

\* Every owner on the trail is a controller that exists and will end its
\* transaction, and owns one only (JobController::startTransaction, end).
THEOREM OwnersStayKnown == Spec => []OwnersKnown
<1>1. JobInv => OwnersKnown
  BY DEF JobInv
<1> QED
  BY <1>1, JobInvariant, PTL

\* Undo is allowed exactly when no job that blocks it has a transaction
\* (JobController::commitTransaction, abortTransaction), because no two jobs
\* that block it are at work.
THEOREM UndoBlockedInTime == Spec => []UndoBlocked
<1>1. JobInv => UndoBlocked
  BY DEF JobInv
<1> QED
  BY <1>1, JobInvariant, PTL

(*--------------------------- the queue of jobs ---------------------------*)

\* The refinement mapping: with at most one starter at work the choice in
\* RunningJob is none.  It is needed before and after a step.
LEMMA ChosenOne ==
  ASSUME NEW R \in SUBSET Starter, \A s, t \in R : s = t, NEW job,
         job = IF R = {} THEN Nobody ELSE CHOOSE s \in R : TRUE
  PROVE  /\ \A s \in Starter : s \in R <=> job = s
         /\ job \in Starter \cup {Nobody}
<1>1. CASE R = {}
  BY <1>1, ActorAssumption DEF Caller
<1>2. CASE R # {}
  BY <1>2
<1> QED
  BY <1>1, <1>2

\* RunningJob is the one starter that runs.
LEMMA JobBefore ==
  ASSUME OneWakeup
  PROVE  /\ \A s \in Starter : Running(s) <=> RunningJob = s
         /\ RunningJob \in Starter \cup {Nobody}
<1> DEFINE R == {s \in Starter : Running(s)}
<1>1. R \in SUBSET Starter /\ \A s, t \in R : s = t
  BY DEF OneWakeup, Attentive
<1>2. RunningJob = IF R = {} THEN Nobody ELSE CHOOSE s \in R : TRUE
  BY DEF RunningJob
<1>3. \A s \in Starter : s \in R <=> Running(s)
  OBVIOUS
<1> HIDE DEF R
<1> QED
  BY <1>1, <1>2, <1>3, ChosenOne

\* RunningJob is the one starter that runs, after the step.
LEMMA JobAfter ==
  ASSUME OneWakeup'
  PROVE  /\ \A s \in Starter : Running(s)' <=> RunningJob' = s
         /\ RunningJob' \in Starter \cup {Nobody}
<1> DEFINE R == {s \in Starter : Running(s)'}
<1>1. R \in SUBSET Starter /\ \A s, t \in R : s = t
  BY DEF OneWakeup, Attentive
<1>2. RunningJob' = IF R = {} THEN Nobody ELSE CHOOSE s \in R : TRUE
  BY DEF RunningJob
<1>3. \A s \in Starter : s \in R <=> Running(s)'
  OBVIOUS
<1> HIDE DEF R
<1> QED
  BY <1>1, <1>2, <1>3, ChosenOne

\* While the same starters run RunningJob is the same.
LEMMA SameJob ==
  ASSUME JobInv, JobInv', \A s \in Starter : Running(s)' <=> Running(s)
  PROVE  RunningJob' = RunningJob
<1>1. /\ \A s \in Starter : Running(s) <=> RunningJob = s
      /\ RunningJob \in Starter \cup {Nobody}
  BY JobBefore DEF JobInv
<1>2. /\ \A s \in Starter : Running(s)' <=> RunningJob' = s
      /\ RunningJob' \in Starter \cup {Nobody}
  BY JobAfter DEF JobInv
<1> QED
  BY <1>1, <1>2

\* A starter that queues up while the jobs at work stay the same
LEMMA QueueSubmit ==
  ASSUME JobInv, JobInv', NEW s \in Starter, Free(s), queue' = Append(queue, s),
         \A t \in Starter : Running(t)' <=> Running(t)
  PROVE  Queue!Next
<1>1. RunningJob' = RunningJob
  BY SameJob
<1>2. ~Attentive(s) /\ s \notin ToSet(queue)
  BY FreeStarter DEF JobInv
<1>3. s # RunningJob
  BY <1>2, JobBefore DEF JobInv, Attentive
<1>4. \A i \in DOMAIN queue : queue[i] # s
  BY <1>2 DEF ToSet
<1>5. Queue!Submit(s)
  BY <1>1, <1>3, <1>4 DEF Queue!Submit
<1> QED
  BY <1>5 DEF Queue!Next

\* The end of a job is the end of the running one of the queue, unless it was
\* started by a button.
LEMMA EndSimulates ==
  ASSUME JobInv, JobInv', NEW c \in Starter \cup Button, NEW rslt, On(c), End(c, rslt)
  PROVE  Queue!Next \/ UNCHANGED <<queue, RunningJob>>
<1>1. EndController(c) /\ Back(c, rslt)
  BY DEF End
<1>2. /\ controller' = [controller EXCEPT ![c] = NoController]
      /\ controller \in [Caller -> Controller] /\ c \in Caller
  BY <1>1 DEF EndController, JobInv, TypeOK, Caller
<1>3. ~On(c)' /\ \A s \in Starter \ {c} : On(s)' <=> On(s)
  BY <1>2 DEF On, NoController, Caller
<1>4. \A s \in Starter : <<"start", s>> \in timers' <=> <<"start", s>> \in timers
  <2>1. \/ timers' = timers
        \/ timers' = timers \cup {<<"again", c>>}
        \/ timers' = timers \cup {<<"again", AfterUpdate>>}
    BY <1>1 DEF Back
  <2> QED
    BY <2>1
<1>5. UpdateStarts(c) => AfterUpdate \in Starter \ {c} /\ Free(AfterUpdate)
  <2> SUFFICES ASSUME UpdateStarts(c)
               PROVE  AfterUpdate \in Starter \ {c} /\ Free(AfterUpdate)
    OBVIOUS
  <2>1. AfterUpdate \in Starter /\ Free(AfterUpdate)
    BY OptionAssumption DEF UpdateStarts
  <2>2. Exists(c) /\ ~Exists(AfterUpdate)
    BY <2>1 DEF On, Exists, Free
  <2> QED
    BY <2>1, <2>2
<1>6. CASE c \in Button
  <2>1. c \notin Starter
    BY <1>6, ActorAssumption
  <2>2. \A s \in Starter : Running(s)' <=> Running(s)
    BY <1>3, <1>4, <2>1 DEF Running
  <2>3. CASE UpdateStarts(c)
    <3>1. queue' = Append(queue, AfterUpdate)
      BY <1>1, <2>1, <2>3 DEF Back
    <3> QED
      BY <1>5, <2>2, <2>3, <3>1, QueueSubmit
  <2>4. CASE ~UpdateStarts(c)
    <3>1. queue' = queue
      BY <1>1, <2>1, <2>4 DEF Back
    <3> QED
      BY <2>2, <3>1, SameJob
  <2> QED
    BY <2>3, <2>4
<1>7. CASE c \in Starter
  <2>1. RunningJob = c /\ c # Nobody
    BY <1>7, JobBefore, ActorAssumption DEF JobInv, Running, Caller
  <2>2. <<"start", c>> \notin timers
    BY <1>7 DEF JobInv, StartsOnce, On
  <2>3. \A s \in Starter : ~Running(s)'
    <3>1. \A s \in Starter : Running(s) => s = c
      BY <2>1, JobBefore DEF JobInv
    <3> QED
      BY <1>3, <1>4, <2>2, <3>1 DEF Running
  <2>4. RunningJob' = Nobody
    BY <2>3, JobAfter DEF JobInv
  <2>5. \/ queue' = queue
        \/ UpdateStarts(c) /\ queue' = Append(queue, AfterUpdate)
        \/ queue' = <<>>
    BY <1>1, <1>7, ActorAssumption DEF Back, Cleanup
  <2>6. Queue!Finish \/ Queue!Fail
    BY <1>5, <2>1, <2>4, <2>5 DEF Queue!Finish, Queue!Fail
  <2> QED
    BY <2>6 DEF Queue!Next
<1> QED
  BY <1>6, <1>7

\* Every step is one of the queue or none.
LEMMA StepSimulates ==
  ASSUME JobInv, JobInv', Next
  PROVE  Queue!Next \/ UNCHANGED <<queue, RunningJob>>
<1>0. /\ controller \in [Caller -> Controller]
      /\ \A b \in Button : b \in Caller /\ b \notin Starter
      /\ \A f \in Function : f \in Caller /\ f \notin Starter
      /\ Starter \subseteq Caller
  BY ActorAssumption DEF JobInv, TypeOK, Caller
<1>1. ASSUME NEW s \in Starter, Submit(s)
      PROVE  Queue!Next
  <2>1. /\ Free(s) /\ queue' = Append(queue, s) /\ controller' = controller
        /\ \A t \in Starter : <<"start", t>> \in timers' <=> <<"start", t>> \in timers
    BY <1>1 DEF Submit, StartJob
  <2>2. \A t \in Starter : Running(t)' <=> Running(t)
    BY <2>1 DEF Running, On
  <2> QED
    BY <2>1, <2>2, QueueSubmit
<1>2. ASSUME NEW s \in Starter, Edit(s)
      PROVE  Queue!Next
  <2>1. /\ Free(s) /\ queue' = Append(queue, s)
        /\ controller' = [controller EXCEPT ![s] = [New(FALSE) EXCEPT !.tx = TRUE]]
        /\ \A t \in Starter : <<"start", t>> \in timers' <=> <<"start", t>> \in timers
    BY <1>2 DEF Edit, StartJob
  <2>2. ~On(s) /\ ~On(s)' /\ \A t \in Starter \ {s} : On(t)' <=> On(t)
    BY <1>0, <2>1 DEF On, Free, Exists, New, NoController
  <2>3. \A t \in Starter : Running(t)' <=> Running(t)
    BY <2>1, <2>2 DEF Running
  <2> QED
    BY <2>1, <2>3, QueueSubmit
<1>3. ASSUME NEW s \in Starter, TryAgain(s)
      PROVE  Queue!Next \/ UNCHANGED <<queue, RunningJob>>
  <2>1. CASE queue = <<>>
    <3>1. /\ queue' = queue /\ controller' = controller
          /\ \A t \in Starter : <<"start", t>> \in timers' <=> <<"start", t>> \in timers
      BY <1>3, <2>1 DEF TryAgain
    <3>2. \A t \in Starter : Running(t)' <=> Running(t)
      BY <3>1 DEF Running, On
    <3> QED
      BY <3>1, <3>2, SameJob
  <2>2. CASE queue # <<>>
    <3>1. /\ queue' = Tail(queue)
          /\ timers' = (timers \ {<<"again", s>>}) \cup {<<"start", Head(queue)>>}
      BY <1>3, <2>2 DEF TryAgain
    <3>2. RunningJob = Nobody
      <4>1. Looking(s)
        BY <1>3 DEF TryAgain, Fires, Looking
      <4>2. \A t \in Starter : ~Running(t)
        BY <4>1 DEF JobInv, OneWakeup, Attentive
      <4> QED
        BY <4>2, JobBefore DEF JobInv
    <3>3. RunningJob' = Head(queue)
      <4>1. PICK h \in Starter : h = Head(queue)
        <5>1. queue \in Seq(Starter)
          BY DEF JobInv, TypeOK
        <5> QED
          BY <2>2, <5>1
      <4>2. Running(h)'
        BY <3>1, <4>1 DEF Running
      <4> QED
        BY <4>1, <4>2, JobAfter DEF JobInv
    <3>4. Queue!Run
      BY <2>2, <3>1, <3>2, <3>3 DEF Queue!Run
    <3> QED
      BY <3>4 DEF Queue!Next
  <2> QED
    BY <2>1, <2>2
<1>4. ASSUME NEW c \in Starter \cup Button, Cancel(c)
      PROVE  Queue!Next \/ UNCHANGED <<queue, RunningJob>>
  <2>1. CASE Exists(Action[c])
    <3>1. /\ queue' = queue /\ timers' = timers
          /\ controller' = [controller EXCEPT ![c].stopped = TRUE]
      BY <1>4, <2>1 DEF Cancel
    <3>2. \A t \in Starter : Running(t)' <=> Running(t)
      BY <1>0, <3>1 DEF Running, On, Controller
    <3> QED
      BY <3>1, <3>2, SameJob
  <2>2. CASE ~Exists(Action[c])
    <3>1. On(c) /\ End(c, "canceled")
      BY <1>4, <2>2 DEF Cancel
    <3> QED
      BY <3>1, EndSimulates
  <2> QED
    BY <2>1, <2>2
<1>5. ASSUME NEW f \in Function, NEW rslt, Epilog(f, rslt)
      PROVE  Queue!Next \/ UNCHANGED <<queue, RunningJob>>
  <2>1. engine[f] \in {"now", "timer"}
    BY <1>5 DEF Epilog, Executing
  <2>2. PICK c \in Starter \cup Button : c = ControllerOf(f) /\ On(c)
    BY <2>1 DEF JobInv, HasController, ControllerOf
  <2>3. PICK r : End(c, r)
    BY <1>5, <2>2 DEF Epilog
  <2> QED
    BY <2>2, <2>3, EndSimulates
<1>6. ASSUME NEW c \in Starter \cup Button, Start(c)
      PROVE  UNCHANGED <<queue, RunningJob>>
  <2>1. /\ queue' = queue
        /\ <<"start", c>> \in timers /\ timers' = timers \ {<<"start", c>>}
        /\ On(c)'
        /\ \A t \in Starter \ {c} : controller'[t] = controller[t]
    BY <1>0, <1>6 DEF Start, Fires, On, Controller
  <2>2. \A t \in Starter : Running(t)' <=> Running(t)
    BY <2>1 DEF Running, On
  <2> QED
    BY <2>1, <2>2, SameJob
<1>7. ASSUME queue' = queue,
             \A t \in Starter : controller'[t] = controller[t],
             \A t \in Starter : <<"start", t>> \in timers' <=> <<"start", t>> \in timers
      PROVE  UNCHANGED <<queue, RunningJob>>
  <2>1. \A t \in Starter : Running(t)' <=> Running(t)
    BY <1>7 DEF Running, On
  <2> QED
    BY <1>7, <2>1, SameJob
<1>8. ASSUME NEW b \in Button, Press(b)
      PROVE  UNCHANGED <<queue, RunningJob>>
  BY <1>0, <1>7, <1>8 DEF Press, StartNext
<1>9. ASSUME NEW c \in Starter \cup Button, StartDeleted(c)
      PROVE  UNCHANGED <<queue, RunningJob>>
  BY <1>7, <1>9 DEF StartDeleted
<1>10. ASSUME NEW f \in Function,
              StartProcess(f) \/ Pause(f) \/ RunProcess(f) \/ ProcessEnds(f)
       PROVE  UNCHANGED <<queue, RunningJob>>
  <2>1. CASE StartProcess(f)
    BY <1>0, <1>7, <2>1 DEF StartProcess
  <2>2. CASE Pause(f)
    BY <1>7, <2>2 DEF Pause
  <2>3. CASE RunProcess(f)
    BY <1>0, <1>7, <2>3 DEF RunProcess, StartNext
  <2>4. CASE ProcessEnds(f)
    BY <1>0, <1>7, <2>4 DEF ProcessEnds, EndController
  <2> QED
    BY <1>10, <2>1, <2>2, <2>3, <2>4
<1> QED
  BY <1>1, <1>2, <1>3, <1>4, <1>5, <1>6, <1>8, <1>9, <1>10 DEF Next

\* The starters are a queue of jobs (JobStarter::startJob, tryAgain,
\* backFromJobController, cleanup): for any number of starters, buttons and
\* functions jobs run one at a time in the order of their submission, also those
\* of high priority, which push() appends like the others (JobStarter.cc:390).
THEOREM JobsAreQueued == Spec => ImplementsQueueSafely
<1>1. Init => Queue!Init
  <2> SUFFICES ASSUME Init
               PROVE  Queue!Init
    OBVIOUS
  <2>1. OneWakeup /\ queue = <<>>
    BY InitJobInv DEF Init, JobInv
  <2>2. \A s \in Starter : ~Running(s)
    BY DEF Init, Running, On, NoController, Caller
  <2>3. RunningJob = Nobody
    BY <2>1, <2>2, JobBefore
  <2> QED
    BY <2>1, <2>3 DEF Queue!Init
<1>2. JobInv /\ JobInv' /\ [Next]_vars => [Queue!Next]_(Queue!vars)
  <2> SUFFICES ASSUME JobInv, JobInv', [Next]_vars
               PROVE  Queue!Next \/ UNCHANGED <<queue, RunningJob>>
    BY DEF Queue!vars
  <2>1. CASE UNCHANGED vars
    BY <2>1 DEF vars, RunningJob, Running, On
  <2>2. CASE Next
    BY <2>2, StepSimulates
  <2> QED
    BY <2>1, <2>2
<1> QED
  BY <1>1, <1>2, JobInvariant, PTL DEF Spec, ImplementsQueueSafely, Queue!SafeSpec

(*--------------------------- jobs of starters only ------------------------*)

\* Where every job goes through the queue: no task button passes it by, and no
\* data field begins its transaction before its turn comes.
AllJobsQueue == Button = {} /\ Early = {}

\* A controller that was made and not started has its timer on.
MadeIsDue == \A c \in Caller : controller[c].state = "made" => <<"start", c>> \in timers

\* At most one job runs, and the trail is the chain of its controllers: that of
\* the starter and, while it runs, that of the process of its function.
OneChain ==
  \/ open = <<>> /\ \A c \in Caller : ~On(c)
  \/ \E s \in Starter : /\ On(s) /\ open = <<s>>
                        /\ \A c \in Caller : On(c) => c = s
  \/ \E s \in Starter : /\ On(s) /\ On(Action[s]) /\ open = <<s, Action[s]>>
                        /\ \A c \in Caller : On(c) => c \in {s, Action[s]}

\* The active controller is the one that is on, of the starters.
ActiveExact ==
  /\ \A s \in Starter : On(s) => active = s
  /\ active # Nobody => active \in Starter /\ On(active)

\* Only a job that runs keeps the mouse.
GrabIsOn == \A c \in Caller : controller[c].grab => On(c)

SoloInv == MadeIsDue /\ OneChain /\ ActiveExact /\ GrabIsOn

\* A starter whose job is due or runs has the only controllers there are.
LEMMA NobodyElse ==
  ASSUME AllJobsQueue, JobInv, MadeIsDue, NEW s \in Starter, Running(s)
  PROVE  \A c \in Caller : Exists(c) => c = s \/ (On(s) /\ c = Action[s])
<1>1. \A t \in Starter : Running(t) => t = s
  BY DEF JobInv, OneWakeup, Attentive
<1>2. ASSUME NEW t \in Starter, Exists(t)
      PROVE  t = s
  <2>1. controller[t].state \in {"made", "on"}
    BY <1>2 DEF JobInv, TypeOK, Controller, Exists, Caller
  <2>2. Running(t)
    BY <2>1 DEF MadeIsDue, Running, On, Caller
  <2> QED
    BY <1>1, <2>2
<1>3. ASSUME NEW f \in Function, Exists(f)
      PROVE  On(s) /\ f = Action[s]
  <2>1. PICK t \in Starter : On(t) /\ Action[t] = f
    BY <1>3 DEF AllJobsQueue, JobInv, WaitsForProcess, HasController
  <2>2. t = s
    BY <1>1, <2>1 DEF Running
  <2> QED
    BY <2>1, <2>2
<1> QED
  BY <1>2, <1>3 DEF AllJobsQueue, Caller

\* Before the job of a starter has begun nothing is on.
LEMMA NothingOn ==
  ASSUME AllJobsQueue, JobInv, SoloInv, NEW s \in Starter, Running(s), ~On(s)
  PROVE  open = <<>> /\ active = Nobody /\ \A c \in Caller : ~On(c)
<1>1. \A c \in Caller : ~On(c)
  BY NobodyElse DEF SoloInv, On, Exists
<1>2. Starter \subseteq Caller
  BY DEF Caller
<1> QED
  BY <1>1, <1>2 DEF SoloInv, OneChain, ActiveExact

\* The count of controllers, when the job of a starter is alone.
LEMMA CountsOne ==
  ASSUME CounterExact, NEW s \in Caller, Exists(s), \A c \in Caller : Exists(c) => c = s
  PROVE  counter = 1
<1>1. {c \in Caller : Exists(c)} = {s}
  OBVIOUS
<1> QED
  BY <1>1, FS_Singleton DEF CounterExact

\* Steps at which no job begins or ends.
LEMMA SoloStays ==
  ASSUME SoloInv, UNCHANGED <<open, active>>,
         \A c \in Caller : /\ On(c)' <=> On(c)
                           /\ controller'[c].grab => controller[c].grab
                           /\ controller'[c].state = "made" => <<"start", c>> \in timers'
  PROVE  SoloInv'
<1>1. MadeIsDue' /\ GrabIsOn'
  BY DEF SoloInv, MadeIsDue, GrabIsOn
<1>2. \A s \in Starter : s \in Caller /\ Action[s] \in Caller
  BY ActorAssumption DEF Caller
<1>3. ActiveExact'
  BY <1>2 DEF SoloInv, ActiveExact
<1>4. OneChain'
  <2>1. CASE open = <<>> /\ \A c \in Caller : ~On(c)
    BY <2>1 DEF OneChain
  <2>2. CASE \E s \in Starter : /\ On(s) /\ open = <<s>>
                                /\ \A c \in Caller : On(c) => c = s
    BY <1>2, <2>2 DEF OneChain
  <2>3. CASE \E s \in Starter : /\ On(s) /\ On(Action[s]) /\ open = <<s, Action[s]>>
                                /\ \A c \in Caller : On(c) => c \in {s, Action[s]}
    BY <1>2, <2>3 DEF OneChain
  <2> QED
    BY <2>1, <2>2, <2>3 DEF SoloInv, OneChain
<1> QED
  BY <1>1, <1>3, <1>4 DEF SoloInv

\* startNextJobAction makes a controller and starts its timer.
LEMMA SoloStartNext ==
  ASSUME JobInv, SoloInv, NEW c \in Caller, NEW b \in BOOLEAN, StartNext(c, b),
         UNCHANGED <<open, active>>, <<"start", c>> \in timers',
         \A d \in Caller : <<"start", d>> \in timers => <<"start", d>> \in timers'
  PROVE  SoloInv'
<1>1. /\ \A d \in Caller \ {c} : controller'[d] = controller[d]
      /\ controller'[c] = IF Exists(c) THEN controller[c] ELSE New(b)
  BY NextController DEF JobInv
<1>2. New(b).state = "made" /\ ~New(b).grab
  BY DEF New, NoController
<1>3. \A d \in Caller : /\ On(d)' <=> On(d)
                        /\ controller'[d].grab => controller[d].grab
                        /\ controller'[d].state = "made" => <<"start", d>> \in timers'
  BY <1>1, <1>2 DEF SoloInv, MadeIsDue, On, Exists
<1> QED
  BY <1>3, SoloStays

\* The timer of a starter takes the next job: nothing is on yet.
LEMMA TryAgainSolo ==
  ASSUME JobInv, SoloInv, NEW s \in Starter, TryAgain(s)
  PROVE  SoloInv'
<1>1. UNCHANGED <<open, active>>
  BY DEF TryAgain
<1>2. CASE queue = <<>>
  <2>1. controller' = controller /\ timers' = timers \ {<<"again", s>>}
    BY <1>2 DEF TryAgain
  <2> QED
    BY <1>1, <2>1, SoloStays DEF SoloInv, MadeIsDue, On
<1>3. CASE queue # <<>>
  <2> DEFINE c == Head(queue)
             b == c \in BlockUndo
  <2>1. c \in Starter /\ b \in BOOLEAN
    <3>1. queue \in Seq(Starter)
      BY DEF JobInv, TypeOK
    <3> QED
      BY <1>3, <3>1, NonEmptySeq, TailOfSeq
  <2>2. StartNext(c, b) /\ timers' = (timers \ {<<"again", s>>}) \cup {<<"start", c>>}
    BY <1>3 DEF TryAgain
  <2>3. \A d \in Caller : <<"start", d>> \in timers => <<"start", d>> \in timers'
    BY <2>2
  <2>4. c \in Caller
    BY <2>1 DEF Caller
  <2> HIDE DEF c, b
  <2> QED
    BY <1>1, <2>1, <2>2, <2>3, <2>4, SoloStartNext
<1> QED
  BY <1>2, <1>3

\* JobController::start: the job of a starter begins when none runs.
LEMMA StartSolo ==
  ASSUME AllJobsQueue, JobInv, SoloInv, NEW c \in Starter, Start(c)
  PROVE  SoloInv' /\ open' = <<c>> /\ open = <<>>
<1> DEFINE k == controller[c]
<1>1. /\ <<"start", c>> \in timers /\ Exists(c)
      /\ timers' = timers \ {<<"start", c>>}
      /\ controller' = [controller EXCEPT ![c] =
           [k EXCEPT !.state = "on", !.tx = TRUE,
                     !.grab = @ \/ (counter = 1 /\ Action[c] \notin SilentFunction)]]
      /\ active' = IF counter = 1 THEN c ELSE active
      /\ open' = IF k.tx THEN open ELSE Begun(c)
  BY DEF Start, Fires
<1>2. c \in Caller /\ controller \in [Caller -> Controller] /\ k \in Controller
  BY DEF JobInv, TypeOK, Caller
<1>3. k.state = "made" /\ Running(c) /\ ~On(c)
  BY <1>1 DEF JobInv, StartsOnce, Running, On
<1>4. open = <<>> /\ active = Nobody /\ \A d \in Caller : ~On(d)
  BY <1>3, NothingOn
<1>5. \A d \in Caller : Exists(d) => d = c
  BY <1>3, NobodyElse DEF SoloInv
<1>6. counter = 1
  BY <1>1, <1>2, <1>5, CountsOne DEF JobInv
<1>7. ~k.tx
  BY <1>2, <1>3 DEF JobInv, ControllerKinds, AllJobsQueue
<1>8. /\ controller'[c].state = "on"
      /\ \A d \in Caller \ {c} : controller'[d] = controller[d]
  BY <1>1, <1>2 DEF Controller
<1>9. open' = <<c>> /\ active' = c
  BY <1>1, <1>4, <1>6, <1>7 DEF Begun
<1>10. On(c)' /\ \A d \in Caller : On(d)' => d = c
  BY <1>4, <1>8 DEF On
<1>11. MadeIsDue' /\ GrabIsOn'
  BY <1>1, <1>8, <1>10 DEF SoloInv, MadeIsDue, GrabIsOn, On
<1>12. OneChain' /\ ActiveExact'
  BY <1>9, <1>10 DEF OneChain, ActiveExact, Caller
<1> QED
  BY <1>4, <1>9, <1>11, <1>12 DEF SoloInv

\* The process of the running job begins inside its transaction.
LEMMA StartProcessSolo ==
  ASSUME AllJobsQueue, JobInv, SoloInv, NEW f \in Function, StartProcess(f)
  PROVE  SoloInv'
<1>1. /\ <<"start", f>> \in timers
      /\ timers' = timers \ {<<"start", f>>}
      /\ controller' = [controller EXCEPT ![f].state = "on", ![f].tx = TRUE]
      /\ open' = Append(open, f)
      /\ active' = active
  BY DEF StartProcess, Fires, Begun
<1>2. f \in Caller /\ f \notin Starter /\ controller \in [Caller -> Controller]
  BY ActorAssumption DEF Caller, JobInv, TypeOK
<1>3. controller[f].state = "made" /\ Exists(f) /\ ~On(f)
  BY <1>1 DEF JobInv, StartsOnce, Exists, On
<1>4. PICK s \in Starter : On(s) /\ Action[s] = f
  BY <1>3 DEF AllJobsQueue, JobInv, WaitsForProcess, HasController
<1>5. open = <<s>> /\ \A c \in Caller : On(c) => c = s
  <2>1. s \in Caller /\ \A t \in Starter : s # Action[t]
    BY ActorAssumption DEF Caller
  <2>2. ASSUME NEW t \in Starter, On(t), On(Action[t]),
               \A c \in Caller : On(c) => c \in {t, Action[t]}
        PROVE  FALSE
    <3>1. s = t
      BY <1>4, <2>1, <2>2
    <3> QED
      BY <1>3, <1>4, <2>2, <3>1
  <2>3. PICK t \in Starter : /\ On(t) /\ open = <<t>>
                             /\ \A c \in Caller : On(c) => c = t
    BY <1>4, <2>1, <2>2 DEF SoloInv, OneChain
  <2> QED
    BY <1>4, <2>1, <2>3
<1>6. /\ controller'[f].state = "on" /\ controller'[f].grab = controller[f].grab
      /\ \A d \in Caller \ {f} : controller'[d] = controller[d]
  BY <1>1, <1>2 DEF Controller
<1>7. On(f)' /\ On(s)' /\ \A c \in Caller : On(c)' => c \in {s, f}
  BY <1>2, <1>4, <1>5, <1>6 DEF On, Caller
<1>8. open' = <<s, f>>
  <2>1. s \in Caller
    BY <1>4 DEF Caller
  <2>2. Append(<<s>>, f) = <<s, f>>
    BY <1>2, <2>1, PairOfSeq
  <2> QED
    BY <1>1, <1>5, <2>2
<1>9. MadeIsDue' /\ GrabIsOn'
  BY <1>1, <1>6, <1>7 DEF SoloInv, MadeIsDue, GrabIsOn, On
<1>10. OneChain'
  BY <1>4, <1>7, <1>8 DEF OneChain
<1>11. ActiveExact'
  BY <1>1, <1>2, <1>4, <1>6, <1>7 DEF SoloInv, ActiveExact, Caller
<1> QED
  BY <1>9, <1>10, <1>11 DEF SoloInv

\* The end of the last controller of a chain leaves the rest of the chain.
LEMMA LastEnds ==
  ASSUME NEW s \in Caller, NEW f \in Caller, s # f
  PROVE  /\ open = <<s>> => Ended(s) = <<>>
         /\ open = <<s, f>> => Ended(f) = <<s>>
<1>1. ASSUME open = <<s>>
      PROVE  Ended(s) = <<>>
  <2>1. DOMAIN open = 1..1 /\ open[1] = s
    BY <1>1
  <2>2. s \in ToSet(open)
    BY <2>1 DEF ToSet
  <2>3. (CHOOSE i \in DOMAIN open : open[i] = s) = 1
    BY <2>1
  <2>4. Ended(s) = SubSeq(open, 1, 1 - 1)
    BY <2>2, <2>3, Zenon DEF Ended
  <2> QED
    BY <1>1, <2>4
<1>2. ASSUME open = <<s, f>>
      PROVE  Ended(f) = <<s>>
  <2>1. DOMAIN open = {1, 2} /\ open[1] = s /\ open[2] = f
    BY <1>2
  <2>2. f \in ToSet(open)
    BY <2>1 DEF ToSet
  <2>3. (CHOOSE i \in DOMAIN open : open[i] = f) = 2
    BY <2>1
  <2>4. Ended(f) = SubSeq(open, 1, 2 - 1)
    BY <2>2, <2>3, Zenon DEF Ended
  <2>5. SubSeq(<<s, f>>, 1, 1) = <<s>>
    BY PairPrefix
  <2> QED
    BY <1>2, <2>4, <2>5
<1> QED
  BY <1>1, <1>2

\* The process ends its own transaction and leaves that of the job.
LEMMA ProcessEndsSolo ==
  ASSUME AllJobsQueue, JobInv, SoloInv, NEW f \in Function, ProcessEnds(f)
  PROVE  SoloInv' /\ Len(open') = Len(open) - 1
<1>1. /\ On(f) /\ EndController(f) /\ timers' = timers
  BY DEF ProcessEnds
<1>2. f \in Caller /\ f \notin Starter /\ controller \in [Caller -> Controller] /\ Exists(f)
  BY <1>1, ActorAssumption DEF Caller, JobInv, TypeOK, On, Exists
<1>3. PICK s \in Starter : On(s) /\ Action[s] = f /\ open = <<s, f>>
                           /\ \A c \in Caller : On(c) => c \in {s, f}
  <2>1. \A s \in Starter : s # f
    BY <1>2
  <2> QED
    BY <1>1, <1>2, <2>1 DEF SoloInv, OneChain
<1>4. s \in Caller /\ s # f /\ Exists(s)
  BY <1>2, <1>3 DEF Caller, On, Exists
<1>5. controller[f].tx
  <2>1. DOMAIN open = {1, 2} /\ open[2] = f
    BY <1>3
  <2> QED
    BY <2>1 DEF JobInv, OwnersKnown
<1>6. open' = <<s>>
  BY <1>1, <1>2, <1>3, <1>4, <1>5, LastEnds DEF EndController, OpenAfter
<1>7. active = s
  BY <1>3 DEF SoloInv, ActiveExact
<1>8. counter # 1
  <2> DEFINE K == {c \in Caller : Exists(c)}
  <2>1. IsFiniteSet(K)
    BY ActorAssumption, FS_Subset
  <2>2. {s, f} \subseteq K
    BY <1>2, <1>4
  <2>3. Cardinality({s, f}) = 2
    <3>1. {s, f} = {s} \cup {f} /\ f \notin {s} /\ IsFiniteSet({s}) /\ Cardinality({s}) = 1
      BY <1>4, FS_Singleton
    <3> QED
      BY <3>1, FS_AddElement
  <2>4. Cardinality({s, f}) <= Cardinality(K)
    BY <2>1, <2>2, FS_Subset
  <2> HIDE DEF K
  <2>5. Cardinality(K) # 1
    BY <2>3, <2>4
  <2> QED
    BY <2>5 DEF K, JobInv, CounterExact
<1>9. active' = s
  BY <1>1, <1>4, <1>7, <1>8 DEF EndController, ActiveAfter
<1>10. /\ controller'[f] = NoController
       /\ \A d \in Caller \ {f} : controller'[d] = controller[d]
  BY <1>1, <1>2 DEF EndController
<1>11. NoController.state = "none" /\ ~NoController.grab
  BY DEF NoController
<1>12. On(s)' /\ \A c \in Caller : On(c)' => c = s
  BY <1>3, <1>4, <1>10, <1>11 DEF On
<1>13. MadeIsDue' /\ GrabIsOn'
  BY <1>1, <1>10, <1>11 DEF SoloInv, MadeIsDue, GrabIsOn, On
<1>14. OneChain' /\ ActiveExact'
  BY <1>6, <1>9, <1>12 DEF OneChain, ActiveExact, Caller
<1>15. Len(open) = 2 /\ Len(open') = 1
  BY <1>3, <1>6
<1> QED
  BY <1>13, <1>14, <1>15 DEF SoloInv

\* The job of a starter ends, and nothing of it is left.
LEMMA EndSolo ==
  ASSUME AllJobsQueue, JobInv, SoloInv, NEW c \in Starter, NEW rslt,
         On(c), ~Exists(Action[c]), End(c, rslt)
  PROVE  SoloInv' /\ Len(open') = Len(open) - 1
<1> DEFINE f == Action[c]
<1>1. EndController(c) /\ Back(c, rslt)
  BY DEF End
<1>2. /\ c \in Caller /\ f \in Caller /\ f # c /\ controller \in [Caller -> Controller]
      /\ Exists(c) /\ Running(c)
  BY ActorAssumption DEF Caller, JobInv, TypeOK, On, Exists, Running
<1>3. \A d \in Caller : Exists(d) => d = c
  BY <1>2, NobodyElse DEF SoloInv
<1>4. open = <<c>>
  BY <1>2, <1>3 DEF SoloInv, OneChain, On, Exists, Caller
<1>5. counter = 1
  BY <1>2, <1>3, CountsOne DEF JobInv
<1>6. controller[c].tx
  <2>1. DOMAIN open = {1} /\ open[1] = c
    BY <1>4
  <2> QED
    BY <2>1 DEF JobInv, OwnersKnown
<1>7. open' = <<>> /\ active' = Nobody
  BY <1>1, <1>2, <1>4, <1>5, <1>6, LastEnds DEF EndController, OpenAfter, ActiveAfter
<1>8. /\ controller'[c] = NoController
      /\ \A d \in Caller \ {c} : controller'[d] = controller[d]
  BY <1>1, <1>2 DEF EndController
<1>9. \A d \in Caller : controller'[d].state = "none"
  BY <1>3, <1>8 DEF Exists, NoController
<1>10. \A d \in Caller : ~On(d)'
  BY <1>9 DEF On
<1>11. \A d \in Caller : ~controller'[d].grab
  <2>1. \A d \in Caller \ {c} : ~On(d)
    BY <1>3 DEF On, Exists
  <2> QED
    BY <1>8, <2>1 DEF SoloInv, GrabIsOn, NoController
<1>12. MadeIsDue' /\ GrabIsOn'
  BY <1>9, <1>11 DEF MadeIsDue, GrabIsOn
<1>13. OneChain' /\ ActiveExact'
  BY <1>7, <1>10 DEF OneChain, ActiveExact, Caller
<1>14. Len(open) = 1 /\ Len(open') = 0
  BY <1>4, <1>7
<1> QED
  BY <1>12, <1>13, <1>14 DEF SoloInv

\* The function of the running job ends.
LEMMA EpilogSolo ==
  ASSUME AllJobsQueue, JobInv, SoloInv, NEW f \in Function, NEW rslt, Epilog(f, rslt)
  PROVE  SoloInv' /\ Len(open') = Len(open) - 1
<1>1. engine[f] \in {"now", "timer"}
  BY DEF Epilog, Executing
<1>2. PICK c \in Starter : c = ControllerOf(f) /\ On(c) /\ Action[c] = f
  BY <1>1 DEF AllJobsQueue, JobInv, HasController, ControllerOf
<1>3. PICK r : End(c, r)
  BY <1>2 DEF Epilog
<1>4. ~Exists(f)
  BY <1>1 DEF JobInv, WaitsForProcess
<1> QED
  BY <1>2, <1>3, <1>4, EndSolo

\* The running job is canceled.
LEMMA CancelSolo ==
  ASSUME AllJobsQueue, JobInv, SoloInv, NEW c \in Starter, Cancel(c)
  PROVE  SoloInv' /\ (open' = open \/ Len(open') = Len(open) - 1)
<1> DEFINE f == Action[c]
<1>1. c \in Caller /\ controller \in [Caller -> Controller] /\ On(c)
  BY DEF Caller, JobInv, TypeOK, Cancel
<1>2. CASE Exists(f)
  <2>1. /\ controller' = [controller EXCEPT ![c].stopped = TRUE]
        /\ UNCHANGED <<timers, active, open>>
    BY <1>2 DEF Cancel
  <2>2. \A d \in Caller : /\ controller'[d].state = controller[d].state
                          /\ controller'[d].grab = controller[d].grab
    BY <1>1, <2>1 DEF Controller
  <2>3. SoloInv'
    BY <2>1, <2>2, SoloStays DEF SoloInv, MadeIsDue, On
  <2> QED
    BY <2>1, <2>3
<1>3. CASE ~Exists(f)
  <2>1. End(c, "canceled")
    BY <1>3 DEF Cancel
  <2> QED
    BY <1>1, <1>3, <2>1, EndSolo
<1> QED
  BY <1>2, <1>3

\* Every step keeps the chain, and takes at most one transaction from it.
LEMMA NextSolo ==
  ASSUME AllJobsQueue, JobInv, SoloInv, [Next]_vars
  PROVE  SoloInv' /\ Len(open') >= Len(open) - 1
<1>0. Len(open) \in Nat
  <2>1. open \in Seq(Caller)
    BY DEF JobInv, TypeOK
  <2> QED
    BY <2>1
<1>1. CASE UNCHANGED vars
  <2>1. UNCHANGED <<controller, timers, active, open>>
    BY <1>1 DEF vars
  <2>2. SoloInv'
    BY <2>1, SoloStays DEF SoloInv, MadeIsDue, On
  <2> QED
    BY <1>0, <2>1, <2>2
<1>2. ASSUME NEW s \in Starter, Submit(s)
      PROVE  SoloInv' /\ Len(open') >= Len(open) - 1
  <2>1. /\ UNCHANGED <<controller, active, open>>
        /\ timers \subseteq timers'
    BY <1>2 DEF Submit, StartJob
  <2>2. SoloInv'
    BY <2>1, SoloStays DEF SoloInv, MadeIsDue, On
  <2> QED
    BY <1>0, <2>1, <2>2
<1>3. ASSUME NEW s \in Starter, TryAgain(s)
      PROVE  SoloInv' /\ Len(open') >= Len(open) - 1
  <2>1. open' = open
    BY <1>3 DEF TryAgain
  <2> QED
    BY <1>0, <1>3, <2>1, TryAgainSolo
<1>4. ASSUME NEW c \in Starter, Start(c)
      PROVE  SoloInv' /\ Len(open') >= Len(open) - 1
  <2>1. SoloInv' /\ open' = <<c>> /\ open = <<>>
    BY <1>4, StartSolo
  <2> QED
    BY <2>1
<1>5. ASSUME NEW c \in Starter, StartDeleted(c)
      PROVE  SoloInv' /\ Len(open') >= Len(open) - 1
  <2>1. UNCHANGED <<controller, timers, active, open>>
    BY <1>5 DEF StartDeleted
  <2>2. SoloInv'
    BY <2>1, SoloStays DEF SoloInv, MadeIsDue, On
  <2> QED
    BY <1>0, <2>1, <2>2
<1>6. ASSUME NEW c \in Starter, Cancel(c)
      PROVE  SoloInv' /\ Len(open') >= Len(open) - 1
  BY <1>0, <1>6, CancelSolo
<1>7. ASSUME NEW f \in Function, StartProcess(f)
      PROVE  SoloInv' /\ Len(open') >= Len(open) - 1
  <2>1. open' = Append(open, f)
    BY <1>7 DEF StartProcess, Begun
  <2>2. open \in Seq(Caller)
    BY DEF JobInv, TypeOK
  <2>3. Len(open') = Len(open) + 1
    BY <2>1, <2>2
  <2> QED
    BY <1>0, <1>7, <2>3, StartProcessSolo
<1>8. ASSUME NEW f \in Function, Pause(f)
      PROVE  SoloInv' /\ Len(open') >= Len(open) - 1
  <2>1. UNCHANGED <<controller, timers, active, open>>
    BY <1>8 DEF Pause
  <2>2. SoloInv'
    BY <2>1, SoloStays DEF SoloInv, MadeIsDue, On
  <2> QED
    BY <1>0, <2>1, <2>2
<1>9. ASSUME NEW f \in Function, RunProcess(f)
      PROVE  SoloInv' /\ Len(open') >= Len(open) - 1
  <2>1. /\ StartNext(f, FALSE) /\ timers' = timers \cup {<<"start", f>>}
        /\ UNCHANGED <<active, open>> /\ f \in Caller
    BY <1>9 DEF RunProcess, Caller
  <2>2. SoloInv'
    BY <2>1, SoloStartNext
  <2> QED
    BY <1>0, <2>1, <2>2
<1>10. ASSUME NEW f \in Function, ProcessEnds(f)
       PROVE  SoloInv' /\ Len(open') >= Len(open) - 1
  BY <1>0, <1>10, ProcessEndsSolo
<1>11. ASSUME NEW f \in Function, NEW rslt, Epilog(f, rslt)
       PROVE  SoloInv' /\ Len(open') >= Len(open) - 1
  BY <1>0, <1>11, EpilogSolo
<1>12. ~(\E b \in Button : Press(b)) /\ ~(\E s \in Starter : Edit(s))
       /\ Starter \cup Button = Starter
  BY DEF AllJobsQueue, Edit
<1>13. CASE \E s \in Starter : Submit(s) \/ Edit(s) \/ TryAgain(s)
  BY <1>2, <1>3, <1>12, <1>13
<1>14. CASE \E c \in Starter \cup Button : Start(c) \/ StartDeleted(c) \/ Cancel(c)
  BY <1>4, <1>5, <1>6, <1>12, <1>14
<1>15. CASE \E f \in Function :
              \/ StartProcess(f) \/ Pause(f) \/ RunProcess(f) \/ ProcessEnds(f)
              \/ \E rslt \in {"ok", "aborted"} : Epilog(f, rslt)
  BY <1>7, <1>8, <1>9, <1>10, <1>11, <1>15
<1> QED
  BY <1>1, <1>12, <1>13, <1>14, <1>15 DEF Next

\* At the start nothing is on.
LEMMA InitSolo == Init => SoloInv
<1> SUFFICES ASSUME Init
             PROVE  SoloInv
  OBVIOUS
<1>1. \A c \in Caller : controller[c].state = "none" /\ ~controller[c].grab
  BY DEF Init, NoController
<1>2. \A c \in Caller : ~On(c)
  BY <1>1 DEF On
<1> QED
  BY <1>1, <1>2 DEF Init, SoloInv, MadeIsDue, OneChain, ActiveExact, GrabIsOn, Caller

\* The chain of one job holds in every reachable state, if all jobs queue.
LEMMA SoloInvariant ==
  ASSUME AllJobsQueue
  PROVE  Spec => [](JobInv /\ SoloInv)
<1>1. JobInv /\ SoloInv /\ [Next]_vars => JobInv' /\ SoloInv'
  BY NextJobInv, NextSolo
<1> QED
  BY <1>1, InitJobInv, InitSolo, PTL DEF Spec

\* No assert fails and no timer starts a controller that is gone, when task
\* buttons leave the functions to the queue (JobFunction.cc:206, JobStarter.cc:356,
\* JobController.cc:69-85); data fields may begin their transactions early.
THEOREM QueuedJobsMeetNoAssert ==
  ASSUME Button = {}
  PROVE  Spec => []AssertsHold
<1>1. ASSUME JobInv, AssertsHold, NEW c \in Starter, NEW rslt, On(c), End(c, rslt)
      PROVE  AssertsHold'
  <2>1. wait
    BY <1>1 DEF JobInv, OneWakeup, Attentive, Running
  <2> QED
    BY <1>1, <2>1 DEF End, Back, AssertsHold
<1>2. ASSUME JobInv, AssertsHold, NEW c \in Starter, Start(c)
      PROVE  AssertsHold'
  <2>1. <<"start", c>> \in timers /\ ~On(c)
    BY <1>2 DEF Start, Fires, JobInv, StartsOnce, On
  <2>2. ASSUME NEW s \in Starter, On(s)
        PROVE  FALSE
    <3>1. Attentive(c) /\ Attentive(s)
      BY <2>1, <2>2 DEF Attentive, Running
    <3>2. s = c
      BY <1>2, <3>1 DEF JobInv, OneWakeup
    <3> QED
      BY <2>1, <2>2, <3>2
  <2>3. engine[Action[c]] = "none"
    <3>1. Action[c] \in Function /\ Starter \cup Button = Starter
      BY ActorAssumption
    <3> QED
      BY <1>2, <2>2, <3>1 DEF JobInv, HasController
  <2> QED
    BY <1>2, <2>3 DEF Start, AssertsHold
<1>3. ASSUME JobInv, AssertsHold, NEW c \in Starter, StartDeleted(c)
      PROVE  FALSE
  BY <1>3 DEF StartDeleted, Fires, JobInv, StartsOnce, Exists
<1>4. ASSUME JobInv, AssertsHold, NEW c \in Starter, Cancel(c)
      PROVE  AssertsHold'
  <2>1. CASE Exists(Action[c])
    BY <1>4, <2>1 DEF Cancel, AssertsHold
  <2>2. CASE ~Exists(Action[c])
    BY <1>1, <1>4, <2>2 DEF Cancel
  <2> QED
    BY <2>1, <2>2
<1>5. ASSUME JobInv, AssertsHold, NEW f \in Function, NEW rslt, Epilog(f, rslt)
      PROVE  AssertsHold'
  <2>1. PICK c \in Starter : c = ControllerOf(f) /\ On(c)
    BY <1>5 DEF Epilog, Executing, JobInv, HasController, ControllerOf
  <2> QED
    BY <1>1, <1>5, <2>1 DEF Epilog
<1>6. JobInv /\ AssertsHold /\ [Next]_vars => AssertsHold'
  <2> SUFFICES ASSUME JobInv, AssertsHold, [Next]_vars
               PROVE  AssertsHold'
    OBVIOUS
  <2>1. CASE UNCHANGED vars
    BY <2>1 DEF vars, AssertsHold
  <2>2. CASE \E s \in Starter : Submit(s) \/ Edit(s) \/ TryAgain(s)
    BY <2>2 DEF Submit, Edit, TryAgain, AssertsHold
  <2>3. CASE \E c \in Starter \cup Button : Start(c) \/ StartDeleted(c) \/ Cancel(c)
    BY <1>2, <1>3, <1>4, <2>3
  <2>4. CASE \E f \in Function : StartProcess(f) \/ Pause(f) \/ RunProcess(f) \/ ProcessEnds(f)
    BY <2>4 DEF StartProcess, Pause, RunProcess, ProcessEnds, AssertsHold
  <2>5. CASE \E f \in Function : \E rslt \in {"ok", "aborted"} : Epilog(f, rslt)
    BY <1>5, <2>5
  <2> QED
    BY <2>1, <2>2, <2>3, <2>4, <2>5 DEF Next
<1>7. Init => AssertsHold
  BY DEF Init, AssertsHold
<1> QED
  BY <1>6, <1>7, JobInvariant, PTL DEF Spec

\* When every job goes through the queue, a running job is in a transaction of
\* its own and its process in one inside that (JobController::startTransaction).
THEOREM QueuedJobsHaveTransactions ==
  ASSUME AllJobsQueue
  PROVE  Spec => []JobInOwnTransaction
<1>1. ASSUME JobInv, SoloInv
      PROVE  JobInOwnTransaction
  <2>1. SUFFICES ASSUME NEW c \in Caller, On(c)
                 PROVE  \E i \in DOMAIN open :
                          /\ open[i] = c
                          /\ c \in Function => ControllerOf(c) \in ToSet(SubSeq(open, 1, i - 1))
    BY DEF JobInOwnTransaction
  <2>2. PICK s \in Starter : /\ On(s)
                             /\ \/ open = <<s>> /\ c = s
                                \/ open = <<s, Action[s]>> /\ c \in {s, Action[s]}
    BY <1>1, <2>1 DEF SoloInv, OneChain
  <2>3. s \in Caller /\ s \notin Function /\ Action[s] \in Function /\ Action[s] \in Caller
    BY ActorAssumption DEF Caller
  <2>4. CASE c = s
    <3>1. 1 \in DOMAIN open /\ open[1] = c
      BY <2>2, <2>3, <2>4
    <3> QED
      BY <2>3, <2>4, <3>1
  <2>5. CASE open = <<s, Action[s]>> /\ c = Action[s]
    <3>1. 2 \in DOMAIN open /\ open[2] = c
      BY <2>5
    <3>2. SubSeq(open, 1, 2 - 1) = <<s>>
      BY <2>3, <2>5, PairPrefix
    <3>3. s \in ToSet(<<s>>)
      BY DEF ToSet
    <3>4. \A t \in Starter \cup Button : On(t) /\ Action[t] = c => t = s
      BY <1>1, <2>2 DEF AllJobsQueue, JobInv, OneWakeup, Attentive, Running
    <3>5. ControllerOf(c) = s
      BY <2>2, <2>5, <3>4 DEF ControllerOf
    <3> QED
      BY <3>1, <3>2, <3>3, <3>5
  <2> QED
    BY <2>2, <2>4, <2>5
<1> QED
  BY <1>1, SoloInvariant, PTL

\* When no job is left nothing of a job is left (JobController::end and cleanup):
\* no transaction, no controller, no grab of the mouse, no block of undo.
THEOREM QueuedJobsLeaveNothing ==
  ASSUME AllJobsQueue
  PROVE  Spec => []QuietIsClean
<1>1. ASSUME JobInv, SoloInv
      PROVE  QuietIsClean
  <2> SUFFICES ASSUME timers = {}, \A c \in Caller : ~On(c)
               PROVE  /\ open = <<>> /\ counter = 0
                      /\ active = Nobody /\ ~Grabbed
                      /\ allowed
    BY DEF QuietIsClean
  <2>1. Starter \subseteq Caller
    BY DEF Caller
  <2>2. open = <<>> /\ active = Nobody /\ ~Grabbed
    BY <1>1, <2>1 DEF SoloInv, OneChain, ActiveExact, GrabIsOn, Grabbed
  <2>3. \A c \in Caller : ~Exists(c)
    BY <1>1 DEF SoloInv, MadeIsDue, JobInv, TypeOK, Controller, Exists, On
  <2>4. {c \in Caller : Exists(c)} = {}
    BY <2>3
  <2>5. counter = 0
    BY <1>1, <2>4, FS_EmptySet DEF JobInv, CounterExact
  <2>6. \A c \in Caller : ~controller[c].tx
    BY <1>1, <2>3 DEF JobInv, ControllerKinds
  <2>7. allowed
    BY <1>1, <2>6 DEF JobInv, UndoBlocked
  <2> QED
    BY <2>2, <2>5, <2>7
<1> QED
  BY <1>1, SoloInvariant, PTL

\* Cancel and the progress dialog are about the job that runs, and the pointer
\* to its controller never outlives it (JobManager, JobController::start, end).
THEOREM QueuedJobIsActive ==
  ASSUME AllJobsQueue
  PROVE  Spec => []ActiveIsLive
<1>1. ASSUME JobInv, SoloInv
      PROVE  ActiveIsLive
  <2>1. Dangling \notin Starter \cup {Nobody} /\ Nobody \notin Starter \cup Button
    BY ActorAssumption DEF Caller
  <2> QED
    BY <1>1, <2>1 DEF AllJobsQueue, SoloInv, ActiveExact, ActiveIsLive
<1> QED
  BY <1>1, SoloInvariant, PTL

\* The end of a job ends its own transaction and no other one.
THEOREM QueuedJobsEndTheirOwn ==
  ASSUME AllJobsQueue
  PROVE  Spec => OneTransactionEnds
<1>1. JobInv /\ SoloInv /\ [Next]_vars => [Len(open') >= Len(open) - 1]_vars
  BY NextSolo
<1> QED
  BY <1>1, SoloInvariant, PTL DEF Spec, OneTransactionEnds
=============================================================================
