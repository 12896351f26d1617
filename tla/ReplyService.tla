---------------------------- MODULE ReplyService ----------------------------
(***************************************************************************)
(* What the reply queues promise their clients: a request is answered once,*)
(* with the response of its own header, and not before its function has    *)
(* ended; in between the function may ask the client back.  A function     *)
(* that fails may take with it the requests that wait for theirs.          *)
(***************************************************************************)
CONSTANTS Queue, Header, NoHeader

VARIABLE exchange   \* of each queue with its client

vars == exchange

Init == exchange = [q \in Queue |-> [phase |-> "idle", header |-> NoHeader]]

Move(q, from, to) ==
  /\ exchange[q].phase = from
  /\ exchange' = [exchange EXCEPT ![q].phase = to]

Request(q, h) ==
  /\ exchange[q].phase = "idle"
  /\ exchange' = [exchange EXCEPT ![q] = [phase |-> "working", header |-> h]]

Ask(q) == Move(q, "working", "asked")
Answer(q) == Move(q, "asked", "working")
Respond(q) == Move(q, "done", "idle")

\* A function ends: the responses of some requests are due.  When it fails,
\* requests that wait are lost.
End(due, lost) ==
  /\ due \cup lost \subseteq {q \in Queue : exchange[q].phase = "working"}
  /\ exchange' = [q \in Queue |-> [exchange[q] EXCEPT
       !.phase = IF q \in due THEN "done" ELSE IF q \in lost THEN "lost" ELSE @]]

Next ==
  \/ \E q \in Queue :
       \/ \E h \in Header : Request(q, h)
       \/ Ask(q) \/ Answer(q) \/ Respond(q)
  \/ \E due \in SUBSET Queue : \E lost \in SUBSET (Queue \ due) : End(due, lost)

SafeSpec == Init /\ [][Next]_vars
=============================================================================
