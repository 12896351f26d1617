--------------------------- MODULE ActionContract ---------------------------
(***************************************************************************)
(* What a job action (a process group, a request) promises the function    *)
(* that has called it: after its start it ends once, and an action that    *)
(* has taken a stop and works on its end ("stopping") does not end as if   *)
(* all had gone well.  When a stop must be taken it does not say.          *)
(***************************************************************************)
VARIABLES
  phase,   \* "idle", "due" (its start is a timer), "on", "stopping"
  result   \* how it has ended the last time

vars == <<phase, result>>

Init == phase = "idle" /\ result = "none"

Call == phase = "idle" /\ phase' = "due" /\ result' = "none"

Begin == phase = "due" /\ phase' = "on" /\ UNCHANGED result

Stop == phase = "on" /\ phase' = "stopping" /\ UNCHANGED result

End(rslt) ==
  /\ \/ phase = "on" /\ rslt \in {"ok", "aborted"}
     \/ phase = "stopping" /\ rslt \in {"canceled", "aborted"}
  /\ phase' = "idle"
  /\ result' = rslt

Next ==
  \/ Call \/ Begin \/ Stop
  \/ \E rslt \in {"ok", "canceled", "aborted"} : End(rslt)

SafeSpec == Init /\ [][Next]_vars
=============================================================================
