---------------------------- MODULE UndoHistory ----------------------------
(***************************************************************************)
(* What undo and redo promise the user: the committed states of the pool   *)
(* form a history that undo walks back and redo walks forward again.  At   *)
(* most MaxElements steps are remembered, a new change forgets what could  *)
(* be redone, and a change that cannot be undone forgets everything.       *)
(***************************************************************************)
EXTENDS Sequences, Naturals

CONSTANTS Contents, MaxElements

VARIABLES
  pool,    \* the committed contents of the data pool
  past,    \* the contents undo returns to, the nearest one last
  future   \* the contents redo returns to, the nearest one last

vars == <<pool, past, future>>

Init == pool \in Contents /\ past = <<>> /\ future = <<>>

Remembered(list) == IF Len(list) > MaxElements THEN Tail(list) ELSE list

Change ==
  /\ pool' \in Contents
  /\ past' = Remembered(Append(past, pool))
  /\ future' = <<>>

Forget ==
  /\ pool' \in Contents
  /\ past' = <<>>
  /\ future' = <<>>

Undo ==
  /\ past # <<>>
  /\ pool' = past[Len(past)]
  /\ past' = SubSeq(past, 1, Len(past) - 1)
  /\ future' = Append(future, pool)

Redo ==
  /\ future # <<>>
  /\ pool' = future[Len(future)]
  /\ future' = SubSeq(future, 1, Len(future) - 1)
  /\ past' = Append(past, pool)

Next == Change \/ Forget \/ Undo \/ Redo

Spec == Init /\ [][Next]_vars
=============================================================================
