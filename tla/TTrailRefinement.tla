-------------------------- MODULE TTrailRefinement --------------------------
(***************************************************************************)
(* TTrail implements NestedTransactions and UndoHistory.  The pool that the*)
(* abstract specifications speak of is what a client can see: the contents *)
(* of the items with transaction support in the existing cycles, and the   *)
(* active pages of the folders.  The contents at an earlier point are      *)
(* computed from what the trail or the undo list has saved since.          *)
(***************************************************************************)
EXTENDS TTrail

Absent == "absent"

TrackedCell == {c \in Cell : c[2] \notin Omit}

Contents == [data : [TrackedCell -> Value \cup {Absent}], page : [Folder -> Page]]

First(S) == CHOOSE i \in S : \A j \in S : i <= j

-----------------------------------------------------------------------------
(* The pool at the begin of open transaction k                             *)

Since(k) == k..Len(trail)

CreatedIn(log) == {log[i].cycle : i \in {j \in 1..Len(log) : log[j].kind = "new"}}

CyclesAt(k) ==
  (ToSet(cycles) \cup UNION {Held(trail[j].log) : j \in Since(k)})
    \ UNION {CreatedIn(trail[j].log) : j \in Since(k)}

SavedIn(log, c) ==
  log[First({i \in 1..Len(log) : log[i].kind = "item" /\ log[i].cell = c})].saved

DataAt(k) ==
  [c \in TrackedCell |->
     IF c[1] \notin CyclesAt(k) \cup {NoCycle} THEN Absent
     ELSE LET at == {j \in Since(k) : Holds(trail[j].log, c)}
          IN  IF at = {} THEN live[c] ELSE SavedIn(trail[First(at)].log, c)]

Switches(log, f) ==
  {i \in 1..Len(log) : log[i].kind = "action" /\ log[i].folder = f}

PageAt(k) ==
  [f \in Folder |->
     LET at == {j \in Since(k) : Switches(trail[j].log, f) # {}}
         log == trail[First(at)].log
     IN  IF at = {} THEN page[f] ELSE log[First(Switches(log, f))].to]

PoolAt(k) == [data |-> DataAt(k), page |-> PageAt(k)]

-----------------------------------------------------------------------------
(* Nested transactions: the loop of a commit or an abort takes effect when *)
(* it starts, for the owner's transaction and all that it encloses.        *)

OwnersPoint == First({k \in 1..Len(trail) : trail[k].owner = busy.owner})

Depth == IF busy.op \in {"commit", "abort"} THEN OwnersPoint - 1 ELSE Len(trail)

OpenPoints ==
  [k \in 1..Depth |-> [owner |-> trail[k].owner, before |-> PoolAt(k)]]

Nested ==
  INSTANCE NestedTransactions WITH
    pool <- IF busy.op = "abort" THEN PoolAt(OwnersPoint)
            ELSE PoolAt(Len(trail) + 1),
    open <- OpenPoints

\* Commit, abort and swallowed inner transactions behave as nested
\* transactions: whatever the order in which owners end, an abort brings back
\* every item, every cycle and every folder page of the owner's begin.
ImplementsNestedTransactions == Nested!Spec

-----------------------------------------------------------------------------
(* Undo: entry k of a list returns to the contents saved by the oldest     *)
(* entries from k on.                                                      *)

Committed == PoolAt(1)

After(list, k) ==
  [data |-> [c \in TrackedCell |->
               LET at == {i \in k..Len(list) : Holds(list[i], c)}
               IN  IF at = {} THEN Committed.data[c]
                   ELSE SavedIn(list[First(at)], c)],
   page |-> [f \in Folder |->
               LET at == {i \in k..Len(list) : Switches(list[i], f) # {}}
                   log == list[First(at)]
               IN  IF at = {} THEN Committed.page[f]
                   ELSE log[LastOf(Switches(log, f))].to]]

History ==
  INSTANCE UndoHistory WITH
    pool   <- Committed,
    past   <- [k \in 1..Len(undo) |-> After(undo, k)],
    future <- [k \in 1..Len(redo) |-> After(redo, k)]

\* Undo returns to the pool before the last recorded change or committed
\* transaction, redo takes it forward again, at most MaxElements steps.
ImplementsUndoHistory == History!Spec
=============================================================================
