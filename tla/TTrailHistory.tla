--------------------------- MODULE TTrailHistory ---------------------------
(***************************************************************************)
(* TTrail with a history variable: what the pool was when an owner began.  *)
(* Unlike the refinement of NestedTransactions, whose pool is computed     *)
(* from the trail, the snapshot here is independent of what the trail      *)
(* saved, and it includes the order of the cycles and the actual cycle.    *)
(***************************************************************************)
EXTENDS TTrail

VARIABLE begun   \* the pool at the last begin of an owner

Snapshot ==
  [data   |-> [c \in {d \in Cell : /\ d[2] \notin Omit
                                   /\ d[1] \in ToSet(cycles) \cup {NoCycle}}
                 |-> live[c]],
   page   |-> page,
   cycles |-> cycles,
   actual |-> actual]

HistoryInit ==
  /\ Init
  /\ begun = [o \in Owner |-> Snapshot]

HistoryNext ==
  /\ Next
  /\ begun' = [o \in Owner |-> IF o \in owing' \ owing THEN Snapshot ELSE begun[o]]

HistorySpec == HistoryInit /\ [][HistoryNext]_<<vars, begun>>

\* "Alle Daten werden bis zum Transaction-Point des Owners rekonstruiert":
\* when an abort is done, the items, the cycles in their order, the actual
\* cycle and the folder pages are those of the owner's begin.
AbortRestores ==
  [][busy.op = "abort" /\ busy' = Idle
       => Snapshot' = begun[busy.owner]]_<<vars, begun>>
=============================================================================
