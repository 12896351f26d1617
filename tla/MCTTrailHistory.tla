-------------------------- MODULE MCTTrailHistory --------------------------
(* Model checking of TTrail with its history variable.                      *)
EXTENDS TTrailHistory

Symmetry == Permutations(Owner) \cup Permutations(Cycle)

\* As in MCTTrail; of begun only what an abort still to come will be compared with
FreedCyclesIgnored ==
  <<live \in [Cell -> Value],
    [c \in {d \in Cell : d[1] \in KnownCycles \cup {NoCycle}} |-> live[c]],
    page, cycles, actual, trail, final, owing, undo, redo,
    activated, enabled, button, busy, failed,
    [o \in (owing \cup {busy.owner}) \ {Nobody} |-> begun[o]]>>
=============================================================================
