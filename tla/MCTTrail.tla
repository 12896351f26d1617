------------------------------ MODULE MCTTrail ------------------------------
(* Model checking of TTrail and of its refinements: symmetry sets and the   *)
(* view for runs with cycles.                                              *)
EXTENDS TTrailRefinement

OwnerSymmetry == Permutations(Owner)
CycleSymmetry == Permutations(Cycle)
Symmetry      == OwnerSymmetry \cup CycleSymmetry

\* Two states that differ only in the cells of freed cycles are the same: no
\* action reads such a cell, and NewCycle overwrites it.  (The first component
\* is TRUE; it has TLC evaluate the function `live` before it stores a state.)
Reachable(c) == c[1] \in KnownCycles \cup {NoCycle}
FreedCyclesIgnored ==
  <<live \in [Cell -> Value],
    [c \in {d \in Cell : Reachable(d)} |-> live[c]], page, cycles, actual,
    trail, final, owing, undo, redo, activated, enabled, button, busy, failed>>
=============================================================================
