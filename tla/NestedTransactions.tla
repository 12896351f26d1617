------------------------- MODULE NestedTransactions -------------------------
(***************************************************************************)
(* What the transaction trail promises its clients: nested transactions    *)
(* over one pool.  A commit keeps what was done since the owner's begin, an*)
(* abort brings back the pool as it was at that begin, and both end all    *)
(* transactions begun after it.  An end that comes too late does nothing.  *)
(***************************************************************************)
EXTENDS Sequences, Naturals

CONSTANTS Owner, Contents

VARIABLES
  pool,   \* the contents of the data pool
  open    \* the open transactions: owner and pool at the begin

vars == <<pool, open>>

Init == pool \in Contents /\ open = <<>>

Begin(o) ==
  /\ open' = Append(open, [owner |-> o, before |-> pool])
  /\ UNCHANGED pool

Change ==
  /\ pool' \in Contents
  /\ UNCHANGED open

Commit(k) ==
  /\ open' = SubSeq(open, 1, k - 1)
  /\ UNCHANGED pool

Abort(k) ==
  /\ open' = SubSeq(open, 1, k - 1)
  /\ pool' = open[k].before

Next ==
  \/ \E o \in Owner : Begin(o)
  \/ Change
  \/ \E k \in 1..Len(open) : Commit(k) \/ Abort(k)

Spec == Init /\ [][Next]_vars
=============================================================================
