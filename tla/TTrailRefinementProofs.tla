----------------------- MODULE TTrailRefinementProofs -----------------------
(***************************************************************************)
(* TTrail implements NestedTransactions.  The pool of the refinement at the*)
(* begin of transaction k is what the first elements from k on bring back; *)
(* so the proof follows, for every item, folder and cycle, the first of    *)
(* its elements in the trail.  A change with its record, and a restore     *)
(* with the loss of its element, leave the pool of every begin alone; so   *)
(* does a commit that moves elements outward one by one.                   *)
(*                                                                         *)
(* With the owners of the open transactions apart, the loops of commit and *)
(* abort then stop where the abstract step has already cut the open        *)
(* transactions.                                                           *)
(*                                                                         *)
(* The same facts, with the cycles that the trail accounts for at each     *)
(* begin, say that the history variable of TTrailHistory and the trail     *)
(* agree, thus what the end of an abort finds.                             *)
(*                                                                         *)
(* TTrail implements UndoHistory, for calls whose changes the lists account*)
(* for.  Every entry leads back from one pool to the one before; a change  *)
(* adds an entry that leads back from the new pool, and undo and redo      *)
(* exchange an entry for one that leads the other way.                     *)
(***************************************************************************)
EXTENDS TTrailProofs, TTrailRefinement, TTrailHistory

(*----------------- the first element of a kind in a trail ----------------*)

\* The log holds an element of S.
Has(log, S) == \E i \in 1..Len(log) : log[i] \in S

\* The content that an element brings back.
Old(e) == IF e.kind = "item" THEN e.saved ELSE e.to

\* The first element of S in the log brings back v.
FirstIs(log, S, v) ==
  \E i \in 1..Len(log) : /\ log[i] \in S /\ v = Old(log[i])
                         /\ \A m \in 1..(i - 1) : log[m] \notin S

\* The trail t holds an element of S in transaction k or later.
HasFrom(t, k, S) == \E j \in k..Len(t) : Has(t[j].log, S)

\* What is `now` was v when transaction k began, by the elements of S.
Before(t, k, S, now, v) ==
  \/ v = now /\ ~HasFrom(t, k, S)
  \/ \E j \in k..Len(t) : /\ FirstIs(t[j].log, S, v)
                          /\ \A m \in k..(j - 1) : ~Has(t[m].log, S)

\* A first element is one.
LEMMA FirstIsHeld ==
  ASSUME NEW log, NEW S, NEW v, FirstIs(log, S, v)
  PROVE  Has(log, S)
BY DEF FirstIs, Has

\* There is one first element.
LEMMA FirstIsOne ==
  ASSUME NEW log \in Seq(Element), NEW S, NEW v, NEW w, FirstIs(log, S, v), FirstIs(log, S, w)
  PROVE  v = w
<1>1. PICK i \in 1..Len(log) : /\ log[i] \in S /\ v = Old(log[i])
                               /\ \A m \in 1..(i - 1) : log[m] \notin S
  BY DEF FirstIs
<1>2. PICK j \in 1..Len(log) : /\ log[j] \in S /\ w = Old(log[j])
                               /\ \A m \in 1..(j - 1) : log[m] \notin S
  BY DEF FirstIs
<1>3. i \in Nat \ {0} /\ j \in Nat \ {0}
  OBVIOUS
<1>4. ~(i < j) /\ ~(j < i)
  <2>1. i < j => i \in 1..(j - 1)
    BY <1>3
  <2>2. j < i => j \in 1..(i - 1)
    BY <1>3
  <2> QED
    BY <1>1, <1>2, <2>1, <2>2
<1>5. i = j
  BY <1>3, <1>4
<1> QED
  BY <1>1, <1>2, <1>5

\* An element is appended to a log.
LEMMA FirstAppended ==
  ASSUME NEW log \in Seq(Element), NEW e \in Element, NEW S
  PROVE  /\ Has(Append(log, e), S) <=> Has(log, S) \/ e \in S
         /\ \A v : FirstIs(Append(log, e), S, v) <=>
                     FirstIs(log, S, v) \/ (~Has(log, S) /\ e \in S /\ v = Old(e))
<1> DEFINE a == Append(log, e)
           n == Len(log)
<1>1. n \in Nat /\ Len(a) = n + 1 /\ a[n + 1] = e /\ \A i \in 1..n : a[i] = log[i]
  OBVIOUS
<1> HIDE DEF a, n
<1>2. \A i \in 1..(n + 1) : i \in 1..n \/ i = n + 1
  BY <1>1
<1>3. n + 1 \in 1..(n + 1) /\ \A i \in 1..n : i \in 1..(n + 1)
  BY <1>1
<1>4. Has(a, S) <=> Has(log, S) \/ e \in S
  BY <1>1, <1>2, <1>3 DEF Has, n
<1>5. ASSUME NEW v
      PROVE  FirstIs(a, S, v) <=> FirstIs(log, S, v) \/ (~Has(log, S) /\ e \in S /\ v = Old(e))
  <2>1. \A i \in 1..n : \A m \in 1..(i - 1) : m \in 1..n
    BY <1>1
  <2>2. ASSUME FirstIs(log, S, v)
        PROVE  FirstIs(a, S, v)
    <3>1. PICK i \in 1..n : /\ log[i] \in S /\ v = Old(log[i])
                            /\ \A m \in 1..(i - 1) : log[m] \notin S
      BY <2>2 DEF FirstIs, n
    <3>2. i \in 1..Len(a) /\ a[i] = log[i] /\ \A m \in 1..(i - 1) : a[m] = log[m]
      BY <1>1, <1>3, <2>1
    <3> QED
      BY <3>1, <3>2 DEF FirstIs
  <2>3. ASSUME ~Has(log, S), e \in S, v = Old(e)
        PROVE  FirstIs(a, S, v)
    <3>1. \A m \in 1..((n + 1) - 1) : a[m] \notin S
      <4>1. (n + 1) - 1 = n
        BY <1>1
      <4> QED
        BY <1>1, <2>3, <4>1 DEF Has, n
    <3> QED
      BY <1>1, <1>3, <2>3, <3>1 DEF FirstIs
  <2>4. ASSUME FirstIs(a, S, v)
        PROVE  FirstIs(log, S, v) \/ (~Has(log, S) /\ e \in S /\ v = Old(e))
    <3>1. PICK i \in 1..(n + 1) : /\ a[i] \in S /\ v = Old(a[i])
                                  /\ \A m \in 1..(i - 1) : a[m] \notin S
      BY <1>1, <2>4 DEF FirstIs
    <3>2. CASE i \in 1..n
      <4>1. a[i] = log[i] /\ \A m \in 1..(i - 1) : a[m] = log[m]
        BY <1>1, <2>1, <3>2
      <4> QED
        BY <3>1, <3>2, <4>1 DEF FirstIs, n
    <3>3. CASE i = n + 1
      <4>1. i - 1 = n
        BY <1>1, <3>3
      <4>2. \A m \in 1..n : log[m] \notin S
        BY <1>1, <3>1, <4>1
      <4> QED
        BY <1>1, <3>1, <3>3, <4>2 DEF Has, n
    <3> QED
      BY <1>2, <3>2, <3>3
  <2> QED
    BY <2>2, <2>3, <2>4
<1> QED
  BY <1>4, <1>5 DEF a

\* The oldest element of a log and the others.
LEMMA FirstTail ==
  ASSUME NEW log \in Seq(Element), log # <<>>, NEW S
  PROVE  /\ Has(log, S) <=> Head(log) \in S \/ Has(Tail(log), S)
         /\ \A v : FirstIs(log, S, v) <=>
                     \/ Head(log) \in S /\ v = Old(Head(log))
                     \/ Head(log) \notin S /\ FirstIs(Tail(log), S, v)
<1> DEFINE t == Tail(log)
           n == Len(log)
<1>1. /\ n \in Nat \ {0} /\ Len(t) = n - 1 /\ Head(log) = log[1]
      /\ \A i \in 1..(n - 1) : t[i] = log[i + 1]
  BY TailOfSeq, NonEmptySeq
<1> HIDE DEF t, n
<1>2. \A i \in 1..n : i = 1 \/ (i - 1 \in 1..(n - 1) /\ (i - 1) + 1 = i /\ 1 \in 1..(i - 1))
  BY <1>1
<1>3. 1 \in 1..n /\ \A i \in 1..(n - 1) : i + 1 \in 1..n
  BY <1>1
<1>4. \A i \in 1..n : i # 1 => log[i] = t[i - 1]
  BY <1>1, <1>2
<1>5. Has(log, S) <=> Head(log) \in S \/ Has(t, S)
  BY <1>1, <1>2, <1>3, <1>4 DEF Has, n
<1>6. ASSUME NEW v
      PROVE  FirstIs(log, S, v) <=> \/ Head(log) \in S /\ v = Old(Head(log))
                                    \/ Head(log) \notin S /\ FirstIs(t, S, v)
  <2>1. ASSUME Head(log) \in S, v = Old(Head(log))
        PROVE  FirstIs(log, S, v)
    <3>1. 1..(1 - 1) = {}
      OBVIOUS
    <3> QED
      BY <1>1, <1>3, <2>1, <3>1 DEF FirstIs, n
  <2>2. ASSUME Head(log) \notin S, FirstIs(t, S, v)
        PROVE  FirstIs(log, S, v)
    <3>1. PICK i \in 1..(n - 1) : /\ t[i] \in S /\ v = Old(t[i])
                                  /\ \A m \in 1..(i - 1) : t[m] \notin S
      BY <1>1, <2>2 DEF FirstIs
    <3>2. i + 1 \in 1..n /\ log[i + 1] = t[i]
      BY <1>1, <1>3
    <3>3. ASSUME NEW m \in 1..((i + 1) - 1)
          PROVE  log[m] \notin S
      <4>1. CASE m = 1
        BY <1>1, <2>2, <4>1
      <4>2. CASE m # 1
        <5>1. m - 1 \in 1..(i - 1) /\ m \in 1..n
          BY <1>1, <4>2
        <5> QED
          BY <1>4, <3>1, <4>2, <5>1
      <4> QED
        BY <4>1, <4>2
    <3> QED
      BY <3>1, <3>2, <3>3 DEF FirstIs, n
  <2>3. ASSUME FirstIs(log, S, v)
        PROVE  \/ Head(log) \in S /\ v = Old(Head(log))
               \/ Head(log) \notin S /\ FirstIs(t, S, v)
    <3>1. PICK i \in 1..n : /\ log[i] \in S /\ v = Old(log[i])
                            /\ \A m \in 1..(i - 1) : log[m] \notin S
      BY <2>3 DEF FirstIs, n
    <3>2. CASE i = 1
      BY <1>1, <3>1, <3>2
    <3>3. CASE i # 1
      <4>1. Head(log) \notin S
        BY <1>1, <1>2, <3>1, <3>3
      <4>2. i - 1 \in 1..Len(t) /\ log[i] = t[i - 1]
        BY <1>1, <1>2, <1>4, <3>3
      <4>3. ASSUME NEW m \in 1..((i - 1) - 1)
            PROVE  t[m] \notin S
        <5>1. m + 1 \in 1..(i - 1) /\ m \in 1..(n - 1)
          BY <1>1
        <5> QED
          BY <1>1, <3>1, <5>1
      <4> QED
        BY <3>1, <4>1, <4>2, <4>3 DEF FirstIs
    <3> QED
      BY <3>2, <3>3
  <2> QED
    BY <2>1, <2>2, <2>3
<1> QED
  BY <1>5, <1>6 DEF t

\* An empty log holds nothing.
LEMMA NothingHeld ==
  ASSUME NEW S
  PROVE  ~Has(<<>>, S) /\ \A v : ~FirstIs(<<>>, S, v)
<1>1. 1..Len(<<>>) = {}
  OBVIOUS
<1> QED
  BY <1>1 DEF Has, FirstIs

\* There is one content before.
LEMMA BeforeIsOne ==
  ASSUME NEW t \in Seq(Segment), NEW k \in Nat \ {0}, NEW S, NEW now, NEW v, NEW w,
         Before(t, k, S, now, v), Before(t, k, S, now, w)
  PROVE  v = w
<1>0. Len(t) \in Nat /\ \A j \in k..Len(t) : j \in Nat /\ t[j].log \in Seq(Element)
  <2>1. \A j \in k..Len(t) : j \in 1..Len(t)
    OBVIOUS
  <2> QED
    BY <2>1, SegmentFields
<1>1. CASE ~HasFrom(t, k, S)
  BY <1>1, FirstIsHeld DEF Before, HasFrom
<1>2. CASE HasFrom(t, k, S)
  <2>1. PICK i \in k..Len(t) : /\ FirstIs(t[i].log, S, v)
                               /\ \A m \in k..(i - 1) : ~Has(t[m].log, S)
    BY <1>2 DEF Before
  <2>2. PICK j \in k..Len(t) : /\ FirstIs(t[j].log, S, w)
                               /\ \A m \in k..(j - 1) : ~Has(t[m].log, S)
    BY <1>2 DEF Before
  <2>3. ~(i < j) /\ ~(j < i)
    <3>1. i < j => i \in k..(j - 1)
      BY <1>0
    <3>2. j < i => j \in k..(i - 1)
      BY <1>0
    <3> QED
      BY <2>1, <2>2, <3>1, <3>2, FirstIsHeld
  <2>4. i = j
    BY <1>0, <2>3
  <2> QED
    BY <1>0, <2>1, <2>2, <2>4, FirstIsOne
<1> QED
  BY <1>1, <1>2

\* Trails whose transactions from k on hold the same first elements.
LEMMA BeforeKept ==
  ASSUME NEW s, NEW t, NEW k, Len(s) = Len(t), NEW S,
         \A j \in k..Len(s) : /\ Has(s[j].log, S) <=> Has(t[j].log, S)
                              /\ \A v : FirstIs(s[j].log, S, v) <=> FirstIs(t[j].log, S, v),
         \A j \in k..Len(s) : \A m \in k..(j - 1) : m \in k..Len(s)
  PROVE  /\ HasFrom(s, k, S) <=> HasFrom(t, k, S)
         /\ \A now, v : Before(s, k, S, now, v) <=> Before(t, k, S, now, v)
BY DEF HasFrom, Before

\* A transaction without elements begins or ends as the innermost one.
LEMMA BeforePushed ==
  ASSUME NEW s \in Seq(Segment), NEW t \in Seq(Segment), Len(t) = Len(s) + 1,
         \A j \in 1..Len(s) : t[j] = s[j], t[Len(t)].log = <<>>,
         NEW k \in 1..(Len(s) + 1), NEW S
  PROVE  /\ HasFrom(s, k, S) <=> HasFrom(t, k, S)
         /\ \A now, v : Before(s, k, S, now, v) <=> Before(t, k, S, now, v)
<1> DEFINE n == Len(s)
<1>1. n \in Nat /\ Len(t) = n + 1 /\ k \in Nat \ {0}
  OBVIOUS
<1>2. /\ \A j \in k..(n + 1) : j \in k..n \/ j = n + 1
      /\ \A j \in k..n : j \in k..(n + 1) /\ t[j] = s[j]
      /\ \A j \in k..n : \A m \in k..(j - 1) : m \in k..n
      /\ \A m \in k..((n + 1) - 1) : m \in k..n
      /\ n + 1 \in k..(n + 1)
  BY <1>1
<1>3. ~Has(t[n + 1].log, S) /\ \A v : ~FirstIs(t[n + 1].log, S, v)
  BY <1>1, NothingHeld
<1>4. HasFrom(s, k, S) <=> HasFrom(t, k, S)
  BY <1>1, <1>2, <1>3 DEF HasFrom
<1>5. ASSUME NEW v
      PROVE  (\E j \in k..n : /\ FirstIs(s[j].log, S, v)
                              /\ \A m \in k..(j - 1) : ~Has(s[m].log, S))
             <=> (\E j \in k..(n + 1) : /\ FirstIs(t[j].log, S, v)
                                        /\ \A m \in k..(j - 1) : ~Has(t[m].log, S))
  BY <1>2, <1>3
<1> QED
  BY <1>1, <1>4, <1>5 DEF Before

\* An element is recorded in the innermost transaction.
LEMMA BeforeGrown ==
  ASSUME NEW s \in Seq(Segment), NEW t \in Seq(Segment), NEW e \in Element,
         Len(s) # 0, Len(t) = Len(s), \A j \in 1..(Len(s) - 1) : t[j] = s[j],
         t[Len(s)].log = Append(s[Len(s)].log, e),
         NEW k \in 1..Len(s), NEW S
  PROVE  /\ HasFrom(t, k, S) <=> HasFrom(s, k, S) \/ e \in S
         /\ e \notin S => \A now, v : Before(t, k, S, now, v) <=> Before(s, k, S, now, v)
         /\ e \in S => \A now, v : Before(t, k, S, now, v) <=> Before(s, k, S, Old(e), v)
<1> DEFINE n == Len(s)
<1>1. n \in Nat \ {0} /\ k \in Nat \ {0} /\ k <= n /\ s[n].log \in Seq(Element)
  BY SegmentFields
<1>2. /\ Has(t[n].log, S) <=> Has(s[n].log, S) \/ e \in S
      /\ \A v : FirstIs(t[n].log, S, v) <=>
                  FirstIs(s[n].log, S, v) \/ (~Has(s[n].log, S) /\ e \in S /\ v = Old(e))
  <2> DEFINE log == s[n].log
  <2>1. log \in Seq(Element) /\ t[n].log = Append(log, e)
    BY <1>1
  <2> HIDE DEF log
  <2>2. /\ Has(t[n].log, S) <=> Has(log, S) \/ e \in S
        /\ \A v : FirstIs(t[n].log, S, v) <=>
                    FirstIs(log, S, v) \/ (~Has(log, S) /\ e \in S /\ v = Old(e))
    BY <2>1, FirstAppended
  <2> QED
    BY <2>2 DEF log
<1>3. /\ n \in k..n
      /\ \A j \in k..n : j = n \/ j \in k..(n - 1)
      /\ \A j \in k..(n - 1) : j \in k..n /\ t[j] = s[j] /\ j # n
      /\ \A j \in k..n : \A m \in k..(j - 1) : m \in k..(n - 1)
      /\ \A j \in k..(n - 1) : j \in k..(n - 1)
  BY <1>1
<1>4. HasFrom(t, k, S) <=> HasFrom(s, k, S) \/ e \in S
  BY <1>2, <1>3 DEF HasFrom
<1>5. ASSUME e \notin S, NEW now, NEW v
      PROVE  Before(t, k, S, now, v) <=> Before(s, k, S, now, v)
  <2>1. \A j \in k..n : /\ Has(t[j].log, S) <=> Has(s[j].log, S)
                        /\ FirstIs(t[j].log, S, v) <=> FirstIs(s[j].log, S, v)
    BY <1>2, <1>3, <1>5
  <2>2. (\E j \in k..n : /\ FirstIs(s[j].log, S, v)
                         /\ \A m \in k..(j - 1) : ~Has(s[m].log, S))
        <=> (\E j \in k..n : /\ FirstIs(t[j].log, S, v)
                             /\ \A m \in k..(j - 1) : ~Has(t[m].log, S))
    BY <1>3, <2>1
  <2> QED
    BY <1>4, <1>5, <2>2 DEF Before
<1>6. ASSUME e \in S, NEW now, NEW v
      PROVE  Before(t, k, S, now, v) <=> Before(s, k, S, Old(e), v)
  <2>1. HasFrom(t, k, S)
    BY <1>4, <1>6
  <2>2. ASSUME NEW j \in k..n, FirstIs(t[j].log, S, v), \A m \in k..(j - 1) : ~Has(t[m].log, S)
        PROVE  Before(s, k, S, Old(e), v)
    <3>1. \A m \in k..(j - 1) : ~Has(s[m].log, S)
      BY <1>3, <2>2
    <3>2. CASE FirstIs(s[j].log, S, v)
      BY <2>2, <3>1, <3>2 DEF Before
    <3>3. CASE ~FirstIs(s[j].log, S, v)
      <4>1. j = n /\ ~Has(s[n].log, S) /\ v = Old(e)
        BY <1>2, <1>3, <2>2, <3>3
      <4>2. ~HasFrom(s, k, S)
        BY <1>3, <3>1, <4>1 DEF HasFrom
      <4> QED
        BY <4>1, <4>2 DEF Before
    <3> QED
      BY <3>2, <3>3
  <2>3. ASSUME v = Old(e), ~HasFrom(s, k, S)
        PROVE  Before(t, k, S, now, v)
    <3>1. \A m \in k..n : ~Has(s[m].log, S)
      BY <2>3 DEF HasFrom
    <3>2. FirstIs(t[n].log, S, v)
      BY <1>2, <1>3, <1>6, <2>3, <3>1
    <3>3. \A m \in k..(n - 1) : ~Has(t[m].log, S)
      BY <1>3, <3>1
    <3> QED
      BY <1>3, <3>2, <3>3 DEF Before
  <2>4. ASSUME NEW j \in k..n, FirstIs(s[j].log, S, v), \A m \in k..(j - 1) : ~Has(s[m].log, S)
        PROVE  Before(t, k, S, now, v)
    <3>1. FirstIs(t[j].log, S, v)
      BY <1>2, <1>3, <2>4
    <3>2. \A m \in k..(j - 1) : ~Has(t[m].log, S)
      BY <1>3, <2>4
    <3> QED
      BY <3>1, <3>2 DEF Before
  <2> QED
    BY <2>1, <2>2, <2>3, <2>4 DEF Before
<1> QED
  BY <1>4, <1>5, <1>6

\* The oldest element of the innermost transaction goes to the enclosing one, or
\* goes away because that one holds an element of its set.
LEMMA BeforeMoved ==
  ASSUME NEW s \in Seq(Segment), NEW t \in Seq(Segment), NEW n \in Nat, n > 1,
         Len(s) = n, Len(t) = n, \A j \in 1..(n - 2) : t[j] = s[j],
         s[n].log # <<>>, t[n].log = Tail(s[n].log),
         NEW S,
         \/ t[n - 1].log = Append(s[n - 1].log, Head(s[n].log))
         \/ /\ t[n - 1].log = s[n - 1].log
            /\ Head(s[n].log) \in S => Has(s[n - 1].log, S),
         NEW k \in 1..(n - 1)
  PROVE  /\ HasFrom(s, k, S) <=> HasFrom(t, k, S)
         /\ \A now, v : Before(s, k, S, now, v) <=> Before(t, k, S, now, v)
<1> DEFINE e == Head(s[n].log)
<1>1. /\ n \in 1..n /\ n - 1 \in 1..n /\ k \in Nat \ {0}
      /\ s[n].log \in Seq(Element) /\ s[n - 1].log \in Seq(Element) /\ e \in Element
  <2>1. n \in 1..n /\ n - 1 \in 1..n /\ k \in Nat \ {0}
    OBVIOUS
  <2>2. s[n].log \in Seq(Element) /\ s[n - 1].log \in Seq(Element)
    BY <2>1, SegmentFields
  <2> QED
    BY <2>1, <2>2, NonEmptySeq, TailOfSeq
<1>2. /\ Has(s[n].log, S) <=> e \in S \/ Has(t[n].log, S)
      /\ \A v : FirstIs(s[n].log, S, v) <=>
                  \/ e \in S /\ v = Old(e)
                  \/ e \notin S /\ FirstIs(t[n].log, S, v)
  BY <1>1, FirstTail
<1> HIDE DEF e
<1>3. /\ n \in k..n /\ n - 1 \in k..n
      /\ \A j \in k..n : j = n \/ j = n - 1 \/ j \in k..(n - 2)
      /\ \A j \in k..(n - 2) : j \in k..n /\ t[j] = s[j]
      /\ \A m \in k..(n - 1) : m = n - 1 \/ m \in k..(n - 2)
      /\ \A m \in k..((n - 1) - 1) : m \in k..(n - 2)
      /\ \A j \in k..(n - 2) : \A m \in k..(j - 1) : m \in k..(n - 2)
      /\ \A m \in k..(n - 2) : m \in k..(n - 1) /\ m \in k..((n - 1) - 1)
      /\ n - 1 \in k..(n - 1)
  BY <1>1
<1>4. CASE t[n - 1].log = Append(s[n - 1].log, e)
  <2>1. /\ Has(t[n - 1].log, S) <=> Has(s[n - 1].log, S) \/ e \in S
        /\ \A v : FirstIs(t[n - 1].log, S, v) <=>
                    FirstIs(s[n - 1].log, S, v) \/ (~Has(s[n - 1].log, S) /\ e \in S /\ v = Old(e))
    BY <1>1, <1>4, FirstAppended
  <2>2. HasFrom(s, k, S) <=> HasFrom(t, k, S)
    BY <1>2, <1>3, <2>1 DEF HasFrom
  <2>3. ASSUME NEW v, NEW j \in k..n, FirstIs(s[j].log, S, v),
               \A m \in k..(j - 1) : ~Has(s[m].log, S)
        PROVE  \E i \in k..n : /\ FirstIs(t[i].log, S, v)
                               /\ \A m \in k..(i - 1) : ~Has(t[m].log, S)
    <3>1. CASE j \in k..(n - 2)
      BY <1>3, <2>3, <3>1
    <3>2. CASE j = n - 1
      <4>1. FirstIs(t[n - 1].log, S, v)
        BY <2>1, <2>3, <3>2
      <4>2. \A m \in k..((n - 1) - 1) : ~Has(t[m].log, S)
        BY <1>3, <2>3, <3>2
      <4> QED
        BY <1>3, <4>1, <4>2
    <3>3. CASE j = n
      <4>1. \A m \in k..(n - 1) : ~Has(s[m].log, S)
        BY <2>3, <3>3
      <4>2. \A m \in k..(n - 2) : ~Has(t[m].log, S)
        BY <1>3, <4>1
      <4>3. CASE e \in S
        <5>1. v = Old(e) /\ ~Has(s[n - 1].log, S)
          BY <1>2, <1>3, <2>3, <3>3, <4>1, <4>3
        <5>2. FirstIs(t[n - 1].log, S, v)
          BY <2>1, <4>3, <5>1
        <5> QED
          BY <1>3, <4>2, <5>2
      <4>4. CASE e \notin S
        <5>1. FirstIs(t[n].log, S, v) /\ ~Has(t[n - 1].log, S)
          BY <1>2, <1>3, <2>1, <2>3, <3>3, <4>1, <4>4
        <5> QED
          BY <1>3, <4>2, <5>1
      <4> QED
        BY <4>3, <4>4
    <3> QED
      BY <1>3, <3>1, <3>2, <3>3
  <2>4. ASSUME NEW v, NEW j \in k..n, FirstIs(t[j].log, S, v),
               \A m \in k..(j - 1) : ~Has(t[m].log, S)
        PROVE  \E i \in k..n : /\ FirstIs(s[i].log, S, v)
                               /\ \A m \in k..(i - 1) : ~Has(s[m].log, S)
    <3>1. CASE j \in k..(n - 2)
      BY <1>3, <2>4, <3>1
    <3>2. CASE j = n - 1
      <4>1. \A m \in k..(n - 2) : ~Has(s[m].log, S)
        BY <1>3, <2>4, <3>2
      <4>2. CASE FirstIs(s[n - 1].log, S, v)
        BY <1>3, <4>1, <4>2
      <4>3. CASE ~Has(s[n - 1].log, S) /\ e \in S /\ v = Old(e)
        <5>1. FirstIs(s[n].log, S, v)
          BY <1>2, <4>3
        <5> QED
          BY <1>3, <4>1, <4>3, <5>1
      <4> QED
        BY <2>1, <2>4, <3>2, <4>2, <4>3
    <3>3. CASE j = n
      <4>1. \A m \in k..(n - 1) : ~Has(t[m].log, S)
        BY <2>4, <3>3
      <4>2. \A m \in k..(n - 1) : ~Has(s[m].log, S)
        BY <1>3, <2>1, <4>1
      <4>3. e \notin S
        BY <1>3, <2>1, <4>1
      <4>4. FirstIs(s[n].log, S, v)
        BY <1>2, <2>4, <3>3, <4>3
      <4> QED
        BY <1>3, <4>2, <4>4
    <3> QED
      BY <1>3, <3>1, <3>2, <3>3
  <2> QED
    BY <2>2, <2>3, <2>4 DEF Before
<1>5. CASE t[n - 1].log = s[n - 1].log /\ (e \in S => Has(s[n - 1].log, S))
  <2>1. HasFrom(s, k, S) <=> HasFrom(t, k, S)
    BY <1>2, <1>3, <1>5 DEF HasFrom
  <2>2. \A m \in k..(n - 1) : Has(t[m].log, S) <=> Has(s[m].log, S)
    BY <1>3, <1>5
  <2>3. \A j \in k..n : \A m \in k..(j - 1) : m \in k..(n - 1)
    BY <1>1
  <2>4. ASSUME NEW v, NEW j \in k..n, \A m \in k..(j - 1) : ~Has(s[m].log, S)
        PROVE  FirstIs(t[j].log, S, v) <=> FirstIs(s[j].log, S, v)
    <3>1. CASE j # n
      BY <1>3, <1>5, <3>1
    <3>2. CASE j = n
      BY <1>2, <1>3, <1>5, <2>4, <3>2
    <3> QED
      BY <3>1, <3>2
  <2>5. ASSUME NEW v
        PROVE  (\E j \in k..n : /\ FirstIs(s[j].log, S, v)
                                /\ \A m \in k..(j - 1) : ~Has(s[m].log, S))
               <=> (\E j \in k..n : /\ FirstIs(t[j].log, S, v)
                                    /\ \A m \in k..(j - 1) : ~Has(t[m].log, S))
    BY <2>2, <2>3, <2>4
  <2> QED
    BY <2>1, <2>5 DEF Before
<1> QED
  BY <1>4, <1>5 DEF e

(*------------------ the pool at the begin of a transaction ---------------*)

\* The elements of the trail that concern an item, a folder or a cycle.
ItemsOf(c)    == {e \in Element : e.kind = "item" /\ e.cell = c}
SwitchesOf(f) == {e \in Element : e.kind = "action" /\ e.folder = f}
NewOf(x)      == {e \in Element : e.kind = "new" /\ e.cycle = x}
DeletesOf(x)  == {e \in Element : e.kind = "delete" /\ e.cycle = x}

\* With the trail t and the cycles cs, x was a cycle when transaction k began.
Existed(t, cs, k, x) ==
  /\ x \in ToSet(cs) \/ HasFrom(t, k, DeletesOf(x))
  /\ ~HasFrom(t, k, NewOf(x))

\* First chooses the least position of a nonempty set.
LEMMA FirstOfSet ==
  ASSUME NEW n \in Nat, NEW S \in SUBSET (1..n), S # {}
  PROVE  First(S) \in S /\ \A j \in S : First(S) <= j
<1> DEFINE R == {n + 1 - i : i \in S}
<1>1. R \in SUBSET (1..n) /\ R # {}
  <2>1. \A i \in S : n + 1 - i \in 1..n
    OBVIOUS
  <2>2. PICK i \in S : TRUE
    OBVIOUS
  <2>3. n + 1 - i \in R
    BY <2>2
  <2> QED
    BY <2>1, <2>3
<1>2. PICK r \in R : \A q \in R : q <= r
  <2> HIDE DEF R
  <2> QED
    BY <1>1, MaximumExists
<1>3. PICK i \in S : r = n + 1 - i
  BY <1>2
<1>4. ASSUME NEW j \in S
      PROVE  i <= j
  <2>1. n + 1 - j \in R
    OBVIOUS
  <2>2. n + 1 - j <= n + 1 - i
    BY <1>2, <1>3, <2>1
  <2> QED
    BY <2>2
<1>5. \E m \in S : \A j \in S : m <= j
  BY <1>4
<1> QED
  BY <1>5 DEF First

\* A set of positions from k on, with the least one.
LEMMA FirstFrom ==
  ASSUME NEW n \in Nat, NEW k \in Nat \ {0}, NEW S \in SUBSET (k..n), S # {}
  PROVE  First(S) \in k..n /\ First(S) \in S /\ \A m \in k..(First(S) - 1) : m \notin S
<1>1. S \in SUBSET (1..n)
  OBVIOUS
<1>2. First(S) \in S /\ \A j \in S : First(S) <= j
  BY <1>1, FirstOfSet
<1>3. First(S) \in k..n
  BY <1>2
<1>4. \A m \in k..(First(S) - 1) : m \in k..n /\ ~(First(S) <= m)
  BY <1>3
<1> QED
  BY <1>2, <1>3, <1>4

\* DataAt takes the content that the first saved item brings back.
LEMMA DataIs ==
  ASSUME NEW t \in Seq(Segment), NEW k \in Nat \ {0}, NEW c, NEW now
  PROVE  LET at == {j \in k..Len(t) : Holds(t[j].log, c)}
         IN  Before(t, k, ItemsOf(c), now, IF at = {} THEN now ELSE SavedIn(t[First(at)].log, c))
<1> DEFINE at == {j \in k..Len(t) : Holds(t[j].log, c)}
           S == ItemsOf(c)
<1>1. ASSUME NEW j \in k..Len(t)
      PROVE  /\ t[j].log \in Seq(Element) /\ Len(t[j].log) \in Nat
             /\ \A i \in 1..Len(t[j].log) :
                  t[j].log[i] \in S <=> t[j].log[i].kind = "item" /\ t[j].log[i].cell = c
  <2>1. j \in 1..Len(t)
    OBVIOUS
  <2> QED
    BY <2>1, SegmentFields DEF ItemsOf
<1> HIDE DEF S
<1>2. \A j \in k..Len(t) : j \in at <=> Has(t[j].log, S)
  BY <1>1 DEF Holds, Has
<1>3. CASE at = {}
  BY <1>2, <1>3 DEF Before, HasFrom, S
<1>4. CASE at # {}
  <2> DEFINE j == First(at)
             log == t[j].log
             pos == {i \in 1..Len(log) : log[i].kind = "item" /\ log[i].cell = c}
             i == First(pos)
  <2>1. j \in k..Len(t) /\ j \in at /\ \A m \in k..(j - 1) : m \notin at
    <3>1. at \in SUBSET (k..Len(t)) /\ Len(t) \in Nat
      OBVIOUS
    <3> HIDE DEF at
    <3> QED
      BY <1>4, <3>1, FirstFrom
  <2>2. \A m \in k..(j - 1) : m \in k..Len(t)
    BY <2>1
  <2>3. \A m \in k..(j - 1) : ~Has(t[m].log, S)
    BY <1>2, <2>1, <2>2
  <2> HIDE DEF j, at
  <2>4. pos # {} /\ Len(log) \in Nat
    BY <1>1, <1>2, <2>1, <1>1 DEF Has
  <2>5. i \in 1..Len(log) /\ i \in pos /\ \A m \in 1..(i - 1) : m \notin pos
    <3>1. pos \in SUBSET (1..Len(log)) /\ 1 \in Nat \ {0}
      OBVIOUS
    <3>2. pos # {} /\ Len(log) \in Nat
      BY <2>4
    <3> HIDE DEF pos, log
    <3>3. /\ First(pos) \in 1..Len(log) /\ First(pos) \in pos
          /\ \A m \in 1..(First(pos) - 1) : m \notin pos
      BY ONLY <3>1, <3>2, FirstFrom
    <3> QED
      BY <3>3
  <2>6. \A m \in 1..(i - 1) : m \in 1..Len(log)
    BY <2>4, <2>5
  <2>7. /\ log[i] \in S /\ log[i].saved = Old(log[i])
        /\ \A m \in 1..(i - 1) : log[m] \notin S
    BY <1>1, <2>1, <2>5, <2>6 DEF Old
  <2>8. SavedIn(log, c) = log[i].saved
    BY DEF SavedIn
  <2>9. FirstIs(log, S, SavedIn(log, c))
    <3> HIDE DEF log, i
    <3> QED
      BY <2>5, <2>7, <2>8 DEF FirstIs
  <2>10. Before(t, k, S, now, SavedIn(t[First(at)].log, c))
    BY <2>1, <2>3, <2>9 DEF Before, j
  <2> QED
    BY <1>4, <2>10 DEF at, S
<1> QED
  BY <1>3, <1>4

\* PageAt takes the page that the first switch of the folder came from.
LEMMA PageIs ==
  ASSUME NEW t \in Seq(Segment), NEW k \in Nat \ {0}, NEW f, NEW now
  PROVE  LET at == {j \in k..Len(t) : Switches(t[j].log, f) # {}}
             log == t[First(at)].log
         IN  Before(t, k, SwitchesOf(f), now,
                    IF at = {} THEN now ELSE log[First(Switches(log, f))].to)
<1> DEFINE at == {j \in k..Len(t) : Switches(t[j].log, f) # {}}
           S == SwitchesOf(f)
<1>1. ASSUME NEW j \in k..Len(t)
      PROVE  /\ t[j].log \in Seq(Element) /\ Len(t[j].log) \in Nat
             /\ \A i \in 1..Len(t[j].log) :
                  t[j].log[i] \in S <=> t[j].log[i].kind = "action" /\ t[j].log[i].folder = f
  <2>1. j \in 1..Len(t)
    OBVIOUS
  <2> QED
    BY <2>1, SegmentFields DEF SwitchesOf
<1> HIDE DEF S
<1>2. \A j \in k..Len(t) : j \in at <=> Has(t[j].log, S)
  BY <1>1 DEF Switches, Has
<1>3. CASE at = {}
  BY <1>2, <1>3 DEF Before, HasFrom, S
<1>4. CASE at # {}
  <2> DEFINE j == First(at)
             log == t[j].log
             pos == Switches(log, f)
             i == First(pos)
  <2>1. j \in k..Len(t) /\ j \in at /\ \A m \in k..(j - 1) : m \notin at
    <3>1. at \in SUBSET (k..Len(t)) /\ Len(t) \in Nat
      OBVIOUS
    <3> HIDE DEF at
    <3> QED
      BY <1>4, <3>1, FirstFrom
  <2>2. \A m \in k..(j - 1) : m \in k..Len(t)
    BY <2>1
  <2>3. \A m \in k..(j - 1) : ~Has(t[m].log, S)
    BY <1>2, <2>1, <2>2
  <2>4. pos # {} /\ Len(log) \in Nat
    BY <1>1, <2>1
  <2> HIDE DEF j, at
  <2>5. i \in 1..Len(log) /\ i \in pos /\ \A m \in 1..(i - 1) : m \notin pos
    <3>1. pos \in SUBSET (1..Len(log)) /\ 1 \in Nat \ {0}
      BY DEF Switches
    <3>2. pos # {} /\ Len(log) \in Nat
      BY <2>4
    <3> HIDE DEF pos, log
    <3>3. /\ First(pos) \in 1..Len(log) /\ First(pos) \in pos
          /\ \A m \in 1..(First(pos) - 1) : m \notin pos
      BY ONLY <3>1, <3>2, FirstFrom
    <3> QED
      BY <3>3
  <2>6. \A m \in 1..(i - 1) : m \in 1..Len(log)
    BY <2>4, <2>5
  <2>7. /\ log[i] \in S /\ log[i].to = Old(log[i])
        /\ \A m \in 1..(i - 1) : log[m] \notin S
    <3>1. log[i].kind = "action" /\ log[i].folder = f
      BY <2>5 DEF Switches
    <3>2. \A m \in 1..(i - 1) : ~(log[m].kind = "action" /\ log[m].folder = f)
      BY <2>5, <2>6 DEF Switches
    <3> QED
      BY <1>1, <2>1, <2>5, <2>6, <3>1, <3>2 DEF Old
  <2>8. FirstIs(log, S, log[First(pos)].to)
    <3>1. i = First(pos)
      OBVIOUS
    <3> HIDE DEF log, i, pos
    <3> QED
      BY <2>5, <2>7, <3>1 DEF FirstIs
  <2>9. Before(t, k, S, now, log[First(pos)].to)
    BY <2>1, <2>3, <2>8 DEF Before
  <2> QED
    BY <1>4, <2>9 DEF at, S, j
<1> QED
  BY <1>3, <1>4

\* CyclesAt in terms of the elements of each cycle.
LEMMA CyclesAre ==
  ASSUME NEW t \in Seq(Segment), NEW k \in Nat \ {0}, NEW cs, NEW x
  PROVE  x \in (ToSet(cs) \cup UNION {Held(t[j].log) : j \in k..Len(t)})
                 \ UNION {CreatedIn(t[j].log) : j \in k..Len(t)}
         <=> Existed(t, cs, k, x)
<1>1. ASSUME NEW j \in k..Len(t)
      PROVE  /\ x \in Held(t[j].log) <=> Has(t[j].log, DeletesOf(x))
             /\ x \in CreatedIn(t[j].log) <=> Has(t[j].log, NewOf(x))
  <2> DEFINE log == t[j].log
  <2>1. j \in 1..Len(t)
    OBVIOUS
  <2>2. \A i \in 1..Len(log) : log[i] \in Element
    BY <2>1, SegmentFields
  <2> HIDE DEF log
  <2>3. x \in Held(log) <=> Has(log, DeletesOf(x))
    BY <2>2 DEF Held, Has, DeletesOf
  <2>4. x \in CreatedIn(log) <=> Has(log, NewOf(x))
    BY <2>2 DEF CreatedIn, Has, NewOf
  <2> QED
    BY <2>3, <2>4 DEF log
<1>2. x \in UNION {Held(t[j].log) : j \in k..Len(t)} <=> HasFrom(t, k, DeletesOf(x))
  BY <1>1 DEF HasFrom
<1>3. x \in UNION {CreatedIn(t[j].log) : j \in k..Len(t)} <=> HasFrom(t, k, NewOf(x))
  BY <1>1 DEF HasFrom
<1> QED
  BY <1>2, <1>3 DEF Existed

\* The pool at a begin is the same in two states whose trails tell the same of
\* what existed then.
LEMMA SamePool ==
  ASSUME trail \in Seq(Segment), trail' \in Seq(Segment), NEW k \in Nat \ {0},
         \A x \in Cycle : Existed(trail, cycles, k, x) <=> Existed(trail', cycles', k, x),
         \A c \in TrackedCell :
           c[1] = NoCycle \/ Existed(trail, cycles, k, c[1]) =>
             \A v : Before(trail, k, ItemsOf(c), live[c], v)
                    <=> Before(trail', k, ItemsOf(c), live'[c], v),
         \A f \in Folder : \A v : Before(trail, k, SwitchesOf(f), page[f], v)
                                  <=> Before(trail', k, SwitchesOf(f), page'[f], v)
  PROVE  PoolAt(k)' = PoolAt(k)
<1>1. ASSUME NEW c \in TrackedCell
      PROVE  DataAt(k)'[c] = DataAt(k)[c]
  <2>1. c[1] = NoCycle \/ c[1] \in Cycle
    BY DEF TrackedCell, Cell
  <2>2. /\ c[1] \in CyclesAt(k) <=> Existed(trail, cycles, k, c[1])
        /\ c[1] \in CyclesAt(k)' <=> Existed(trail', cycles', k, c[1])
    BY CyclesAre DEF CyclesAt, Since
  <2>3. CASE c[1] \notin CyclesAt(k) \cup {NoCycle}
    <3>1. c[1] \notin CyclesAt(k)' \cup {NoCycle}
      BY <2>1, <2>2, <2>3
    <3> QED
      BY <2>3, <3>1 DEF DataAt
  <2>4. CASE c[1] \in CyclesAt(k) \cup {NoCycle}
    <3>1. c[1] \in CyclesAt(k)' \cup {NoCycle}
      BY <2>1, <2>2, <2>4
    <3>2. Before(trail, k, ItemsOf(c), live[c], DataAt(k)[c])
      <4> DEFINE at == {j \in k..Len(trail) : Holds(trail[j].log, c)}
      <4>1. DataAt(k)[c] = IF at = {} THEN live[c] ELSE SavedIn(trail[First(at)].log, c)
        BY <2>4 DEF DataAt, Since
      <4> QED
        BY <4>1, DataIs
    <3>3. Before(trail', k, ItemsOf(c), live'[c], DataAt(k)'[c])
      <4> DEFINE at == {j \in k..Len(trail') : Holds(trail'[j].log, c)}
      <4>1. DataAt(k)'[c] = IF at = {} THEN live'[c] ELSE SavedIn(trail'[First(at)].log, c)
        BY <3>1 DEF DataAt, Since
      <4> QED
        BY <4>1, DataIs
    <3>4. Before(trail', k, ItemsOf(c), live'[c], DataAt(k)[c])
      BY <2>2, <2>4, <3>2
    <3> QED
      BY <3>3, <3>4, BeforeIsOne
  <2> QED
    BY <2>3, <2>4
<1>2. ASSUME NEW f \in Folder
      PROVE  PageAt(k)'[f] = PageAt(k)[f]
  <2>1. Before(trail, k, SwitchesOf(f), page[f], PageAt(k)[f])
    <3> DEFINE at == {j \in k..Len(trail) : Switches(trail[j].log, f) # {}}
               log == trail[First(at)].log
    <3>1. PageAt(k)[f] = IF at = {} THEN page[f] ELSE log[First(Switches(log, f))].to
      BY DEF PageAt, Since
    <3> QED
      BY <3>1, PageIs
  <2>2. Before(trail', k, SwitchesOf(f), page'[f], PageAt(k)'[f])
    <3> DEFINE at == {j \in k..Len(trail') : Switches(trail'[j].log, f) # {}}
               log == trail'[First(at)].log
    <3>1. PageAt(k)'[f] = IF at = {} THEN page'[f] ELSE log[First(Switches(log, f))].to
      BY DEF PageAt, Since
    <3> QED
      BY <3>1, PageIs
  <2>3. Before(trail', k, SwitchesOf(f), page'[f], PageAt(k)[f])
    BY <2>1
  <2> QED
    BY <2>2, <2>3, BeforeIsOne
<1>3. DataAt(k)' = DataAt(k)
  BY <1>1 DEF DataAt
<1>4. PageAt(k)' = PageAt(k)
  BY <1>2 DEF PageAt
<1> QED
  BY <1>3, <1>4 DEF PoolAt

(*------------------ what leaves the pools of begins alone -----------------*)

\* Both sides of a step give the same pool for the begin of transaction k: s, ls,
\* ps, cs are the trail, contents, pages and cycles of one state, t, lt, pt, ct
\* those of the other.
SameAt(k, s, ls, ps, cs, t, lt, pt, ct) ==
  /\ \A x \in Cycle : Existed(s, cs, k, x) <=> Existed(t, ct, k, x)
  /\ \A c \in TrackedCell :
       c[1] = NoCycle \/ Existed(s, cs, k, c[1]) =>
         \A v : Before(s, k, ItemsOf(c), ls[c], v) <=> Before(t, k, ItemsOf(c), lt[c], v)
  /\ \A f \in Folder : \A v : Before(s, k, SwitchesOf(f), ps[f], v)
                              <=> Before(t, k, SwitchesOf(f), pt[f], v)

\* The element e tells how one pool became the other.
Tells(e, ls, ps, cs, lt, pt, ct) ==
  /\ \A c \in TrackedCell :
       /\ e \in ItemsOf(c) => ls[c] = e.saved
       /\ e \notin ItemsOf(c) /\ ~(e.kind = "new" /\ c[1] = e.cycle) => lt[c] = ls[c]
  /\ \A f \in Folder :
       /\ e \in SwitchesOf(f) => ps[f] = e.to
       /\ e \notin SwitchesOf(f) => pt[f] = ps[f]
  /\ \A x \in Cycle :
       /\ e \in NewOf(x) => x \notin ToSet(cs)
       /\ e \in DeletesOf(x) => x \in ToSet(cs)
       /\ e \notin NewOf(x) \cup DeletesOf(x) => (x \in ToSet(ct) <=> x \in ToSet(cs))

\* A change whose element is recorded leaves the pool of every begin alone, and so
\* does the return through that element.
LEMMA SameGrown ==
  ASSUME NEW s \in Seq(Segment), NEW t \in Seq(Segment), NEW e \in Element,
         Len(s) # 0, Len(t) = Len(s), \A j \in 1..(Len(s) - 1) : t[j] = s[j],
         t[Len(s)].log = Append(s[Len(s)].log, e), NEW k \in 1..Len(s),
         NEW ls, NEW ps, NEW cs, NEW lt, NEW pt, NEW ct, Tells(e, ls, ps, cs, lt, pt, ct),
         \A x \in Cycle : e \in NewOf(x) => ~HasFrom(s, k, DeletesOf(x))
  PROVE  SameAt(k, s, ls, ps, cs, t, lt, pt, ct)
<1>1. \A S : HasFrom(t, k, S) <=> HasFrom(s, k, S) \/ e \in S
  BY BeforeGrown
<1>2. \A S : e \notin S => \A now, v : Before(t, k, S, now, v) <=> Before(s, k, S, now, v)
  BY BeforeGrown
<1>3. \A S : e \in S => \A now, v : Before(t, k, S, now, v) <=> Before(s, k, S, Old(e), v)
  BY BeforeGrown
<1>4. ASSUME NEW x \in Cycle
      PROVE  Existed(s, cs, k, x) <=> Existed(t, ct, k, x)
  <2>1. HasFrom(t, k, NewOf(x)) <=> HasFrom(s, k, NewOf(x)) \/ e \in NewOf(x)
    BY <1>1
  <2>2. HasFrom(t, k, DeletesOf(x)) <=> HasFrom(s, k, DeletesOf(x)) \/ e \in DeletesOf(x)
    BY <1>1
  <2>3. CASE e \in NewOf(x)
    BY <2>1, <2>3 DEF Existed, Tells
  <2>4. CASE e \in DeletesOf(x)
    <3>1. e \notin NewOf(x)
      BY <2>4 DEF NewOf, DeletesOf
    <3>2. x \in ToSet(cs)
      BY <2>4 DEF Tells
    <3> QED
      BY <2>1, <2>2, <2>4, <3>1, <3>2 DEF Existed
  <2>5. CASE e \notin NewOf(x) \cup DeletesOf(x)
    <3>1. x \in ToSet(ct) <=> x \in ToSet(cs)
      BY <2>5 DEF Tells
    <3> QED
      BY <2>1, <2>2, <2>5, <3>1 DEF Existed
  <2> QED
    BY <2>3, <2>4, <2>5
<1>5. ASSUME NEW c \in TrackedCell, c[1] = NoCycle \/ Existed(s, cs, k, c[1]), NEW v
      PROVE  Before(s, k, ItemsOf(c), ls[c], v) <=> Before(t, k, ItemsOf(c), lt[c], v)
  <2>1. CASE e \in ItemsOf(c)
    <3>1. Old(e) = ls[c]
      BY <2>1 DEF Tells, Old, ItemsOf
    <3> QED
      BY <1>3, <2>1, <3>1
  <2>2. CASE e \notin ItemsOf(c)
    <3>1. ~(e.kind = "new" /\ c[1] = e.cycle)
      <4>1. SUFFICES ASSUME e.kind = "new", c[1] = e.cycle
                     PROVE  FALSE
        OBVIOUS
      <4>2. c[1] \in Cycle /\ c[1] # NoCycle
        BY <4>1, ElementFields, DataAssumption
      <4>3. e \in NewOf(c[1])
        BY <4>1 DEF NewOf
      <4>4. c[1] \notin ToSet(cs) /\ ~HasFrom(s, k, DeletesOf(c[1]))
        BY <4>2, <4>3 DEF Tells
      <4> QED
        BY <1>5, <4>2, <4>4 DEF Existed
    <3>2. lt[c] = ls[c]
      BY <2>2, <3>1 DEF Tells
    <3> QED
      BY <1>2, <2>2, <3>2
  <2> QED
    BY <2>1, <2>2
<1>6. ASSUME NEW f \in Folder, NEW v
      PROVE  Before(s, k, SwitchesOf(f), ps[f], v) <=> Before(t, k, SwitchesOf(f), pt[f], v)
  <2>1. CASE e \in SwitchesOf(f)
    <3>1. Old(e) = ps[f]
      BY <2>1 DEF Tells, Old, SwitchesOf
    <3> QED
      BY <1>3, <2>1, <3>1
  <2>2. CASE e \notin SwitchesOf(f)
    <3>1. pt[f] = ps[f]
      BY <2>2 DEF Tells
    <3> QED
      BY <1>2, <2>2, <3>1
  <2> QED
    BY <2>1, <2>2
<1> QED
  BY <1>4, <1>5, <1>6 DEF SameAt

\* Trails that hold the same first elements of every item, folder and cycle give
\* the same pool.
LEMMA SameTrails ==
  ASSUME NEW k, NEW s, NEW t, NEW l, NEW p, NEW cs,
         \A x : HasFrom(s, k, NewOf(x)) <=> HasFrom(t, k, NewOf(x)),
         \A x : HasFrom(s, k, DeletesOf(x)) <=> HasFrom(t, k, DeletesOf(x)),
         \A c, now, v : Before(s, k, ItemsOf(c), now, v) <=> Before(t, k, ItemsOf(c), now, v),
         \A f, now, v : Before(s, k, SwitchesOf(f), now, v) <=> Before(t, k, SwitchesOf(f), now, v)
  PROVE  SameAt(k, s, l, p, cs, t, l, p, cs)
<1>1. \A x : Existed(s, cs, k, x) <=> Existed(t, cs, k, x)
  BY DEF Existed
<1> QED
  BY <1>1 DEF SameAt

\* A step from one state to the other, or back.
LEMMA SameNow ==
  ASSUME trail \in Seq(Segment), trail' \in Seq(Segment), NEW k \in Nat \ {0},
         \/ SameAt(k, trail, live, page, cycles, trail', live', page', cycles')
         \/ SameAt(k, trail', live', page', cycles', trail, live, page, cycles)
  PROVE  PoolAt(k)' = PoolAt(k)
<1>1. \A c \in TrackedCell : c[1] = NoCycle \/ c[1] \in Cycle
  BY DEF TrackedCell, Cell
<1>2. \A x \in Cycle : Existed(trail, cycles, k, x) <=> Existed(trail', cycles', k, x)
  BY DEF SameAt
<1>3. ASSUME NEW c \in TrackedCell, c[1] = NoCycle \/ Existed(trail, cycles, k, c[1]), NEW v
      PROVE  Before(trail, k, ItemsOf(c), live[c], v)
             <=> Before(trail', k, ItemsOf(c), live'[c], v)
  <2>1. c[1] = NoCycle \/ Existed(trail', cycles', k, c[1])
    BY <1>1, <1>2, <1>3
  <2> QED
    BY <1>3, <2>1 DEF SameAt
<1>4. \A f \in Folder : \A v : Before(trail, k, SwitchesOf(f), page[f], v)
                                <=> Before(trail', k, SwitchesOf(f), page'[f], v)
  BY DEF SameAt
<1> QED
  BY <1>2, <1>3, <1>4, SamePool

\* A step that leaves the open transactions and the pools of their begins alone.
BeginsKept ==
  /\ Len(trail') = Len(trail)
  /\ \A k \in 1..Len(trail) : trail'[k].owner = trail[k].owner /\ PoolAt(k)' = PoolAt(k)

\* What is held from transaction k on is held by the trail.
LEMMA HeldFromOn ==
  ASSUME NEW t, NEW k \in Nat \ {0}, NEW x, HasFrom(t, k, DeletesOf(x))
  PROVE  Holding(t, x)
<1>1. PICK j \in k..Len(t) : Has(t[j].log, DeletesOf(x))
  BY DEF HasFrom
<1>2. PICK i \in 1..Len(t[j].log) : t[j].log[i] \in DeletesOf(x)
  BY <1>1 DEF Has
<1>3. j \in 1..Len(t)
  BY <1>1
<1>4. OnTrail(t, t[j].log[i])
  BY <1>2, <1>3 DEF OnTrail
<1> QED
  BY <1>2, <1>4 DEF Holding, DeletesOf

\* A change that is recorded keeps the begins.
LEMMA BeginsRecord ==
  ASSUME TypeOK, trail # <<>>, NEW e \in Element, trail' = Record(e),
         Tells(e, live, page, cycles, live', page', cycles'),
         \A x \in Cycle : e \in NewOf(x) => ~Holding(trail, x)
  PROVE  BeginsKept
<1>1. /\ trail \in Seq(Segment) /\ Top = trail[Len(trail)] /\ Top \in Segment
      /\ Top.log \in Seq(Element) /\ Len(trail) \in Nat \ {0}
  BY TopInTrail DEF TypeOK, Top
<1>2. Append(Top.log, e) \in Seq(Element)
  BY <1>1
<1>3. /\ trail' \in Seq(Segment)
      /\ Len(trail') = Len(trail)
      /\ \A k \in 1..(Len(trail) - 1) : trail'[k] = trail[k]
      /\ trail'[Len(trail)] = [Top EXCEPT !.log = Append(Top.log, e)]
  BY <1>2, WithTopLogTyped DEF Record
<1>4. trail'[Len(trail)].log = Append(trail[Len(trail)].log, e)
  BY <1>1, <1>3 DEF Segment
<1>5. trail'[Len(trail)].owner = trail[Len(trail)].owner
  BY <1>1, <1>3 DEF Segment
<1>6. ASSUME NEW k \in 1..Len(trail)
      PROVE  trail'[k].owner = trail[k].owner
  <2>1. k = Len(trail) \/ k \in 1..(Len(trail) - 1)
    BY <1>1
  <2> QED
    BY <1>3, <1>5, <2>1
<1>7. ASSUME NEW k \in 1..Len(trail)
      PROVE  PoolAt(k)' = PoolAt(k)
  <2>1. k \in Nat \ {0}
    OBVIOUS
  <2>2. \A x \in Cycle : e \in NewOf(x) => ~HasFrom(trail, k, DeletesOf(x))
    BY <2>1, HeldFromOn
  <2>3. SameAt(k, trail, live, page, cycles, trail', live', page', cycles')
    BY <1>1, <1>3, <1>4, <2>2, SameGrown
  <2> QED
    BY <1>1, <1>3, <2>1, <2>3, SameNow
<1> QED
  BY <1>3, <1>6, <1>7 DEF BeginsKept

\* Nothing is told of contents that are not tracked or that the trail has already.
LEMMA BeginsWritten ==
  ASSUME TypeOK, NEW c \in Cell, NEW v, live' = [live EXCEPT ![c] = v],
         UNCHANGED <<page, cycles, trail>>,
         c[2] \in Omit \/ (trail # <<>> => Holds(Top.log, c))
  PROVE  BeginsKept
<1>1. trail \in Seq(Segment) /\ Len(trail) \in Nat /\ trail' = trail
      /\ live \in [Cell -> Value]
  BY DEF TypeOK
<1>2. ASSUME NEW k \in 1..Len(trail)
      PROVE  SameAt(k, trail, live, page, cycles, trail', live', page', cycles')
  <2>1. \A d \in TrackedCell : d # c => live'[d] = live[d]
    BY <1>1 DEF TrackedCell
  <2>2. ASSUME c \in TrackedCell, NEW now, NEW w
        PROVE  Before(trail, k, ItemsOf(c), live[c], w) <=> Before(trail, k, ItemsOf(c), now, w)
    <3>1. Holds(Top.log, c) /\ trail # <<>>
      BY <2>2, Len(<<>>) = 0 DEF TrackedCell
    <3>2. /\ Top.log \in Seq(Element) /\ Top = trail[Len(trail)]
          /\ \A i \in 1..Len(Top.log) : Top.log[i] \in Element
      BY <3>1, TopInTrail DEF Top
    <3>3. Has(trail[Len(trail)].log, ItemsOf(c))
      BY <3>1, <3>2 DEF Holds, Has, ItemsOf
    <3>4. HasFrom(trail, k, ItemsOf(c))
      BY <1>1, <3>3 DEF HasFrom
    <3> QED
      BY <3>4 DEF Before
  <2> QED
    BY <1>1, <2>1, <2>2 DEF SameAt
<1>3. ASSUME NEW k \in 1..Len(trail)
      PROVE  PoolAt(k)' = PoolAt(k)
  <2>1. k \in Nat \ {0}
    OBVIOUS
  <2> QED
    BY <1>1, <1>2, <2>1, SameNow
<1> QED
  BY <1>1, <1>3 DEF BeginsKept

\* saveDataItem and the change of the item.
LEMMA BeginsSaveItem ==
  ASSUME TypeOK, NEW c \in Cell, NEW v, SaveItem(c),
         live' = [live EXCEPT ![c] = v], UNCHANGED <<page, cycles>>
  PROVE  BeginsKept
<1>1. CASE trail' = trail /\ (c[2] \in Omit \/ (trail # <<>> => Holds(Top.log, c)))
  BY <1>1, BeginsWritten
<1>2. CASE trail' = Record(Item(c)) /\ trail # <<>>
  <2>1. /\ Item(c) \in Element /\ Item(c).kind = "item" /\ Item(c).cell = c
        /\ Item(c).saved = live[c]
    BY DEF TypeOK, Item, ItemEl, Undoable, Element
  <2>2. /\ \A d : Item(c) \in ItemsOf(d) <=> d = c
        /\ \A f : Item(c) \notin SwitchesOf(f)
        /\ \A x : Item(c) \notin NewOf(x) /\ Item(c) \notin DeletesOf(x)
    BY <2>1 DEF ItemsOf, SwitchesOf, NewOf, DeletesOf
  <2>3. \A d \in TrackedCell : d # c => live'[d] = live[d]
    BY DEF TypeOK, TrackedCell
  <2>4. Tells(Item(c), live, page, cycles, live', page', cycles')
    BY <2>1, <2>2, <2>3 DEF Tells
  <2> QED
    BY <1>2, <2>1, <2>2, <2>4, BeginsRecord
<1>3. \/ trail' = trail /\ (c[2] \in Omit \/ (trail # <<>> => Holds(Top.log, c)))
      \/ trail' = Record(Item(c)) /\ trail # <<>>
  BY DEF SaveItem, InTransaction
<1> QED
  BY <1>1, <1>2, <1>3

\* Without an open transaction there is no begin.
LEMMA BeginsNone ==
  ASSUME trail = <<>>, trail' = <<>>
  PROVE  BeginsKept
BY Len(<<>>) = 0 DEF BeginsKept

\* A step that changes nothing in the pool and the trail.
LEMMA BeginsIdle ==
  ASSUME UNCHANGED <<live, page, cycles, trail>>
  PROVE  BeginsKept
<1>1. ASSUME NEW k \in 1..Len(trail)
      PROVE  PoolAt(k)' = PoolAt(k)
  BY DEF PoolAt, DataAt, PageAt, CyclesAt, Since
<1> QED
  BY <1>1 DEF BeginsKept

\* Two steps one after the other.
LEMMA SameTwice ==
  ASSUME NEW k, NEW s, NEW ls, NEW ps, NEW cs, NEW u, NEW lu, NEW pu, NEW cu,
         NEW t, NEW lt, NEW pt, NEW ct,
         SameAt(k, s, ls, ps, cs, u, lu, pu, cu), SameAt(k, u, lu, pu, cu, t, lt, pt, ct)
  PROVE  SameAt(k, s, ls, ps, cs, t, lt, pt, ct)
<1>1. \A x \in Cycle : Existed(s, cs, k, x) <=> Existed(t, ct, k, x)
  BY DEF SameAt
<1>2. ASSUME NEW c \in TrackedCell, c[1] = NoCycle \/ Existed(s, cs, k, c[1]), NEW v
      PROVE  Before(s, k, ItemsOf(c), ls[c], v) <=> Before(t, k, ItemsOf(c), lt[c], v)
  <2>1. c[1] = NoCycle \/ c[1] \in Cycle
    BY DEF TrackedCell, Cell
  <2>2. c[1] = NoCycle \/ Existed(u, cu, k, c[1])
    BY <1>2, <2>1 DEF SameAt
  <2>3. Before(s, k, ItemsOf(c), ls[c], v) <=> Before(u, k, ItemsOf(c), lu[c], v)
    BY <1>2 DEF SameAt
  <2>4. Before(u, k, ItemsOf(c), lu[c], v) <=> Before(t, k, ItemsOf(c), lt[c], v)
    BY <2>2 DEF SameAt
  <2> QED
    BY <2>3, <2>4
<1>3. ASSUME NEW f \in Folder, NEW v
      PROVE  Before(s, k, SwitchesOf(f), ps[f], v) <=> Before(t, k, SwitchesOf(f), pt[f], v)
  BY DEF SameAt
<1> QED
  BY <1>1, <1>2, <1>3 DEF SameAt

\* A folder switch keeps the begins.
LEMMA BeginsSwitchPage ==
  ASSUME TypeOK, NEW f \in Folder, NEW p \in Page, SwitchPage(f, p)
  PROVE  BeginsKept
<1> DEFINE e == [kind |-> "action", folder |-> f, to |-> page[f], from |-> p]
<1>1. /\ e \in Element /\ e.kind = "action" /\ e.folder = f /\ e.to = page[f]
  BY DEF TypeOK, ActionEl, Undoable, Element
<1>2. /\ page' = [page EXCEPT ![f] = p] /\ UNCHANGED <<live, cycles>>
      /\ \/ trail # <<>> /\ trail' = Record(e)
         \/ trail = <<>> /\ trail' = <<>>
  <2>1. CASE InTransaction
    BY <2>1 DEF SwitchPage, InTransaction
  <2>2. CASE ~InTransaction
    BY <2>2 DEF SwitchPage, InTransaction
  <2> QED
    BY <2>1, <2>2
<1> HIDE DEF e
<1>3. /\ \A c : e \notin ItemsOf(c)
      /\ \A g : e \in SwitchesOf(g) <=> g = f
      /\ \A x : e \notin NewOf(x) /\ e \notin DeletesOf(x)
  BY <1>1 DEF ItemsOf, SwitchesOf, NewOf, DeletesOf
<1>4. \A g \in Folder : g # f => page'[g] = page[g]
  BY <1>2 DEF TypeOK
<1>5. Tells(e, live, page, cycles, live', page', cycles')
  BY <1>1, <1>2, <1>3, <1>4 DEF Tells
<1> QED
  BY <1>1, <1>2, <1>3, <1>5, BeginsNone, BeginsRecord

\* A new cycle keeps the begins.
LEMMA BeginsNewCycle ==
  ASSUME TypeOK, TrailKnown, NEW c \in Cycle, NewCycle(c)
  PROVE  BeginsKept
<1> DEFINE e == [kind |-> "new", old |-> actual, new |-> Len(cycles) + 1, cycle |-> c]
<1>0. cycles \in Seq(Cycle) /\ actual \in Nat /\ Len(cycles) \in Nat
  BY DEF TypeOK
<1>1. e \in Element /\ e.kind = "new" /\ e.cycle = c
  BY <1>0 DEF NewEl, Element
<1>2. /\ c \notin KnownCycles /\ cycles' = Append(cycles, c) /\ page' = page
      /\ live' = [d \in Cell |-> IF d[1] = c THEN live[<<cycles[actual], d[2]>>] ELSE live[d]]
      /\ \/ trail # <<>> /\ trail' = Record(e)
         \/ trail = <<>> /\ trail' = <<>>
  <2>1. CASE InTransaction
    BY <2>1 DEF NewCycle, RecordIf, InTransaction
  <2>2. CASE ~InTransaction
    BY <2>2 DEF NewCycle, RecordIf, InTransaction
  <2> QED
    BY <2>1, <2>2
<1> HIDE DEF e
<1>3. c \notin ToSet(cycles) /\ ~Holding(trail, c)
  BY <1>2, HeldIsHolding DEF KnownCycles
<1>4. \A d : d \in ToSet(cycles') <=> d \in ToSet(cycles) \/ d = c
  BY <1>0, <1>2, <1>3, DistinctAppend DEF TrailKnown
<1>5. /\ \A d : e \notin ItemsOf(d)
      /\ \A f : e \notin SwitchesOf(f)
      /\ \A x : e \in NewOf(x) <=> x = c
      /\ \A x : e \notin DeletesOf(x)
  BY <1>1 DEF ItemsOf, SwitchesOf, NewOf, DeletesOf
<1>6. \A d \in TrackedCell : d[1] # c => live'[d] = live[d]
  BY <1>2 DEF TrackedCell
<1>7. Tells(e, live, page, cycles, live', page', cycles')
  BY <1>1, <1>2, <1>3, <1>4, <1>5, <1>6 DEF Tells
<1> QED
  BY <1>1, <1>2, <1>3, <1>5, <1>7, BeginsNone, BeginsRecord

\* A change of the actual cycle keeps the begins.
LEMMA BeginsSetCycle ==
  ASSUME TypeOK, NEW i, SetCycle(i)
  PROVE  BeginsKept
<1> DEFINE e == [kind |-> "switch", num |-> actual]
<1>1. e \in Element /\ e.kind = "switch"
  BY DEF TypeOK, SwitchEl, Element
<1>2. /\ UNCHANGED <<live, page, cycles>>
      /\ \/ trail # <<>> /\ trail' = Record(e)
         \/ trail = <<>> /\ trail' = <<>>
  <2>1. CASE InTransaction
    BY <2>1 DEF SetCycle, RecordIf, InTransaction
  <2>2. CASE ~InTransaction
    BY <2>2 DEF SetCycle, RecordIf, InTransaction
  <2> QED
    BY <2>1, <2>2
<1> HIDE DEF e
<1>3. /\ \A d : e \notin ItemsOf(d)
      /\ \A f : e \notin SwitchesOf(f)
      /\ \A x : e \notin NewOf(x) /\ e \notin DeletesOf(x)
  BY <1>1 DEF ItemsOf, SwitchesOf, NewOf, DeletesOf
<1>4. Tells(e, live, page, cycles, live', page', cycles')
  BY <1>1, <1>2, <1>3 DEF Tells
<1> QED
  BY <1>1, <1>2, <1>3, <1>4, BeginsNone, BeginsRecord

\* The removal of a cycle keeps the begins: it records two elements.
LEMMA BeginsRemoveCycle ==
  ASSUME TypeOK, IsInjective(cycles), NEW i \in 1..Len(cycles), RemoveCycle(i)
  PROVE  BeginsKept
<1> DEFINE switch == [kind |-> "switch", num |-> actual]
           delete == [kind |-> "delete", cycle |-> cycles[i], num |-> i]
<1>0. cycles \in Seq(Cycle) /\ cycles[i] \in Cycle
  BY DEF TypeOK
<1>1. /\ switch \in Element /\ delete \in Element
      /\ switch.kind = "switch" /\ delete.kind = "delete" /\ delete.cycle = cycles[i]
  BY <1>0 DEF SwitchEl, DeleteEl, Element, TypeOK
<1>2. /\ cycles' = RemoveAt(cycles, i) /\ UNCHANGED <<live, page>>
      /\ trail' = IF InTransaction THEN WithTopLog(Top.log \o <<switch, delete>>) ELSE trail
  BY DEF RemoveCycle
<1> HIDE DEF switch, delete
<1>3. \A d : d \in ToSet(cycles') <=> d \in ToSet(cycles) /\ d # cycles[i]
  BY <1>0, <1>2, DistinctRemoveAt
<1>4. cycles[i] \in ToSet(cycles)
  BY <1>0, SetOf
<1>5. CASE ~InTransaction
  BY <1>2, <1>5, BeginsNone DEF InTransaction
<1>6. CASE InTransaction
  <2> DEFINE first == Append(Top.log, switch)
             t == WithTopLog(first)
  <2>1. /\ trail # <<>> /\ trail \in Seq(Segment) /\ Len(trail) \in Nat \ {0}
        /\ Top = trail[Len(trail)] /\ Top \in Segment /\ Top.log \in Seq(Element)
    BY <1>6, TopInTrail DEF InTransaction, TypeOK, Top
  <2>2. first \in Seq(Element) /\ Append(first, delete) \in Seq(Element)
    BY <1>1, <2>1
  <2>3. Top.log \o <<switch, delete>> = Append(first, delete)
    <3>1. \A log \in Seq(Element) :
            log \o <<switch, delete>> = Append(Append(log, switch), delete)
      BY ONLY <1>1, AppendTwo
    <3> QED
      BY <2>1, <3>1
  <2> HIDE DEF first
  <2>4. /\ t \in Seq(Segment)
        /\ Len(t) = Len(trail)
        /\ \A k \in 1..(Len(trail) - 1) : t[k] = trail[k]
        /\ t[Len(trail)] = [Top EXCEPT !.log = first]
    BY <2>1, <2>2, WithTopLogTyped
  <2>5. t[Len(trail)].log = first /\ t[Len(trail)].log = Append(trail[Len(trail)].log, switch)
    BY <2>1, <2>4 DEF Segment, first
  <2>6. /\ trail' \in Seq(Segment)
        /\ Len(trail') = Len(trail)
        /\ \A k \in 1..(Len(trail) - 1) : trail'[k] = trail[k]
        /\ trail'[Len(trail)] = [Top EXCEPT !.log = Append(first, delete)]
    BY <1>2, <1>6, <2>1, <2>2, <2>3, WithTopLogTyped
  <2>7. /\ trail'[Len(trail)].log = Append(first, delete)
        /\ trail'[Len(trail)].owner = trail[Len(trail)].owner
    BY <2>1, <2>6 DEF Segment
  <2> HIDE DEF t
  <2>8. /\ \A d : switch \notin ItemsOf(d) /\ delete \notin ItemsOf(d)
        /\ \A f : switch \notin SwitchesOf(f) /\ delete \notin SwitchesOf(f)
        /\ \A x : /\ switch \notin NewOf(x) /\ delete \notin NewOf(x)
                  /\ switch \notin DeletesOf(x)
                  /\ delete \in DeletesOf(x) <=> x = cycles[i]
    BY <1>1 DEF ItemsOf, SwitchesOf, NewOf, DeletesOf
  <2>9. /\ Tells(switch, live, page, cycles, live, page, cycles)
        /\ Tells(delete, live, page, cycles, live', page', cycles')
    BY <1>1, <1>2, <1>3, <1>4, <2>8 DEF Tells
  <2>10. ASSUME NEW k \in 1..Len(trail)
         PROVE  PoolAt(k)' = PoolAt(k)
    <3>1. SameAt(k, trail, live, page, cycles, t, live, page, cycles)
      BY <1>1, <2>1, <2>4, <2>5, <2>8, <2>9, SameGrown
    <3>2. SameAt(k, t, live, page, cycles, trail', live', page', cycles')
      <4>1. /\ Len(t) # 0 /\ Len(trail') = Len(t) /\ k \in 1..Len(t)
            /\ \A j \in 1..(Len(t) - 1) : trail'[j] = t[j]
            /\ trail'[Len(t)].log = Append(t[Len(t)].log, delete)
        BY <2>1, <2>4, <2>5, <2>6, <2>7
      <4> QED
        BY <1>1, <2>4, <2>6, <2>8, <2>9, <4>1, SameGrown
    <3>3. SameAt(k, trail, live, page, cycles, trail', live', page', cycles')
      BY <3>1, <3>2, SameTwice
    <3>4. k \in Nat \ {0}
      OBVIOUS
    <3> QED
      BY <2>1, <2>6, <3>3, <3>4, SameNow
  <2>11. ASSUME NEW k \in 1..Len(trail)
         PROVE  trail'[k].owner = trail[k].owner
    <3>1. k = Len(trail) \/ k \in 1..(Len(trail) - 1)
      BY <2>1
    <3> QED
      BY <2>6, <2>7, <3>1
  <2> QED
    BY <2>6, <2>10, <2>11 DEF BeginsKept
<1> QED
  BY <1>5, <1>6

\* The elements of an abort bring back what they told of.
LEMMA BeginsRestore ==
  ASSUME PoolInv, TrailKnown,
         \/ RestoreItem \/ RestorePage \/ RestoreSwitch \/ RestoreNew \/ RestoreDelete
  PROVE  BeginsKept
<1> USE DEF PoolInv
<1>1. busy.op = "abort" /\ Top.log # <<>> /\ trail' = DropNewest
  BY DEF RestoreItem, RestorePage, RestoreSwitch, RestoreNew, RestoreDelete, Recovering
<1>2. trail # <<>>
  BY <1>1, OpenTransaction
<1>3. /\ trail \in Seq(Segment) /\ Top = trail[Len(trail)] /\ Top \in Segment
      /\ Len(trail) \in Nat \ {0} /\ Top.log \in Seq(Element)
      /\ cycles \in Seq(Cycle)
  BY <1>2, TopInTrail DEF TypeOK, Top
<1>4. /\ trail' \in Seq(Segment)
      /\ Newest \in Element
      /\ Len(trail') = Len(trail)
      /\ \A k \in 1..(Len(trail) - 1) : trail'[k] = trail[k]
      /\ trail'[Len(trail)] = [Top EXCEPT !.log = Front(Top.log)]
  BY <1>1, <1>2, DropNewestTyped
<1>5. /\ trail'[Len(trail)].log = Front(Top.log)
      /\ trail'[Len(trail)].owner = trail[Len(trail)].owner
  BY <1>3, <1>4 DEF Segment
<1>6. trail[Len(trail)].log = Append(trail'[Len(trail)].log, Newest)
  BY <1>1, <1>3, <1>5, FrontThenLast DEF Newest
<1>7. /\ OnTrail(trail, Newest)
      /\ \A f : OnTrail(trail, f) <=> OnTrail(trail', f) \/ f = Newest
      /\ \A f : OnTrail(trail', f) => Apart(f, Newest)
  BY <1>1, <1>2, OrderedDrop DEF TrailKnown, Known
<1>8. cycles' \in Seq(Cycle)
  BY RestoreTyped DEF TypeOK
<1>9. \A x \in Cycle : Newest \in NewOf(x) => ~Holding(trail', x)
  <2>1. SUFFICES ASSUME NEW x \in Cycle, Newest.kind = "new", Newest.cycle = x
                 PROVE  ~Holding(trail, x)
    BY <1>7 DEF NewOf, Holding
  <2>2. cycles = Append(cycles', x)
    BY <2>1, CyclesRestored
  <2>3. x \in ToSet(cycles)
    BY <1>8, <2>2, DistinctShortened DEF TrailKnown
  <2> QED
    BY <2>3 DEF TrailKnown, Known
<1>10. Tells(Newest, live', page', cycles', live, page, cycles)
  <2>1. CASE RestoreItem
    <3>1. /\ Newest.kind = "item" /\ UNCHANGED <<page, cycles>>
          /\ live' = [live EXCEPT ![Newest.cell] = Newest.saved]
      BY <2>1 DEF RestoreItem, Recovering
    <3>2. Newest.cell \in Cell
      BY <1>4, <3>1, ElementFields
    <3>3. /\ \A d : Newest \in ItemsOf(d) <=> d = Newest.cell
          /\ \A f : Newest \notin SwitchesOf(f)
          /\ \A x : Newest \notin NewOf(x) /\ Newest \notin DeletesOf(x)
      BY <1>4, <3>1 DEF ItemsOf, SwitchesOf, NewOf, DeletesOf
    <3>4. /\ live'[Newest.cell] = Newest.saved
          /\ \A d \in TrackedCell : d # Newest.cell => live'[d] = live[d]
      BY <3>1, <3>2 DEF TypeOK, TrackedCell
    <3> QED
      BY <3>1, <3>3, <3>4 DEF Tells
  <2>2. CASE RestorePage
    <3>1. /\ Newest.kind = "action" /\ UNCHANGED <<live, cycles>>
          /\ page' = [page EXCEPT ![Newest.folder] = Newest.to]
      BY <2>2 DEF RestorePage, Recovering
    <3>2. Newest.folder \in Folder
      BY <1>4, <3>1, ElementFields
    <3>3. /\ \A d : Newest \notin ItemsOf(d)
          /\ \A f : Newest \in SwitchesOf(f) <=> f = Newest.folder
          /\ \A x : Newest \notin NewOf(x) /\ Newest \notin DeletesOf(x)
      BY <1>4, <3>1 DEF ItemsOf, SwitchesOf, NewOf, DeletesOf
    <3>4. /\ page'[Newest.folder] = Newest.to
          /\ \A f \in Folder : f # Newest.folder => page'[f] = page[f]
      BY <3>1, <3>2 DEF TypeOK
    <3> QED
      BY <3>1, <3>3, <3>4 DEF Tells
  <2>3. CASE RestoreSwitch
    <3>1. Newest.kind = "switch" /\ UNCHANGED <<live, page, cycles>>
      BY <2>3 DEF RestoreSwitch, Recovering
    <3>2. /\ \A d : Newest \notin ItemsOf(d)
          /\ \A f : Newest \notin SwitchesOf(f)
          /\ \A x : Newest \notin NewOf(x) /\ Newest \notin DeletesOf(x)
      BY <3>1 DEF ItemsOf, SwitchesOf, NewOf, DeletesOf
    <3> QED
      BY <3>1, <3>2 DEF Tells
  <2>4. CASE RestoreNew
    <3>1. Newest.kind = "new" /\ UNCHANGED <<live, page>>
      BY <2>4 DEF RestoreNew, Recovering
    <3>2. cycles = Append(cycles', Newest.cycle) /\ Newest.cycle \in Cycle
      BY <1>4, <3>1, CyclesRestored, ElementFields
    <3>3. /\ Newest.cycle \notin ToSet(cycles')
          /\ \A d : d \in ToSet(cycles) <=> d \in ToSet(cycles') \/ d = Newest.cycle
      BY <1>8, <3>2, DistinctShortened DEF TrailKnown
    <3>4. /\ \A d : Newest \notin ItemsOf(d)
          /\ \A f : Newest \notin SwitchesOf(f)
          /\ \A x : Newest \in NewOf(x) <=> x = Newest.cycle
          /\ \A x : Newest \notin DeletesOf(x)
      BY <1>4, <3>1 DEF ItemsOf, SwitchesOf, NewOf, DeletesOf
    <3> QED
      BY <3>1, <3>3, <3>4 DEF Tells
  <2>5. CASE RestoreDelete
    <3>1. Newest.kind = "delete" /\ UNCHANGED <<live, page>>
      BY <2>5 DEF RestoreDelete, Recovering
    <3>2. /\ Newest.num \in 1..Len(cycles') /\ Newest.cycle = cycles'[Newest.num]
          /\ cycles = RemoveAt(cycles', Newest.num)
      BY <3>1, CyclesRestored
    <3>3. Newest.cycle \notin ToSet(cycles)
      BY <1>7, <3>1 DEF TrailKnown, Known, Holding
    <3>4. \A d : d \in ToSet(cycles') <=> d \in ToSet(cycles) \/ d = Newest.cycle
      BY <1>8, <3>2, <3>3, DistinctRestored DEF TrailKnown
    <3>5. /\ \A d : Newest \notin ItemsOf(d)
          /\ \A f : Newest \notin SwitchesOf(f)
          /\ \A x : Newest \in DeletesOf(x) <=> x = Newest.cycle
          /\ \A x : Newest \notin NewOf(x)
      BY <1>4, <3>1 DEF ItemsOf, SwitchesOf, NewOf, DeletesOf
    <3> QED
      BY <3>1, <3>4, <3>5 DEF Tells
  <2> QED
    BY <2>1, <2>2, <2>3, <2>4, <2>5
<1>11. ASSUME NEW k \in 1..Len(trail)
       PROVE  PoolAt(k)' = PoolAt(k)
  <2>1. k \in Nat \ {0}
    OBVIOUS
  <2>2. \A x \in Cycle : Newest \in NewOf(x) => ~HasFrom(trail', k, DeletesOf(x))
    BY <1>9, <2>1, HeldFromOn
  <2>3. SameAt(k, trail', live', page', cycles', trail, live, page, cycles)
    BY <1>3, <1>4, <1>6, <1>10, <2>2, SameGrown
  <2> QED
    BY <1>3, <1>4, <2>1, <2>3, SameNow
<1>12. ASSUME NEW k \in 1..Len(trail)
       PROVE  trail'[k].owner = trail[k].owner
  <2>1. k = Len(trail) \/ k \in 1..(Len(trail) - 1)
    BY <1>3
  <2> QED
    BY <1>4, <1>5, <2>1
<1> QED
  BY <1>4, <1>11, <1>12 DEF BeginsKept

\* An element that moves to the enclosing transaction, or goes away because that
\* one has the older content, leaves the begins of the enclosing ones alone.
LEMMA BeginsMoved ==
  ASSUME TypeOK, CommitElement
  PROVE  /\ Len(trail') = Len(trail)
         /\ \A k \in 1..Len(trail) : trail'[k].owner = trail[k].owner
         /\ \A k \in 1..(Len(trail) - 1) : PoolAt(k)' = PoolAt(k)
<1> DEFINE n == Len(trail)
           e == Head(trail[n].log)
<1>1. /\ trail' \in Seq(Segment)
      /\ Len(trail') = n
      /\ \A k \in 1..(n - 2) : trail'[k] = trail[k]
      /\ \A k \in 1..n : trail'[k].owner = trail[k].owner
      /\ trail'[n].log = Tail(trail[n].log)
      /\ \/ trail'[n - 1].log = Append(trail[n - 1].log, e)
         \/ trail'[n - 1].log = trail[n - 1].log /\ Resident(e, trail[n - 1].log)
  BY CommitElementTrail
<1>2. /\ trail \in Seq(Segment) /\ n \in Nat /\ n > 1
      /\ trail[n].log # <<>> /\ UNCHANGED <<live, page, cycles>>
  BY DEF CommitElement, TypeOK, Top, poolVars
<1>3. /\ n \in 1..n /\ n - 1 \in 1..n
  BY <1>2
<1>4. /\ trail[n].log \in Seq(Element) /\ trail[n - 1].log \in Seq(Element)
      /\ e \in Element
  <2>1. trail[n].log \in Seq(Element) /\ trail[n - 1].log \in Seq(Element)
    BY <1>2, <1>3, SegmentFields
  <2>2. e \in Element
    BY <1>2, <2>1, TailOfSeq, NonEmptySeq
  <2> QED
    BY <2>1, <2>2
<1>5. Resident(e, trail[n - 1].log) => e.kind = "item" /\ Has(trail[n - 1].log, ItemsOf(e.cell))
  BY <1>4 DEF Resident, Holds, Has, ItemsOf
<1>6. ASSUME NEW k \in 1..(n - 1), NEW S, e.kind = "item" /\ e \in S => S = ItemsOf(e.cell)
      PROVE  /\ HasFrom(trail, k, S) <=> HasFrom(trail', k, S)
             /\ \A now, v : Before(trail, k, S, now, v) <=> Before(trail', k, S, now, v)
  <2>1. \/ trail'[n - 1].log = Append(trail[n - 1].log, e)
        \/ trail'[n - 1].log = trail[n - 1].log /\ (e \in S => Has(trail[n - 1].log, S))
    BY <1>1, <1>5, <1>6
  <2> QED
    BY <1>1, <1>2, <2>1, BeforeMoved
<1>7. ASSUME NEW k \in 1..(n - 1)
      PROVE  PoolAt(k)' = PoolAt(k)
  <2>1. /\ \A c : e.kind = "item" /\ e \in ItemsOf(c) => ItemsOf(c) = ItemsOf(e.cell)
        /\ \A f : ~(e.kind = "item" /\ e \in SwitchesOf(f))
        /\ \A x : ~(e.kind = "item" /\ e \in NewOf(x)) /\ ~(e.kind = "item" /\ e \in DeletesOf(x))
    BY DEF ItemsOf, SwitchesOf, NewOf, DeletesOf
  <2> HIDE DEF e, n
  <2>2. /\ \A x : HasFrom(trail, k, NewOf(x)) <=> HasFrom(trail', k, NewOf(x))
        /\ \A x : HasFrom(trail, k, DeletesOf(x)) <=> HasFrom(trail', k, DeletesOf(x))
    BY <1>6, <2>1
  <2>3. /\ \A c, now, v : Before(trail, k, ItemsOf(c), now, v)
                          <=> Before(trail', k, ItemsOf(c), now, v)
        /\ \A f, now, v : Before(trail, k, SwitchesOf(f), now, v)
                          <=> Before(trail', k, SwitchesOf(f), now, v)
    BY <1>6, <2>1
  <2>4. SameAt(k, trail, live, page, cycles, trail', live, page, cycles)
    BY <2>2, <2>3, SameTrails
  <2>5. k \in Nat \ {0}
    BY <1>2
  <2> QED
    BY <1>1, <1>2, <2>4, <2>5, SameNow
<1> QED
  BY <1>1, <1>7

\* A transaction without elements ends as the innermost one.
LEMMA BeginsPopped ==
  ASSUME TypeOK, trail # <<>>, Top.log = <<>>, trail' = Front(trail),
         UNCHANGED <<live, page, cycles>>, NEW k \in 1..Len(trail)
  PROVE  PoolAt(k)' = PoolAt(k)
<1>1. /\ trail \in Seq(Segment) /\ trail' \in Seq(Segment)
      /\ Len(trail) \in Nat \ {0}
      /\ Len(trail') = Len(trail) - 1
      /\ \A j \in 1..(Len(trail) - 1) : trail'[j] = trail[j]
      /\ trail[Len(trail)].log = <<>>
  BY FrontOfTrail, NonEmptySeq DEF TypeOK, Top
<1>2. /\ Len(trail) = Len(trail') + 1 /\ k \in 1..(Len(trail') + 1)
      /\ \A j \in 1..Len(trail') : trail[j] = trail'[j]
  BY <1>1
<1>3. \A S : /\ HasFrom(trail', k, S) <=> HasFrom(trail, k, S)
             /\ \A now, v : Before(trail', k, S, now, v) <=> Before(trail, k, S, now, v)
  BY <1>1, <1>2, BeforePushed
<1>4. SameAt(k, trail, live, page, cycles, trail', live, page, cycles)
  BY <1>3, SameTrails
<1>5. k \in Nat \ {0}
  OBVIOUS
<1> QED
  BY <1>1, <1>4, <1>5, SameNow

\* A transaction begins.
LEMMA BeginsPushed ==
  ASSUME TypeOK, NEW o \in Owner, Begin(o)
  PROVE  /\ Len(trail') = Len(trail) + 1
         /\ \A k \in 1..Len(trail) : trail'[k] = trail[k]
         /\ trail'[Len(trail) + 1].owner = o
         /\ \A k \in 1..(Len(trail) + 1) : PoolAt(k)' = PoolAt(k)
<1> DEFINE s == [owner |-> o, log |-> <<>>]
<1>1. s \in Segment /\ s.log = <<>> /\ s.owner = o
  BY DEF Segment
<1>2. trail \in Seq(Segment) /\ trail' = Append(trail, s) /\ UNCHANGED <<live, page, cycles>>
  BY DEF TypeOK, Begin, poolVars
<1> HIDE DEF s
<1>3. /\ trail' \in Seq(Segment) /\ Len(trail') = Len(trail) + 1
      /\ \A j \in 1..Len(trail) : trail'[j] = trail[j]
      /\ trail'[Len(trail) + 1] = s
  BY <1>1, <1>2
<1>4. trail'[Len(trail')].log = <<>>
  BY <1>1, <1>3
<1>5. ASSUME NEW k \in 1..(Len(trail) + 1)
      PROVE  PoolAt(k)' = PoolAt(k)
  <2>1. \A S : /\ HasFrom(trail, k, S) <=> HasFrom(trail', k, S)
               /\ \A now, v : Before(trail, k, S, now, v) <=> Before(trail', k, S, now, v)
    BY <1>2, <1>3, <1>4, BeforePushed
  <2>2. SameAt(k, trail, live, page, cycles, trail', live, page, cycles)
    BY <2>1, SameTrails
  <2>3. k \in Nat \ {0}
    BY <1>2
  <2> QED
    BY <1>2, <1>3, <2>2, <2>3, SameNow
<1> QED
  BY <1>1, <1>3, <1>5

(*------------------------ owners and their segments ----------------------*)

\* The pool of a begin that would come now is the pool.
Current ==
  [data |-> [c \in TrackedCell |->
               IF c[1] \notin ToSet(cycles) \cup {NoCycle} THEN Absent ELSE live[c]],
   page |-> [f \in Folder |-> page[f]]]

\* No element lies behind the last segment.
LEMMA PoolNow == TypeOK => PoolAt(Len(trail) + 1) = Current
<1> SUFFICES ASSUME TypeOK
             PROVE  PoolAt(Len(trail) + 1) = Current
  OBVIOUS
<1>1. Since(Len(trail) + 1) = {}
  BY DEF Since, TypeOK
<1>2. CyclesAt(Len(trail) + 1) = ToSet(cycles)
  BY <1>1 DEF CyclesAt
<1>3. DataAt(Len(trail) + 1)
      = [c \in TrackedCell |->
           IF c[1] \notin ToSet(cycles) \cup {NoCycle} THEN Absent ELSE live[c]]
  BY <1>1, <1>2 DEF DataAt
<1>4. PageAt(Len(trail) + 1) = [f \in Folder |-> page[f]]
  BY <1>1 DEF PageAt
<1> QED
  BY <1>3, <1>4 DEF PoolAt, Current

\* The same of the next state.
LEMMA PoolNext == (TypeOK => PoolAt(Len(trail) + 1) = Current)'
BY PoolNow, PTL

\* It is one of the contents a client can see.
LEMMA CurrentTyped == TypeOK => Current \in Contents
BY DEF TypeOK, Current, Contents, TrackedCell

\* A commit or an abort is running.
Ending == busy.op \in {"commit", "abort"}

\* The owners of the open transactions differ, and each one has still to end its
\* transaction or is ending it.
OwnersApart ==
  /\ \A i, j \in 1..Len(trail) : trail[i].owner = trail[j].owner => i = j
  /\ \A i \in 1..Len(trail) : trail[i].owner \in owing \/ (Ending /\ trail[i].owner = busy.owner)

\* The first transaction of an owner.
PointOf(t, o) == First({k \in 1..Len(t) : t[k].owner = o})

\* It is his.
LEMMA PointIs ==
  ASSUME NEW t \in Seq(Segment), NEW o, NEW j \in 1..Len(t), t[j].owner = o
  PROVE  PointOf(t, o) \in 1..Len(t) /\ t[PointOf(t, o)].owner = o
<1> DEFINE S == {k \in 1..Len(t) : t[k].owner = o}
<1>1. S \in SUBSET (1..Len(t)) /\ S # {} /\ Len(t) \in Nat
  OBVIOUS
<1>2. First(S) \in S
  <2> HIDE DEF S
  <2> QED
    BY <1>1, FirstOfSet
<1> QED
  BY <1>2 DEF PointOf

\* The kinds of steps: changes, restores, the four of the loops and the calls that
\* begin and end transactions.
LEMMA StepKinds ==
  ASSUME CyclesInv, "undo-in-transaction" \notin Calls, Next
  PROVE  \/ BeginsKept /\ owing' = owing /\ ~Ending /\ ~Ending'
         \/ BeginsKept /\ owing' = owing /\ busy.op = "abort" /\ busy' = busy
         \/ CommitElement
         \/ CommitInner \/ AbortPoint
         \/ CommitFinal
         \/ \E o \in Owner : Begin(o)
         \/ \E o \in Owner : Commit(o) \/ Abort(o)
<1> USE DEF CyclesInv, UndoInv, PoolInv
<1>1. ASSUME NEW c \in Cell, ClearItem(c)
      PROVE  BeginsKept /\ owing' = owing /\ ~Ending /\ ~Ending'
  <2>1. /\ busy.op = "clear" /\ owing' = owing /\ live' = [live EXCEPT ![c] = Empty]
        /\ UNCHANGED <<page, cycles>>
        /\ busy' = Idle \/ busy' = [busy EXCEPT !.todo = @ \ {c}]
    BY <1>1 DEF ClearItem
  <2>2. ~Ending /\ ~Ending'
    <3>1. busy \in Loop
      BY DEF TypeOK
    <3>2. [busy EXCEPT !.todo = @ \ {c}].op = busy.op
      BY <3>1 DEF Loop
    <3> QED
      BY <2>1, <3>2, LoopRecords DEF Ending
  <2>3. CASE trail # <<>>
    <3>1. SaveItem(c)
      BY <1>1, <2>3 DEF ClearItem, InTransaction
    <3> QED
      BY <2>1, <2>2, <3>1, BeginsSaveItem
  <2>4. CASE trail = <<>>
    <3>1. trail' = <<>>
      BY <1>1, <2>4 DEF ClearItem, InTransaction
    <3> QED
      BY <2>1, <2>2, <2>4, <3>1, BeginsNone
  <2> QED
    BY <2>3, <2>4
<1>2. ASSUME NEW i \in 1..Len(cycles), NEW n \in Name, NEW v \in Value, Write(i, n, v)
      PROVE  BeginsKept /\ owing' = owing /\ ~Ending /\ ~Ending'
  <2> DEFINE c == CellOf(cycles[i], n)
  <2>1. c \in Cell
    BY CellOfTyped
  <2> HIDE DEF c
  <2>2. /\ SaveItem(c) /\ live' = [live EXCEPT ![c] = v]
        /\ UNCHANGED <<page, cycles, owing, busy>>
        /\ busy.op \in {"idle", "update"}
    BY <1>2 DEF Write, c
  <2>3. BeginsKept
    BY <2>1, <2>2, BeginsSaveItem
  <2> QED
    BY <2>2, <2>3 DEF Ending
<1>3. ASSUME NEW f \in Folder, NEW p \in Page, SwitchPage(f, p)
      PROVE  BeginsKept /\ owing' = owing /\ ~Ending /\ ~Ending'
  <2>1. busy.op = "idle" /\ busy' = busy /\ owing' = owing
    BY <1>3 DEF SwitchPage
  <2>2. BeginsKept
    BY <1>3, BeginsSwitchPage
  <2> QED
    BY <2>1, <2>2 DEF Ending
<1>4. ASSUME NEW c \in Cycle, NewCycle(c)
      PROVE  BeginsKept /\ owing' = owing /\ ~Ending /\ ~Ending'
  <2>1. busy = Idle /\ busy' = busy /\ owing' = owing
    BY <1>4 DEF NewCycle
  <2>2. BeginsKept
    BY <1>4, BeginsNewCycle
  <2> QED
    BY <2>1, <2>2 DEF Ending, Idle
<1>5. ASSUME NEW i \in 1..Len(cycles), SetCycle(i) \/ RemoveCycle(i)
      PROVE  BeginsKept /\ owing' = owing /\ ~Ending /\ ~Ending'
  <2>1. busy = Idle /\ busy' = busy /\ owing' = owing
    BY <1>5 DEF SetCycle, RemoveCycle
  <2>2. BeginsKept
    BY <1>5, BeginsSetCycle, BeginsRemoveCycle DEF TrailKnown
  <2> QED
    BY <2>1, <2>2 DEF Ending, Idle
<1>6. ASSUME NEW i \in 1..Len(cycles), ClearCycle(i)
      PROVE  BeginsKept /\ owing' = owing /\ ~Ending /\ ~Ending'
  <2> DEFINE todo == {CellOf(cycles[i], n) : n \in Name \ (Global \cup Protected)}
  <2>1. /\ busy = Idle /\ owing' = owing /\ busy' = [Idle EXCEPT !.op = "clear", !.todo = todo]
        /\ UNCHANGED <<live, page, cycles, trail>>
    BY <1>6 DEF ClearCycle, poolVars
  <2> HIDE DEF todo
  <2>2. BeginsKept
    BY <2>1, BeginsIdle
  <2>3. ~Ending /\ ~Ending'
    <3>1. todo \in SUBSET Cell
      BY CellOfTyped DEF todo
    <3>2. busy.op = "idle" /\ busy'.op = "clear"
      BY <2>1, <3>1, LoopRecords DEF Ops
    <3> QED
      BY <3>2 DEF Ending
  <2> QED
    BY <2>1, <2>2, <2>3
<1>7. ASSUME Undo \/ Redo
      PROVE  BeginsKept /\ owing' = owing /\ ~Ending /\ ~Ending'
  <2>1. busy = Idle /\ trail = <<>> /\ trail' = trail /\ owing' = owing
    BY <1>7 DEF Undo, Redo, UserMayUndo, InTransaction
  <2>2. busy' = busy \/ busy' = [Idle EXCEPT !.op = "update", !.guard = TRUE]
    BY <1>7 DEF Undo, Redo, GuardedUpdate
  <2>3. ~Ending /\ ~Ending'
    <3>1. busy.op = "idle" /\ busy'.op \in {"idle", "update"}
      BY <2>1, <2>2, LoopRecords DEF Ops
    <3> QED
      BY <3>1 DEF Ending
  <2> QED
    BY <2>1, <2>3, BeginsNone
<1>8. ASSUME UpdateForms \/ UpdateDone \/ Activate \/ EnableUndo \/ DisallowUndo \/ AllowUndo
      PROVE  BeginsKept /\ owing' = owing /\ ~Ending /\ ~Ending'
  <2>1. UNCHANGED <<live, page, cycles, trail>> /\ owing' = owing
    BY <1>8 DEF UpdateForms, UpdateDone, Activate, EnableUndo, DisallowUndo, AllowUndo, poolVars
  <2>2. busy = Idle \/ busy.op = "update"
    BY <1>8 DEF UpdateForms, UpdateDone, Activate, EnableUndo, DisallowUndo, AllowUndo
  <2>3. \/ busy' = Idle \/ busy' = busy
        \/ busy' = [Idle EXCEPT !.op = "update", !.guard = IsEnabled]
    BY <1>8 DEF UpdateForms, UpdateDone, Activate, EnableUndo, DisallowUndo, AllowUndo
  <2>4. ~Ending /\ ~Ending'
    <3>1. busy.op \in {"idle", "update"} /\ busy'.op \in {"idle", "update"}
      <4>1. IsEnabled \in BOOLEAN
        BY DEF IsEnabled, TypeOK
      <4>2. PICK b \in BOOLEAN : b = IsEnabled
        BY <4>1
      <4>3. [Idle EXCEPT !.op = "update", !.guard = b].op = "update"
        BY LoopRecords DEF Ops
      <4>4. busy.op \in {"idle", "update"}
        BY <2>2, LoopRecords
      <4> QED
        BY <2>3, <4>2, <4>3, <4>4, LoopRecords
    <3> QED
      BY <3>1 DEF Ending
  <2> QED
    BY <2>1, <2>4, BeginsIdle
<1>9. ASSUME \/ RestoreItem \/ RestorePage \/ RestoreSwitch \/ RestoreNew \/ RestoreDelete
      PROVE  BeginsKept /\ owing' = owing /\ busy.op = "abort" /\ busy' = busy
  <2>1. owing' = owing /\ busy.op = "abort" /\ busy' = busy
    BY <1>9 DEF RestoreItem, RestorePage, RestoreSwitch, RestoreNew, RestoreDelete, Recovering
  <2>2. BeginsKept
    BY <1>9, BeginsRestore
  <2> QED
    BY <2>1, <2>2
<1> HIDE DEF CyclesInv, UndoInv, PoolInv
<1> QED
  BY <1>1, <1>2, <1>3, <1>4, <1>5, <1>6, <1>7, <1>8, <1>9 DEF Next, Step, Call

\* The loops go on in the transaction of their owner.
LEMMA ApartLoop ==
  ASSUME PoolInv, OwnersApart, CommitInner \/ AbortPoint
  PROVE  /\ OwnersApart'
         /\ Ending /\ trail # <<>> /\ Top.log = <<>> /\ trail' = Front(trail)
         /\ UNCHANGED <<live, page, cycles>>
         /\ \/ busy' = busy /\ OwnerIsOpen'
            \/ busy' = Idle /\ Top.owner = busy.owner
<1> USE DEF PoolInv
<1>1. /\ Ending /\ Top.log = <<>> /\ trail' = Front(trail) /\ AfterPoint
      /\ UNCHANGED <<live, page, cycles, owing>>
  BY DEF CommitInner, AbortPoint, poolVars, Ending
<1>2. trail # <<>> /\ Len(trail) \in Nat \ {0} /\ Top = trail[Len(trail)]
      /\ busy.owner \in Owners
  BY <1>1, OpenTransaction, TopInTrail DEF Ending, Top, OwnerIsOpen
<1>3. /\ Len(trail') = Len(trail) - 1
      /\ \A k \in 1..(Len(trail) - 1) : trail'[k] = trail[k]
  BY <1>1, <1>2, FrontOfTrail
<1>4. \A k \in 1..Len(trail') : k \in 1..Len(trail) /\ k # Len(trail) /\ trail'[k] = trail[k]
  BY <1>2, <1>3
<1>5. busy' = busy \/ (busy' = Idle /\ Top.owner = busy.owner)
  <2>1. Len(trail) = 1 => Top.owner = busy.owner
    BY <1>2 DEF Owners
  <2> QED
    BY <1>1, <2>1 DEF AfterPoint
<1>6. OwnersApart'
  <2>1. \A i, j \in 1..Len(trail') : trail'[i].owner = trail'[j].owner => i = j
    BY <1>4 DEF OwnersApart
  <2>2. ASSUME NEW i \in 1..Len(trail')
        PROVE  trail'[i].owner \in owing' \/ (Ending' /\ trail'[i].owner = busy'.owner)
    <3>1. CASE busy' = busy
      BY <1>1, <1>4, <3>1 DEF OwnersApart, Ending
    <3>2. CASE Top.owner = busy.owner
      <4>1. trail[i].owner # trail[Len(trail)].owner
        BY <1>2, <1>4 DEF OwnersApart
      <4> QED
        BY <1>1, <1>2, <1>4, <3>2, <4>1 DEF OwnersApart
    <3> QED
      BY <1>5, <3>1, <3>2
  <2> QED
    BY <2>1, <2>2 DEF OwnersApart
<1>7. OwnerIsOpen'
  BY OwnerIsOpenStep DEF Next, Step
<1> QED
  BY <1>1, <1>2, <1>5, <1>6, <1>7

\* Where the owners and what they owe stay, the owners stay apart.
LEMMA ApartKept ==
  ASSUME OwnersApart, Len(trail') = Len(trail),
         \A k \in 1..Len(trail) : trail'[k].owner = trail[k].owner,
         owing' = owing, busy' = busy \/ ~Ending
  PROVE  OwnersApart'
BY DEF OwnersApart, Ending

\* A begin adds an owner that owes nothing so far.
LEMMA ApartBegin ==
  ASSUME TypeOK, OwnersApart, NEW o \in Owner, Begin(o)
  PROVE  OwnersApart'
<1>1. /\ Len(trail') = Len(trail) + 1
      /\ \A k \in 1..Len(trail) : trail'[k] = trail[k]
      /\ trail'[Len(trail) + 1].owner = o
  BY BeginsPushed
<1>2. o \notin owing /\ owing' = owing \cup {o} /\ ~Ending /\ Len(trail) \in Nat
  BY DEF Begin, Ending, Idle, TypeOK
<1>3. \A k \in 1..Len(trail') : k \in 1..Len(trail) \/ k = Len(trail) + 1
  BY <1>1, <1>2
<1>4. \A k \in 1..Len(trail) : trail[k].owner \in owing /\ trail[k].owner # o
  BY <1>2 DEF OwnersApart
<1>5. ASSUME NEW i \in 1..Len(trail'), NEW j \in 1..Len(trail'),
             trail'[i].owner = trail'[j].owner
      PROVE  i = j
  BY <1>1, <1>3, <1>4, <1>5 DEF OwnersApart
<1>6. \A i \in 1..Len(trail') : trail'[i].owner \in owing'
  BY <1>1, <1>2, <1>3, <1>4
<1> QED
  BY <1>5, <1>6 DEF OwnersApart

\* A commit or an abort runs for the owner that is taken from those who owe.
LEMMA EndingStarts ==
  ASSUME TypeOK, NEW o \in Owner, Commit(o) \/ Abort(o)
  PROVE  /\ busy = Idle /\ ~Ending /\ owing' = owing \ {o}
         /\ UNCHANGED <<live, page, cycles, trail>>
         /\ \/ busy' = busy /\ o \notin Owners
            \/ /\ o \in Owners /\ busy'.owner = o
               /\ busy'.op = "commit" \/ busy'.op = "abort"
<1>1. /\ busy = Idle /\ owing' = owing \ {o} /\ UNCHANGED <<live, page, cycles, trail>>
      /\ \/ busy' = busy /\ o \notin Owners
         \/ o \in Owners /\ busy' = [Idle EXCEPT !.op = "commit", !.owner = o]
         \/ o \in Owners /\ busy' = [Idle EXCEPT !.op = "abort", !.owner = o]
  BY DEF Commit, Abort, LateEnd, poolVars
<1>2. /\ busy.op = "idle"
      /\ \A op \in {"commit", "abort"} : /\ [Idle EXCEPT !.op = op, !.owner = o].op = op
                                       /\ [Idle EXCEPT !.op = op, !.owner = o].owner = o
  <2>1. busy.op = "idle"
    BY <1>1, LoopRecords
  <2>2. ASSUME NEW op \in {"commit", "abort"}
        PROVE  /\ [Idle EXCEPT !.op = op, !.owner = o].op = op
               /\ [Idle EXCEPT !.op = op, !.owner = o].owner = o
    <3>1. op \in Ops
      BY <2>2 DEF Ops
    <3> QED
      BY <3>1, LoopRecords
  <2> QED
    BY <2>1, <2>2
<1>3. ~Ending
  BY <1>2 DEF Ending
<1> QED
  BY <1>1, <1>2, <1>3

\* An end keeps the owners apart.
LEMMA ApartEnd ==
  ASSUME TypeOK, OwnersApart, NEW o \in Owner, Commit(o) \/ Abort(o)
  PROVE  OwnersApart'
<1>1. /\ ~Ending /\ owing' = owing \ {o} /\ trail' = trail
      /\ \/ busy' = busy /\ o \notin Owners
         \/ o \in Owners /\ busy'.owner = o /\ Ending'
  BY EndingStarts DEF Ending
<1>2. \A i \in 1..Len(trail) : trail[i].owner \in Owners
  BY DEF Owners
<1> QED
  BY <1>1, <1>2 DEF OwnersApart

\* Every step keeps the owners apart.
LEMMA OwnersApartStep ==
  ASSUME CyclesInv, OwnersApart, "undo-in-transaction" \notin Calls, [Next]_vars
  PROVE  OwnersApart'
<1> USE DEF CyclesInv, UndoInv, PoolInv
<1>1. CASE UNCHANGED vars
  BY <1>1 DEF vars, OwnersApart, Ending
<1>2. CASE Next
  <2>1. CASE BeginsKept /\ owing' = owing /\ ~Ending /\ ~Ending'
    BY <2>1, ApartKept DEF BeginsKept
  <2>2. CASE BeginsKept /\ owing' = owing /\ busy' = busy
    BY <2>2, ApartKept DEF BeginsKept
  <2>3. CASE CommitElement
    BY <2>3, BeginsMoved, ApartKept DEF CommitElement
  <2>4. CASE CommitInner \/ AbortPoint
    BY <2>4, ApartLoop
  <2>5. CASE CommitFinal
    BY <2>5, Len(<<>>) = 0 DEF CommitFinal, OwnersApart
  <2>6. CASE \E o \in Owner : Begin(o)
    BY <2>6, ApartBegin
  <2>7. CASE \E o \in Owner : Commit(o) \/ Abort(o)
    BY <2>7, ApartEnd
  <2> HIDE DEF CyclesInv, UndoInv, PoolInv
  <2> QED
    BY <1>2, <2>1, <2>2, <2>3, <2>4, <2>5, <2>6, <2>7, StepKinds
<1> QED
  BY <1>1, <1>2

\* The owners are apart in every reachable state.
LEMMA ApartInvariant ==
  ASSUME "undo-in-transaction" \notin Calls
  PROVE  Spec => []OwnersApart
<1>1. Init => OwnersApart
  BY Len(<<>>) = 0 DEF Init, OwnersApart
<1>2. CyclesInv /\ OwnersApart /\ [Next]_vars => OwnersApart'
  BY OwnersApartStep
<1> QED
  BY <1>1, <1>2, CyclesInvariant, PTL DEF Spec

(*--------------------- the steps that the clients see --------------------*)

\* What a client sees.
Seen == IF busy.op = "abort" THEN PoolAt(OwnersPoint) ELSE PoolAt(Len(trail) + 1)

\* The point of the owner whose transaction ends.
LEMMA EndingPoint ==
  Ending /\ OwnerIsOpen /\ TypeOK =>
    /\ OwnersPoint = PointOf(trail, busy.owner)
    /\ OwnersPoint \in 1..Len(trail)
    /\ trail[OwnersPoint].owner = busy.owner
<1> SUFFICES ASSUME Ending, OwnerIsOpen, TypeOK
             PROVE  /\ OwnersPoint = PointOf(trail, busy.owner)
                    /\ OwnersPoint \in 1..Len(trail)
                    /\ trail[OwnersPoint].owner = busy.owner
  OBVIOUS
<1>1. OwnersPoint = PointOf(trail, busy.owner)
  BY DEF OwnersPoint, PointOf
<1>2. PICK j \in 1..Len(trail) : trail[j].owner = busy.owner
  BY DEF Ending, OwnerIsOpen, Owners
<1>3. trail \in Seq(Segment)
  BY DEF TypeOK
<1> QED
  BY <1>1, <1>2, <1>3, PointIs

\* Seen and the depth, outside and within a loop.
LEMMA SeenNow == TypeOK /\ busy.op # "abort" => Seen = Current
BY PoolNow DEF Seen

\* A loop that ends a transaction shows it as ended.
LEMMA DepthIs ==
  /\ ~Ending => Depth = Len(trail)
  /\ Ending => Depth = OwnersPoint - 1
BY DEF Depth, Ending

\* The open transactions.
LEMMA PointsAre ==
  ASSUME NEW n, NEW m, Depth = n, Depth' = m
  PROVE  /\ Points(OpenPoints, n) /\ Points(OpenPoints', m)
         /\ \A k \in 1..n : OpenPoints[k] = [owner |-> trail[k].owner, before |-> PoolAt(k)]
         /\ \A k \in 1..m : OpenPoints'[k] = [owner |-> trail'[k].owner, before |-> PoolAt(k)']
BY DEF OpenPoints, Points

\* The same of the next state.
LEMMA SeenNext == (TypeOK /\ busy.op # "abort" => Seen = Current)'
BY SeenNow, PTL

\* The next pool has its type.
LEMMA CurrentNext == (TypeOK => Current \in Contents)'
BY CurrentTyped, PTL

\* The next owner of the loop has a segment.
LEMMA EndingPointNext ==
  (Ending /\ OwnerIsOpen /\ TypeOK =>
    /\ OwnersPoint = PointOf(trail, busy.owner)
    /\ OwnersPoint \in 1..Len(trail)
    /\ trail[OwnersPoint].owner = busy.owner)'
BY EndingPoint, PTL

\* The next number of open transactions.
LEMMA DepthNext ==
  (/\ ~Ending => Depth = Len(trail)
   /\ Ending => Depth = OwnersPoint - 1)'
BY DepthIs, PTL

\* A step of the abstract specification.
NestedStep == [Nested!Next]_(Nested!vars)

\* Nothing to see.
LEMMA NothingSeen ==
  ASSUME Seen' = Seen, OpenPoints' = OpenPoints
  PROVE  NestedStep
BY DEF NestedStep, Nested!vars, Seen

\* Changes.
LEMMA ChangeSeen ==
  ASSUME TypeOK, TypeOK', BeginsKept, ~Ending, ~Ending'
  PROVE  NestedStep
<1>1. Depth = Len(trail) /\ Depth' = Len(trail)
  BY DepthIs, DepthNext DEF BeginsKept
<1>2. OpenPoints' = OpenPoints
  <2>1. \A k \in 1..Len(trail) : OpenPoints'[k] = OpenPoints[k]
    BY <1>1, PointsAre DEF BeginsKept
  <2> QED
    BY <1>1, <2>1, PointsAre DEF Points
<1>3. Seen' \in Contents
  BY SeenNext, CurrentNext DEF Ending
<1> QED
  BY <1>2, <1>3 DEF NestedStep, Nested!Next, Nested!Change, Seen

\* A loop that goes on shows nothing: its owner's point and what is open outside it
\* stay.
LEMMA LoopSeen ==
  ASSUME TypeOK, TypeOK', OwnersApart', Ending, OwnerIsOpen, OwnerIsOpen',
         busy' = busy, NEW p \in Nat \ {0}, p = OwnersPoint, p <= Len(trail'),
         \A k \in 1..p : trail'[k].owner = trail[k].owner,
         \A k \in 1..(p - 1) : PoolAt(k)' = PoolAt(k),
         IF busy.op = "abort" THEN PoolAt(p)' = PoolAt(p) ELSE UNCHANGED <<live, page, cycles>>
  PROVE  NestedStep
<1>1. trail[p].owner = busy.owner
  BY EndingPoint
<1>2. /\ Ending'
      /\ OwnersPoint' \in 1..Len(trail') /\ trail'[OwnersPoint'].owner = busy.owner
  BY EndingPointNext DEF Ending
<1>3. p \in 1..p /\ p \in 1..Len(trail') /\ trail'[p].owner = busy.owner
  <2>1. Len(trail') \in Nat
    BY DEF TypeOK
  <2> QED
    BY <1>1, <2>1
<1>4. OwnersPoint' = p
  BY <1>2, <1>3 DEF OwnersApart
<1>5. Depth = p - 1 /\ Depth' = p - 1
  BY <1>2, <1>4, DepthIs, DepthNext
<1>6. OpenPoints' = OpenPoints
  <2>1. \A k \in 1..(p - 1) : k \in 1..p
    OBVIOUS
  <2>2. \A k \in 1..(p - 1) : trail'[k].owner = trail[k].owner /\ PoolAt(k)' = PoolAt(k)
    BY <2>1
  <2>3. /\ Points(OpenPoints, p - 1) /\ Points(OpenPoints', p - 1)
        /\ \A k \in 1..(p - 1) :
             /\ OpenPoints[k] = [owner |-> trail[k].owner, before |-> PoolAt(k)]
             /\ OpenPoints'[k] = [owner |-> trail'[k].owner, before |-> PoolAt(k)']
    BY <1>5, PointsAre
  <2>4. \A k \in 1..(p - 1) : OpenPoints'[k] = OpenPoints[k]
    BY <2>2, <2>3
  <2> QED
    BY <2>3, <2>4 DEF Points
<1>7. Seen' = Seen
  <2>1. CASE busy.op = "abort"
    <3>1. Seen = PoolAt(p)
      BY <2>1 DEF Seen
    <3>2. Seen' = PoolAt(p)'
      BY <1>4, <2>1 DEF Seen, PoolAt, DataAt, PageAt, CyclesAt, Since
    <3> QED
      BY <2>1, <3>1, <3>2
  <2>2. CASE busy.op # "abort"
    <3>1. Seen = Current /\ Seen' = Current'
      BY <2>2, SeenNow, SeenNext
    <3>2. Current' = Current
      BY <2>2 DEF Current
    <3> QED
      BY <3>1, <3>2
  <2> QED
    BY <2>1, <2>2
<1> QED
  BY <1>6, <1>7, NothingSeen

\* The elements of an abort, one after the other.
LEMMA RestoreSeen ==
  ASSUME TypeOK, TypeOK', OwnersApart', OwnerIsOpen, OwnerIsOpen',
         BeginsKept, busy.op = "abort", busy' = busy
  PROVE  NestedStep
<1>1. Ending
  BY DEF Ending
<1>2. OwnersPoint \in 1..Len(trail) /\ Len(trail) \in Nat
  BY <1>1, EndingPoint DEF TypeOK
<1>3. PICK p \in 1..Len(trail) : p = OwnersPoint
  BY <1>2
<1>4. /\ p \in Nat \ {0} /\ p <= Len(trail') /\ p \in 1..p
      /\ \A k \in 1..p : k \in 1..Len(trail)
      /\ \A k \in 1..(p - 1) : k \in 1..Len(trail)
  BY <1>2 DEF BeginsKept
<1>5. /\ \A k \in 1..p : trail'[k].owner = trail[k].owner
      /\ \A k \in 1..(p - 1) : PoolAt(k)' = PoolAt(k)
      /\ PoolAt(p)' = PoolAt(p)
  BY <1>4 DEF BeginsKept
<1> QED
  BY <1>1, <1>3, <1>4, <1>5, LoopSeen

\* The elements of a commit, one after the other.
LEMMA CommitElementSeen ==
  ASSUME TypeOK, TypeOK', OwnersApart', OwnerIsOpen, OwnerIsOpen', CommitElement
  PROVE  NestedStep
<1>1. /\ Ending /\ busy.op = "commit" /\ busy' = busy
      /\ UNCHANGED <<live, page, cycles>>
  BY DEF CommitElement, Ending, poolVars
<1>2. OwnersPoint \in 1..Len(trail) /\ Len(trail) \in Nat
  BY <1>1, EndingPoint DEF TypeOK
<1>3. PICK p \in 1..Len(trail) : p = OwnersPoint
  BY <1>2
<1>4. /\ Len(trail') = Len(trail)
      /\ \A k \in 1..Len(trail) : trail'[k].owner = trail[k].owner
      /\ \A k \in 1..(Len(trail) - 1) : PoolAt(k)' = PoolAt(k)
  BY BeginsMoved
<1>5. /\ p \in Nat \ {0} /\ p <= Len(trail')
      /\ \A k \in 1..p : k \in 1..Len(trail)
      /\ \A k \in 1..(p - 1) : k \in 1..(Len(trail) - 1)
  BY <1>2, <1>4
<1>6. /\ \A k \in 1..p : trail'[k].owner = trail[k].owner
      /\ \A k \in 1..(p - 1) : PoolAt(k)' = PoolAt(k)
  BY <1>4, <1>5
<1> QED
  BY <1>1, <1>3, <1>5, <1>6, LoopSeen

\* A transaction ends within a loop: its own one or an inner one.
LEMMA PointSeen ==
  ASSUME PoolInv, TypeOK', OwnersApart, CommitInner \/ AbortPoint
  PROVE  NestedStep
<1> USE DEF PoolInv
<1>1. /\ OwnersApart'
      /\ Ending /\ trail # <<>> /\ Top.log = <<>> /\ trail' = Front(trail)
      /\ UNCHANGED <<live, page, cycles>>
      /\ \/ busy' = busy /\ OwnerIsOpen'
         \/ busy' = Idle /\ Top.owner = busy.owner
  BY ApartLoop
<1>2. PICK n \in Nat \ {0} : n = Len(trail)
  BY <1>1, TopInTrail
<1>3. /\ Top = trail[n] /\ Len(trail') = n - 1
      /\ \A k \in 1..(n - 1) : trail'[k] = trail[k]
  BY <1>1, <1>2, FrontOfTrail DEF Top
<1>4. OwnersPoint \in 1..n /\ trail[OwnersPoint].owner = busy.owner
  BY <1>1, <1>2, EndingPoint
<1>5. PICK p \in 1..n : p = OwnersPoint
  BY <1>4
<1>6. \A k \in 1..n : PoolAt(k)' = PoolAt(k)
  BY <1>1, <1>2, BeginsPopped
<1>7. p \in Nat \ {0} /\ n \in 1..n /\ \A k \in 1..(p - 1) : k \in 1..n /\ k \in 1..(n - 1)
  BY <1>2
<1>8. CASE busy' = busy /\ OwnerIsOpen'
  <2>1. busy.owner \in Owners'
    BY <1>1, <1>8 DEF OwnerIsOpen, Ending
  <2>2. PICK j \in 1..(n - 1) : trail'[j].owner = busy.owner
    BY <1>3, <2>1 DEF Owners
  <2>3. j \in 1..n /\ trail[j].owner = trail[p].owner
    BY <1>2, <1>3, <1>4, <1>5, <2>2
  <2>4. j = p
    BY <1>2, <2>3 DEF OwnersApart
  <2>5. p <= Len(trail') /\ \A k \in 1..p : k \in 1..(n - 1)
    BY <1>2, <1>3, <2>4
  <2>6. \A k \in 1..p : trail'[k].owner = trail[k].owner
    BY <1>3, <2>5
  <2>7. PoolAt(p)' = PoolAt(p) /\ \A k \in 1..(p - 1) : PoolAt(k)' = PoolAt(k)
    BY <1>6, <1>7
  <2> QED
    BY <1>1, <1>5, <1>7, <1>8, <2>5, <2>6, <2>7, LoopSeen
<1>9. CASE busy' = Idle /\ Top.owner = busy.owner
  <2>1. p = n
    BY <1>2, <1>3, <1>4, <1>5, <1>7, <1>9 DEF OwnersApart
  <2>2. busy'.op = "idle" /\ ~Ending'
    BY <1>9, LoopRecords DEF Ending
  <2>3. Depth = n - 1 /\ Depth' = n - 1
    BY <1>1, <1>3, <1>5, <2>1, <2>2, DepthIs, DepthNext
  <2>4. OpenPoints' = OpenPoints
    <3>1. /\ Points(OpenPoints, n - 1) /\ Points(OpenPoints', n - 1)
          /\ \A k \in 1..(n - 1) :
               /\ OpenPoints[k] = [owner |-> trail[k].owner, before |-> PoolAt(k)]
               /\ OpenPoints'[k] = [owner |-> trail'[k].owner, before |-> PoolAt(k)']
      BY <2>3, PointsAre
    <3>2. \A k \in 1..(n - 1) : trail'[k].owner = trail[k].owner /\ PoolAt(k)' = PoolAt(k)
      BY <1>3, <1>6, <1>7, <2>1
    <3>3. \A k \in 1..(n - 1) : OpenPoints'[k] = OpenPoints[k]
      BY <3>1, <3>2
    <3> QED
      BY <3>1, <3>3 DEF Points
  <2>5. Seen' = Current'
    BY <2>2, SeenNext
  <2>6. CASE busy.op = "abort"
    <3>1. Seen = PoolAt(n) /\ PoolAt(n)' = PoolAt(n)
      BY <1>5, <1>6, <1>7, <2>1, <2>6 DEF Seen
    <3>2. Seen' = PoolAt(n)'
      <4>1. Len(trail') + 1 = n
        BY <1>3, <1>2
      <4> QED
        BY <2>2, <4>1 DEF Seen, PoolAt, DataAt, PageAt, CyclesAt, Since
    <3> QED
      BY <2>4, <3>1, <3>2, NothingSeen
  <2>7. CASE busy.op # "abort"
    <3>1. Seen = Current /\ Current' = Current
      BY <1>1, <2>7, SeenNow DEF Current
    <3> QED
      BY <2>4, <2>5, <3>1, NothingSeen
  <2> QED
    BY <2>6, <2>7
<1> QED
  BY <1>1, <1>8, <1>9

\* The outermost transaction is committed.
LEMMA CommitFinalSeen ==
  ASSUME TypeOK, TypeOK', OwnerIsOpen, CommitFinal
  PROVE  NestedStep
<1>1. /\ Ending /\ busy.op = "commit" /\ busy' = Idle /\ Len(trail) = 1 /\ trail' = <<>>
      /\ UNCHANGED <<live, page, cycles>>
  BY DEF CommitFinal, AfterPoint, Ending, poolVars
<1>2. OwnersPoint \in 1..1
  BY <1>1, EndingPoint
<1>3. busy'.op = "idle" /\ ~Ending'
  BY <1>1, LoopRecords DEF Ending
<1>4. Depth = 0 /\ Depth' = 0
  BY <1>1, <1>2, <1>3, DepthIs, DepthNext, Len(<<>>) = 0
<1>5. OpenPoints = <<>> /\ OpenPoints' = <<>>
  BY <1>4, PointsAre, NoPoints
<1>6. Seen = Current /\ Seen' = Current' /\ Current' = Current
  BY <1>1, <1>3, SeenNow, SeenNext DEF Current
<1> QED
  BY <1>5, <1>6, NothingSeen

\* A begin.
LEMMA BeginSeen ==
  ASSUME TypeOK, TypeOK', NEW o \in Owner, Begin(o)
  PROVE  NestedStep
<1>1. /\ Len(trail') = Len(trail) + 1
      /\ \A k \in 1..Len(trail) : trail'[k] = trail[k]
      /\ trail'[Len(trail) + 1].owner = o
      /\ \A k \in 1..(Len(trail) + 1) : PoolAt(k)' = PoolAt(k)
  BY BeginsPushed
<1>2. busy = Idle /\ busy' = Idle /\ UNCHANGED <<live, page, cycles>>
  BY DEF Begin, poolVars
<1>3. /\ ~Ending /\ ~Ending' /\ busy.op # "abort" /\ busy'.op # "abort"
  BY <1>2, LoopRecords DEF Ending
<1>4. PICK n \in Nat : n = Len(trail)
  BY DEF TypeOK
<1>5. Depth = n /\ Depth' = n + 1
  BY <1>1, <1>3, <1>4, DepthIs, DepthNext
<1>6. /\ Points(OpenPoints, n) /\ Points(OpenPoints', n + 1)
      /\ \A k \in 1..n : OpenPoints[k] = [owner |-> trail[k].owner, before |-> PoolAt(k)]
      /\ \A k \in 1..(n + 1) :
           OpenPoints'[k] = [owner |-> trail'[k].owner, before |-> PoolAt(k)']
  BY <1>5, PointsAre
<1>7. n + 1 \in 1..(n + 1) /\ \A k \in 1..n : k \in 1..(n + 1)
  BY <1>4
<1>8. Seen = PoolAt(n + 1) /\ Seen = Current /\ Seen' = Current' /\ Current' = Current
  BY <1>2, <1>3, <1>4, SeenNow, SeenNext DEF Seen, Current
<1>9. OpenPoints'[n + 1] = [owner |-> o, before |-> Seen]
  BY <1>1, <1>4, <1>6, <1>7, <1>8
<1>10. \A k \in 1..n : OpenPoints'[k] = OpenPoints[k]
  BY <1>1, <1>4, <1>6, <1>7
<1>11. OpenPoints' = Append(OpenPoints, [owner |-> o, before |-> Seen])
  BY <1>4, <1>6, <1>9, <1>10, PointsAppended
<1> QED
  BY <1>8, <1>11 DEF NestedStep, Nested!Next, Nested!Begin, Seen

\* A commit or an abort.
LEMMA EndSeen ==
  ASSUME TypeOK, TypeOK', OwnerIsOpen', NEW o \in Owner, Commit(o) \/ Abort(o)
  PROVE  NestedStep
<1>1. /\ busy = Idle /\ ~Ending
      /\ UNCHANGED <<live, page, cycles, trail>>
      /\ \/ busy' = busy /\ o \notin Owners
         \/ /\ o \in Owners /\ busy'.owner = o
            /\ busy'.op = "commit" \/ busy'.op = "abort"
  BY EndingStarts
<1>2. BeginsKept
  BY <1>1, BeginsIdle
<1>3. CASE busy' = busy
  BY <1>1, <1>2, <1>3, ChangeSeen DEF Ending
<1>4. CASE busy'.op = "commit" \/ busy'.op = "abort"
  <2>1. Ending'
    BY <1>4 DEF Ending
  <2>2. PICK n \in Nat : n = Len(trail)
    BY DEF TypeOK
  <2>3. OwnersPoint' \in 1..n
    BY <1>1, <2>1, <2>2, EndingPointNext
  <2>4. PICK p \in 1..n : p = OwnersPoint'
    BY <2>3
  <2>5. Depth = n /\ Depth' = p - 1
    BY <1>1, <2>1, <2>2, <2>4, DepthIs, DepthNext
  <2>6. /\ Points(OpenPoints, n) /\ Points(OpenPoints', p - 1)
        /\ \A k \in 1..n : OpenPoints[k] = [owner |-> trail[k].owner, before |-> PoolAt(k)]
        /\ \A k \in 1..(p - 1) :
             OpenPoints'[k] = [owner |-> trail'[k].owner, before |-> PoolAt(k)']
    BY <2>5, PointsAre
  <2>7. p - 1 \in Nat /\ p - 1 <= n /\ \A k \in 1..(p - 1) : k \in 1..n
    BY <2>2
  <2>8. \A k \in 1..n : trail'[k].owner = trail[k].owner /\ PoolAt(k)' = PoolAt(k)
    BY <1>2, <2>2 DEF BeginsKept
  <2>9. \A k \in 1..(p - 1) : OpenPoints'[k] = OpenPoints[k]
    BY <2>6, <2>7, <2>8
  <2>10. OpenPoints' = SubSeq(OpenPoints, 1, p - 1)
    BY <2>2, <2>6, <2>7, <2>9, PointsCut
  <2>11. Len(OpenPoints) = n
    BY <2>6, PointsLength
  <2>12. CASE busy'.op = "commit"
    <3>1. Seen = Current /\ Seen' = Current' /\ Current' = Current
      BY <1>1, <2>12, SeenNow, SeenNext DEF Current, Ending
    <3> QED
      BY <2>4, <2>10, <2>11, <3>1 DEF NestedStep, Nested!Next, Nested!Commit, Seen
  <2>13. CASE busy'.op = "abort"
    <3>1. Seen' = PoolAt(p)'
      BY <2>4, <2>13 DEF Seen, PoolAt, DataAt, PageAt, CyclesAt, Since
    <3>2. Seen' = OpenPoints[p].before
      <4>1. PoolAt(p)' = PoolAt(p)
        BY <2>8
      <4>2. OpenPoints[p] = [owner |-> trail[p].owner, before |-> PoolAt(p)]
        BY <2>6
      <4>3. OpenPoints[p].before = PoolAt(p)
        BY <4>2
      <4> QED
        BY <3>1, <4>1, <4>3
    <3> QED
      BY <2>4, <2>10, <2>11, <3>2 DEF NestedStep, Nested!Next, Nested!Abort, Seen
  <2> QED
    BY <1>4, <2>12, <2>13
<1> QED
  BY <1>1, <1>3, <1>4

\* Every step is one of nested transactions, or shows nothing.
LEMMA StepSeen ==
  ASSUME CyclesInv, CyclesInv', OwnersApart, OwnersApart',
         "undo-in-transaction" \notin Calls, [Next]_vars
  PROVE  NestedStep
<1>0. /\ PoolInv /\ TypeOK /\ TypeOK' /\ OwnerIsOpen /\ OwnerIsOpen'
  BY DEF CyclesInv, UndoInv, PoolInv
<1>1. CASE UNCHANGED vars
  <2>1. OpenPoints' = OpenPoints
    BY <1>1 DEF vars, OpenPoints, Depth, OwnersPoint, PoolAt, DataAt, PageAt, CyclesAt, Since
  <2>2. Seen' = Seen
    BY <1>1 DEF vars, Seen, OwnersPoint, PoolAt, DataAt, PageAt, CyclesAt, Since
  <2> QED
    BY <2>1, <2>2, NothingSeen
<1>2. CASE Next
  <2>1. CASE BeginsKept /\ owing' = owing /\ ~Ending /\ ~Ending'
    BY <1>0, <2>1, ChangeSeen
  <2>2. CASE BeginsKept /\ owing' = owing /\ busy.op = "abort" /\ busy' = busy
    BY <1>0, <2>2, RestoreSeen
  <2>3. CASE CommitElement
    BY <1>0, <2>3, CommitElementSeen
  <2>4. CASE CommitInner \/ AbortPoint
    BY <1>0, <2>4, PointSeen
  <2>5. CASE CommitFinal
    BY <1>0, <2>5, CommitFinalSeen
  <2>6. CASE \E o \in Owner : Begin(o)
    BY <1>0, <2>6, BeginSeen
  <2>7. CASE \E o \in Owner : Commit(o) \/ Abort(o)
    BY <1>0, <2>7, EndSeen
  <2> QED
    BY <1>2, <2>1, <2>2, <2>3, <2>4, <2>5, <2>6, <2>7, StepKinds
<1> QED
  BY <1>1, <1>2

\* In the beginning no transaction is open.
LEMMA InitSeen ==
  ASSUME Init, TypeOK
  PROVE  Nested!Init
<1>1. busy.op = "idle" /\ Len(trail) = 0
  BY LoopRecords, Len(<<>>) = 0 DEF Init
<1>2. Depth = 0
  BY <1>1 DEF Depth
<1>3. OpenPoints = <<>>
  <2>1. Points(OpenPoints, 0)
    BY <1>2 DEF OpenPoints, Points
  <2> QED
    BY <2>1, NoPoints
<1>4. Seen \in Contents
  BY <1>1, SeenNow, CurrentTyped
<1> QED
  BY <1>3, <1>4 DEF Nested!Init, Seen

\* Whatever the order in which the owners begin and end, and whatever is done to
\* items, cycles and folders in between, the trail behaves as nested transactions:
\* an abort returns to the pool of the owner's begin, a commit keeps the pool, and
\* both end the transactions begun after it.  The user must not undo while a
\* transaction is open: what DataTTrailUndo::undo restores is recorded nowhere.
THEOREM TrailImplementsTransactions ==
  ASSUME "undo-in-transaction" \notin Calls
  PROVE  Spec => ImplementsNestedTransactions
<1>1. Spec => []OwnersApart
  BY ApartInvariant
<1>3. Init /\ CyclesInv => Nested!Init
  BY InitSeen DEF CyclesInv, UndoInv, PoolInv
<1>4. CyclesInv /\ CyclesInv' /\ OwnersApart /\ OwnersApart' /\ [Next]_vars
        => [Nested!Next]_(Nested!vars)
  BY StepSeen DEF NestedStep
<1> QED
  BY <1>1, <1>3, <1>4, CyclesInvariant, PTL DEF Spec, ImplementsNestedTransactions, Nested!Spec

(*------------------- what an owner saw when it began ---------------------*)

\* The snapshot of a pool with the cycles p.
SnapshotOf(pool, p) ==
  [data   |-> [c \in {d \in Cell : /\ d[2] \notin Omit
                                   /\ d[1] \in ToSet(p.cycles) \cup {NoCycle}}
                 |-> pool.data[c]],
   page   |-> pool.page,
   cycles |-> p.cycles,
   actual |-> p.actual]

\* A commit moves the elements of the transactions from its owner's on.
Outside(k) ==
  busy.op = "commit" => \E j \in 1..Len(trail) : k < j /\ trail[j].owner = busy.owner

\* The trail tells of the begins of its transactions what their owners saw.
Remembered ==
  \E g : /\ Accounted(trail, CyclesNow, g)
         /\ \A k \in 1..Len(trail) :
              Outside(k) => begun[trail[k].owner] = SnapshotOf(PoolAt(k), g[k])

\* The snapshot of now.
LEMMA SnapshotNow == TypeOK => Snapshot = SnapshotOf(Current, CyclesNow)
<1> SUFFICES ASSUME TypeOK
             PROVE  Snapshot = SnapshotOf(Current, CyclesNow)
  OBVIOUS
<1> DEFINE seen == {d \in Cell : d[2] \notin Omit /\ d[1] \in ToSet(cycles) \cup {NoCycle}}
<1>1. CyclesNow.cycles = cycles /\ CyclesNow.actual = actual
  BY DEF CyclesNow
<1>2. \A c \in seen : Current.data[c] = live[c]
  BY DEF Current, TrackedCell
<1>3. [c \in seen |-> Current.data[c]] = [c \in seen |-> live[c]]
  BY <1>2
<1>4. Current.page = page
  BY DEF Current, TypeOK
<1> QED
  BY <1>1, <1>3, <1>4 DEF Snapshot, SnapshotOf

\* The same of the next state.
LEMMA SnapshotNext == (TypeOK => Snapshot = SnapshotOf(Current, CyclesNow))'
BY SnapshotNow, PTL

\* A transaction without elements began with the cycles of now.
LEMMA BeganNow ==
  ASSUME TypeOK, trail # <<>>, Top.log = <<>>, NEW g, Accounted(trail, CyclesNow, g)
  PROVE  g[Len(trail)] = CyclesNow
<1>1. PICK past : Pasts(trail, CyclesNow, past) /\ \A k \in 1..Len(trail) : past[k][1] = g[k]
  BY DEF Accounted
<1>2. Len(trail) \in 1..Len(trail) /\ Len(trail[Len(trail)].log) = 0
  BY TopInTrail, Len(<<>>) = 0 DEF Top
<1>3. past[Len(trail)][1] = CyclesNow
  BY <1>1, <1>2 DEF Pasts
<1> QED
  BY <1>1, <1>2, <1>3

\* In the beginning there is nothing to remember.
LEMMA RememberedInit ==
  ASSUME HistoryInit, PoolInv
  PROVE  Remembered
<1>1. Len(trail) = 0
  BY Len(<<>>) = 0 DEF HistoryInit, Init
<1> QED
  BY <1>1 DEF Remembered, PoolInv

\* Every step of the trail keeps what it tells, and only a begin is remembered anew.
LEMMA RememberedStep ==
  ASSUME CyclesInv, CyclesInv', OwnersApart, Remembered,
         "undo-in-transaction" \notin Calls, [HistoryNext]_<<vars, begun>>
  PROVE  Remembered'
<1>0. /\ PoolInv /\ TypeOK /\ TypeOK' /\ OwnerIsOpen /\ OwnerIsOpen'
      /\ Len(trail) \in Nat /\ Len(trail') \in Nat
  BY DEF CyclesInv, UndoInv, PoolInv, TypeOK
<1>1. CASE UNCHANGED <<vars, begun>>
  <2>1. trail' = trail /\ CyclesNow' = CyclesNow /\ begun' = begun
    BY <1>1 DEF vars, CyclesNow
  <2>2. \A k \in 1..Len(trail) : PoolAt(k)' = PoolAt(k)
    BY <1>1, BeginsIdle DEF vars, BeginsKept
  <2>3. \A k : Outside(k)' <=> Outside(k)
    BY <1>1 DEF vars, Outside
  <2> QED
    BY <2>1, <2>2, <2>3 DEF Remembered
<1>2. CASE HistoryNext
  <2>1. Next /\ [Next]_vars
    BY <1>2 DEF HistoryNext
  <2>2. PICK g : /\ Accounted(trail, CyclesNow, g)
                 /\ \A k \in 1..Len(trail) :
                      Outside(k) => begun[trail[k].owner] = SnapshotOf(PoolAt(k), g[k])
    BY DEF Remembered
  <2>3. PICK h : Accounted(trail', CyclesNow', h) /\ Continued(g, h)
    BY <1>0, <2>1, <2>2, AccountedStep
  <2>4. \A o \in Owner : begun'[o] = IF o \in owing' \ owing THEN Snapshot ELSE begun[o]
    BY <1>2 DEF HistoryNext
  <2>5. \A k \in 1..Len(trail') : trail'[k].owner \in Owner
    BY <1>0, SegmentFields DEF TypeOK
  <2> DEFINE Goal(k) == Outside(k)' => begun'[trail'[k].owner] = SnapshotOf(PoolAt(k)', h[k])
  <2>6. ASSUME NEW k \in 1..Len(trail'), k <= Len(trail), busy.op = "commit" => k < Len(trail),
               trail'[k].owner = trail[k].owner, trail[k].owner \notin owing' \ owing,
               PoolAt(k)' = PoolAt(k), Outside(k)
        PROVE  Goal(k)
    <3>1. h[k] = g[k]
      BY <2>3, <2>6 DEF Continued
    <3>2. k \in 1..Len(trail)
      BY <1>0, <2>6
    <3>3. begun'[trail'[k].owner] = begun[trail[k].owner]
      BY <2>4, <2>5, <2>6
    <3> QED
      BY <2>2, <2>6, <3>1, <3>2, <3>3
  <2>7. ASSUME BeginsKept, owing' \subseteq owing, busy.op # "commit", NEW k \in 1..Len(trail')
        PROVE  Goal(k)
    <3>1. k \in 1..Len(trail) /\ k <= Len(trail) /\ Outside(k)
      BY <1>0, <2>7 DEF BeginsKept, Outside
    <3> QED
      BY <2>6, <2>7, <3>1 DEF BeginsKept
  <2> HIDE DEF Goal
  <2>8. ASSUME CommitElement, NEW k \in 1..Len(trail')
        PROVE  Goal(k)
    <3>1. busy' = busy /\ owing' = owing /\ busy.op = "commit"
      BY <2>8 DEF CommitElement
    <3>2. /\ Len(trail') = Len(trail)
          /\ \A j \in 1..Len(trail) : trail'[j].owner = trail[j].owner
          /\ \A j \in 1..(Len(trail) - 1) : PoolAt(j)' = PoolAt(j)
      BY <1>0, <2>8, BeginsMoved
    <3>3. SUFFICES ASSUME Outside(k)'
                   PROVE  Goal(k)
      BY DEF Goal
    <3>4. Outside(k)
      BY <3>1, <3>2, <3>3 DEF Outside
    <3>5. k < Len(trail) /\ k <= Len(trail) /\ k \in 1..Len(trail) /\ k \in 1..(Len(trail) - 1)
      BY <1>0, <2>8, <3>1, <3>2, <3>4 DEF Outside
    <3> QED
      BY <2>6, <2>8, <3>1, <3>2, <3>4, <3>5
  <2>9. ASSUME CommitInner \/ AbortPoint, NEW k \in 1..Len(trail')
        PROVE  Goal(k)
    <3>1. /\ trail # <<>> /\ Top.log = <<>> /\ trail' = Front(trail)
          /\ UNCHANGED <<live, page, cycles>>
          /\ \/ busy' = busy /\ OwnerIsOpen'
             \/ busy' = Idle /\ Top.owner = busy.owner
      BY <1>0, <2>9, ApartLoop
    <3>2. owing' = owing
      BY <2>9 DEF CommitInner, AbortPoint
    <3>3. /\ Len(trail') = Len(trail) - 1
          /\ \A j \in 1..(Len(trail) - 1) : trail'[j] = trail[j]
      BY <1>0, <3>1, FrontOfTrail
    <3>4. /\ k \in 1..(Len(trail) - 1) /\ k \in 1..Len(trail) /\ k < Len(trail) /\ k <= Len(trail)
          /\ Len(trail) \in 1..Len(trail)
      BY <1>0, <2>9, <3>3
    <3>5. trail'[k].owner = trail[k].owner /\ PoolAt(k)' = PoolAt(k)
      BY <1>0, <3>1, <3>3, <3>4, BeginsPopped
    <3>6. SUFFICES ASSUME Outside(k)'
                   PROVE  Goal(k)
      BY DEF Goal
    <3>7. Outside(k)
      <4>1. CASE busy' = busy
        BY <1>0, <3>3, <3>6, <4>1 DEF Outside
      <4>2. CASE Top.owner = busy.owner
        BY <3>4, <4>2 DEF Outside, Top
      <4> QED
        BY <3>1, <4>1, <4>2
    <3> QED
      BY <2>6, <2>9, <3>2, <3>4, <3>5, <3>7
  <2>10. ASSUME CommitFinal, NEW k \in 1..Len(trail')
         PROVE  Goal(k)
    BY <2>10, Len(<<>>) = 0 DEF CommitFinal
  <2>11. ASSUME NEW o \in Owner, Begin(o), NEW k \in 1..Len(trail')
         PROVE  Goal(k)
    <3>1. /\ Len(trail') = Len(trail) + 1
          /\ \A j \in 1..Len(trail) : trail'[j] = trail[j]
          /\ trail'[Len(trail) + 1].owner = o
          /\ \A j \in 1..(Len(trail) + 1) : PoolAt(j)' = PoolAt(j)
      BY <1>0, <2>11, BeginsPushed
    <3>2. o \notin owing /\ owing' = owing \cup {o} /\ ~Ending /\ busy.op # "commit"
      BY <2>11, LoopRecords DEF Begin, Ending
    <3>3. CASE k \in 1..Len(trail)
      <4>1. trail[k].owner \in owing /\ Outside(k) /\ k <= Len(trail)
        BY <1>0, <3>2, <3>3 DEF OwnersApart, Outside
      <4>2. PoolAt(k)' = PoolAt(k)
        BY <2>11, <3>1
      <4> QED
        BY <2>6, <2>11, <3>1, <3>2, <3>3, <4>1, <4>2
    <3>4. CASE k = Len(trail) + 1
      <4>1. h[k] = CyclesNow
        BY <1>0, <2>3, <2>11, <3>4 DEF Continued
      <4>2. begun'[trail'[k].owner] = Snapshot
        BY <2>4, <3>1, <3>2, <3>4
      <4>3. PoolAt(k)' = PoolAt(k)
        BY <2>11, <3>1
      <4>4. PoolAt(k) = Current
        BY <1>0, <3>4, PoolNow
      <4> QED
        BY <1>0, <4>1, <4>2, <4>3, <4>4, SnapshotNow DEF Goal
    <3> QED
      BY <1>0, <2>11, <3>1, <3>3, <3>4
  <2>12. ASSUME NEW o \in Owner, Commit(o) \/ Abort(o), NEW k \in 1..Len(trail')
         PROVE  Goal(k)
    <3>1. /\ ~Ending /\ owing' = owing \ {o} /\ UNCHANGED <<live, page, cycles, trail>>
      BY <1>0, <2>12, EndingStarts
    <3>2. BeginsKept
      BY <3>1, BeginsIdle
    <3> QED
      BY <2>7, <2>12, <3>1, <3>2 DEF Ending
  <2>13. ASSUME NEW k \in 1..Len(trail')
         PROVE  Goal(k)
    BY <2>1, <2>7, <2>8, <2>9, <2>10, <2>11, <2>12, <2>13, StepKinds DEF Ending
  <2> QED
    BY <2>3, <2>13 DEF Remembered, Goal
<1> QED
  BY <1>1, <1>2

\* The end of an abort.
LEMMA AbortDone ==
  ASSUME CyclesInv, CyclesInv', OwnersApart, Remembered,
         "undo-in-transaction" \notin Calls, [HistoryNext]_<<vars, begun>>,
         busy.op = "abort", busy' = Idle
  PROVE  Snapshot' = begun[busy.owner]
<1>0. PoolInv /\ TypeOK /\ TypeOK'
  BY DEF CyclesInv, UndoInv, PoolInv
<1>1. busy' # busy
  BY LoopRecords
<1>2. AbortPoint
  <2>1. Next
    BY <1>1 DEF HistoryNext, vars
  <2>2. ~CommitElement /\ ~CommitInner /\ ~CommitFinal
    BY DEF CommitElement, CommitInner, CommitFinal
  <2>3. \A o \in Owner : ~Begin(o) /\ ~Commit(o) /\ ~Abort(o)
    BY <1>1 DEF Begin, Commit, Abort
  <2> QED
    BY <1>1, <2>1, <2>2, <2>3, StepKinds DEF Ending
<1>3. /\ trail # <<>> /\ Top.log = <<>> /\ trail' = Front(trail)
      /\ UNCHANGED <<live, page, cycles>> /\ Top.owner = busy.owner
  BY <1>0, <1>1, <1>2, ApartLoop
<1>4. PICK n \in Nat \ {0} : n = Len(trail)
  BY <1>0, <1>3, TopInTrail
<1>5. Len(trail') + 1 = n /\ n \in 1..Len(trail)
  BY <1>0, <1>3, <1>4, FrontOfTrail
<1>6. PICK g : /\ Accounted(trail, CyclesNow, g)
               /\ \A k \in 1..Len(trail) :
                    Outside(k) => begun[trail[k].owner] = SnapshotOf(PoolAt(k), g[k])
  BY DEF Remembered
<1>7. begun[busy.owner] = SnapshotOf(PoolAt(n), g[n])
  BY <1>3, <1>4, <1>5, <1>6 DEF Outside, Top
<1>8. g[n] = CyclesNow /\ CyclesNow' = CyclesNow
  <2>1. actual' = actual
    BY <1>2 DEF AbortPoint, poolVars
  <2> QED
    BY <1>0, <1>3, <1>4, <1>6, <2>1, BeganNow DEF CyclesNow
<1>9. PoolAt(n) = Current'
  <2>1. PoolAt(n)' = PoolAt(n)
    BY <1>0, <1>3, <1>5, BeginsPopped
  <2>2. PoolAt(n)' = Current'
    BY <1>0, <1>5, PoolNext DEF PoolAt, DataAt, PageAt, CyclesAt, Since
  <2> QED
    BY <2>1, <2>2
<1> QED
  BY <1>0, <1>7, <1>8, <1>9, SnapshotNext

\* However an owner's transaction went, with inner transactions committed, aborted
\* or swallowed in it, with items, folders and cycles changed, made and deleted:
\* its abort ends with the data, the pages, the cycles in their order and the actual
\* cycle that there were when the owner began.
THEOREM AbortsRestoreAll ==
  ASSUME "undo-in-transaction" \notin Calls
  PROVE  HistorySpec => AbortRestores
<1>1. HistorySpec => Spec
  <2>1. HistoryInit => Init
    BY DEF HistoryInit
  <2>2. [HistoryNext]_<<vars, begun>> => [Next]_vars
    BY DEF HistoryNext
  <2> QED
    BY <2>1, <2>2, PTL DEF HistorySpec, Spec
<1>2. Spec => []OwnersApart
  BY ApartInvariant
<1>3. HistoryInit /\ CyclesInv => Remembered
  BY RememberedInit DEF CyclesInv, UndoInv
<1>4. CyclesInv /\ CyclesInv' /\ OwnersApart /\ Remembered /\ [HistoryNext]_<<vars, begun>>
        => Remembered'
  BY RememberedStep
<1>5. CyclesInv /\ CyclesInv' /\ OwnersApart /\ Remembered /\ [HistoryNext]_<<vars, begun>>
        => (busy.op = "abort" /\ busy' = Idle => Snapshot' = begun[busy.owner])
  BY AbortDone
<1> QED
  BY <1>1, <1>2, <1>3, <1>4, <1>5, CyclesInvariant, PTL DEF HistorySpec, AbortRestores

(*------------------- what the entries of a list bring back ----------------*)

\* An element of S in the entry brings back v.
Told(log, S, v) == \E i \in 1..Len(log) : log[i] \in S /\ v = Old(log[i])

\* What is `now` will be v again when the entries from k on are undone, by their
\* elements of S.
Back(list, k, S, now, v) ==
  \/ v = now /\ \A i \in k..Len(list) : ~Has(list[i], S)
  \/ \E i \in k..Len(list) : /\ Told(list[i], S, v)
                             /\ \A m \in k..(i - 1) : ~Has(list[m], S)

\* The entry has at most one element of S.
Alone(log, S) == \A i, j \in 1..Len(log) : log[i] \in S /\ log[j] \in S => i = j

\* The elements of S in the entry lead from `is` back to `was`.
Leads(log, S, was, is) ==
  /\ \A i \in 1..Len(log) : log[i] \in S => Old(log[i]) = was
  /\ ~Has(log, S) => is = was

\* There is one content to go back to.
LEMMA BackIsOne ==
  ASSUME NEW list, Len(list) \in Nat, NEW k \in Nat \ {0}, NEW S, NEW now, NEW v, NEW w,
         \A i \in 1..Len(list) : Alone(list[i], S),
         Back(list, k, S, now, v), Back(list, k, S, now, w)
  PROVE  v = w
<1>1. \A i \in k..Len(list) : i \in Nat /\ i \in 1..Len(list)
  OBVIOUS
<1>2. \A i, x : Told(list[i], S, x) => Has(list[i], S)
  BY DEF Told, Has
<1>3. CASE \A i \in k..Len(list) : ~Has(list[i], S)
  BY <1>2, <1>3 DEF Back
<1>4. CASE ~\A i \in k..Len(list) : ~Has(list[i], S)
  <2>1. PICK i \in k..Len(list) : /\ Told(list[i], S, v)
                                  /\ \A m \in k..(i - 1) : ~Has(list[m], S)
    BY <1>4 DEF Back
  <2>2. PICK j \in k..Len(list) : /\ Told(list[j], S, w)
                                  /\ \A m \in k..(j - 1) : ~Has(list[m], S)
    BY <1>4 DEF Back
  <2>3. ~(i < j) /\ ~(j < i)
    <3>1. i < j => i \in k..(j - 1)
      BY <1>1
    <3>2. j < i => j \in k..(i - 1)
      BY <1>1
    <3> QED
      BY <1>2, <2>1, <2>2, <3>1, <3>2
  <2>4. i = j /\ Alone(list[i], S)
    BY <1>1, <2>3
  <2> QED
    BY <2>1, <2>2, <2>4 DEF Told, Alone
<1> QED
  BY <1>3, <1>4

\* A new entry leads back from the new content to the one there was, and from
\* there the others lead on.
LEMMA BackAppended ==
  ASSUME NEW T, NEW list \in Seq(T), NEW e \in T, NEW k \in 1..(Len(list) + 1), NEW S,
         NEW was, NEW is, Leads(e, S, was, is), NEW v
  PROVE  Back(Append(list, e), k, S, is, v) <=> Back(list, k, S, was, v)
<1> DEFINE a == Append(list, e)
           n == Len(list)
<1>1. /\ n \in Nat /\ k \in Nat \ {0} /\ Len(a) = n + 1 /\ a[n + 1] = e
      /\ \A i \in 1..n : a[i] = list[i]
  OBVIOUS
<1> HIDE DEF a, n
<1>2. /\ \A i \in k..(n + 1) : i = n + 1 \/ i \in k..n
      /\ \A i \in k..n : i \in k..(n + 1) /\ a[i] = list[i]
      /\ \A i \in k..n : \A m \in k..(i - 1) : m \in k..n
      /\ n + 1 \in k..(n + 1) /\ (n + 1) - 1 = n
  BY <1>1 DEF n
<1>3. Told(e, S, v) <=> Has(e, S) /\ v = was
  BY DEF Told, Has, Leads
<1>4. ASSUME Back(a, k, S, is, v)
      PROVE  Back(list, k, S, was, v)
  <2>1. CASE v = is /\ \A i \in k..(n + 1) : ~Has(a[i], S)
    <3>1. ~Has(e, S) /\ \A i \in k..n : ~Has(list[i], S)
      BY <1>1, <1>2, <2>1
    <3> QED
      BY <2>1, <3>1 DEF Back, Leads, n
  <2>2. ASSUME NEW i \in k..(n + 1), Told(a[i], S, v), \A m \in k..(i - 1) : ~Has(a[m], S)
        PROVE  Back(list, k, S, was, v)
    <3>1. CASE i = n + 1
      <4>1. v = was /\ \A m \in k..n : ~Has(list[m], S)
        BY <1>1, <1>2, <1>3, <2>2, <3>1
      <4> QED
        BY <4>1 DEF Back, n
    <3>2. CASE i \in k..n
      <4>1. Told(list[i], S, v) /\ \A m \in k..(i - 1) : ~Has(list[m], S)
        BY <1>2, <2>2, <3>2
      <4> QED
        BY <3>2, <4>1 DEF Back, n
    <3> QED
      BY <1>2, <3>1, <3>2
  <2> QED
    BY <1>1, <1>4, <2>1, <2>2 DEF Back
<1>5. ASSUME Back(list, k, S, was, v)
      PROVE  Back(a, k, S, is, v)
  <2>1. CASE v = was /\ \A i \in k..n : ~Has(list[i], S)
    <3>1. \A i \in k..n : ~Has(a[i], S)
      BY <1>2, <2>1
    <3>2. CASE Has(e, S)
      <4>1. Told(a[n + 1], S, v)
        BY <1>1, <1>3, <2>1, <3>2
      <4> QED
        BY <1>1, <1>2, <3>1, <4>1 DEF Back
    <3>3. CASE ~Has(e, S)
      <4>1. v = is /\ \A i \in k..(n + 1) : ~Has(a[i], S)
        BY <1>1, <1>2, <2>1, <3>1, <3>3 DEF Leads
      <4> QED
        BY <1>1, <4>1 DEF Back
    <3> QED
      BY <3>2, <3>3
  <2>2. ASSUME NEW i \in k..n, Told(list[i], S, v), \A m \in k..(i - 1) : ~Has(list[m], S)
        PROVE  Back(a, k, S, is, v)
    <3>1. i \in k..Len(a) /\ Told(a[i], S, v)
      BY <1>1, <1>2, <2>2
    <3>2. \A m \in k..(i - 1) : ~Has(a[m], S)
      BY <1>2, <2>2
    <3> QED
      BY <3>1, <3>2 DEF Back
  <2> QED
    BY <1>5, <2>1, <2>2 DEF Back, n
<1> QED
  BY <1>4, <1>5 DEF a

\* The oldest entry is forgotten.
LEMMA BackTail ==
  ASSUME NEW T, NEW list \in Seq(T), list # <<>>, NEW k \in Nat \ {0}, NEW S, NEW now, NEW v
  PROVE  Back(Tail(list), k, S, now, v) <=> Back(list, k + 1, S, now, v)
<1> DEFINE t == Tail(list)
           n == Len(list)
<1>1. /\ n \in Nat \ {0} /\ Len(t) = n - 1
      /\ \A i \in 1..(n - 1) : t[i] = list[i + 1]
  BY TailOfSeq, NonEmptySeq
<1> HIDE DEF t, n
<1>2. /\ \A i \in k..(n - 1) : i + 1 \in (k + 1)..n /\ t[i] = list[i + 1]
      /\ \A i \in (k + 1)..n : i - 1 \in k..(n - 1) /\ t[i - 1] = list[i]
  BY <1>1
<1>3. (\A i \in k..(n - 1) : ~Has(t[i], S)) <=> (\A i \in (k + 1)..n : ~Has(list[i], S))
  BY <1>2
<1>4. ASSUME NEW i \in k..(n - 1)
      PROVE  (\A m \in k..(i - 1) : ~Has(t[m], S))
             <=> (\A m \in (k + 1)..((i + 1) - 1) : ~Has(list[m], S))
  <2>1. /\ \A m \in k..(i - 1) : m \in k..(n - 1) /\ m + 1 \in (k + 1)..((i + 1) - 1)
        /\ \A m \in (k + 1)..((i + 1) - 1) : m \in (k + 1)..n /\ m - 1 \in k..(i - 1)
    BY <1>1
  <2> QED
    BY <1>2, <2>1
<1>5. \A i \in (k + 1)..n : (i - 1) + 1 = i
  OBVIOUS
<1>6. (\E i \in k..(n - 1) : Told(t[i], S, v) /\ \A m \in k..(i - 1) : ~Has(t[m], S))
      <=> (\E i \in (k + 1)..n : Told(list[i], S, v) /\ \A m \in (k + 1)..(i - 1) : ~Has(list[m], S))
  <2>1. ASSUME NEW i \in k..(n - 1), Told(t[i], S, v), \A m \in k..(i - 1) : ~Has(t[m], S)
        PROVE  \E j \in (k + 1)..n : Told(list[j], S, v) /\ \A m \in (k + 1)..(j - 1) : ~Has(list[m], S)
    <3>1. i + 1 \in (k + 1)..n /\ Told(list[i + 1], S, v)
      BY <1>2, <2>1
    <3> QED
      BY <1>4, <2>1, <3>1
  <2>2. ASSUME NEW j \in (k + 1)..n, Told(list[j], S, v), \A m \in (k + 1)..(j - 1) : ~Has(list[m], S)
        PROVE  \E i \in k..(n - 1) : Told(t[i], S, v) /\ \A m \in k..(i - 1) : ~Has(t[m], S)
    <3>1. j - 1 \in k..(n - 1) /\ Told(t[j - 1], S, v) /\ (j - 1) + 1 = j
      BY <1>2, <1>5, <2>2
    <3> QED
      BY <1>4, <2>2, <3>1
  <2> QED
    BY <2>1, <2>2
<1> QED
  BY <1>1, <1>3, <1>6 DEF Back, t, n

\* No entry is left.
LEMMA BackNone ==
  ASSUME NEW list, Len(list) \in Nat, NEW S, NEW now, NEW v
  PROVE  Back(list, Len(list) + 1, S, now, v) <=> v = now
<1>1. (Len(list) + 1)..Len(list) = {}
  OBVIOUS
<1> QED
  BY <1>1 DEF Back

\* Every entry concerns an item once and switches a folder once.
Single(list) ==
  \A i \in 1..Len(list) : /\ \A c \in TrackedCell : Alone(list[i], ItemsOf(c))
                          /\ \A f \in Folder : Alone(list[i], SwitchesOf(f))

\* The pool, now p, that the entries of the list from k on lead back to.
Returned(p, list, k) ==
  [data |-> [c \in TrackedCell |->
               LET at == {i \in k..Len(list) : Holds(list[i], c)}
               IN  IF at = {} THEN p.data[c] ELSE SavedIn(list[First(at)], c)],
   page |-> [f \in Folder |->
               LET at == {i \in k..Len(list) : Switches(list[i], f) # {}}
                   log == list[First(at)]
               IN  IF at = {} THEN p.page[f] ELSE log[LastOf(Switches(log, f))].to]]

\* The entry leads from the pool q back to p.
LeadsBack(e, p, q) ==
  /\ \A c \in TrackedCell : Leads(e, ItemsOf(c), p.data[c], q.data[c])
  /\ \A f \in Folder : Leads(e, SwitchesOf(f), p.page[f], q.page[f])

\* What it leads back to is what the elements of each item bring back ...
LEMMA ItemReturned ==
  ASSUME NEW list \in Seq(Seq(Undoable)), NEW k \in Nat \ {0}, NEW c, NEW now
  PROVE  LET at == {i \in k..Len(list) : Holds(list[i], c)}
         IN  Back(list, k, ItemsOf(c), now, IF at = {} THEN now ELSE SavedIn(list[First(at)], c))
<1> DEFINE at == {i \in k..Len(list) : Holds(list[i], c)}
           S == ItemsOf(c)
<1>1. ASSUME NEW j \in k..Len(list)
      PROVE  /\ Len(list[j]) \in Nat
             /\ \A i \in 1..Len(list[j]) :
                  list[j][i] \in S <=> list[j][i].kind = "item" /\ list[j][i].cell = c
  <2>1. j \in 1..Len(list)
    OBVIOUS
  <2>2. list[j] \in Seq(Undoable)
    BY <2>1
  <2>3. \A i \in 1..Len(list[j]) : list[j][i] \in Element
    BY <2>2, UndoableIsElement
  <2> QED
    BY <2>2, <2>3 DEF ItemsOf
<1> HIDE DEF S
<1>2. \A j \in k..Len(list) : j \in at <=> Has(list[j], S)
  BY <1>1 DEF Holds, Has
<1>3. CASE at = {}
  BY <1>2, <1>3 DEF Back, S
<1>4. CASE at # {}
  <2> DEFINE j == First(at)
             log == list[j]
             pos == {i \in 1..Len(log) : log[i].kind = "item" /\ log[i].cell = c}
             i == First(pos)
  <2>1. j \in k..Len(list) /\ j \in at /\ \A m \in k..(j - 1) : m \notin at
    <3>1. at \in SUBSET (k..Len(list)) /\ Len(list) \in Nat
      OBVIOUS
    <3> HIDE DEF at
    <3> QED
      BY <1>4, <3>1, FirstFrom
  <2>2. \A m \in k..(j - 1) : m \in k..Len(list)
    BY <2>1
  <2>3. \A m \in k..(j - 1) : ~Has(list[m], S)
    BY <1>2, <2>1, <2>2
  <2> HIDE DEF j, at
  <2>4. pos # {} /\ Len(log) \in Nat
    BY <1>1, <1>2, <2>1 DEF Has
  <2>5. i \in pos
    <3>1. pos \in SUBSET (1..Len(log))
      OBVIOUS
    <3> HIDE DEF pos, log
    <3>2. First(pos) \in pos
      BY <2>4, <3>1, FirstOfSet
    <3> QED
      BY <3>2
  <2>6. i \in 1..Len(log) /\ log[i] \in S /\ log[i].saved = Old(log[i])
    BY <1>1, <2>1, <2>5 DEF Old
  <2>7. SavedIn(log, c) = log[i].saved
    BY DEF SavedIn
  <2>8. Told(log, S, SavedIn(log, c))
    <3> HIDE DEF log, i
    <3> QED
      BY <2>6, <2>7 DEF Told
  <2>9. Back(list, k, S, now, SavedIn(list[First(at)], c))
    BY <2>1, <2>3, <2>8 DEF Back, j
  <2> QED
    BY <1>4, <2>9 DEF at, S
<1> QED
  BY <1>3, <1>4

\* ... and of each folder.
LEMMA PageReturned ==
  ASSUME NEW list \in Seq(Seq(Undoable)), NEW k \in Nat \ {0}, NEW f, NEW now
  PROVE  LET at == {i \in k..Len(list) : Switches(list[i], f) # {}}
             log == list[First(at)]
         IN  Back(list, k, SwitchesOf(f), now,
                  IF at = {} THEN now ELSE log[LastOf(Switches(log, f))].to)
<1> DEFINE at == {i \in k..Len(list) : Switches(list[i], f) # {}}
           S == SwitchesOf(f)
<1>1. ASSUME NEW j \in k..Len(list)
      PROVE  /\ Len(list[j]) \in Nat
             /\ \A i \in 1..Len(list[j]) :
                  list[j][i] \in S <=> list[j][i].kind = "action" /\ list[j][i].folder = f
  <2>1. j \in 1..Len(list)
    OBVIOUS
  <2>2. list[j] \in Seq(Undoable)
    BY <2>1
  <2>3. \A i \in 1..Len(list[j]) : list[j][i] \in Element
    BY <2>2, UndoableIsElement
  <2> QED
    BY <2>2, <2>3 DEF SwitchesOf
<1> HIDE DEF S
<1>2. \A j \in k..Len(list) : j \in at <=> Has(list[j], S)
  BY <1>1 DEF Switches, Has
<1>3. CASE at = {}
  BY <1>2, <1>3 DEF Back, S
<1>4. CASE at # {}
  <2> DEFINE j == First(at)
             log == list[j]
             pos == Switches(log, f)
             i == LastOf(pos)
  <2>1. j \in k..Len(list) /\ j \in at /\ \A m \in k..(j - 1) : m \notin at
    <3>1. at \in SUBSET (k..Len(list)) /\ Len(list) \in Nat
      OBVIOUS
    <3> HIDE DEF at
    <3> QED
      BY <1>4, <3>1, FirstFrom
  <2>2. \A m \in k..(j - 1) : m \in k..Len(list)
    BY <2>1
  <2>3. \A m \in k..(j - 1) : ~Has(list[m], S)
    BY <1>2, <2>1, <2>2
  <2>4. pos # {} /\ Len(log) \in Nat
    BY <1>1, <2>1
  <2> HIDE DEF j, at
  <2>5. i \in pos
    <3>1. pos \in SUBSET (1..Len(log))
      BY DEF Switches
    <3> HIDE DEF pos, log
    <3>2. LastOf(pos) \in pos
      BY <2>4, <3>1, LastOfSet
    <3> QED
      BY <3>2
  <2>6. i \in 1..Len(log) /\ log[i] \in S /\ log[i].to = Old(log[i])
    <3>1. i \in 1..Len(log) /\ log[i].kind = "action" /\ log[i].folder = f
      BY <2>5 DEF Switches
    <3> QED
      BY <1>1, <2>1, <3>1 DEF Old
  <2>7. Told(log, S, log[LastOf(pos)].to)
    <3>1. i = LastOf(pos)
      OBVIOUS
    <3> HIDE DEF log, i, pos
    <3> QED
      BY <2>6, <3>1 DEF Told
  <2>8. Back(list, k, S, now, log[LastOf(pos)].to)
    BY <2>1, <2>3, <2>7 DEF Back
  <2> QED
    BY <1>4, <2>8 DEF at, S, j
<1> QED
  BY <1>3, <1>4

\* A pool is told by its items and its folders.
ToldByParts(z) ==
  /\ z = [data |-> z.data, page |-> z.page]
  /\ z.data = [c \in TrackedCell |-> z.data[c]]
  /\ z.page = [f \in Folder |-> z.page[f]]

\* So is what entries lead back to.
LEMMA ReturnedParts ==
  ASSUME NEW r, NEW l, NEW i, NEW z, z = Returned(r, l, i)
  PROVE  ToldByParts(z)
<1> DEFINE D(c) == LET at == {m \in i..Len(l) : Holds(l[m], c)}
                   IN  IF at = {} THEN r.data[c] ELSE SavedIn(l[First(at)], c)
           P(f) == LET at == {m \in i..Len(l) : Switches(l[m], f) # {}}
                       log == l[First(at)]
                   IN  IF at = {} THEN r.page[f] ELSE log[LastOf(Switches(log, f))].to
<1>1. z = [data |-> [c \in TrackedCell |-> D(c)], page |-> [f \in Folder |-> P(f)]]
  BY DEF Returned
<1> HIDE DEF D, P
<1>2. z.data = [c \in TrackedCell |-> D(c)] /\ z.page = [f \in Folder |-> P(f)]
  BY <1>1
<1> QED
  BY <1>1, <1>2 DEF ToldByParts

\* From entry j of a on and from entry k of b on the elements bring back the same.
SameBack(p, a, j, q, b, k) ==
  /\ \A c \in TrackedCell : \A v :
       Back(a, j, ItemsOf(c), p.data[c], v) <=> Back(b, k, ItemsOf(c), q.data[c], v)
  /\ \A f \in Folder : \A v :
       Back(a, j, SwitchesOf(f), p.page[f], v) <=> Back(b, k, SwitchesOf(f), q.page[f], v)

\* Then they lead back to the same pool.
LEMMA ReturnedSame ==
  ASSUME NEW a \in Seq(Seq(Undoable)), NEW b \in Seq(Seq(Undoable)), Single(b),
         NEW j \in Nat \ {0}, NEW k \in Nat \ {0}, NEW p, NEW q,
         SameBack(p, a, j, q, b, k)
  PROVE  Returned(p, a, j) = Returned(q, b, k)
<1> DEFINE x == Returned(p, a, j)
           y == Returned(q, b, k)
<1>1. ASSUME NEW c \in TrackedCell
      PROVE  x.data[c] = y.data[c]
  <2>1. Back(a, j, ItemsOf(c), p.data[c], x.data[c])
    BY ItemReturned DEF Returned
  <2>2. Back(b, k, ItemsOf(c), q.data[c], y.data[c])
    BY ItemReturned DEF Returned
  <2>3. Len(b) \in Nat /\ \A i \in 1..Len(b) : Alone(b[i], ItemsOf(c))
    BY DEF Single
  <2> HIDE DEF x, y
  <2>4. Back(b, k, ItemsOf(c), q.data[c], x.data[c])
    BY <2>1 DEF SameBack
  <2>5. k \in Nat \ {0}
    OBVIOUS
  <2> QED
    BY ONLY <2>2, <2>3, <2>4, <2>5, BackIsOne
<1>2. ASSUME NEW f \in Folder
      PROVE  x.page[f] = y.page[f]
  <2>1. Back(a, j, SwitchesOf(f), p.page[f], x.page[f])
    BY PageReturned DEF Returned
  <2>2. Back(b, k, SwitchesOf(f), q.page[f], y.page[f])
    BY PageReturned DEF Returned
  <2>3. Len(b) \in Nat /\ \A i \in 1..Len(b) : Alone(b[i], SwitchesOf(f))
    BY DEF Single
  <2> HIDE DEF x, y
  <2>4. Back(b, k, SwitchesOf(f), q.page[f], x.page[f])
    BY <2>1 DEF SameBack
  <2>5. k \in Nat \ {0}
    OBVIOUS
  <2> QED
    BY ONLY <2>2, <2>3, <2>4, <2>5, BackIsOne
<1>3. x = Returned(p, a, j) /\ y = Returned(q, b, k)
  OBVIOUS
<1> HIDE DEF x, y
<1>4. ToldByParts(x) /\ ToldByParts(y)
  BY <1>3, ReturnedParts
<1>5. /\ [c \in TrackedCell |-> x.data[c]] = [c \in TrackedCell |-> y.data[c]]
      /\ [f \in Folder |-> x.page[f]] = [f \in Folder |-> y.page[f]]
  BY <1>1, <1>2
<1>6. x.data = y.data /\ x.page = y.page
  BY <1>4, <1>5 DEF ToldByParts
<1>7. x = y
  BY <1>4, <1>6 DEF ToldByParts
<1> QED
  BY <1>7 DEF x, y


\* With a new entry the others lead back to what they led to.
LEMMA ReturnedAppended ==
  ASSUME NEW list \in Seq(Seq(Undoable)), Single(list), NEW e \in Seq(Undoable),
         NEW p, NEW q, LeadsBack(e, p, q), NEW k \in 1..(Len(list) + 1)
  PROVE  Returned(q, Append(list, e), k) = Returned(p, list, k)
<1> DEFINE a == Append(list, e)
<1>1. a \in Seq(Seq(Undoable)) /\ k \in Nat \ {0}
  OBVIOUS
<1>2. \A c \in TrackedCell : \A v :
        Back(a, k, ItemsOf(c), q.data[c], v) <=> Back(list, k, ItemsOf(c), p.data[c], v)
  BY BackAppended DEF LeadsBack
<1>3. \A f \in Folder : \A v :
        Back(a, k, SwitchesOf(f), q.page[f], v) <=> Back(list, k, SwitchesOf(f), p.page[f], v)
  BY BackAppended DEF LeadsBack
<1>4. SameBack(q, a, k, p, list, k)
  BY <1>2, <1>3 DEF SameBack
<1> HIDE DEF a
<1>5. Returned(q, a, k) = Returned(p, list, k)
  BY <1>1, <1>4, ReturnedSame
<1> QED
  BY <1>5 DEF a

\* So they do when the oldest one is forgotten.
LEMMA ReturnedTail ==
  ASSUME NEW list \in Seq(Seq(Undoable)), list # <<>>, Single(list), NEW p, NEW k \in Nat \ {0}
  PROVE  Returned(p, Tail(list), k) = Returned(p, list, k + 1)
<1> DEFINE t == Tail(list)
           n == k + 1
<1>1. t \in Seq(Seq(Undoable)) /\ n \in Nat \ {0} /\ Single(list)
  OBVIOUS
<1>2. SameBack(p, t, k, p, list, n)
  BY BackTail DEF SameBack
<1> HIDE DEF t, n
<1>3. Returned(p, t, k) = Returned(p, list, n)
  BY <1>1, <1>2, ReturnedSame
<1> QED
  BY <1>3 DEF t, n

\* No entry leads nowhere.
LEMMA ReturnedNone ==
  ASSUME NEW list \in Seq(Seq(Undoable)), NEW p \in Contents
  PROVE  Returned(p, list, Len(list) + 1) = p
<1>1. (Len(list) + 1)..Len(list) = {}
  OBVIOUS
<1>2. /\ p.data \in [TrackedCell -> Value \cup {Absent}] /\ p.page \in [Folder -> Page]
      /\ p = [data |-> p.data, page |-> p.page]
  BY DEF Contents
<1>3. Returned(p, list, Len(list) + 1)
      = [data |-> [c \in TrackedCell |-> p.data[c]], page |-> [f \in Folder |-> p.page[f]]]
  BY <1>1 DEF Returned
<1> QED
  BY <1>2, <1>3

\* The pools that the entries of a list lead back to.
PoolsOf(p, list) == [k \in 1..Len(list) |-> Returned(p, list, k)]

\* A new entry leads back to what there was, the others as before.
LEMMA PoolsAppended ==
  ASSUME NEW list \in Seq(Seq(Undoable)), Single(list), NEW e \in Seq(Undoable),
         NEW p \in Contents, NEW q, LeadsBack(e, p, q)
  PROVE  PoolsOf(q, Append(list, e)) = Append(PoolsOf(p, list), p)
<1> DEFINE a == Append(list, e)
           s == PoolsOf(p, list)
           t == PoolsOf(q, a)
           n == Len(list)
<1>1. n \in Nat /\ Len(a) = n + 1
  OBVIOUS
<1>2. \A k \in 1..(n + 1) : Returned(q, a, k) = Returned(p, list, k)
  BY ReturnedAppended
<1>3. Returned(p, list, n + 1) = p
  BY ReturnedNone
<1> HIDE DEF a, n
<1>4. /\ \A k \in 1..n : s[k] = Returned(p, list, k)
      /\ \A k \in 1..(n + 1) : t[k] = Returned(q, a, k)
      /\ Points(s, n) /\ Points(t, n + 1)
  BY <1>1 DEF PoolsOf, Points, n
<1>5. (\A k \in 1..n : k \in 1..(n + 1)) /\ n + 1 \in 1..(n + 1)
  BY <1>1
<1>6. (\A k \in 1..n : t[k] = s[k]) /\ t[n + 1] = p
  BY <1>2, <1>3, <1>4, <1>5
<1> HIDE DEF s, t
<1>7. t = Append(s, p)
  BY <1>1, <1>4, <1>6, PointsAppended
<1> QED
  BY <1>7 DEF s, t, a

\* The oldest one is forgotten.
LEMMA PoolsTail ==
  ASSUME NEW list \in Seq(Seq(Undoable)), list # <<>>, Single(list), NEW p
  PROVE  PoolsOf(p, Tail(list)) = Tail(PoolsOf(p, list))
<1> DEFINE s == PoolsOf(p, list)
           t == PoolsOf(p, Tail(list))
           n == Len(list)
           S == {Returned(p, list, k) : k \in 1..n}
<1>1. n \in Nat \ {0} /\ Len(Tail(list)) = n - 1
  BY TailOfSeq, NonEmptySeq
<1>2. s \in [1..n -> S] /\ \A k \in 1..n : s[k] = Returned(p, list, k)
  BY DEF PoolsOf
<1>3. /\ \A k \in 1..(n - 1) : t[k] = Returned(p, Tail(list), k)
      /\ Points(t, n - 1)
  BY <1>1 DEF PoolsOf, Points
<1>4. \A k \in 1..(n - 1) : k \in Nat \ {0} /\ k + 1 \in 1..n
  BY <1>1
<1>5. \A k \in 1..(n - 1) : t[k] = s[k + 1]
  BY <1>2, <1>3, <1>4, ReturnedTail
<1> HIDE DEF s, t, n, S
<1>6. t \in [1..(n - 1) -> S]
  <2>1. \A k \in 1..(n - 1) : t[k] \in S
    BY <1>2, <1>4, <1>5
  <2> QED
    BY <1>3, <2>1 DEF Points
<1>7. s \in Seq(S) /\ Len(s) = n /\ t \in Seq(S) /\ Len(t) = n - 1
  BY <1>1, <1>2, <1>6, SeqOfFunction
<1>8. s # <<>>
  BY <1>1, <1>7, Len(<<>>) = 0
<1>9. /\ Tail(s) \in Seq(S) /\ Len(Tail(s)) = n - 1
      /\ \A k \in 1..(n - 1) : Tail(s)[k] = s[k + 1]
  BY <1>7, <1>8, TailOfSeq
<1>10. \A k \in 1..(n - 1) : Tail(s)[k] = t[k]
  BY <1>5, <1>9
<1>11. \A w \in Seq(S) : Len(w) = n - 1 /\ (\A k \in 1..(n - 1) : w[k] = t[k]) => w = t
  BY <1>1, <1>7
<1>12. Tail(s) = t
  BY <1>9, <1>10, <1>11
<1> QED
  BY <1>12 DEF s, t

\* Single entries stay so.
LEMMA SingleLists ==
  ASSUME NEW list \in Seq(Seq(Undoable)), Single(list), NEW e \in Seq(Undoable),
         \A c \in TrackedCell : Alone(e, ItemsOf(c)), \A f \in Folder : Alone(e, SwitchesOf(f))
  PROVE  Single(Append(list, e))
<1> DEFINE a == Append(list, e)
<1>1. /\ Len(a) = Len(list) + 1 /\ a[Len(list) + 1] = e /\ Len(list) \in Nat
      /\ \A i \in 1..Len(list) : a[i] = list[i]
  OBVIOUS
<1> HIDE DEF a
<1>2. \A i \in 1..Len(a) : i \in 1..Len(list) \/ i = Len(list) + 1
  BY <1>1
<1>3. Single(a)
  BY <1>1, <1>2 DEF Single
<1> QED
  BY <1>3 DEF a

\* A pushed entry becomes the last step of the history, of which at most MaxElements
\* are remembered.
LEMMA PoolsPushed ==
  ASSUME NEW list \in Seq(Seq(Undoable)), Single(list), NEW e \in Seq(Undoable),
         \A c \in TrackedCell : Alone(e, ItemsOf(c)), \A f \in Folder : Alone(e, SwitchesOf(f)),
         NEW p \in Contents, NEW q, LeadsBack(e, p, q)
  PROVE  /\ PoolsOf(q, Pushed(list, e)) = History!Remembered(Append(PoolsOf(p, list), p))
         /\ Len(list) < MaxElements => PoolsOf(q, Pushed(list, e)) = Append(PoolsOf(p, list), p)
<1> DEFINE a == Append(list, e)
           s == Append(PoolsOf(p, list), p)
<1>1. /\ a \in Seq(Seq(Undoable)) /\ Len(a) = Len(list) + 1 /\ a # <<>> /\ Len(list) \in Nat
      /\ Single(a)
  BY SingleLists, Len(<<>>) = 0
<1>2. PoolsOf(q, a) = s
  BY PoolsAppended
<1>3. Pushed(list, e) = IF Len(a) > MaxElements THEN Tail(a) ELSE a
  BY DEF Pushed
<1>4. History!Remembered(s) = IF Len(s) > MaxElements THEN Tail(s) ELSE s
  BY DEF History!Remembered
<1> HIDE DEF a, s
<1>5. Len(s) = Len(a)
  <2>1. Points(s, Len(a))
    BY <1>2 DEF PoolsOf, Points
  <2> QED
    BY <1>1, <2>1, PointsLength
<1>6. PoolsOf(q, Tail(a)) = Tail(s)
  BY <1>1, <1>2, PoolsTail
<1>7. PoolsOf(q, Pushed(list, e)) = History!Remembered(s)
  BY <1>2, <1>3, <1>4, <1>5, <1>6
<1>8. Len(list) < MaxElements => ~(Len(a) > MaxElements)
  BY <1>1, BoundAssumption
<1> QED
  BY <1>2, <1>3, <1>7, <1>8 DEF s

\* The last entry leads to the last pool of the history.
LEMMA PoolsFront ==
  ASSUME NEW list \in Seq(Seq(Undoable)), list # <<>>, Single(list),
         NEW p, NEW q \in Contents, LeadsBack(Last(list), q, p)
  PROVE  /\ Len(PoolsOf(p, list)) = Len(list) /\ Len(list) \in Nat \ {0}
         /\ PoolsOf(p, list)[Len(list)] = q
         /\ PoolsOf(q, Front(list)) = SubSeq(PoolsOf(p, list), 1, Len(list) - 1)
         /\ Single(Front(list)) /\ Front(list) \in Seq(Seq(Undoable))
<1> DEFINE w == Front(list)
           e == Last(list)
           n == Len(list)
           s == PoolsOf(p, list)
           t == PoolsOf(q, w)
<1>1. /\ n \in Nat \ {0} /\ w \in Seq(Seq(Undoable)) /\ Len(w) = n - 1
      /\ e \in Seq(Undoable) /\ list = Append(w, e)
      /\ \A i \in 1..(n - 1) : w[i] = list[i]
  BY FrontOfSeq, FrontThenLast, NonEmptySeq
<1>2. Single(w)
  <2>1. \A i \in 1..Len(w) : i \in 1..n /\ w[i] = list[i]
    BY <1>1
  <2> HIDE DEF w
  <2> QED
    BY <2>1 DEF Single
<1>3. LeadsBack(e, q, p)
  OBVIOUS
<1> HIDE DEF w, e, n
<1>4. \A k \in 1..(Len(w) + 1) : Returned(p, Append(w, e), k) = Returned(q, w, k)
  BY <1>1, <1>2, <1>3, ReturnedAppended
<1>5. Returned(q, w, Len(w) + 1) = q
  BY <1>1, ReturnedNone
<1>6. Len(w) + 1 = n /\ n \in 1..n
  BY <1>1
<1>7. \A k \in 1..n : Returned(p, list, k) = Returned(q, w, k)
  BY <1>1, <1>4, <1>6
<1>8. /\ Points(s, n) /\ \A k \in 1..n : s[k] = Returned(p, list, k)
  BY DEF PoolsOf, Points, n
<1>9. /\ Points(t, n - 1) /\ \A k \in 1..(n - 1) : t[k] = Returned(q, w, k)
  BY <1>1 DEF PoolsOf, Points
<1>10. \A k \in 1..(n - 1) : k \in 1..n
  BY <1>1
<1>11. s[n] = q /\ \A k \in 1..(n - 1) : t[k] = s[k]
  BY <1>5, <1>6, <1>7, <1>8, <1>9, <1>10
<1> HIDE DEF s, t
<1>12. t = SubSeq(s, 1, n - 1)
  <2>1. n \in Nat /\ n - 1 \in Nat /\ n - 1 <= n
    BY <1>1
  <2> QED
    BY <1>8, <1>9, <1>11, <2>1, PointsCut
<1>13. Len(s) = n
  BY <1>1, <1>8, PointsLength
<1> QED
  BY <1>1, <1>2, <1>11, <1>12, <1>13 DEF s, t, w, n

(*------------------- the pages an entry leads away from -------------------*)

\* Switches of a page lead from the page that the later entries lead back to.
Linked(list, p) ==
  \A i \in 1..Len(list) : \A f \in Folder : \A m \in 1..Len(list[i]) :
    list[i][m] \in SwitchesOf(f) =>
      Back(list, i + 1, SwitchesOf(f), p.page[f], list[i][m].from)

\* The entry of a change from the pool p to q.
Entry(e, p, q) ==
  /\ LeadsBack(e, p, q)
  /\ \A c \in TrackedCell : Alone(e, ItemsOf(c))
  /\ \A f \in Folder : /\ Alone(e, SwitchesOf(f))
                       /\ \A m \in 1..Len(e) : e[m] \in SwitchesOf(f) => e[m].from = q.page[f]

\* From the pool p the entries of the list lead back, one after the other.
Chained(list, p) == Single(list) /\ Linked(list, p)

\* A new entry leads away from the new pool.
LEMMA LinkedAppended ==
  ASSUME NEW list \in Seq(Seq(Undoable)), NEW e \in Seq(Undoable), NEW p, NEW q,
         Linked(list, p), Entry(e, p, q)
  PROVE  Linked(Append(list, e), q)
<1> DEFINE a == Append(list, e)
           n == Len(list)
<1>1. /\ n \in Nat /\ Len(a) = n + 1 /\ a[n + 1] = e
      /\ \A i \in 1..n : a[i] = list[i]
  OBVIOUS
<1>2. ASSUME NEW i \in 1..n, NEW f \in Folder, NEW v,
             Back(list, i + 1, SwitchesOf(f), p.page[f], v)
      PROVE  Back(a, i + 1, SwitchesOf(f), q.page[f], v)
  <2>1. i + 1 \in 1..(Len(list) + 1) /\ Leads(e, SwitchesOf(f), p.page[f], q.page[f])
    BY <1>1 DEF Entry, LeadsBack
  <2> QED
    BY <1>2, <2>1, BackAppended
<1> HIDE DEF a, n
<1>3. ASSUME NEW f \in Folder, NEW m \in 1..Len(e), e[m] \in SwitchesOf(f)
      PROVE  Back(a, Len(a) + 1, SwitchesOf(f), q.page[f], e[m].from)
  <2>1. e[m].from = q.page[f] /\ Len(a) \in Nat
    BY <1>1, <1>3 DEF Entry
  <2> QED
    BY <2>1, BackNone
<1>4. ASSUME NEW i \in 1..Len(a), NEW f \in Folder, NEW m \in 1..Len(a[i]),
             a[i][m] \in SwitchesOf(f)
      PROVE  Back(a, i + 1, SwitchesOf(f), q.page[f], a[i][m].from)
  <2>1. n \in Nat /\ i \in 1..(n + 1)
    BY <1>1
  <2>2. CASE i \in 1..n
    <3>1. a[i] = list[i]
      BY <1>1, <2>2
    <3>2. Back(list, i + 1, SwitchesOf(f), p.page[f], list[i][m].from)
      BY <1>4, <2>2, <3>1 DEF Linked, n
    <3> QED
      BY <1>2, <2>2, <3>1, <3>2
  <2>3. CASE i = n + 1
    <3>1. i = Len(a) /\ a[i] = e
      BY <1>1, <2>3
    <3> QED
      BY <1>3, <1>4, <3>1
  <2> QED
    BY <2>1, <2>2, <2>3
<1>5. Linked(a, q)
  BY <1>4 DEF Linked
<1> QED
  BY <1>5 DEF a

\* Nothing leads back to the oldest entry.
LEMMA ChainedTail ==
  ASSUME NEW list \in Seq(Seq(Undoable)), list # <<>>, NEW p, Chained(list, p)
  PROVE  Chained(Tail(list), p)
<1> DEFINE t == Tail(list)
           n == Len(list)
<1>1. /\ n \in Nat \ {0} /\ Len(t) = n - 1
      /\ \A i \in 1..(n - 1) : t[i] = list[i + 1] /\ i + 1 \in 1..n
  BY TailOfSeq, NonEmptySeq
<1>2. \A k \in Nat \ {0} : \A S, now, v : Back(t, k, S, now, v) <=> Back(list, k + 1, S, now, v)
  BY BackTail
<1> HIDE DEF t
<1>3. Single(t)
  BY <1>1 DEF Single, Chained, n
<1>4. ASSUME NEW i \in 1..Len(t), NEW f \in Folder, NEW m \in 1..Len(t[i]),
             t[i][m] \in SwitchesOf(f)
      PROVE  Back(t, i + 1, SwitchesOf(f), p.page[f], t[i][m].from)
  <2>1. t[i] = list[i + 1] /\ i + 1 \in 1..Len(list) /\ i + 1 \in Nat \ {0}
    BY <1>1
  <2>2. Back(list, (i + 1) + 1, SwitchesOf(f), p.page[f], list[i + 1][m].from)
    BY <1>4, <2>1 DEF Chained, Linked
  <2> QED
    BY <1>2, <2>1, <2>2
<1>5. Linked(t, p)
  BY <1>4 DEF Linked
<1> QED
  BY <1>3, <1>5 DEF Chained, t

\* Once the last entry is restored, the others lead on.
LEMMA ChainedFront ==
  ASSUME NEW list \in Seq(Seq(Undoable)), list # <<>>, NEW p, NEW q,
         Chained(list, p), LeadsBack(Last(list), q, p)
  PROVE  Chained(Front(list), q)
<1> DEFINE w == Front(list)
           e == Last(list)
           n == Len(list)
<1>1. /\ n \in Nat \ {0} /\ w \in Seq(Seq(Undoable)) /\ Len(w) = n - 1
      /\ e \in Seq(Undoable) /\ list = Append(w, e)
      /\ \A i \in 1..(n - 1) : w[i] = list[i] /\ i \in 1..n
  BY FrontOfSeq, FrontThenLast, NonEmptySeq
<1>2. LeadsBack(e, q, p)
  OBVIOUS
<1> HIDE DEF w, e
<1>3. Single(w)
  BY <1>1 DEF Single, Chained, n
<1>4. ASSUME NEW i \in 1..Len(w), NEW f \in Folder, NEW m \in 1..Len(w[i]),
             w[i][m] \in SwitchesOf(f)
      PROVE  Back(w, i + 1, SwitchesOf(f), q.page[f], w[i][m].from)
  <2>1. w[i] = list[i] /\ i \in 1..Len(list) /\ i + 1 \in 1..(Len(w) + 1)
    BY <1>1
  <2>2. Back(list, i + 1, SwitchesOf(f), p.page[f], w[i][m].from)
    BY <1>4, <2>1 DEF Chained, Linked
  <2>3. Back(Append(w, e), i + 1, SwitchesOf(f), p.page[f], w[i][m].from)
    BY <1>1, <2>2
  <2>4. Leads(e, SwitchesOf(f), q.page[f], p.page[f])
    BY <1>2 DEF LeadsBack
  <2> QED
    BY ONLY <1>1, <2>1, <2>3, <2>4, BackAppended
<1>5. Linked(w, q)
  BY <1>4 DEF Linked
<1> QED
  BY <1>3, <1>5 DEF Chained, w

\* A change becomes the last entry.
LEMMA ChainedPushed ==
  ASSUME NEW list \in Seq(Seq(Undoable)), NEW e \in Seq(Undoable), NEW p, NEW q,
         Chained(list, p), Entry(e, p, q)
  PROVE  Chained(Pushed(list, e), q)
<1>1. Append(list, e) \in Seq(Seq(Undoable)) /\ Append(list, e) # <<>>
  BY AppendTwo
<1>2. Chained(Append(list, e), q)
  BY LinkedAppended, SingleLists DEF Chained, Entry
<1>3. Chained(Tail(Append(list, e)), q)
  BY <1>1, <1>2, ChainedTail
<1> QED
  BY <1>2, <1>3 DEF Pushed

\* No entry, no chain.
LEMMA ChainedEmpty ==
  ASSUME NEW p
  PROVE  Chained(<<>>, p)
BY Len(<<>>) = 0 DEF Chained, Single, Linked

(*------------------- the steps of the history -----------------------------*)

\* The history as the refinement defines it.
LEMMA HistoryIs ==
  /\ [k \in 1..Len(undo) |-> After(undo, k)] = PoolsOf(Committed, undo)
  /\ [k \in 1..Len(redo) |-> After(redo, k)] = PoolsOf(Committed, redo)
BY DEF After, PoolsOf, Returned

\* The next one.
LEMMA HistoryWillBe ==
  /\ [k \in 1..Len(undo) |-> After(undo, k)]' = PoolsOf(Committed', undo')
  /\ [k \in 1..Len(redo) |-> After(redo, k)]' = PoolsOf(Committed', redo')
BY DEF After, PoolsOf, Returned

\* What the first owner saw is one of the contents a client can see.
LEMMA CommittedTyped ==
  ASSUME TypeOK
  PROVE  Committed \in Contents
<1>0. trail \in Seq(Segment) /\ live \in [Cell -> Value] /\ page \in [Folder -> Page] /\ 1 \in Nat \ {0}
  BY DEF TypeOK
<1>1. ASSUME NEW S, NEW now, NEW v, Before(trail, 1, S, now, v)
      PROVE  v = now \/ \E e \in Element : e \in S /\ v = Old(e)
  <2>1. CASE v = now
    BY <2>1
  <2>2. ASSUME NEW j \in 1..Len(trail), FirstIs(trail[j].log, S, v)
        PROVE  \E e \in Element : e \in S /\ v = Old(e)
    <3>1. trail[j].log \in Seq(Element)
      BY <1>0, SegmentFields
    <3>2. \A i \in 1..Len(trail[j].log) : trail[j].log[i] \in Element
      BY <3>1
    <3> QED
      BY <2>2, <3>2 DEF FirstIs
  <2> QED
    BY <1>1, <2>1, <2>2 DEF Before
<1>2. ASSUME NEW c \in TrackedCell
      PROVE  DataAt(1)[c] \in Value \cup {Absent}
  <2> DEFINE at == {j \in 1..Len(trail) : Holds(trail[j].log, c)}
             v == IF at = {} THEN live[c] ELSE SavedIn(trail[First(at)].log, c)
  <2>1. Before(trail, 1, ItemsOf(c), live[c], v)
    BY <1>0, DataIs
  <2>2. DataAt(1)[c] = IF c[1] \notin CyclesAt(1) \cup {NoCycle} THEN Absent ELSE v
    BY DEF DataAt, Since
  <2> HIDE DEF v
  <2>3. v \in Value
    <3>1. \A e \in Element : e \in ItemsOf(c) => Old(e) \in Value
      BY ElementFields DEF ItemsOf, Old
    <3>2. live[c] \in Value
      BY <1>0 DEF TrackedCell
    <3> QED
      BY <1>1, <2>1, <3>1, <3>2
  <2> QED
    BY <2>2, <2>3
<1>3. ASSUME NEW f \in Folder
      PROVE  PageAt(1)[f] \in Page
  <2> DEFINE at == {j \in 1..Len(trail) : Switches(trail[j].log, f) # {}}
             log == trail[First(at)].log
             v == IF at = {} THEN page[f] ELSE log[First(Switches(log, f))].to
  <2>1. Before(trail, 1, SwitchesOf(f), page[f], v)
    BY <1>0, PageIs
  <2>2. PageAt(1)[f] = v
    BY DEF PageAt, Since
  <2> HIDE DEF v
  <2>3. v \in Page
    <3>1. \A e \in Element : e \in SwitchesOf(f) => Old(e) \in Page
      BY ElementFields DEF SwitchesOf, Old
    <3>2. page[f] \in Page
      BY <1>0
    <3> QED
      BY <1>1, <2>1, <3>1, <3>2
  <2> QED
    BY <2>2, <2>3
<1>4. DataAt(1) \in [TrackedCell -> Value \cup {Absent}]
  BY <1>2 DEF DataAt
<1>5. PageAt(1) \in [Folder -> Page]
  BY <1>3 DEF PageAt
<1> QED
  BY <1>4, <1>5 DEF Committed, PoolAt, Contents

\* So is the next one.
LEMMA CommittedNext == (TypeOK => Committed \in Contents)'
<1>1. TypeOK => Committed \in Contents
  BY CommittedTyped
<1> QED
  BY <1>1, PTL

\* What a step does to the history: nothing;
HistoryStays == Committed' = Committed /\ UNCHANGED <<undo, redo>>

\* it ends;
HistoryEnds == undo' = <<>> /\ redo' = <<>>

\* it goes on with a change;
HistoryGoesOn ==
  \E e \in Seq(Undoable) : /\ Entry(e, Committed, Committed')
                           /\ undo' = Pushed(undo, e)
                           /\ redo' = <<>>

\* or it is walked along, from one list to the other.
Walks(list, other, next, others) ==
  /\ list # <<>>
  /\ LeadsBack(Last(list), Committed', Committed)
  /\ next = Front(list)
  /\ \E x \in Seq(Undoable) : Entry(x, Committed, Committed') /\ others = Pushed(other, x)

HistoryWalked == Walks(undo, redo, undo', redo') \/ Walks(redo, undo, redo', undo')

HistoryMoves == HistoryStays \/ HistoryEnds \/ HistoryGoesOn \/ HistoryWalked

\* A step of UndoHistory.
HistoryStep == [History!Next]_(History!vars)

\* Entries lead back from what is committed.
UndoChained == Chained(undo, Committed) /\ Chained(redo, Committed)

\* Walking moves one pool from the end of one list to the end of the other.
LEMMA PoolsWalked ==
  ASSUME NEW list \in Seq(Seq(Undoable)), NEW other \in Seq(Seq(Undoable)),
         Len(list) + Len(other) <= MaxElements,
         Chained(list, Committed), Chained(other, Committed),
         Committed \in Contents, Committed' \in Contents,
         NEW next, NEW others, Walks(list, other, next, others)
  PROVE  LET past == PoolsOf(Committed, list)
         IN  /\ past # <<>>
             /\ Committed' = past[Len(past)]
             /\ PoolsOf(Committed', next) = SubSeq(past, 1, Len(past) - 1)
             /\ PoolsOf(Committed', others) = Append(PoolsOf(Committed, other), Committed)
<1> DEFINE past == PoolsOf(Committed, list)
           n == Len(list)
<1>1. /\ list # <<>> /\ LeadsBack(Last(list), Committed', Committed) /\ next = Front(list)
      /\ Single(list) /\ Single(other)
  BY DEF Walks, Chained
<1>2. PICK x \in Seq(Undoable) : Entry(x, Committed, Committed') /\ others = Pushed(other, x)
  BY DEF Walks
<1>3. /\ Len(past) = n /\ n \in Nat \ {0} /\ past[n] = Committed'
      /\ PoolsOf(Committed', next) = SubSeq(past, 1, n - 1)
  BY <1>1, PoolsFront
<1>4. Len(other) < MaxElements
  BY <1>3, BoundAssumption
<1>5. PoolsOf(Committed', others) = Append(PoolsOf(Committed, other), Committed)
  BY <1>1, <1>2, <1>4, PoolsPushed DEF Entry
<1> HIDE DEF past, n
<1>6. past # <<>>
  BY <1>3, Len(<<>>) = 0
<1>7. past[Len(past)] = Committed' /\ SubSeq(past, 1, Len(past) - 1) = SubSeq(past, 1, n - 1)
  BY <1>3
<1> QED
  BY <1>3, <1>5, <1>6, <1>7 DEF past

\* What a step does to the history, UndoHistory does.
LEMMA HistorySeen ==
  ASSUME TypeOK, TypeOK', ListsBounded, UndoChained, HistoryMoves
  PROVE  HistoryStep
<1> DEFINE past == PoolsOf(Committed, undo)
           future == PoolsOf(Committed, redo)
           past1 == PoolsOf(Committed', undo')
           future1 == PoolsOf(Committed', redo')
<1>0. /\ undo \in Seq(Seq(Undoable)) /\ redo \in Seq(Seq(Undoable))
      /\ Committed \in Contents /\ Committed' \in Contents
      /\ Len(undo) + Len(redo) <= MaxElements /\ Len(redo) + Len(undo) <= MaxElements
  BY CommittedTyped, CommittedNext DEF TypeOK, ListsBounded
<1>1. \A p : PoolsOf(p, <<>>) = <<>>
  BY NoPoints, Len(<<>>) = 0 DEF PoolsOf, Points
<1>2. CASE HistoryStays
  <2>1. past1 = past /\ future1 = future /\ Committed' = Committed
    BY <1>2 DEF HistoryStays
  <2> QED
    BY <2>1, HistoryIs, HistoryWillBe DEF HistoryStep, History!vars
<1>3. CASE HistoryEnds
  <2>1. past1 = <<>> /\ future1 = <<>>
    BY <1>1, <1>3 DEF HistoryEnds
  <2> QED
    BY <1>0, <2>1, HistoryWillBe DEF HistoryStep, History!Next, History!Forget
<1>4. CASE HistoryGoesOn
  <2>1. PICK e \in Seq(Undoable) : /\ Entry(e, Committed, Committed')
                                   /\ undo' = Pushed(undo, e)
                                   /\ redo' = <<>>
    BY <1>4 DEF HistoryGoesOn
  <2>2. past1 = History!Remembered(Append(past, Committed))
    BY <1>0, <2>1, PoolsPushed DEF Entry, UndoChained, Chained
  <2>3. future1 = <<>>
    BY <1>1, <2>1
  <2> QED
    BY <1>0, <2>2, <2>3, HistoryIs, HistoryWillBe DEF HistoryStep, History!Next, History!Change
<1>5. CASE Walks(undo, redo, undo', redo')
  <2>1. /\ past # <<>> /\ Committed' = past[Len(past)]
        /\ past1 = SubSeq(past, 1, Len(past) - 1)
        /\ future1 = Append(future, Committed)
    BY <1>0, <1>5, PoolsWalked DEF UndoChained
  <2> QED
    BY <2>1, HistoryIs, HistoryWillBe DEF HistoryStep, History!Next, History!Undo
<1>6. CASE Walks(redo, undo, redo', undo')
  <2>1. /\ future # <<>> /\ Committed' = future[Len(future)]
        /\ future1 = SubSeq(future, 1, Len(future) - 1)
        /\ past1 = Append(past, Committed)
    BY <1>0, <1>6, PoolsWalked DEF UndoChained
  <2> QED
    BY <2>1, HistoryIs, HistoryWillBe DEF HistoryStep, History!Next, History!Redo
<1> QED
  BY <1>2, <1>3, <1>4, <1>5, <1>6 DEF HistoryMoves, HistoryWalked

\* The entries lead back from what is committed next.
LEMMA ChainedStep ==
  ASSUME TypeOK, UndoChained, HistoryMoves
  PROVE  UndoChained'
<1>0. undo \in Seq(Seq(Undoable)) /\ redo \in Seq(Seq(Undoable))
  BY DEF TypeOK
<1>1. ASSUME Chained(undo', Committed'), Chained(redo', Committed')
      PROVE  UndoChained'
  BY <1>1 DEF UndoChained, Chained, Single, Linked
<1>2. CASE HistoryStays
  BY <1>1, <1>2 DEF HistoryStays, UndoChained
<1>3. CASE HistoryEnds
  BY <1>1, <1>3, ChainedEmpty DEF HistoryEnds
<1>4. CASE HistoryGoesOn
  BY <1>0, <1>1, <1>4, ChainedEmpty, ChainedPushed DEF HistoryGoesOn, UndoChained
<1>5. ASSUME NEW list \in Seq(Seq(Undoable)), NEW other \in Seq(Seq(Undoable)),
             Chained(list, Committed), Chained(other, Committed),
             NEW next, NEW others, Walks(list, other, next, others)
      PROVE  Chained(next, Committed') /\ Chained(others, Committed')
  BY <1>5, ChainedFront, ChainedPushed DEF Walks
<1>6. CASE HistoryWalked
  BY <1>0, <1>1, <1>5, <1>6 DEF HistoryWalked, UndoChained
<1> QED
  BY <1>2, <1>3, <1>4, <1>6 DEF HistoryMoves

(*------------------- what is committed, step by step ----------------------*)

\* Without a transaction it is the pool.
LEMMA CommittedNow == TypeOK /\ trail = <<>> => Committed = Current
<1> SUFFICES ASSUME TypeOK, trail = <<>>
             PROVE  Committed = Current
  OBVIOUS
<1>1. Len(trail) + 1 = 1
  BY Len(<<>>) = 0
<1> QED
  BY <1>1, PoolNow DEF Committed

\* The same of the next state.
LEMMA CommittedThen == (TypeOK /\ trail = <<>> => Committed = Current)'
BY CommittedNow, PTL

\* A step that changes nothing in the pool and the trail.
LEMMA CommittedIdle ==
  ASSUME UNCHANGED <<live, page, cycles, trail>>
  PROVE  Committed' = Committed
BY DEF Committed, PoolAt, DataAt, PageAt, CyclesAt, Since

\* What is done in a transaction is not committed.
LEMMA CommittedKept ==
  ASSUME TypeOK, trail # <<>>, BeginsKept
  PROVE  Committed' = Committed
<1>1. 1 \in 1..Len(trail)
  BY NonEmptySeq DEF TypeOK
<1> QED
  BY <1>1 DEF BeginsKept, Committed

\* Nothing is, until the outermost transaction is.
LEMMA CommittedInside ==
  ASSUME CyclesInv, "undo-in-transaction" \notin Calls, Next, trail # <<>>, ~CommitFinal
  PROVE  Committed' = Committed
<1>0. TypeOK /\ OwnerIsOpen /\ Len(trail) \in Nat \ {0} /\ 1 \in 1..Len(trail)
  <2>1. TypeOK /\ OwnerIsOpen
    BY DEF CyclesInv, UndoInv, PoolInv
  <2>2. Len(trail) \in Nat \ {0}
    BY <2>1, NonEmptySeq DEF TypeOK
  <2> QED
    BY <2>1, <2>2
<1>1. CASE BeginsKept
  BY <1>0, <1>1, CommittedKept
<1>2. CASE CommitElement
  <2>1. Len(trail) > 1
    BY <1>2 DEF CommitElement
  <2>2. 1 \in 1..(Len(trail) - 1)
    BY <1>0, <2>1
  <2> QED
    BY <1>0, <1>2, <2>2, BeginsMoved DEF Committed
<1>3. CASE CommitInner \/ AbortPoint
  <2>1. Top.log = <<>> /\ trail' = Front(trail) /\ UNCHANGED <<live, page, cycles>>
    BY <1>3 DEF CommitInner, AbortPoint, poolVars
  <2> QED
    BY <1>0, <2>1, BeginsPopped DEF Committed
<1>4. ASSUME NEW o \in Owner, Begin(o)
      PROVE  Committed' = Committed
  <2>1. 1 \in 1..(Len(trail) + 1)
    BY <1>0
  <2> QED
    BY <1>0, <1>4, <2>1, BeginsPushed DEF Committed
<1>5. ASSUME NEW o \in Owner, Commit(o) \/ Abort(o)
      PROVE  Committed' = Committed
  BY <1>0, <1>5, EndingStarts, CommittedIdle
<1> QED
  BY <1>1, <1>2, <1>3, <1>4, <1>5, StepKinds

(*------------------- entries from the trail and the pool ------------------*)

\* A log with each item once has one element of an item at most.
LEMMA AloneItems ==
  ASSUME NEW log \in Seq(Element), UniqueIn(log), NEW c
  PROVE  Alone(log, ItemsOf(c))
<1>1. \A i \in 1..Len(log) : log[i] \in ItemsOf(c) => log[i].kind = "item" /\ log[i].cell = c
  BY DEF ItemsOf
<1> QED
  BY <1>1 DEF Alone, UniqueIn

\* The log of the only transaction leads back to its begin.
LEMMA OnlyLogLeads ==
  ASSUME NEW t, Len(t) = 1, NEW S, Alone(t[1].log, S), NEW now, NEW v, Before(t, 1, S, now, v)
  PROVE  Leads(t[1].log, S, v, now)
<1>1. 1..Len(t) = {1}
  OBVIOUS
<1>2. CASE v = now /\ ~HasFrom(t, 1, S)
  <2>1. ~Has(t[1].log, S)
    BY <1>1, <1>2 DEF HasFrom
  <2> QED
    BY <1>2, <2>1 DEF Leads, Has
<1>3. CASE FirstIs(t[1].log, S, v)
  BY <1>3 DEF FirstIs, Has, Alone, Leads
<1> QED
  BY <1>1, <1>2, <1>3 DEF Before

\* An entry with a single element.
LEMMA EntryOne ==
  ASSUME NEW x, NEW p, NEW q,
         \A c \in TrackedCell : /\ x \in ItemsOf(c) => Old(x) = p.data[c]
                                /\ x \notin ItemsOf(c) => q.data[c] = p.data[c],
         \A f \in Folder : /\ x \in SwitchesOf(f) => Old(x) = p.page[f] /\ x.from = q.page[f]
                           /\ x \notin SwitchesOf(f) => q.page[f] = p.page[f]
  PROVE  Entry(<<x>>, p, q)
<1> DEFINE e == <<x>>
<1>1. 1..Len(e) = {1} /\ e[1] = x
  OBVIOUS
<1> HIDE DEF e
<1>2. \A S : Alone(e, S) /\ (Has(e, S) <=> x \in S)
  BY <1>1 DEF Alone, Has
<1>3. LeadsBack(e, p, q)
  BY <1>1, <1>2 DEF LeadsBack, Leads
<1>4. Entry(e, p, q)
  BY <1>1, <1>2, <1>3 DEF Entry
<1> QED
  BY <1>4 DEF e

\* The content of an item a client can see.
LEMMA CurrentItem ==
  ASSUME NEW c \in TrackedCell
  PROVE  Current.data[c] = IF c[1] \notin ToSet(cycles) \cup {NoCycle} THEN Absent ELSE live[c]
BY DEF Current

\* The same of the next state.
LEMMA CurrentItemNext ==
  ASSUME NEW c \in TrackedCell
  PROVE  Current.data[c]' = IF c[1] \notin ToSet(cycles') \cup {NoCycle} THEN Absent ELSE live'[c]
BY DEF Current

\* The page of a folder.
LEMMA CurrentPage ==
  ASSUME NEW f \in Folder
  PROVE  Current.page[f] = page[f] /\ Current.page[f]' = page'[f]
BY DEF Current

\* What is in an entry, by item and by folder.
LEMMA EntryElements ==
  ASSUME NEW e \in Seq(Undoable), NEW i \in 1..Len(e)
  PROVE  /\ Len(e) \in Nat
         /\ e[i] \in Element /\ e[i].kind \in {"item", "action"}
         /\ e[i].kind = "item" => e[i] \in ItemEl
         /\ e[i].kind = "action" => e[i] \in ActionEl
         /\ \A c : e[i] \in ItemsOf(c) <=> e[i].kind = "item" /\ e[i].cell = c
         /\ \A f : e[i] \in SwitchesOf(f) <=> e[i].kind = "action" /\ e[i].folder = f
<1>1. e[i] \in Undoable /\ Len(e) \in Nat
  OBVIOUS
<1>2. e[i] \in Element
  BY <1>1, UndoableIsElement
<1> QED
  BY <1>1, <1>2, UndoableIsElement DEF ItemsOf, SwitchesOf

\* An entry with each item once sets each item to what it saved.
LEMMA ItemAfter ==
  ASSUME TypeOK, NEW e \in Seq(Undoable), NEW c \in TrackedCell, Alone(e, ItemsOf(c))
  PROVE  /\ ~Has(e, ItemsOf(c)) => LiveAfter(e)[c] = live[c]
         /\ \A i \in 1..Len(e) : e[i] \in ItemsOf(c) => LiveAfter(e)[c] = Old(e[i])
<1> DEFINE at == {i \in 1..Len(e) : e[i].kind = "item" /\ e[i].cell = c}
<1>1. LiveAfter(e)[c] = IF at = {} THEN live[c] ELSE e[LastOf(at)].saved
  BY DEF LiveAfter, TrackedCell
<1>2. \A i \in 1..Len(e) : e[i] \in ItemsOf(c) <=> i \in at
  BY EntryElements
<1>3. ~Has(e, ItemsOf(c)) => at = {}
  BY <1>2 DEF Has
<1>4. ASSUME NEW i \in 1..Len(e), e[i] \in ItemsOf(c)
      PROVE  LiveAfter(e)[c] = Old(e[i])
  <2>1. i \in at /\ at \in SUBSET (1..Len(e)) /\ Len(e) \in Nat
    BY <1>2, <1>4
  <2>2. e[i].kind = "item"
    BY <2>1
  <2> HIDE DEF at
  <2>3. LastOf(at) \in at /\ at # {}
    BY <2>1, LastOfSet
  <2>4. LastOf(at) = i
    BY <1>2, <1>4, <2>1, <2>3 DEF Alone
  <2> QED
    BY <1>1, <2>2, <2>3, <2>4 DEF Old
<1> QED
  BY <1>1, <1>3, <1>4

\* And each folder to the page it left.
LEMMA FolderAfter ==
  ASSUME NEW e \in Seq(Undoable), NEW f \in Folder, Alone(e, SwitchesOf(f))
  PROVE  /\ ~Has(e, SwitchesOf(f)) => PageAfter(e)[f] = page[f]
         /\ \A i \in 1..Len(e) : e[i] \in SwitchesOf(f) => PageAfter(e)[f] = Old(e[i])
<1> DEFINE at == {i \in 1..Len(e) : e[i].kind = "action" /\ e[i].folder = f}
<1>1. PageAfter(e)[f] = IF at = {} THEN page[f] ELSE e[LastOf(at)].to
  BY DEF PageAfter
<1>2. \A i \in 1..Len(e) : e[i] \in SwitchesOf(f) <=> i \in at
  BY EntryElements
<1>3. ~Has(e, SwitchesOf(f)) => at = {}
  BY <1>2 DEF Has
<1>4. ASSUME NEW i \in 1..Len(e), e[i] \in SwitchesOf(f)
      PROVE  PageAfter(e)[f] = Old(e[i])
  <2>1. i \in at /\ at \in SUBSET (1..Len(e)) /\ Len(e) \in Nat
    BY <1>2, <1>4
  <2>2. e[i].kind = "action"
    BY <2>1
  <2> HIDE DEF at
  <2>3. LastOf(at) \in at /\ at # {}
    BY <2>1, LastOfSet
  <2>4. LastOf(at) = i
    BY <1>2, <1>4, <2>1, <2>3 DEF Alone
  <2> QED
    BY <1>1, <2>2, <2>3, <2>4 DEF Old
<1> QED
  BY <1>1, <1>3, <1>4

\* What a restore puts on the other list: the content and the page of now, the page
\* that comes.
LEMMA ExchangedElement ==
  ASSUME TypeOK, NEW e \in Seq(Undoable), NEW i \in 1..Len(e)
  PROVE  LET x == Exchanged(e)
         IN  /\ i \in 1..Len(x)
             /\ \A c : x[i] \in ItemsOf(c) <=> e[i] \in ItemsOf(c)
             /\ \A f : x[i] \in SwitchesOf(f) <=> e[i] \in SwitchesOf(f)
             /\ e[i].kind = "item" /\ Alone(e, ItemsOf(e[i].cell)) => Old(x[i]) = live[e[i].cell]
             /\ e[i].kind = "action" => Old(x[i]) = e[i].from /\ x[i].from = Old(e[i])
<1> DEFINE x == Exchanged(e)
<1>1. /\ x \in Seq(Undoable) /\ Len(x) = Len(e) /\ i \in 1..Len(x)
      /\ x[i].kind = e[i].kind
      /\ e[i].kind = "item" => x[i].cell = e[i].cell
  BY ExchangedTyped, ExchangedItems
<1>2. CASE e[i].kind = "item"
  <2> DEFINE saved == IF Earlier(e, i) = {} THEN live[e[i].cell]
                      ELSE e[LastOf(Earlier(e, i))].saved
  <2>1. x[i] = [e[i] EXCEPT !.saved = saved] /\ e[i] \in ItemEl
    BY <1>2, EntryElements DEF Exchanged
  <2>2. Alone(e, ItemsOf(e[i].cell)) => Earlier(e, i) = {}
    <3>1. ASSUME NEW j \in Earlier(e, i), Alone(e, ItemsOf(e[i].cell))
          PROVE  FALSE
      <4>1. /\ j \in 1..(i - 1) /\ i \in Nat /\ Len(e) \in Nat /\ i <= Len(e)
            /\ e[j].kind = "item" /\ e[j].cell = e[i].cell
        BY DEF Earlier
      <4>2. j \in 1..Len(e) /\ j # i
        BY <4>1
      <4>3. e[j] \in ItemsOf(e[i].cell) /\ e[i] \in ItemsOf(e[i].cell)
        BY <1>2, <4>1, <4>2, EntryElements
      <4> QED
        BY <3>1, <4>2, <4>3 DEF Alone
    <3> QED
      BY <3>1
  <2> HIDE DEF saved, x
  <2>3. x[i].saved = saved
    BY <2>1 DEF ItemEl
  <2>4. Alone(e, ItemsOf(e[i].cell)) => saved = live[e[i].cell]
    BY <2>2 DEF saved
  <2>5. /\ \A c : x[i] \in ItemsOf(c) <=> e[i] \in ItemsOf(c)
        /\ \A f : x[i] \in SwitchesOf(f) <=> e[i] \in SwitchesOf(f)
    BY <1>1, <1>2, EntryElements
  <2> QED
    BY <1>1, <1>2, <2>3, <2>4, <2>5 DEF Old, x
<1>3. CASE e[i].kind = "action"
  <2>1. x[i] = [e[i] EXCEPT !.to = e[i].from, !.from = e[i].to] /\ e[i] \in ActionEl
    BY <1>3, EntryElements DEF Exchanged
  <2> HIDE DEF x
  <2>2. x[i].to = e[i].from /\ x[i].from = e[i].to /\ x[i].folder = e[i].folder
    BY <2>1 DEF ActionEl
  <2>3. /\ \A c : x[i] \in ItemsOf(c) <=> e[i] \in ItemsOf(c)
        /\ \A f : x[i] \in SwitchesOf(f) <=> e[i] \in SwitchesOf(f)
    BY <1>1, <1>3, <2>2, EntryElements
  <2> QED
    BY <1>1, <1>3, <2>2, <2>3 DEF Old, x
<1> QED
  BY <1>2, <1>3, EntryElements

\* Restoring an entry of existing items, whose pages are the pages of now, leads from
\* one pool to the other, and what it puts on the other list leads back.
LEMMA Restored ==
  ASSUME TypeOK, NEW e \in Seq(Undoable), Within(e, ToSet(cycles)),
         \A c \in TrackedCell : Alone(e, ItemsOf(c)), \A f \in Folder : Alone(e, SwitchesOf(f)),
         \A f \in Folder : \A i \in 1..Len(e) : e[i] \in SwitchesOf(f) => e[i].from = page[f],
         live' = LiveAfter(e), page' = PageAfter(e), cycles' = cycles
  PROVE  /\ LeadsBack(e, Current', Current)
         /\ Exchanged(e) \in Seq(Undoable)
         /\ Entry(Exchanged(e), Current, Current')
<1>1. PICK x : x = Exchanged(e)
  OBVIOUS
<1>2. /\ x \in Seq(Undoable) /\ Len(x) = Len(e)
      /\ \A i \in 1..Len(e) :
           /\ \A c : x[i] \in ItemsOf(c) <=> e[i] \in ItemsOf(c)
           /\ \A f : x[i] \in SwitchesOf(f) <=> e[i] \in SwitchesOf(f)
  BY <1>1, ExchangedTyped, ExchangedElement
<1>3. /\ \A c : Has(x, ItemsOf(c)) <=> Has(e, ItemsOf(c))
      /\ \A f : Has(x, SwitchesOf(f)) <=> Has(e, SwitchesOf(f))
  BY <1>2 DEF Has
<1>4. /\ \A c \in TrackedCell : Alone(x, ItemsOf(c))
      /\ \A f \in Folder : Alone(x, SwitchesOf(f))
  BY <1>2 DEF Alone
<1>5. ASSUME NEW c \in TrackedCell
      PROVE  /\ Leads(e, ItemsOf(c), Current.data[c]', Current.data[c])
             /\ Leads(x, ItemsOf(c), Current.data[c], Current.data[c]')
  <2>1. CASE Has(e, ItemsOf(c))
    <3>1. PICK j \in 1..Len(e) : e[j] \in ItemsOf(c)
      BY <2>1 DEF Has
    <3>2. c[1] \in ToSet(cycles) \cup {NoCycle}
      BY <3>1 DEF Within, ItemsOf
    <3>3. Current.data[c] = live[c] /\ Current.data[c]' = LiveAfter(e)[c]
      BY <3>2, CurrentItem, CurrentItemNext
    <3>4. ASSUME NEW i \in 1..Len(e), e[i] \in ItemsOf(c)
          PROVE  Old(e[i]) = LiveAfter(e)[c] /\ Old(x[i]) = live[c]
      <4>1. e[i].kind = "item" /\ e[i].cell = c
        BY <3>4 DEF ItemsOf
      <4>2. Old(e[i]) = LiveAfter(e)[c]
        BY <3>4, ItemAfter
      <4>3. Old(x[i]) = live[c]
        BY <1>1, <4>1, ExchangedElement
      <4> QED
        BY <4>2, <4>3
    <3> QED
      BY <1>2, <1>3, <2>1, <3>3, <3>4 DEF Leads
  <2>2. CASE ~Has(e, ItemsOf(c))
    <3>1. LiveAfter(e)[c] = live[c]
      BY <2>2, ItemAfter
    <3>2. Current.data[c]' = Current.data[c]
      BY <3>1, CurrentItem, CurrentItemNext
    <3> QED
      BY <1>3, <2>2, <3>2 DEF Leads, Has
  <2> QED
    BY <2>1, <2>2
<1>6. ASSUME NEW f \in Folder
      PROVE  /\ Leads(e, SwitchesOf(f), Current.page[f]', Current.page[f])
             /\ Leads(x, SwitchesOf(f), Current.page[f], Current.page[f]')
             /\ \A i \in 1..Len(x) : x[i] \in SwitchesOf(f) => x[i].from = Current.page[f]'
  <2>1. Current.page[f] = page[f] /\ Current.page[f]' = PageAfter(e)[f]
    BY CurrentPage
  <2>2. ASSUME NEW i \in 1..Len(e), e[i] \in SwitchesOf(f)
        PROVE  Old(e[i]) = PageAfter(e)[f] /\ Old(x[i]) = page[f] /\ x[i].from = PageAfter(e)[f]
    <3>1. e[i].kind = "action" /\ e[i].from = page[f]
      BY <2>2 DEF SwitchesOf
    <3>2. Old(e[i]) = PageAfter(e)[f]
      BY <2>2, FolderAfter
    <3>3. Old(x[i]) = e[i].from /\ x[i].from = Old(e[i])
      BY <1>1, <3>1, ExchangedElement
    <3> QED
      BY <3>1, <3>2, <3>3
  <2>3. ~Has(e, SwitchesOf(f)) => PageAfter(e)[f] = page[f]
    BY FolderAfter
  <2> QED
    BY <1>2, <1>3, <2>1, <2>2, <2>3 DEF Leads
<1>7. LeadsBack(e, Current', Current) /\ LeadsBack(x, Current, Current')
  BY <1>5, <1>6 DEF LeadsBack
<1>8. Entry(x, Current, Current')
  BY <1>4, <1>6, <1>7 DEF Entry
<1> QED
  BY <1>1, <1>2, <1>7, <1>8

\* The entry of an item that is written outside a transaction.
LEMMA WrittenEntry ==
  ASSUME TypeOK, NEW c \in Cell, c[1] \in ToSet(cycles) \cup {NoCycle},
         NEW v, live' = [live EXCEPT ![c] = v], UNCHANGED <<page, cycles>>
  PROVE  <<Item(c)>> \in Seq(Undoable) /\ Entry(<<Item(c)>>, Current, Current')
<1> DEFINE x == Item(c)
<1>1. x \in Undoable /\ x.kind = "item" /\ x.cell = c /\ x.saved = live[c]
  BY DEF TypeOK, Item, ItemEl, Undoable
<1> HIDE DEF x
<1>2. x \in Element /\ <<x>> \in Seq(Undoable)
  BY <1>1, UndoableIsElement
<1>3. ASSUME NEW d \in TrackedCell
      PROVE  /\ x \in ItemsOf(d) => Old(x) = Current.data[d]
             /\ x \notin ItemsOf(d) => Current.data[d]' = Current.data[d]
  <2>1. x \in ItemsOf(d) <=> d = c
    BY <1>1, <1>2 DEF ItemsOf
  <2>2. live'[d] = IF d = c THEN v ELSE live[d]
    BY DEF TypeOK, TrackedCell
  <2> QED
    BY <1>1, <2>1, <2>2, CurrentItem, CurrentItemNext DEF Old
<1>4. ASSUME NEW f \in Folder
      PROVE  x \notin SwitchesOf(f) /\ Current.page[f]' = Current.page[f]
  BY <1>1, CurrentPage DEF SwitchesOf
<1>5. Entry(<<x>>, Current, Current')
  BY <1>3, <1>4, EntryOne
<1> QED
  BY <1>2, <1>5 DEF x

\* The entry of a page that is switched outside a transaction.
LEMMA SwitchedEntry ==
  ASSUME TypeOK, NEW f \in Folder, NEW p \in Page, page' = [page EXCEPT ![f] = p],
         UNCHANGED <<live, cycles>>,
         NEW x, x = [kind |-> "action", folder |-> f, to |-> page[f], from |-> p]
  PROVE  <<x>> \in Seq(Undoable) /\ Entry(<<x>>, Current, Current')
<1>1. x \in Undoable /\ x.kind = "action" /\ x.folder = f /\ x.to = page[f] /\ x.from = p
  BY DEF TypeOK, ActionEl, Undoable
<1>2. x \in Element /\ <<x>> \in Seq(Undoable)
  BY <1>1, UndoableIsElement
<1>3. ASSUME NEW d \in TrackedCell
      PROVE  x \notin ItemsOf(d) /\ Current.data[d]' = Current.data[d]
  BY <1>1, CurrentItem, CurrentItemNext DEF ItemsOf
<1>4. ASSUME NEW g \in Folder
      PROVE  /\ x \in SwitchesOf(g) => Old(x) = Current.page[g] /\ x.from = Current.page[g]'
             /\ x \notin SwitchesOf(g) => Current.page[g]' = Current.page[g]
  <2>1. x \in SwitchesOf(g) <=> g = f
    BY <1>1, <1>2 DEF SwitchesOf
  <2>2. page'[g] = IF g = f THEN p ELSE page[g]
    BY DEF TypeOK
  <2> QED
    BY <1>1, <2>1, <2>2, CurrentPage DEF Old
<1>5. Entry(<<x>>, Current, Current')
  BY <1>3, <1>4, EntryOne
<1> QED
  BY <1>2, <1>5

\* The log of a transaction without changes of cycles is the entry of all it did.
LEMMA FinalEntry ==
  ASSUME TypeOK, TrailKnown, SavedOnce, trail # <<>>, Len(trail) = 1,
         \A i \in 1..Len(Top.log) : ~CycleElement(Top.log[i]) /\ Top.log[i].kind # "action"
  PROVE  Top.log \in Seq(Undoable) /\ Entry(Top.log, Committed, Current)
<1> DEFINE log == Top.log
<1>1. /\ trail \in Seq(Segment) /\ Top = trail[1] /\ 1 \in Nat \ {0} /\ 1..Len(trail) = {1}
      /\ log \in Seq(Element) /\ UniqueIn(log)
  BY TopLogUnique DEF TypeOK, Top
<1>2. log \in Seq(Undoable) /\ Within(log, ToSet(cycles))
  BY FinalLogWithin
<1>3. log = trail[1].log
  BY <1>1
<1> HIDE DEF log
<1>4. \A i \in 1..Len(log) : log[i].kind \notin {"action", "new", "delete"}
  BY DEF log, CycleElement
<1>5. /\ \A c : Alone(log, ItemsOf(c))
      /\ \A f : Alone(log, SwitchesOf(f)) /\ ~Has(log, SwitchesOf(f))
      /\ \A f : \A i \in 1..Len(log) : log[i] \notin SwitchesOf(f)
  BY <1>1, <1>4, AloneItems DEF Alone, Has, SwitchesOf
<1>6. \A x : x \in CyclesAt(1) <=> x \in ToSet(cycles)
  <2>1. \A x : ~Has(log, NewOf(x)) /\ ~Has(log, DeletesOf(x))
    BY <1>4 DEF Has, NewOf, DeletesOf
  <2>2. \A x : ~HasFrom(trail, 1, NewOf(x)) /\ ~HasFrom(trail, 1, DeletesOf(x))
    BY <1>1, <1>3, <2>1 DEF HasFrom
  <2>3. \A x : x \in CyclesAt(1) <=> Existed(trail, cycles, 1, x)
    BY <1>1, CyclesAre DEF CyclesAt, Since
  <2> QED
    BY <2>2, <2>3 DEF Existed
<1>7. ASSUME NEW c \in TrackedCell
      PROVE  Leads(log, ItemsOf(c), Committed.data[c], Current.data[c])
  <2> DEFINE at == {j \in 1..Len(trail) : Holds(trail[j].log, c)}
             v == IF at = {} THEN live[c] ELSE SavedIn(trail[First(at)].log, c)
  <2>1. Before(trail, 1, ItemsOf(c), live[c], v)
    BY <1>1, DataIs
  <2>2. Committed.data[c] = IF c[1] \notin CyclesAt(1) \cup {NoCycle} THEN Absent ELSE v
    BY DEF Committed, PoolAt, DataAt, Since
  <2> HIDE DEF v
  <2>3. Leads(log, ItemsOf(c), v, live[c])
    BY <1>3, <1>5, <2>1, OnlyLogLeads
  <2>4. CASE c[1] \in ToSet(cycles) \cup {NoCycle}
    BY <1>6, <2>2, <2>3, <2>4, CurrentItem
  <2>5. CASE c[1] \notin ToSet(cycles) \cup {NoCycle}
    <3>1. \A i \in 1..Len(log) : log[i] \notin ItemsOf(c)
      BY <1>2, <2>5 DEF Within, ItemsOf
    <3>2. Committed.data[c] = Absent /\ Current.data[c] = Absent
      BY <1>6, <2>2, <2>5, CurrentItem
    <3> QED
      BY <3>1, <3>2 DEF Leads
  <2> QED
    BY <2>4, <2>5
<1>8. ASSUME NEW f \in Folder
      PROVE  Leads(log, SwitchesOf(f), Committed.page[f], Current.page[f])
  <2> DEFINE at == {j \in 1..Len(trail) : Switches(trail[j].log, f) # {}}
             last == trail[First(at)].log
             v == IF at = {} THEN page[f] ELSE last[First(Switches(last, f))].to
  <2>1. Before(trail, 1, SwitchesOf(f), page[f], v)
    BY <1>1, PageIs
  <2>2. Committed.page[f] = v
    BY DEF Committed, PoolAt, PageAt, Since
  <2> HIDE DEF v
  <2> QED
    BY <1>3, <1>5, <2>1, <2>2, OnlyLogLeads, CurrentPage
<1>9. Entry(log, Committed, Current)
  BY <1>5, <1>7, <1>8 DEF Entry, LeadsBack
<1> QED
  BY <1>2, <1>9 DEF log

(*------------------- the steps of the trail as history --------------------*)

\* The calls whose changes the lists account for: a clear of a cycle and a job that
\* disallows undo change the pool behind them, callbacks of a GUI update write while
\* recording is off, and an undo inside a transaction is recorded nowhere.
AccountedCalls == Calls \subseteq {"switch-page", "cycles", "undo"}

\* While there is something to undo or redo, recording is on, or off for an update
\* that turns it on again.
UndoIsOn ==
  /\ busy.op # "clear"
  /\ busy.op = "update" => busy.guard
  /\ undo # <<>> \/ redo # <<>> => activated /\ (enabled \/ busy.op = "update")

\* No transaction switches a page.
NoSwitchOpen == \A e : OnTrail(trail, e) => e.kind # "action"

Recording == UndoIsOn /\ NoSwitchOpen

\* Inside a transaction the lists stay, or are emptied.
LEMMA ListsInside ==
  ASSUME AccountedCalls, CyclesInv, Next, trail # <<>>, ~CommitFinal
  PROVE  UNCHANGED <<undo, redo>> \/ HistoryEnds
<1>0. ListsInv
  BY DEF CyclesInv, UndoInv
<1>1. CASE Step
  <2>1. \A c \in Cell : ClearItem(c) => UNCHANGED <<undo, redo>>
    BY DEF ClearItem, SaveItem, InTransaction, undoVars
  <2>2. \/ CommitElement \/ CommitInner \/ AbortPoint \/ UpdateDone
        \/ RestoreItem \/ RestorePage \/ RestoreSwitch \/ RestoreNew \/ RestoreDelete
        => UNCHANGED <<undo, redo>>
    BY DEF CommitElement, CommitInner, AbortPoint, UpdateDone, Recovering, undoVars,
           RestoreItem, RestorePage, RestoreSwitch, RestoreNew, RestoreDelete
  <2> QED
    BY <1>1, <2>1, <2>2 DEF Step
<1>2. CASE Call
  <2>1. ASSUME NEW o \in Owner, Begin(o) \/ Commit(o) \/ Abort(o)
        PROVE  UNCHANGED <<undo, redo>>
    BY <2>1 DEF Begin, Commit, Abort, undoVars
  <2>2. ASSUME NEW i, NEW n, NEW v, Write(i, n, v)
        PROVE  UNCHANGED <<undo, redo>>
    BY <2>2 DEF Write, SaveItem, InTransaction, undoVars
  <2>3. ASSUME NEW f, NEW p, SwitchPage(f, p)
        PROVE  UNCHANGED <<undo, redo>>
    BY <2>3 DEF SwitchPage, InTransaction, undoVars
  <2>4. ASSUME \/ \E c \in Cycle : NewCycle(c)
               \/ \E i \in 1..Len(cycles) : SetCycle(i) \/ RemoveCycle(i)
        PROVE  HistoryEnds
    <3>1. ClearUndo
      BY <2>4 DEF NewCycle, SetCycle, RemoveCycle
    <3> QED
      BY <1>0, <3>1, ClearedLists DEF HistoryEnds
  <2>5. ASSUME NEW i, ClearCycle(i)
        PROVE  UNCHANGED <<undo, redo>>
    BY <2>5 DEF ClearCycle, undoVars
  <2>6. UpdateForms \/ DisallowUndo \/ AllowUndo \/ Activate => UNCHANGED <<undo, redo>>
    BY DEF UpdateForms, DisallowUndo, AllowUndo, Activate, undoVars
  <2>7. EnableUndo => HistoryEnds
    BY DEF EnableUndo, HistoryEnds
  <2>8. ~Undo /\ ~Redo
    BY DEF AccountedCalls, Undo, Redo, UserMayUndo, InTransaction
  <2> QED
    BY <1>2, <2>1, <2>2, <2>3, <2>4, <2>5, <2>6, <2>7, <2>8 DEF Call
<1> QED
  BY <1>1, <1>2 DEF Next

\* While undo is off there is nothing to undo or redo.
LEMMA NothingWhenOff ==
  ASSUME Recording, ~IsEnabled, busy.op # "update"
  PROVE  undo = <<>> /\ redo = <<>>
BY DEF Recording, UndoIsOn, IsEnabled

\* An entry for a change outside a transaction, if undo is on.
LEMMA EntryInserted ==
  ASSUME Recording, busy.op # "update", NEW e \in Seq(Undoable), Entry(e, Committed, Committed'),
         InsertElement(e)
  PROVE  HistoryMoves
<1>1. CASE IsEnabled
  BY <1>1 DEF InsertElement, HistoryMoves, HistoryGoesOn
<1>2. CASE ~IsEnabled
  BY <1>2, NothingWhenOff DEF InsertElement, undoVars, HistoryMoves, HistoryEnds
<1> QED
  BY <1>1, <1>2

\* commitFinalTransaction
LEMMA FinalMoves ==
  ASSUME CyclesInv, TypeOK', Recording, CommitFinal
  PROVE  HistoryMoves
<1>0. /\ TypeOK /\ OwnerIsOpen /\ SavedOnce /\ ListsInv /\ TrailKnown
      /\ busy.op = "commit" /\ Len(trail) = 1 /\ trail' = <<>>
      /\ UNCHANGED <<live, page, cycles>>
  BY DEF CyclesInv, UndoInv, PoolInv, CommitFinal, poolVars
<1>1. trail # <<>> /\ trail \in Seq(Segment) /\ Top = trail[1]
  BY <1>0, OpenTransaction DEF TypeOK, Top
<1>2. CASE Top.log = <<>>
  <2>1. trail' = Front(trail)
    <3>1. Front(trail) \in Seq(Segment) /\ Len(Front(trail)) = 0
      BY <1>0, <1>1, FrontOfTrail
    <3>2. Front(trail) = <<>>
      BY <3>1, Len(<<>>) = 0
    <3> QED
      BY <1>0, <3>2
  <2>2. 1 \in 1..Len(trail)
    BY <1>0
  <2>3. Committed' = Committed
    BY <1>0, <1>1, <1>2, <2>1, <2>2, BeginsPopped DEF Committed
  <2>4. UNCHANGED undoVars
    BY <1>2 DEF CommitFinal
  <2> QED
    BY <2>3, <2>4 DEF HistoryMoves, HistoryStays, undoVars
<1>3. CASE ~IsEnabled
  <2>1. UNCHANGED undoVars
    BY <1>3 DEF CommitFinal
  <2> QED
    BY <1>0, <1>3, <2>1, NothingWhenOff DEF undoVars, HistoryMoves, HistoryEnds
<1>4. CASE ClearUndo
  BY <1>0, <1>4, ClearedLists DEF HistoryMoves, HistoryEnds
<1>5. CASE /\ ~\E i \in 1..Len(Top.log) : CycleElement(Top.log[i])
           /\ InsertElement(Top.log)
  <2>1. \A i \in 1..Len(Top.log) : ~CycleElement(Top.log[i]) /\ Top.log[i].kind # "action"
    <3>1. 1 \in 1..Len(trail)
      BY <1>0
    <3>2. \A i \in 1..Len(Top.log) : OnTrail(trail, Top.log[i])
      BY <1>1, <3>1 DEF OnTrail
    <3> QED
      BY <1>5, <3>2 DEF Recording, NoSwitchOpen
  <2>2. Committed' = Current
    <3>1. Committed' = Current'
      BY <1>0, CommittedThen
    <3>2. Current' = Current
      BY <1>0 DEF Current
    <3> QED
      BY <3>1, <3>2
  <2>3. Top.log \in Seq(Undoable) /\ Entry(Top.log, Committed, Committed')
    BY <1>0, <1>1, <2>1, <2>2, FinalEntry
  <2> QED
    BY <1>0, <1>5, <2>3, EntryInserted
<1> QED
  BY <1>2, <1>3, <1>4, <1>5 DEF CommitFinal

\* DataTTrailUndo::undo and redo walk along the history.
LEMMA RestoredWalks ==
  ASSUME TypeOK, TypeOK', trail = <<>>, trail' = <<>>, cycles' = cycles,
         NEW list \in Seq(Seq(Undoable)), list # <<>>, Chained(list, Committed),
         ListWithin(list, ToSet(cycles)),
         live' = LiveAfter(Last(list)), page' = PageAfter(Last(list)), NEW other
  PROVE  Walks(list, other, Front(list), Pushed(other, Exchanged(Last(list))))
<1>1. PICK e : e = Last(list)
  OBVIOUS
<1>2. /\ e \in Seq(Undoable) /\ Len(list) \in 1..Len(list) /\ Len(list) \in Nat
      /\ e = list[Len(list)]
  BY <1>1, FrontOfSeq, NonEmptySeq
<1>3. Committed = Current /\ Committed' = Current'
  BY CommittedNow, CommittedThen
<1>4. Within(e, ToSet(cycles))
  BY <1>2 DEF ListWithin
<1>5. /\ \A c \in TrackedCell : Alone(e, ItemsOf(c))
      /\ \A f \in Folder : Alone(e, SwitchesOf(f))
  BY <1>2 DEF Chained, Single
<1>6. ASSUME NEW f \in Folder, NEW i \in 1..Len(e), e[i] \in SwitchesOf(f)
      PROVE  e[i].from = page[f]
  <2>1. Back(list, Len(list) + 1, SwitchesOf(f), Committed.page[f], e[i].from)
    BY <1>2, <1>6 DEF Chained, Linked
  <2>2. e[i].from = Committed.page[f]
    BY <1>2, <2>1, BackNone
  <2> QED
    BY <1>3, <2>2, CurrentPage
<1>7. live' = LiveAfter(e) /\ page' = PageAfter(e)
  BY <1>1
<1>8. /\ LeadsBack(e, Current', Current)
      /\ Exchanged(e) \in Seq(Undoable)
      /\ Entry(Exchanged(e), Current, Current')
  BY <1>2, <1>4, <1>5, <1>6, <1>7, Restored
<1> QED
  BY <1>1, <1>3, <1>8 DEF Walks

\* Outside a transaction.
LEMMA OutsideMoves ==
  ASSUME AccountedCalls, CyclesInv, TypeOK', Recording, UndoChained, Next, trail = <<>>
  PROVE  HistoryMoves
<1>0. /\ TypeOK /\ OwnerIsOpen /\ ListsInv /\ ListsKnown
      /\ undo \in Seq(Seq(Undoable)) /\ redo \in Seq(Seq(Undoable))
      /\ "gui-write" \notin Calls /\ "disallow" \notin Calls /\ "clear-cycle" \notin Calls
      /\ busy.op # "clear"
  BY DEF CyclesInv, UndoInv, PoolInv, TypeOK, AccountedCalls, Recording, UndoIsOn
<1>1. busy.op \notin {"commit", "abort"}
  BY <1>0, OpenTransaction
<1>2. ASSUME UNCHANGED <<live, page, cycles, trail>>, UNCHANGED <<undo, redo>>
      PROVE  HistoryMoves
  BY <1>2, CommittedIdle DEF HistoryMoves, HistoryStays
<1>3. ASSUME trail' = trail
      PROVE  Committed = Current /\ Committed' = Current'
  BY <1>0, <1>3, CommittedNow, CommittedThen
<1>4. CASE Step
  <2>1. ~\E c \in Cell : ClearItem(c)
    BY <1>0 DEF ClearItem
  <2>2. UpdateDone
    BY <1>1, <1>4, <2>1 DEF Step, CommitElement, CommitInner, CommitFinal, AbortPoint, Recovering,
           RestoreItem, RestorePage, RestoreSwitch, RestoreNew, RestoreDelete
  <2> QED
    BY <1>2, <2>2 DEF UpdateDone, poolVars, undoVars
<1>5. ASSUME NEW o \in Owner, Begin(o)
      PROVE  HistoryMoves
  <2>1. 1 \in 1..(Len(trail) + 1)
    BY Len(<<>>) = 0
  <2>2. Committed' = Committed
    BY <1>0, <1>5, <2>1, BeginsPushed DEF Committed
  <2> QED
    BY <1>5, <2>2 DEF Begin, undoVars, HistoryMoves, HistoryStays
<1>6. ASSUME NEW o \in Owner, Commit(o) \/ Abort(o)
      PROVE  HistoryMoves
  BY <1>2, <1>6 DEF Commit, Abort, poolVars, undoVars
<1>7. ASSUME NEW i \in 1..Len(cycles), NEW n \in Name, NEW v \in Value, Write(i, n, v)
      PROVE  HistoryMoves
  <2> DEFINE c == CellOf(cycles[i], n)
  <2>1. c \in Cell /\ c[1] \in ToSet(cycles) \cup {NoCycle}
    BY <1>0, CellOfTyped, CellOfLiving
  <2> HIDE DEF c
  <2>2. /\ SaveItem(c) /\ live' = [live EXCEPT ![c] = v] /\ UNCHANGED <<page, cycles>>
        /\ busy.op = "idle"
    BY <1>0, <1>7 DEF Write, c
  <2>3. trail' = trail
    BY <2>2 DEF SaveItem, InTransaction
  <2>4. CASE c[2] \in Omit
    <3>1. UNCHANGED undoVars
      BY <2>2, <2>4 DEF SaveItem
    <3>2. \A d \in TrackedCell : live'[d] = live[d]
      BY <1>0, <2>2, <2>4 DEF TrackedCell, TypeOK
    <3>3. Current' = Current
      BY <2>2, <3>2 DEF Current
    <3> QED
      BY <1>3, <2>3, <3>1, <3>3 DEF HistoryMoves, HistoryStays, undoVars
  <2>5. CASE c[2] \notin Omit
    <3>1. PICK e : e = <<Item(c)>>
      OBVIOUS
    <3>2. InsertElement(e)
      BY <2>2, <2>5, <3>1 DEF SaveItem, InTransaction
    <3>3. e \in Seq(Undoable) /\ Entry(e, Current, Current')
      BY <1>0, <2>1, <2>2, <3>1, WrittenEntry
    <3> QED
      BY <1>3, <2>2, <2>3, <3>2, <3>3, EntryInserted
  <2> QED
    BY <2>4, <2>5
<1>8. ASSUME NEW f \in Folder, NEW p \in Page, SwitchPage(f, p)
      PROVE  HistoryMoves
  <2>1. PICK x : x = [kind |-> "action", folder |-> f, to |-> page[f], from |-> p]
    OBVIOUS
  <2>2. /\ InsertElement(<<x>>) /\ trail' = trail /\ page' = [page EXCEPT ![f] = p]
        /\ UNCHANGED <<live, cycles>> /\ busy.op = "idle"
    BY <1>8, <2>1 DEF SwitchPage, InTransaction
  <2>3. <<x>> \in Seq(Undoable) /\ Entry(<<x>>, Current, Current')
    BY <1>0, <2>1, <2>2, SwitchedEntry
  <2> QED
    BY <1>3, <2>2, <2>3, EntryInserted
<1>9. ASSUME \/ \E c \in Cycle : NewCycle(c)
             \/ \E i \in 1..Len(cycles) : SetCycle(i) \/ RemoveCycle(i)
      PROVE  HistoryMoves
  <2>1. ClearUndo
    BY <1>9 DEF NewCycle, SetCycle, RemoveCycle
  <2> QED
    BY <1>0, <2>1, ClearedLists DEF HistoryMoves, HistoryEnds
<1>10. CASE EnableUndo
  BY <1>10 DEF EnableUndo, HistoryMoves, HistoryEnds
<1>11. CASE Activate
  BY <1>2, <1>11 DEF Activate, poolVars
<1>12. CASE Undo
  <2>1. trail' = trail /\ trail' = <<>> /\ cycles' = cycles
    BY <1>12 DEF Undo
  <2>2. CASE activated /\ undo # <<>>
    <3>1. /\ live' = LiveAfter(Last(undo)) /\ page' = PageAfter(Last(undo))
          /\ undo' = Front(undo) /\ redo' = Pushed(redo, Exchanged(Last(undo)))
      BY <1>12, <2>2 DEF Undo
    <3>2. Walks(undo, redo, Front(undo), Pushed(redo, Exchanged(Last(undo))))
      BY <1>0, <2>1, <2>2, <3>1, RestoredWalks DEF UndoChained, ListsKnown
    <3> QED
      BY <3>1, <3>2 DEF HistoryMoves, HistoryWalked
  <2>3. CASE ~(activated /\ undo # <<>>)
    BY <1>2, <1>12, <2>1, <2>3 DEF Undo
  <2> QED
    BY <2>2, <2>3
<1>13. CASE Redo
  <2>1. trail' = trail /\ trail' = <<>> /\ cycles' = cycles
    BY <1>13 DEF Redo
  <2>2. CASE activated /\ redo # <<>>
    <3>1. /\ live' = LiveAfter(Last(redo)) /\ page' = PageAfter(Last(redo))
          /\ redo' = Front(redo) /\ undo' = Pushed(undo, Exchanged(Last(redo)))
      BY <1>13, <2>2 DEF Redo
    <3>2. Walks(redo, undo, Front(redo), Pushed(undo, Exchanged(Last(redo))))
      BY <1>0, <2>1, <2>2, <3>1, RestoredWalks DEF UndoChained, ListsKnown
    <3> QED
      BY <3>1, <3>2 DEF HistoryMoves, HistoryWalked
  <2>3. CASE ~(activated /\ redo # <<>>)
    BY <1>2, <1>13, <2>1, <2>3 DEF Redo
  <2> QED
    BY <2>2, <2>3
<1>14. /\ ~UpdateForms /\ ~DisallowUndo /\ ~AllowUndo
       /\ ~\E i \in 1..Len(cycles) : ClearCycle(i)
  BY <1>0 DEF UpdateForms, DisallowUndo, AllowUndo, ClearCycle
<1> QED
  BY <1>4, <1>5, <1>6, <1>7, <1>8, <1>9, <1>10, <1>11, <1>12, <1>13, <1>14 DEF Next, Call

\* Every step does one thing to the history.
LEMMA MovesStep ==
  ASSUME AccountedCalls, CyclesInv, TypeOK', Recording, UndoChained, [Next]_vars
  PROVE  HistoryMoves
<1>1. CASE UNCHANGED vars
  BY <1>1, CommittedIdle DEF vars, HistoryMoves, HistoryStays
<1>2. CASE CommitFinal
  BY <1>2, FinalMoves
<1>3. CASE Next /\ trail = <<>>
  BY <1>3, OutsideMoves
<1>4. CASE Next /\ trail # <<>> /\ ~CommitFinal
  <2>1. Committed' = Committed
    BY <1>4, CommittedInside DEF AccountedCalls
  <2>2. UNCHANGED <<undo, redo>> \/ HistoryEnds
    BY <1>4, ListsInside
  <2> QED
    BY <2>1, <2>2 DEF HistoryMoves, HistoryStays
<1> QED
  BY <1>1, <1>2, <1>3, <1>4

\* The lists are filled only while undo is on.
LEMMA OnKept ==
  ASSUME UndoIsOn, UNCHANGED <<activated, enabled>>,
         busy' = busy \/ (busy.op # "update" /\ busy'.op \notin {"clear", "update"}),
         UNCHANGED <<undo, redo>> \/ HistoryEnds \/ IsEnabled
  PROVE  UndoIsOn'
BY DEF UndoIsOn, HistoryEnds, IsEnabled

\* So it stays.
LEMMA OnStep ==
  ASSUME AccountedCalls, CyclesInv, UndoIsOn, [Next]_vars
  PROVE  UndoIsOn'
<1>0. /\ TypeOK /\ ListsInv /\ Idle.op = "idle"
      /\ "gui-write" \notin Calls /\ "disallow" \notin Calls /\ "clear-cycle" \notin Calls
  BY LoopRecords DEF CyclesInv, UndoInv, PoolInv, AccountedCalls
<1>1. \A e : InsertElement(e) => UNCHANGED <<undo, redo>> \/ IsEnabled
  BY DEF InsertElement, undoVars
<1>2. ClearUndo => HistoryEnds
  BY <1>0, ClearedLists DEF HistoryEnds
<1>3. CASE UNCHANGED vars
  BY <1>3, OnKept DEF vars
<1>4. CASE Step
  <2>1. ~\E c \in Cell : ClearItem(c)
    BY DEF ClearItem, UndoIsOn
  <2>2. CASE \/ CommitElement
             \/ RestoreItem \/ RestorePage \/ RestoreSwitch \/ RestoreNew \/ RestoreDelete
    <3>1. UNCHANGED <<undo, redo, activated, enabled, busy>>
      BY <2>2 DEF CommitElement, Recovering, undoVars, modeVars,
                  RestoreItem, RestorePage, RestoreSwitch, RestoreNew, RestoreDelete
    <3> QED
      BY <3>1, OnKept
  <2>3. CASE CommitInner \/ CommitFinal \/ AbortPoint
    <3>1. /\ UNCHANGED <<activated, enabled>> /\ AfterPoint
          /\ busy.op # "update"
      BY <2>3 DEF CommitInner, CommitFinal, AbortPoint, modeVars
    <3>2. busy' = busy \/ (busy.op # "update" /\ busy'.op \notin {"clear", "update"})
      BY <1>0, <3>1 DEF AfterPoint
    <3>3. UNCHANGED <<undo, redo>> \/ HistoryEnds \/ IsEnabled
      BY <1>1, <1>2, <2>3 DEF CommitInner, CommitFinal, AbortPoint, undoVars
    <3> QED
      BY <3>1, <3>2, <3>3, OnKept
  <2>4. CASE UpdateDone
    BY <1>0, <2>4 DEF UpdateDone, UndoIsOn, undoVars
  <2> QED
    BY <1>4, <2>1, <2>2, <2>3, <2>4 DEF Step
<1>5. ASSUME NEW o \in Owner, Begin(o)
      PROVE  UndoIsOn'
  BY <1>5, OnKept DEF Begin, undoVars, modeVars
<1>6. ASSUME NEW o \in Owner, Commit(o) \/ Abort(o)
      PROVE  UndoIsOn'
  <2>1. busy' = busy \/ (busy.op # "update" /\ busy'.op \notin {"clear", "update"})
    BY <1>0, <1>6, EndingStarts
  <2>2. UNCHANGED <<undo, redo, activated, enabled>>
    BY <1>6 DEF Commit, Abort, undoVars, modeVars
  <2> QED
    BY <2>1, <2>2, OnKept
<1>7. ASSUME NEW i, NEW n, NEW v, Write(i, n, v)
      PROVE  UndoIsOn'
  <2>1. UNCHANGED <<activated, enabled, busy>>
    BY <1>7 DEF Write, modeVars
  <2>2. UNCHANGED <<undo, redo>> \/ IsEnabled
    BY <1>1, <1>7 DEF Write, SaveItem, undoVars
  <2> QED
    BY <2>1, <2>2, OnKept
<1>8. ASSUME NEW f, NEW p, SwitchPage(f, p)
      PROVE  UndoIsOn'
  <2>1. UNCHANGED <<activated, enabled, busy>>
    BY <1>8 DEF SwitchPage, modeVars
  <2>2. UNCHANGED <<undo, redo>> \/ IsEnabled
    BY <1>1, <1>8 DEF SwitchPage, undoVars
  <2> QED
    BY <2>1, <2>2, OnKept
<1>9. ASSUME \/ \E c \in Cycle : NewCycle(c)
             \/ \E i \in 1..Len(cycles) : SetCycle(i) \/ RemoveCycle(i)
      PROVE  UndoIsOn'
  <2>1. UNCHANGED <<activated, enabled, busy>> /\ ClearUndo
    BY <1>9 DEF NewCycle, SetCycle, RemoveCycle, modeVars
  <2> QED
    BY <1>2, <2>1, OnKept
<1>10. CASE Undo \/ Redo
  <2>1. CASE UNCHANGED <<undo, redo, activated, enabled, busy>>
    BY <2>1, OnKept
  <2>2. CASE activated /\ activated' = activated /\ GuardedUpdate
    <3>1. busy'.op = "update" /\ busy'.guard
      <4>1. busy' = [Idle EXCEPT !.op = "update", !.guard = TRUE]
        BY <2>2 DEF GuardedUpdate
      <4> QED
        BY <4>1 DEF Idle
    <3> QED
      BY <2>2, <3>1 DEF UndoIsOn
  <2> QED
    BY <1>10, <2>1, <2>2 DEF Undo, Redo
<1>11. CASE Activate
  BY <1>0, <1>11 DEF Activate, UndoIsOn
<1>12. CASE EnableUndo
  BY <1>0, <1>12 DEF EnableUndo, UndoIsOn
<1>13. /\ ~UpdateForms /\ ~DisallowUndo /\ ~AllowUndo
       /\ ~\E i \in 1..Len(cycles) : ClearCycle(i)
  BY <1>0 DEF UpdateForms, DisallowUndo, AllowUndo, ClearCycle
<1> QED
  BY <1>3, <1>4, <1>5, <1>6, <1>7, <1>8, <1>9, <1>10, <1>11, <1>12, <1>13 DEF Next, Call

\* The innermost log is replaced by one without switches of a page.
LEMMA NoSwitchInTop ==
  ASSUME TypeOK, NoSwitchOpen, trail # <<>>, NEW log \in Seq(Element),
         \A i \in 1..Len(log) : log[i].kind # "action", trail' = WithTopLog(log)
  PROVE  NoSwitchOpen'
<1>1. /\ Len(trail') = Len(trail) /\ Len(trail) \in Nat \ {0}
      /\ \A k \in 1..(Len(trail) - 1) : trail'[k] = trail[k]
      /\ trail'[Len(trail)] = [Top EXCEPT !.log = log] /\ Top \in Segment
  BY WithTopLogTyped, TopInTrail
<1>2. trail'[Len(trail)].log = log
  BY <1>1 DEF Segment
<1>3. \A k \in 1..Len(trail') : k = Len(trail) \/ k \in 1..(Len(trail) - 1)
  BY <1>1
<1>4. \A k \in 1..(Len(trail) - 1) : k \in 1..Len(trail)
  BY <1>1
<1>5. ASSUME NEW k \in 1..Len(trail'), NEW i \in 1..Len(trail'[k].log)
      PROVE  trail'[k].log[i].kind # "action"
  <2>1. CASE k = Len(trail)
    BY <1>2, <2>1
  <2>2. CASE k \in 1..(Len(trail) - 1)
    <3>1. trail'[k] = trail[k] /\ k \in 1..Len(trail)
      BY <1>1, <1>4, <2>2
    <3>2. OnTrail(trail, trail'[k].log[i])
      BY <3>1 DEF OnTrail
    <3> QED
      BY <3>2 DEF NoSwitchOpen
  <2> QED
    BY <1>3, <2>1, <2>2
<1> QED
  BY <1>5 DEF NoSwitchOpen, OnTrail

\* What is in the innermost log is on the trail.
LEMMA NoSwitchNow ==
  ASSUME TypeOK, NoSwitchOpen, trail # <<>>
  PROVE  Top.log \in Seq(Element) /\ \A i \in 1..Len(Top.log) : Top.log[i].kind # "action"
<1>1. Len(trail) \in 1..Len(trail) /\ Top = trail[Len(trail)]
  BY TopInTrail DEF Top
<1>2. \A i \in 1..Len(Top.log) : OnTrail(trail, Top.log[i])
  BY <1>1 DEF OnTrail
<1> QED
  BY <1>2, TopInTrail DEF NoSwitchOpen

\* An element is recorded.
LEMMA NoSwitchRecord ==
  ASSUME TypeOK, NoSwitchOpen, trail # <<>>, NEW e \in Element, e.kind # "action",
         trail' = Record(e)
  PROVE  NoSwitchOpen'
<1> DEFINE log == Top.log
<1>1. log \in Seq(Element) /\ \A i \in 1..Len(log) : log[i].kind # "action"
  BY NoSwitchNow
<1> HIDE DEF log
<1>2. /\ Append(log, e) \in Seq(Element)
      /\ \A i \in 1..Len(Append(log, e)) :
           (i \in 1..Len(log) /\ Append(log, e)[i] = log[i]) \/ Append(log, e)[i] = e
  BY <1>1
<1>3. \A i \in 1..Len(Append(log, e)) : Append(log, e)[i].kind # "action"
  BY <1>1, <1>2
<1>4. trail' = WithTopLog(Append(log, e))
  BY DEF Record, log
<1> QED
  BY <1>2, <1>3, <1>4, NoSwitchInTop

\* No switch comes into a transaction.
LEMMA NoSwitchStep ==
  ASSUME AccountedCalls, CyclesInv, UndoIsOn, NoSwitchOpen, [Next]_vars
  PROVE  NoSwitchOpen'
<1>0. /\ TypeOK /\ OwnerIsOpen /\ trail \in Seq(Segment) /\ Ordered(trail)
      /\ "switch-in-transaction" \notin Calls
  BY DEF CyclesInv, UndoInv, PoolInv, TypeOK, TrailKnown, Known, AccountedCalls
<1>1. ASSUME \A f : OnTrail(trail', f) => OnTrail(trail, f)
      PROVE  NoSwitchOpen'
  BY <1>1 DEF NoSwitchOpen
<1>2. ASSUME trail' = trail
      PROVE  NoSwitchOpen'
  BY <1>1, <1>2
<1>3. CASE CommitElement
  <2>1. Len(trail) > 1 /\ trail[Len(trail)].log # <<>>
    BY <1>3 DEF CommitElement, Top
  <2>2. /\ trail' \in Seq(Segment)
        /\ Len(trail') = Len(trail)
        /\ \A k \in 1..(Len(trail) - 2) : trail'[k].log = trail[k].log
        /\ trail'[Len(trail)].log = Tail(trail[Len(trail)].log)
        /\ \/ trail'[Len(trail) - 1].log
                = Append(trail[Len(trail) - 1].log, Head(trail[Len(trail)].log))
           \/ /\ trail'[Len(trail) - 1].log = trail[Len(trail) - 1].log
              /\ Head(trail[Len(trail)].log).kind = "item"
    BY <1>0, <1>3, CommitElementTrail DEF Resident
  <2> QED
    BY <1>0, <1>1, <2>1, <2>2, OrderedMove
<1>4. CASE CommitInner \/ AbortPoint
  <2>1. trail # <<>> /\ trail' = Front(trail) /\ trail[Len(trail)].log = <<>>
    BY <1>0, <1>4, OpenTransaction DEF CommitInner, AbortPoint, Top
  <2> QED
    BY <1>0, <1>1, <2>1, OrderedPop
<1>5. CASE CommitFinal
  <2>1. trail' = <<>>
    BY <1>5 DEF CommitFinal
  <2> QED
    BY <1>1, <2>1, OrderedEmpty
<1>6. CASE RestoreItem \/ RestorePage \/ RestoreSwitch \/ RestoreNew \/ RestoreDelete
  <2>1. busy.op = "abort" /\ Top.log # <<>> /\ trail' = DropNewest
    BY <1>6 DEF RestoreItem, RestorePage, RestoreSwitch, RestoreNew, RestoreDelete, Recovering
  <2> QED
    BY <1>0, <1>1, <2>1, OpenTransaction, OrderedDrop
<1>7. ~\E c \in Cell : ClearItem(c)
  BY DEF ClearItem, UndoIsOn
<1>8. CASE UpdateDone \/ UNCHANGED vars
  BY <1>2, <1>8 DEF UpdateDone, vars
<1>9. CASE Step
  BY <1>3, <1>4, <1>5, <1>6, <1>7, <1>8, <1>9 DEF Step
<1>10. ASSUME NEW o \in Owner, Begin(o)
       PROVE  NoSwitchOpen'
  <2> DEFINE s == [owner |-> o, log |-> <<>>]
  <2>1. s \in Segment /\ s.log = <<>>
    BY DEF Segment
  <2>2. trail' = Append(trail, s)
    BY <1>10 DEF Begin
  <2> HIDE DEF s
  <2> QED
    BY <1>0, <1>1, <2>1, <2>2, OrderedPush
<1>11. ASSUME NEW o \in Owner, Commit(o) \/ Abort(o)
       PROVE  NoSwitchOpen'
  BY <1>2, <1>11 DEF Commit, Abort
<1>12. ASSUME NEW e \in Element, e.kind # "action", trail' = RecordIf(e)
       PROVE  NoSwitchOpen'
  BY <1>0, <1>2, <1>12, NoSwitchRecord DEF RecordIf, InTransaction
<1>13. ASSUME NEW i \in 1..Len(cycles), NEW n \in Name, NEW v \in Value, Write(i, n, v)
       PROVE  NoSwitchOpen'
  <2> DEFINE c == CellOf(cycles[i], n)
  <2>1. SaveItem(c) /\ c \in Cell
    BY <1>0, <1>13, CellOfTyped DEF Write
  <2> HIDE DEF c
  <2>2. Item(c) \in Element /\ Item(c).kind # "action"
    BY <1>0, <2>1 DEF TypeOK, Item, ItemEl, Undoable, Element
  <2>3. trail' = trail \/ trail' = RecordIf(Item(c))
    BY <2>1 DEF SaveItem, RecordIf
  <2> QED
    BY <1>2, <1>12, <2>2, <2>3
<1>14. ASSUME NEW f, NEW p, SwitchPage(f, p)
       PROVE  NoSwitchOpen'
  BY <1>0, <1>2, <1>14 DEF SwitchPage
<1>15. ASSUME NEW c \in Cycle, NewCycle(c)
       PROVE  NoSwitchOpen'
  <2> DEFINE e == [kind |-> "new", old |-> actual, new |-> Len(cycles) + 1, cycle |-> c]
  <2>1. e \in Element /\ e.kind # "action" /\ trail' = RecordIf(e)
    BY <1>0, <1>15 DEF TypeOK, NewCycle, NewEl, Element
  <2> HIDE DEF e
  <2> QED
    BY <1>12, <2>1
<1>16. ASSUME NEW i \in 1..Len(cycles), SetCycle(i)
       PROVE  NoSwitchOpen'
  <2> DEFINE e == [kind |-> "switch", num |-> actual]
  <2>1. e \in Element /\ e.kind # "action" /\ trail' = RecordIf(e)
    BY <1>0, <1>16 DEF TypeOK, SetCycle, SwitchEl, Element
  <2> HIDE DEF e
  <2> QED
    BY <1>12, <2>1
<1>17. ASSUME NEW i \in 1..Len(cycles), RemoveCycle(i)
       PROVE  NoSwitchOpen'
  <2> DEFINE a == [kind |-> "switch", num |-> actual]
             b == [kind |-> "delete", cycle |-> cycles[i], num |-> i]
  <2>1. /\ a \in Element /\ a.kind = "switch" /\ b \in Element /\ b.kind = "delete"
        /\ trail' = IF InTransaction THEN WithTopLog(Top.log \o <<a, b>>) ELSE trail
    BY <1>0, <1>17 DEF TypeOK, RemoveCycle, SwitchEl, DeleteEl, Element
  <2> HIDE DEF a, b
  <2>2. CASE trail # <<>>
    <3> DEFINE log == Top.log
    <3>1. log \in Seq(Element) /\ \A m \in 1..Len(log) : log[m].kind # "action"
      BY <1>0, <2>2, NoSwitchNow
    <3>2. trail' = WithTopLog(log \o <<a, b>>)
      BY <2>1, <2>2 DEF InTransaction
    <3> HIDE DEF log
    <3>3. PICK l \in Seq(Element) : l = log \o <<a, b>> /\ l = Append(Append(log, a), b)
      <4>1. log \o <<a, b>> = Append(Append(log, a), b)
        BY <2>1, <3>1, AppendTwo
      <4>2. Append(log, a) \in Seq(Element)
        BY <2>1, <3>1
      <4>3. Append(Append(log, a), b) \in Seq(Element)
        BY <2>1, <4>2
      <4> QED
        BY <4>1, <4>3
    <3>4. /\ Len(l) = Len(log) + 2 /\ Len(log) \in Nat
          /\ \A m \in 1..Len(log) : l[m] = log[m]
          /\ l[Len(log) + 1] = a /\ l[Len(log) + 2] = b
      BY <2>1, <3>1, <3>3
    <3>5. \A m \in 1..Len(l) : m \in 1..Len(log) \/ m = Len(log) + 1 \/ m = Len(log) + 2
      BY <3>4
    <3>6. \A m \in 1..Len(l) : l[m].kind # "action"
      BY <2>1, <3>1, <3>4, <3>5
    <3> QED
      BY <1>0, <2>2, <3>2, <3>3, <3>6, NoSwitchInTop
  <2>3. CASE trail = <<>>
    BY <1>2, <2>1, <2>3 DEF InTransaction
  <2> QED
    BY <2>2, <2>3
<1>18. CASE \/ \E i \in 1..Len(cycles) : ClearCycle(i)
            \/ Undo \/ Redo \/ UpdateForms \/ Activate \/ EnableUndo \/ DisallowUndo \/ AllowUndo
  BY <1>2, <1>18 DEF ClearCycle, Undo, Redo, UpdateForms, Activate, EnableUndo, DisallowUndo,
                     AllowUndo
<1>19. CASE Call
  BY <1>10, <1>11, <1>13, <1>14, <1>15, <1>16, <1>17, <1>18, <1>19 DEF Call
<1> QED
  BY <1>8, <1>9, <1>19 DEF Next

\* In the beginning there is nothing to undo or redo.
LEMMA HistoryInitially ==
  ASSUME Init, TypeOK
  PROVE  History!Init /\ UndoIsOn /\ NoSwitchOpen /\ UndoChained
<1>1. PoolsOf(Committed, <<>>) = <<>>
  BY NoPoints, Len(<<>>) = 0 DEF PoolsOf, Points
<1>2. Committed \in Contents
  BY CommittedTyped
<1>3. History!Init
  BY <1>1, <1>2, HistoryIs DEF History!Init, Init
<1>4. UndoIsOn
  BY LoopRecords DEF Init, UndoIsOn
<1>5. NoSwitchOpen
  BY OrderedEmpty DEF Init, NoSwitchOpen
<1>6. UndoChained
  BY ChainedEmpty DEF Init, UndoChained
<1> QED
  BY <1>3, <1>4, <1>5, <1>6

\* Undo and redo walk the user through the history of the committed pools: undo
\* returns to the pool before the last recorded change or committed transaction,
\* redo to the one after it, at most MaxElements steps.
THEOREM UndoImplementsHistory ==
  ASSUME AccountedCalls
  PROVE  Spec => ImplementsUndoHistory
<1> DEFINE I == UndoIsOn /\ NoSwitchOpen /\ UndoChained
<1>1. Spec => []CyclesInv
  BY CyclesInvariant
<1>2. Init /\ CyclesInv => History!Init /\ I
  BY HistoryInitially DEF CyclesInv, UndoInv, PoolInv
<1>3. CyclesInv /\ CyclesInv' /\ I /\ [Next]_vars => I' /\ [History!Next]_(History!vars)
  <2> SUFFICES ASSUME CyclesInv, CyclesInv', I, [Next]_vars
               PROVE  I' /\ [History!Next]_(History!vars)
    OBVIOUS
  <2>1. TypeOK /\ TypeOK' /\ ListsBounded
    BY DEF CyclesInv, UndoInv, PoolInv, ListsInv
  <2>2. HistoryMoves
    BY <2>1, MovesStep DEF Recording
  <2>3. UndoIsOn' /\ NoSwitchOpen' /\ UndoChained'
    BY <2>1, <2>2, OnStep, NoSwitchStep, ChainedStep
  <2>4. HistoryStep
    BY <2>1, <2>2, HistorySeen
  <2> QED
    BY <2>3, <2>4 DEF HistoryStep
<1> HIDE DEF I
<1> QED
  BY <1>1, <1>2, <1>3, PTL DEF Spec, ImplementsUndoHistory, History!Spec
=============================================================================
