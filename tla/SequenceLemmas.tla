--------------------------- MODULE SequenceLemmas ---------------------------
(***************************************************************************)
(* Facts about sequences and positions that the proofs of the other modules *)
(* rest on.                                                                *)
(***************************************************************************)
EXTENDS SequencesExt, FiniteSetTheorems, TLAPS

\* A nonempty set of positions has a greatest one.
LEMMA MaximumExists ==
  ASSUME NEW n \in Nat, NEW S \in SUBSET (1..n), S # {}
  PROVE  \E i \in S : \A j \in S : j <= i
<1> DEFINE Above(i) == {j \in S : j > i}
           R == StrictSubsetOrdering(S)
<1>1. IsFiniteSet(S)
  <2>1. IsFiniteSet(1..n)
    BY FS_Interval
  <2> QED
    BY <2>1, FS_Subset
<1>2. IsWellFoundedOn(R, SUBSET S)
  <2>1. FiniteSubsetsOf(S) = SUBSET S
    <3> HIDE DEF R
    <3> QED
      BY <1>1, FS_FiniteSubsetsOfFinite
  <2>2. IsWellFoundedOn(R, FiniteSubsetsOf(S))
    BY FS_StrictSubsetOrderingWellFounded
  <2> QED
    BY <2>1, <2>2
<1>3. {Above(i) : i \in S} \subseteq SUBSET S /\ {Above(i) : i \in S} # {}
  OBVIOUS
<1>4. \E x \in {Above(i) : i \in S} : \A y \in {Above(i) : i \in S} : <<y, x>> \notin R
  BY <1>2, <1>3, WFMin
<1>5. PICK i \in S : \A k \in S : <<Above(k), Above(i)>> \notin R
  BY <1>4
<1>6. ASSUME NEW k \in S, k > i
      PROVE  FALSE
  <2>1. Above(k) \subseteq Above(i) /\ k \in Above(i) /\ k \notin Above(k)
    <3>1. k \in Int /\ i \in Int /\ ~(k > k) /\ \A j \in S : j > k => j > i
      BY <1>6
    <3>2. k \notin Above(k) /\ k \in Above(i)
      BY <1>6, <3>1
    <3>3. Above(k) \subseteq Above(i)
      BY <3>1
    <3> QED
      BY <3>2, <3>3
  <2>2. <<Above(k), Above(i)>> \in R
    <3>1. Above(k) \in SUBSET S /\ Above(i) \in SUBSET S
      OBVIOUS
    <3>2. Above(k) # Above(i)
      BY <2>1
    <3> HIDE DEF Above
    <3>3. <<Above(k), Above(i)>> \in (SUBSET S) \X (SUBSET S)
      BY <3>1
    <3> QED
      BY <2>1, <3>2, <3>3 DEF StrictSubsetOrdering
  <2> QED
    BY <1>5, <2>2
<1> QED
  BY <1>6

\* The positions below the last one, and below the last two.
LEMMA Below ==
  ASSUME NEW m \in Nat, NEW k \in 1..m, k # m
  PROVE  k \in 1..(m - 1) /\ k + 1 \in 1..m /\ k \in Nat /\ k + 1 \in Nat
OBVIOUS

\* The positions of a sequence before its last two.
LEMMA BelowTwo ==
  ASSUME NEW m \in Nat, NEW k \in 1..m, k # m, k # m - 1
  PROVE  k \in 1..(m - 2)
OBVIOUS

\* The positions of a sequence that lost its first element.
LEMMA Shifted ==
  ASSUME NEW m \in Nat, NEW i \in 1..(m - 1)
  PROVE  i + 1 \in 1..m /\ i \in Nat /\ i + 1 \in Nat
OBVIOUS

\* Appending two elements at once.
LEMMA AppendTwo ==
  ASSUME NEW S, NEW s \in Seq(S), NEW a \in S, NEW b \in S
  PROVE  s \o <<a, b>> = Append(Append(s, a), b)
OBVIOUS

\* The first and the last element of a nonempty sequence.
LEMMA NonEmptySeq ==
  ASSUME NEW S, NEW s \in Seq(S), s # <<>>
  PROVE  /\ Len(s) \in Nat \ {0}
         /\ s[Len(s)] \in S
         /\ s[1] \in S
OBVIOUS

\* What Head and Tail return.
LEMMA TailOfSeq ==
  ASSUME NEW S, NEW s \in Seq(S), s # <<>>
  PROVE  /\ Head(s) = s[1]
         /\ Tail(s) \in Seq(S)
         /\ Len(Tail(s)) = Len(s) - 1
         /\ \A i \in 1..(Len(s) - 1) : Tail(s)[i] = s[i + 1]
OBVIOUS

\* A function on 1..n is a sequence.
LEMMA SeqOfFunction ==
  ASSUME NEW S, NEW n \in Nat, NEW f \in [1..n -> S]
  PROVE  f \in Seq(S) /\ Len(f) = n
OBVIOUS

\* A sequence with one element replaced.
LEMMA ExceptOfSeq ==
  ASSUME NEW S, NEW s \in Seq(S), NEW i \in 1..Len(s), NEW e \in S
  PROVE  /\ [s EXCEPT ![i] = e] \in Seq(S)
         /\ Len([s EXCEPT ![i] = e]) = Len(s)
         /\ \A j \in 1..Len(s) : [s EXCEPT ![i] = e][j] = IF j = i THEN e ELSE s[j]
OBVIOUS

\* What a prefix SubSeq(s, 1, n) returns.
LEMMA Prefix ==
  ASSUME NEW S, NEW s \in Seq(S), NEW n \in Nat, n <= Len(s)
  PROVE  /\ SubSeq(s, 1, n) \in Seq(S)
         /\ Len(SubSeq(s, 1, n)) = n
         /\ \A i \in 1..n : SubSeq(s, 1, n)[i] = s[i]
OBVIOUS

\* What Front and Last return.
LEMMA FrontOfSeq ==
  ASSUME NEW S, NEW s \in Seq(S), s # <<>>
  PROVE  /\ Front(s) \in Seq(S)
         /\ Len(Front(s)) = Len(s) - 1
         /\ Last(s) \in S
         /\ Last(s) = s[Len(s)]
         /\ \A i \in 1..(Len(s) - 1) : Front(s)[i] = s[i]
<1> DEFINE n == Len(s) - 1
<1>1. n \in Nat /\ n <= Len(s) /\ n + 1 = Len(s) /\ s[Len(s)] \in S
  OBVIOUS
<1>2. Front(s) = SubSeq(s, 1, n)
  BY DEF Front
<1>3. Last(s) = s[Len(s)]
  BY DEF Last
<1> HIDE DEF n
<1> QED
  BY <1>1, <1>2, <1>3, Prefix

\* RemoveAt keeps the type of a sequence and shortens it by one.
LEMMA RemoveAtSeq ==
  ASSUME NEW S, NEW s \in Seq(S), NEW i \in 1..Len(s)
  PROVE  /\ RemoveAt(s, i) \in Seq(S)
         /\ Len(RemoveAt(s, i)) = Len(s) - 1
<1> DEFINE a == SubSeq(s, 1, i - 1)
           b == SubSeq(s, i + 1, Len(s))
<1>1. a \in Seq(S) /\ Len(a) = i - 1
  OBVIOUS
<1>2. b \in Seq(S) /\ Len(b) = Len(s) - i
  OBVIOUS
<1>3. RemoveAt(s, i) = a \o b
  BY DEF RemoveAt
<1> HIDE DEF a, b
<1>4. a \o b \in Seq(S) /\ Len(a \o b) = Len(a) + Len(b)
  BY <1>1, <1>2
<1>5. i \in Int /\ Len(s) \in Int
  OBVIOUS
<1> QED
  BY <1>1, <1>2, <1>3, <1>4, <1>5

\* The elements after the removed one move forward.
LEMMA RemoveAtElements ==
  ASSUME NEW S, NEW s \in Seq(S), NEW i \in 1..Len(s)
  PROVE  \A j \in 1..(Len(s) - 1) : RemoveAt(s, i)[j] = IF j < i THEN s[j] ELSE s[j + 1]
<1> DEFINE a == SubSeq(s, 1, i - 1)
           b == SubSeq(s, i + 1, Len(s))
<1>0. Len(s) \in Nat /\ i \in Nat /\ i >= 1 /\ i <= Len(s)
  OBVIOUS
<1>1. a \in Seq(S) /\ Len(a) = i - 1 /\ \A j \in 1..(i - 1) : a[j] = s[j]
  OBVIOUS
<1>2. b \in Seq(S) /\ Len(b) = Len(s) - i /\ \A j \in 1..(Len(s) - i) : b[j] = s[i + j]
  OBVIOUS
<1>3. RemoveAt(s, i) = a \o b
  BY DEF RemoveAt
<1> HIDE DEF a, b
<1> SUFFICES ASSUME NEW j \in 1..(Len(s) - 1)
             PROVE  (a \o b)[j] = IF j < i THEN s[j] ELSE s[j + 1]
  BY <1>3
<1>4. CASE j < i
  <2>1. j \in 1..(i - 1) /\ j \in 1..Len(a)
    BY <1>0, <1>1, <1>4
  <2>2. (a \o b)[j] = a[j]
    BY <1>1, <1>2, <2>1
  <2> QED
    BY <1>1, <1>4, <2>1, <2>2
<1>5. CASE ~(j < i)
  <2>1. j - (i - 1) \in 1..(Len(s) - i) /\ i + (j - (i - 1)) = j + 1
    BY <1>0, <1>5
  <2>2. (a \o b)[j] = b[j - (i - 1)]
    BY <1>0, <1>1, <1>2, <1>5, <2>1
  <2> QED
    BY <1>2, <1>5, <2>1, <2>2
<1> QED
  BY <1>4, <1>5

\* InsertAt keeps the type of a sequence and lengthens it by one.
LEMMA InsertAtSeq ==
  ASSUME NEW S, NEW s \in Seq(S), NEW i \in 1..(Len(s) + 1), NEW e \in S
  PROVE  /\ InsertAt(s, i, e) \in Seq(S)
         /\ Len(InsertAt(s, i, e)) = Len(s) + 1
<1> DEFINE a == SubSeq(s, 1, i - 1)
           b == SubSeq(s, i, Len(s))
<1>1. a \in Seq(S) /\ Len(a) = i - 1
  OBVIOUS
<1>2. b \in Seq(S) /\ Len(b) = Len(s) - i + 1
  OBVIOUS
<1>3. InsertAt(s, i, e) = (a \o <<e>>) \o b
  BY DEF InsertAt
<1> HIDE DEF a, b
<1>4. a \o <<e>> \in Seq(S) /\ Len(a \o <<e>>) = Len(a) + 1
  BY <1>1
<1>5. /\ (a \o <<e>>) \o b \in Seq(S)
      /\ Len((a \o <<e>>) \o b) = Len(a) + 1 + Len(b)
  BY <1>2, <1>4
<1>6. i \in Int /\ Len(s) \in Int
  OBVIOUS
<1> QED
  BY <1>1, <1>2, <1>3, <1>5, <1>6

\* The elements of the second of two sequences.
LEMMA SecondOfTwo ==
  ASSUME NEW S, NEW p \in Seq(S), NEW q \in Seq(S), NEW k \in 1..Len(q)
  PROVE  (p \o q)[Len(p) + k] = q[k]
OBVIOUS

\* The inserted element stands at its place, those after it move back.
LEMMA InsertAtElements ==
  ASSUME NEW S, NEW s \in Seq(S), NEW i \in 1..(Len(s) + 1), NEW e \in S
  PROVE  \A j \in 1..(Len(s) + 1) :
           InsertAt(s, i, e)[j] = IF j < i THEN s[j] ELSE IF j = i THEN e ELSE s[j - 1]
<1> DEFINE a == SubSeq(s, 1, i - 1)
           b == SubSeq(s, i, Len(s))
           c == a \o <<e>>
<1>0. Len(s) \in Nat /\ i \in Nat /\ i >= 1 /\ i <= Len(s) + 1
  OBVIOUS
<1>1. a \in Seq(S) /\ Len(a) = i - 1 /\ \A j \in 1..(i - 1) : a[j] = s[j]
  OBVIOUS
<1>2. b \in Seq(S) /\ Len(b) = Len(s) - i + 1
      /\ \A j \in 1..(Len(s) - i + 1) : b[j] = s[i + j - 1]
  OBVIOUS
<1>3. InsertAt(s, i, e) = c \o b
  BY DEF InsertAt
<1> HIDE DEF a, b
<1>4. c \in Seq(S) /\ Len(c) = i /\ c[i] = e /\ \A j \in 1..(i - 1) : c[j] = a[j]
  BY <1>0, <1>1
<1> HIDE DEF c
<1> SUFFICES ASSUME NEW j \in 1..(Len(s) + 1)
             PROVE  (c \o b)[j] = IF j < i THEN s[j] ELSE IF j = i THEN e ELSE s[j - 1]
  BY <1>3
<1>5. CASE j < i
  <2>1. j \in 1..(i - 1) /\ j \in 1..Len(c)
    BY <1>0, <1>4, <1>5
  <2>2. (c \o b)[j] = c[j]
    BY <1>2, <1>4, <2>1
  <2> QED
    BY <1>1, <1>4, <1>5, <2>1, <2>2
<1>6. CASE j = i
  <2>1. (c \o b)[j] = c[i]
    BY <1>0, <1>2, <1>4, <1>6
  <2> QED
    BY <1>4, <1>6, <2>1
<1>7. ASSUME j > i
      PROVE  (c \o b)[j] = s[j - 1]
  <2>1. j - i \in 1..(Len(s) - i + 1) /\ i + (j - i) - 1 = j - 1
    BY <1>0, <1>7
  <2>2. Len(b) = Len(s) - i + 1 /\ b \in Seq(S) /\ c \in Seq(S) /\ Len(c) = i
    BY <1>2, <1>4
  <2>3. (c \o b)[Len(c) + (j - i)] = b[j - i]
    BY <2>1, <2>2, SecondOfTwo
  <2>4. Len(c) + (j - i) = j
    BY <1>0, <2>2
  <2> QED
    BY <1>2, <2>1, <2>3, <2>4
<1>8. j < i \/ j = i \/ j > i
  BY <1>0
<1> HIDE DEF c
<1>9. j > i => ~(j < i) /\ j # i
  BY <1>0
<1>10. j = i => ~(j < i)
  BY <1>0
<1> QED
  BY <1>5, <1>6, <1>7, <1>8, <1>9, <1>10

\* Inserting a removed element again, and removing an appended one.
LEMMA InsertRemoved ==
  ASSUME NEW S, NEW s \in Seq(S), NEW i \in 1..Len(s)
  PROVE  InsertAt(RemoveAt(s, i), i, s[i]) = s
<1> DEFINE r == RemoveAt(s, i)
           t == InsertAt(r, i, s[i])
<1>0. Len(s) \in Nat \ {0} /\ i \in Nat /\ i >= 1 /\ i <= Len(s) /\ s[i] \in S
  OBVIOUS
<1>1. /\ r \in Seq(S) /\ Len(r) = Len(s) - 1
      /\ \A j \in 1..(Len(s) - 1) : r[j] = IF j < i THEN s[j] ELSE s[j + 1]
  BY RemoveAtSeq, RemoveAtElements
<1> HIDE DEF r
<1>2. i \in 1..(Len(r) + 1) /\ Len(r) + 1 = Len(s)
  BY <1>0, <1>1
<1>3. /\ t \in Seq(S) /\ Len(t) = Len(s)
      /\ \A j \in 1..Len(s) : t[j] = IF j < i THEN r[j] ELSE IF j = i THEN s[i] ELSE r[j - 1]
  <2>1. t \in Seq(S) /\ Len(t) = Len(r) + 1
    BY <1>0, <1>1, <1>2, InsertAtSeq
  <2>2. \A j \in 1..(Len(r) + 1) :
          t[j] = IF j < i THEN r[j] ELSE IF j = i THEN s[i] ELSE r[j - 1]
    BY <1>0, <1>1, <1>2, InsertAtElements
  <2> QED
    BY <1>2, <2>1, <2>2
<1> HIDE DEF t
<1>4. ASSUME NEW j \in 1..Len(s)
      PROVE  t[j] = s[j]
  <2>1. CASE j < i
    <3>1. j \in 1..(Len(s) - 1)
      BY <1>0, <2>1
    <3> QED
      BY <1>1, <1>3, <2>1, <3>1
  <2>2. CASE j = i
    BY <1>0, <1>3, <2>2
  <2>3. CASE j > i
    <3>1. j - 1 \in 1..(Len(s) - 1) /\ ~(j - 1 < i) /\ (j - 1) + 1 = j
      BY <1>0, <2>3
    <3>2. r[j - 1] = s[j]
      BY <1>1, <3>1
    <3> QED
      BY <1>0, <1>3, <2>3, <3>2
  <2> QED
    BY <1>0, <2>1, <2>2, <2>3
<1>5. t = s
  BY <1>3, <1>4
<1> QED
  BY <1>5 DEF t, r

\* To remove the element that was appended last.
LEMMA RemoveAppended ==
  ASSUME NEW S, NEW s \in Seq(S), NEW e \in S
  PROVE  RemoveAt(Append(s, e), Len(s) + 1) = s
<1> DEFINE a == Append(s, e)
           r == RemoveAt(a, Len(s) + 1)
<1>1. /\ a \in Seq(S) /\ Len(a) = Len(s) + 1 /\ Len(s) \in Nat
      /\ \A j \in 1..Len(s) : a[j] = s[j]
  OBVIOUS
<1> HIDE DEF a
<1>2. Len(s) + 1 \in 1..Len(a) /\ Len(a) - 1 = Len(s)
  BY <1>1
<1>3. r \in Seq(S) /\ Len(r) = Len(s)
  BY <1>1, <1>2, RemoveAtSeq
<1>4. \A j \in 1..Len(s) : r[j] = IF j < Len(s) + 1 THEN a[j] ELSE a[j + 1]
  BY <1>1, <1>2, RemoveAtElements
<1> HIDE DEF r
<1>5. \A j \in 1..Len(s) : r[j] = s[j]
  BY <1>1, <1>4
<1>6. r = s
  BY <1>1, <1>3, <1>5
<1> QED
  BY <1>6 DEF r, a

\* Appending to a sequence, and taking its first element away.
LEMMA AppendedSeq ==
  ASSUME NEW S, NEW s \in Seq(S), NEW e \in S
  PROVE  /\ Append(s, e) \in Seq(S)
         /\ Len(s) \in Nat /\ DOMAIN s = 1..Len(s)
         /\ DOMAIN Append(s, e) = 1..(Len(s) + 1)
         /\ \A i \in 1..Len(s) : Append(s, e)[i] = s[i] /\ s[i] \in S
         /\ Append(s, e)[Len(s) + 1] = e
OBVIOUS

\* A sequence without its first element.
LEMMA TailedSeq ==
  ASSUME NEW S, NEW s \in Seq(S), s # <<>>
  PROVE  /\ Head(s) \in S /\ Head(s) = s[1] /\ 1 \in DOMAIN s
         /\ Tail(s) \in Seq(S)
         /\ Len(s) \in Nat \ {0} /\ DOMAIN s = 1..Len(s)
         /\ DOMAIN Tail(s) = 1..(Len(s) - 1)
         /\ \A i \in DOMAIN Tail(s) : /\ i + 1 \in DOMAIN s /\ i + 1 # 1
                                      /\ Tail(s)[i] = s[i + 1]
                                      /\ s[i + 1] \in S
         /\ \A i \in DOMAIN s : i # 1 => /\ i - 1 \in DOMAIN Tail(s)
                                        /\ Tail(s)[i - 1] = s[i]
<1>1. s[1] \in S /\ Len(s) \in Nat \ {0} /\ DOMAIN s = 1..Len(s)
  BY NonEmptySeq
<1>2. /\ Head(s) = s[1] /\ Tail(s) \in Seq(S) /\ Len(Tail(s)) = Len(s) - 1
      /\ \A i \in 1..(Len(s) - 1) : Tail(s)[i] = s[i + 1]
  BY TailOfSeq
<1>3. DOMAIN Tail(s) = 1..(Len(s) - 1)
  BY <1>2
<1>4. \A i \in 1..(Len(s) - 1) : i + 1 \in 1..Len(s) /\ i + 1 # 1
  BY <1>1
<1>5. \A i \in 1..Len(s) : s[i] \in S
  OBVIOUS
<1>6. \A i \in 1..Len(s) : i # 1 => i - 1 \in 1..(Len(s) - 1) /\ (i - 1) + 1 = i
  BY <1>1
<1> QED
  BY <1>1, <1>2, <1>3, <1>4, <1>5, <1>6

\* A sequence of one element, and a pair made from it and cut down to it.
LEMMA SingletonSeq ==
  ASSUME NEW S, NEW s \in Seq(S), Len(s) = 1
  PROVE  s = <<s[1]>>
OBVIOUS

\* A sequence of two elements.
LEMMA PairOfSeq ==
  ASSUME NEW S, NEW a \in S, NEW b \in S
  PROVE  /\ Append(<<a>>, b) = <<a, b>>
         /\ <<a, b>> \in Seq(S) /\ Len(<<a, b>>) = 2
<1> DEFINE one == <<a>>
           p == Append(one, b)
           q == <<a, b>>
<1>1. one \in Seq(S) /\ Len(one) = 1 /\ one[1] = a
  OBVIOUS
<1> HIDE DEF one
<1>2. p \in Seq(S) /\ Len(p) = 2 /\ p[1] = a /\ p[2] = b
  <2>1. 1 \in 1..Len(one) /\ Len(one) + 1 = 2
    BY <1>1
  <2> QED
    BY <1>1, <2>1, AppendedSeq
<1>3. q \in Seq(S) /\ Len(q) = 2 /\ q[1] = a /\ q[2] = b
  OBVIOUS
<1> HIDE DEF p, q
<1>4. \A i \in 1..2 : p[i] = q[i]
  BY <1>2, <1>3
<1>5. p = q
  BY <1>2, <1>3, <1>4
<1> QED
  BY <1>3, <1>5 DEF p, q, one

\* The first element of two.
LEMMA PairPrefix ==
  ASSUME NEW S, NEW a \in S, NEW b \in S
  PROVE  SubSeq(<<a, b>>, 1, 1) = <<a>>
<1> DEFINE p == <<a, b>>
<1>1. p \in Seq(S) /\ Len(p) = 2 /\ p[1] = a
  OBVIOUS
<1>2. SubSeq(p, 1, 1) \in Seq(S) /\ Len(SubSeq(p, 1, 1)) = 1 /\ SubSeq(p, 1, 1)[1] = a
  BY <1>1, Prefix
<1> QED
  BY <1>2, SingletonSeq

-----------------------------------------------------------------------------
(* Sequences without repetition                                            *)

\* Sequences without repetition and their elements.
LEMMA SetOf ==
  ASSUME NEW S, NEW s \in Seq(S)
  PROVE  /\ \A c : c \in ToSet(s) <=> \E i \in 1..Len(s) : s[i] = c
         /\ IsInjective(s) <=> \A i, j \in 1..Len(s) : s[i] = s[j] => i = j
<1>1. DOMAIN s = 1..Len(s)
  OBVIOUS
<1>2. \A c : c \in ToSet(s) <=> \E i \in 1..Len(s) : s[i] = c
  BY <1>1 DEF ToSet
<1>3. IsInjective(s) <=> \A i, j \in 1..Len(s) : s[i] = s[j] => i = j
  BY <1>1 DEF IsInjective
<1> QED
  BY <1>2, <1>3

\* A sequence without repetition stays so when a new element is appended.
LEMMA DistinctAppend ==
  ASSUME NEW S, NEW s \in Seq(S), NEW e \in S, IsInjective(s), e \notin ToSet(s)
  PROVE  /\ IsInjective(Append(s, e))
         /\ \A c : c \in ToSet(Append(s, e)) <=> c \in ToSet(s) \/ c = e
<1> DEFINE a == Append(s, e)
           n == Len(s)
<1>1. /\ a \in Seq(S) /\ n \in Nat /\ Len(a) = n + 1 /\ a[n + 1] = e
      /\ \A i \in 1..n : a[i] = s[i]
  BY AppendedSeq
<1> HIDE DEF a
<1>2. \A i \in 1..(n + 1) : i = n + 1 \/ i \in 1..n
  BY <1>1
<1>3. \A i \in 1..n : i \in 1..(n + 1)
  BY <1>1
<1>4. n + 1 \in 1..(n + 1)
  BY <1>1
<1>5. /\ \A c : c \in ToSet(s) <=> \E i \in 1..n : s[i] = c
      /\ \A i, j \in 1..n : s[i] = s[j] => i = j
  BY SetOf
<1> HIDE DEF n
<1>6. \A c : c \in ToSet(a) <=> \E i \in 1..(n + 1) : a[i] = c
  BY <1>1, SetOf
<1>7. \A i, j \in 1..(n + 1) : a[i] = a[j] => i = j
  BY <1>1, <1>2, <1>5
<1>8. IsInjective(a)
  BY <1>1, <1>7, SetOf
<1>9. \A c : c \in ToSet(a) <=> c \in ToSet(s) \/ c = e
  BY <1>1, <1>2, <1>3, <1>4, <1>5, <1>6
<1> QED
  BY <1>8, <1>9 DEF a

\* A sequence without its last element.
LEMMA DistinctShortened ==
  ASSUME NEW S, NEW s \in Seq(S), NEW e \in S, IsInjective(Append(s, e))
  PROVE  /\ IsInjective(s)
         /\ \A c : c \in ToSet(Append(s, e)) <=> c \in ToSet(s) \/ c = e
         /\ e \notin ToSet(s)
<1> DEFINE a == Append(s, e)
           n == Len(s)
<1>1. /\ a \in Seq(S) /\ n \in Nat /\ Len(a) = n + 1 /\ a[n + 1] = e
      /\ \A i \in 1..n : a[i] = s[i]
  BY AppendedSeq
<1> HIDE DEF a
<1>2. \A i \in 1..(n + 1) : i = n + 1 \/ i \in 1..n
  BY <1>1
<1>3. \A i \in 1..n : i \in 1..(n + 1) /\ i # n + 1
  BY <1>1
<1>4. n + 1 \in 1..(n + 1)
  BY <1>1
<1>5. \A c : c \in ToSet(s) <=> \E i \in 1..n : s[i] = c
  BY SetOf
<1>6. IsInjective(s) <=> \A i, j \in 1..n : s[i] = s[j] => i = j
  BY SetOf
<1> HIDE DEF n
<1>7. IsInjective(a) /\ \A c : c \in ToSet(a) <=> \E i \in 1..(n + 1) : a[i] = c
  <2>1. IsInjective(a)
    BY DEF a
  <2> QED
    BY <1>1, <2>1, SetOf
<1>8. \A i, j \in 1..(n + 1) : a[i] = a[j] => i = j
  BY <1>1, <1>7, SetOf
<1>9. IsInjective(s)
  BY <1>1, <1>3, <1>6, <1>8
<1>10. \A c : c \in ToSet(a) <=> c \in ToSet(s) \/ c = e
  BY <1>1, <1>2, <1>3, <1>4, <1>5, <1>7
<1>11. e \notin ToSet(s)
  BY <1>1, <1>3, <1>4, <1>5, <1>8
<1> QED
  BY <1>9, <1>10, <1>11 DEF a

\* r is s without its element at i.
LEMMA RemovedPlaces ==
  ASSUME NEW S, NEW s \in Seq(S), NEW i \in 1..Len(s), NEW r, r = RemoveAt(s, i)
  PROVE  /\ r \in Seq(S)
         /\ \A j \in 1..Len(r) : \/ j \in 1..Len(s) /\ j < i /\ r[j] = s[j]
                                 \/ j + 1 \in 1..Len(s) /\ j + 1 > i /\ r[j] = s[j + 1]
         /\ \A j \in 1..Len(s) : \/ j = i
                                 \/ j < i /\ j \in 1..Len(r) /\ r[j] = s[j]
                                 \/ j > i /\ j - 1 \in 1..Len(r) /\ r[j - 1] = s[j]
<1>1. /\ r \in Seq(S) /\ Len(r) = Len(s) - 1
      /\ \A j \in 1..(Len(s) - 1) : r[j] = IF j < i THEN s[j] ELSE s[j + 1]
  BY RemoveAtSeq, RemoveAtElements
<1>2. Len(s) \in Nat /\ i \in Nat /\ 1 <= i /\ i <= Len(s)
  OBVIOUS
<1>3. ASSUME NEW j \in 1..Len(r)
      PROVE  \/ j \in 1..Len(s) /\ j < i /\ r[j] = s[j]
             \/ j + 1 \in 1..Len(s) /\ j + 1 > i /\ r[j] = s[j + 1]
  BY <1>1, <1>2
<1>4. ASSUME NEW j \in 1..Len(s)
      PROVE  \/ j = i
             \/ j < i /\ j \in 1..Len(r) /\ r[j] = s[j]
             \/ j > i /\ j - 1 \in 1..Len(r) /\ r[j - 1] = s[j]
  <2>1. CASE j < i
    BY <1>1, <1>2, <2>1
  <2>2. CASE j > i
    <3>1. j - 1 \in 1..(Len(s) - 1) /\ ~(j - 1 < i) /\ (j - 1) + 1 = j
      BY <1>2, <2>2
    <3> QED
      BY <1>1, <2>2, <3>1
  <2> QED
    BY <1>2, <2>1, <2>2
<1> QED
  BY <1>1, <1>3, <1>4

\* A sequence without repetition loses an element at i.
LEMMA DistinctRemoveAt ==
  ASSUME NEW S, NEW s \in Seq(S), NEW i \in 1..Len(s), IsInjective(s)
  PROVE  /\ IsInjective(RemoveAt(s, i))
         /\ \A c : c \in ToSet(RemoveAt(s, i)) <=> c \in ToSet(s) /\ c # s[i]
         /\ s[i] \in ToSet(s)
<1>1. PICK r : r = RemoveAt(s, i)
  OBVIOUS
<1>2. /\ r \in Seq(S)
      /\ \A j \in 1..Len(r) : \/ j \in 1..Len(s) /\ j < i /\ r[j] = s[j]
                              \/ j + 1 \in 1..Len(s) /\ j + 1 > i /\ r[j] = s[j + 1]
      /\ \A j \in 1..Len(s) : \/ j = i
                              \/ j < i /\ j \in 1..Len(r) /\ r[j] = s[j]
                              \/ j > i /\ j - 1 \in 1..Len(r) /\ r[j - 1] = s[j]
  BY <1>1, RemovedPlaces
<1>3. /\ \A c : c \in ToSet(s) <=> \E j \in 1..Len(s) : s[j] = c
      /\ \A j, k \in 1..Len(s) : s[j] = s[k] => j = k
  BY SetOf
<1>4. \A c : c \in ToSet(r) <=> \E j \in 1..Len(r) : r[j] = c
  BY <1>2, SetOf
<1>5. \A j, k \in 1..Len(r) : r[j] = r[k] => j = k
  BY <1>2, <1>3
<1>6. IsInjective(r)
  BY <1>2, <1>5, SetOf
<1>7. ASSUME NEW c \in ToSet(r)
      PROVE  c \in ToSet(s) /\ c # s[i]
  <2>1. PICK j \in 1..Len(r) : r[j] = c
    BY <1>4
  <2>2. PICK k \in 1..Len(s) : s[k] = c /\ k # i
    BY <1>2, <2>1
  <2> QED
    BY <1>3, <2>2
<1>8. ASSUME NEW c \in ToSet(s), c # s[i]
      PROVE  c \in ToSet(r)
  <2>1. PICK j \in 1..Len(s) : s[j] = c
    BY <1>3
  <2>2. \E k \in 1..Len(r) : r[k] = c
    BY <1>2, <1>8, <2>1
  <2> QED
    BY <1>4, <2>2
<1> QED
  BY <1>1, <1>3, <1>6, <1>7, <1>8

\* A sequence without repetition gets an element back at i.
LEMMA DistinctRestored ==
  ASSUME NEW S, NEW s \in Seq(S), NEW i \in 1..Len(s),
         IsInjective(RemoveAt(s, i)), s[i] \notin ToSet(RemoveAt(s, i))
  PROVE  /\ IsInjective(s)
         /\ \A c : c \in ToSet(s) <=> c \in ToSet(RemoveAt(s, i)) \/ c = s[i]
<1>1. PICK r : r = RemoveAt(s, i)
  OBVIOUS
<1>2. /\ r \in Seq(S)
      /\ \A j \in 1..Len(r) : \/ j \in 1..Len(s) /\ j < i /\ r[j] = s[j]
                              \/ j + 1 \in 1..Len(s) /\ j + 1 > i /\ r[j] = s[j + 1]
      /\ \A j \in 1..Len(s) : \/ j = i
                              \/ j < i /\ j \in 1..Len(r) /\ r[j] = s[j]
                              \/ j > i /\ j - 1 \in 1..Len(r) /\ r[j - 1] = s[j]
  BY <1>1, RemovedPlaces
<1>3. /\ \A c : c \in ToSet(r) <=> \E j \in 1..Len(r) : r[j] = c
      /\ \A j, k \in 1..Len(r) : r[j] = r[k] => j = k
  BY <1>1, <1>2, SetOf
<1>4. \A c : c \in ToSet(s) <=> \E j \in 1..Len(s) : s[j] = c
  BY SetOf
<1>5. \A j \in 1..Len(s) : j # i => s[j] \in ToSet(r)
  BY <1>2, <1>3
<1>6. ASSUME NEW j \in 1..Len(s), NEW k \in 1..Len(s), s[j] = s[k]
      PROVE  j = k
  <2>1. CASE j = i \/ k = i
    BY <1>1, <1>5, <1>6, <2>1
  <2>2. CASE j # i /\ k # i
    <3>1. j \in Nat /\ k \in Nat /\ i \in Nat
      OBVIOUS
    <3>2. CASE j < i /\ k < i
      BY <1>2, <1>3, <1>6, <3>1, <3>2
    <3>3. CASE j > i /\ k > i
      <4>1. /\ j - 1 \in 1..Len(r) /\ r[j - 1] = s[j]
            /\ k - 1 \in 1..Len(r) /\ r[k - 1] = s[k]
        BY <1>2, <3>1, <3>3
      <4>2. j - 1 = k - 1
        BY <1>3, <1>6, <4>1
      <4> QED
        BY <3>1, <4>2
    <3>4. CASE j < i /\ k > i
      <4>1. j = k - 1
        BY <1>2, <1>3, <1>6, <3>1, <3>4
      <4> QED
        BY <3>1, <3>4, <4>1
    <3>5. CASE j > i /\ k < i
      <4>1. j - 1 = k
        BY <1>2, <1>3, <1>6, <3>1, <3>5
      <4> QED
        BY <3>1, <3>5, <4>1
    <3> QED
      BY <2>2, <3>1, <3>2, <3>3, <3>4, <3>5
  <2> QED
    BY <2>1, <2>2
<1>7. IsInjective(s)
  BY <1>6, SetOf
<1>8. \A c : c \in ToSet(r) => c \in ToSet(s)
  BY <1>2, <1>3, <1>4
<1>9. \A c : c \in ToSet(s) => c \in ToSet(r) \/ c = s[i]
  BY <1>4, <1>5
<1>10. s[i] \in ToSet(s)
  BY <1>4
<1> QED
  BY <1>1, <1>7, <1>8, <1>9, <1>10

\* A sequence is its front and its last element.
LEMMA FrontThenLast ==
  ASSUME NEW S, NEW s \in Seq(S), s # <<>>
  PROVE  s = Append(Front(s), Last(s))
<1> DEFINE a == Append(Front(s), Last(s))
<1>1. /\ Len(s) \in Nat \ {0} /\ a \in Seq(S) /\ Len(a) = Len(s) /\ a[Len(s)] = s[Len(s)]
      /\ \A i \in 1..(Len(s) - 1) : a[i] = s[i]
  BY FrontOfSeq
<1> HIDE DEF a
<1>2. \A i \in 1..Len(s) : a[i] = s[i]
  BY <1>1
<1>3. s = a
  BY <1>1, <1>2
<1> QED
  BY <1>3 DEF a

-----------------------------------------------------------------------------
(* Sequences as functions on 1..n                                          *)

\* A function on 1..n, which is told by its values.
Points(s, n) == s = [k \in 1..n |-> s[k]]

\* <<>> is the one on 1..0.
LEMMA NoPoints ==
  ASSUME NEW t, Points(t, 0)
  PROVE  t = <<>>
<1>1. t \in [1..0 -> {}]
  BY DEF Points
<1>2. t \in Seq({}) /\ Len(t) = 0
  BY <1>1, SeqOfFunction
<1> QED
  BY <1>2

\* It has n values.
LEMMA PointsLength ==
  ASSUME NEW n \in Nat, NEW s, Points(s, n)
  PROVE  Len(s) = n
<1> DEFINE S == {s[k] : k \in 1..n}
<1>1. s \in [1..n -> S]
  BY DEF Points
<1> HIDE DEF S
<1> QED
  BY <1>1, SeqOfFunction

\* The open transactions with one more.
LEMMA PointsAppended ==
  ASSUME NEW n \in Nat, NEW s, NEW t, NEW e,
         Points(s, n), Points(t, n + 1),
         \A k \in 1..n : t[k] = s[k], t[n + 1] = e
  PROVE  t = Append(s, e)
<1> DEFINE S == {s[k] : k \in 1..n} \cup {e}
           a == Append(s, e)
<1>1. s \in [1..n -> S] /\ e \in S
  BY DEF Points
<1>2. t \in [1..(n + 1) -> S]
  <2>1. \A k \in 1..(n + 1) : k \in 1..n \/ k = n + 1
    OBVIOUS
  <2>2. \A k \in 1..(n + 1) : t[k] \in S
    BY <2>1
  <2> QED
    BY <2>2 DEF Points
<1> HIDE DEF S
<1>3. s \in Seq(S) /\ Len(s) = n /\ t \in Seq(S) /\ Len(t) = n + 1
  BY <1>1, <1>2, SeqOfFunction
<1>4. a \in Seq(S) /\ Len(a) = n + 1 /\ a[n + 1] = e /\ \A k \in 1..n : a[k] = s[k]
  BY <1>1, <1>3
<1> HIDE DEF a
<1>5. \A k \in 1..(n + 1) : k \in 1..n \/ k = n + 1
  OBVIOUS
<1>6. \A k \in 1..(n + 1) : a[k] = t[k]
  BY <1>4, <1>5
<1>7. a = t
  BY <1>3, <1>4, <1>6
<1> QED
  BY <1>7 DEF a

\* The outer ones of the open transactions.
LEMMA PointsCut ==
  ASSUME NEW n \in Nat, NEW m \in Nat, m <= n, NEW s, NEW t,
         Points(s, n), Points(t, m),
         \A k \in 1..m : t[k] = s[k]
  PROVE  t = SubSeq(s, 1, m)
<1> DEFINE S == {s[k] : k \in 1..n}
           a == SubSeq(s, 1, m)
<1>1. s \in [1..n -> S]
  BY DEF Points
<1>2. t \in [1..m -> S]
  <2>1. \A k \in 1..m : k \in 1..n
    OBVIOUS
  <2>2. \A k \in 1..m : t[k] \in S
    BY <2>1
  <2> QED
    BY <2>2 DEF Points
<1> HIDE DEF S
<1>3. s \in Seq(S) /\ Len(s) = n /\ t \in Seq(S) /\ Len(t) = m
  BY <1>1, <1>2, SeqOfFunction
<1>4. a \in Seq(S) /\ Len(a) = m /\ \A k \in 1..m : a[k] = s[k]
  BY <1>3, Prefix
<1> HIDE DEF a
<1>5. \A k \in 1..m : a[k] = t[k]
  BY <1>4
<1>6. a = t
  BY <1>3, <1>4, <1>5
<1> QED
  BY <1>6 DEF a
=============================================================================
