---------------------------- MODULE TTrailProofs ----------------------------
(***************************************************************************)
(* The types of TTrail, the inductive invariant of the pool and the trail, *)
(* and the assertions of the code.  TypeOK alone is not inductive: NewCycle *)
(* reads the contents of the actual cycle, and an abort takes cycles away  *)
(* and brings them back by what is recorded on the trail.  PoolInv         *)
(* therefore says that the trail accounts for the cycles: there is an      *)
(* assignment of a sequence of cycles to every place of the trail, changed *)
(* by every new and delete element as it was recorded, and equal to the    *)
(* cycles of the pool at the end.                                          *)
(*                                                                         *)
(* Then what the trail and the undo and redo lists hold: every item once,  *)
(* no empty entry, never more than MaxElements entries, and buttons that   *)
(* tell the truth; and the cycles they speak of: none is lost or exists    *)
(* twice, and no saved item belongs to a cycle that is gone.               *)
(***************************************************************************)
EXTENDS TTrail, SequenceLemmas

(*--------------------------------- types ---------------------------------*)

\* The actual cycle is one of the cycles.
ActualExists == actual \in 1..Len(cycles)

\* The owner of a running commit or abort has an open transaction.
OwnerIsOpen == busy.op \in {"commit", "abort"} => busy.owner \in Owners

-----------------------------------------------------------------------------

\* LastOf chooses the greatest position of a nonempty set.
LEMMA LastOfSet ==
  ASSUME NEW n \in Nat, NEW S \in SUBSET (1..n), S # {}
  PROVE  LastOf(S) \in S /\ \A j \in S : j <= LastOf(S)
BY MaximumExists DEF LastOf

\* The fields of an element by its kind, and which elements may enter an undo
\* entry.
LEMMA ElementFields ==
  ASSUME NEW e \in Element
  PROVE  /\ e.kind \in {"item", "action", "switch", "new", "delete"}
         /\ e.kind = "item" => e.cell \in Cell /\ e.saved \in Value
         /\ e.kind = "action" => e.folder \in Folder /\ e.to \in Page
         /\ e.kind = "switch" => e.num \in Nat
         /\ e.kind = "new" => e.old \in Nat /\ e.new \in Nat /\ e.cycle \in Cycle
         /\ e.kind = "delete" => e.cycle \in Cycle /\ e.num \in Nat
         /\ ~CycleElement(e) => e \in Undoable
BY DEF Element, Undoable, ItemEl, ActionEl, SwitchEl, NewEl, DeleteEl, CycleElement

\* The fields of the segments of a trail.
LEMMA SegmentFields ==
  ASSUME NEW t \in Seq(Segment), NEW k \in 1..Len(t)
  PROVE  /\ t[k] \in Segment
         /\ t[k].owner \in Owner
         /\ t[k].log \in Seq(Element)
         /\ Len(t[k].log) \in Nat
         /\ \A i \in 1..Len(t[k].log) : t[k].log[i] \in Element
<1>1. t[k] \in Segment
  OBVIOUS
<1>2. t[k].owner \in Owner /\ t[k].log \in Seq(Element)
  BY <1>1 DEF Segment
<1> QED
  BY <1>1, <1>2

\* The innermost segment of a nonempty trail has its type.
LEMMA TopInTrail ==
  ASSUME TypeOK, trail # <<>>
  PROVE  /\ Len(trail) \in Nat \ {0}
         /\ Top \in Segment
         /\ Top.owner \in Owner
         /\ Top.log \in Seq(Element)
         /\ Len(Top.log) \in Nat
<1>1. trail \in Seq(Segment)
  BY DEF TypeOK
<1>2. Len(trail) \in Nat \ {0} /\ Top \in Segment
  BY <1>1, NonEmptySeq DEF Top
<1>3. Top.owner \in Owner /\ Top.log \in Seq(Element)
  BY <1>2 DEF Segment
<1> QED
  BY <1>2, <1>3

\* WithTopLog replaces the log of the innermost segment and nothing else.
LEMMA WithTopLogTyped ==
  ASSUME TypeOK, trail # <<>>, NEW log \in Seq(Element)
  PROVE  /\ WithTopLog(log) \in Seq(Segment)
         /\ Len(WithTopLog(log)) = Len(trail)
         /\ \A k \in 1..(Len(trail) - 1) : WithTopLog(log)[k] = trail[k]
         /\ WithTopLog(log)[Len(trail)] = [Top EXCEPT !.log = log]
<1> DEFINE top == [Top EXCEPT !.log = log]
<1>1. trail \in Seq(Segment)
  BY DEF TypeOK
<1>2. Len(trail) \in Nat \ {0} /\ Top \in Segment
  BY TopInTrail
<1>3. top \in Segment
  BY <1>2 DEF Segment
<1>4. WithTopLog(log) = [trail EXCEPT ![Len(trail)] = top]
  BY DEF WithTopLog, Top
<1> HIDE DEF top
<1>5. /\ WithTopLog(log) \in Seq(Segment)
      /\ Len(WithTopLog(log)) = Len(trail)
      /\ \A k \in 1..Len(trail) :
           WithTopLog(log)[k] = IF k = Len(trail) THEN top ELSE trail[k]
  BY <1>1, <1>2, <1>3, <1>4, ExceptOfSeq
<1> QED
  BY <1>2, <1>5 DEF top

\* A log without cycle elements can become an undo entry.
LEMMA UndoableLog ==
  ASSUME NEW log \in Seq(Element),
         \A i \in 1..Len(log) : ~CycleElement(log[i])
  PROVE  log \in Seq(Undoable)
<1>1. \A i \in 1..Len(log) : log[i] \in Undoable
  BY ElementFields
<1>2. Len(log) \in Nat /\ log \in [1..Len(log) -> Element]
  OBVIOUS
<1>3. log \in [1..Len(log) -> Undoable]
  BY <1>1, <1>2
<1> QED
  BY <1>2, <1>3, SeqOfFunction

\* The elements of an undo entry are items and folder switches.
LEMMA UndoableIsElement ==
  ASSUME NEW e \in Undoable
  PROVE  /\ e \in Element
         /\ e.kind \in {"item", "action"}
         /\ e.kind = "item" => e \in ItemEl
         /\ e.kind = "action" => e \in ActionEl
BY DEF Undoable, Element, ItemEl, ActionEl

\* Pushing an entry never makes a list longer than MaxElements, and brings in
\* no entry but the new one (DataTTrailElementList::insertElement).
LEMMA PushedTyped ==
  ASSUME NEW S, NEW list \in Seq(S), NEW e \in S
  PROVE  /\ Pushed(list, e) \in Seq(S)
         /\ Len(Pushed(list, e)) \in Nat
         /\ Pushed(list, e) # <<>>
         /\ Len(Pushed(list, e)) <= Len(list) + 1
         /\ Len(list) <= MaxElements => Len(Pushed(list, e)) <= MaxElements
         /\ \A i \in 1..Len(Pushed(list, e)) :
              \/ Pushed(list, e)[i] = e
              \/ \E j \in 1..Len(list) : Pushed(list, e)[i] = list[j]
<1> DEFINE longer == Append(list, e)
<1>1. /\ longer \in Seq(S)
      /\ Len(longer) = Len(list) + 1
      /\ \A i \in 1..Len(list) : longer[i] = list[i]
      /\ longer[Len(list) + 1] = e
      /\ Len(list) \in Nat
  OBVIOUS
<1>2. Pushed(list, e) = IF Len(longer) > MaxElements THEN Tail(longer) ELSE longer
  BY DEF Pushed
<1>3. MaxElements \in Nat \ {0}
  BY BoundAssumption
<1> HIDE DEF longer
<1>4. longer # <<>>
  BY <1>1
<1>5. /\ Tail(longer) \in Seq(S)
      /\ Len(Tail(longer)) = Len(list)
      /\ \A i \in 1..Len(list) : Tail(longer)[i] = longer[i + 1]
  BY <1>1, <1>4, TailOfSeq
<1>6. CASE Len(longer) > MaxElements
  <2>1. \A i \in 1..Len(list) :
          \/ Tail(longer)[i] = e
          \/ \E j \in 1..Len(list) : Tail(longer)[i] = list[j]
    <3> SUFFICES ASSUME NEW i \in 1..Len(list)
                 PROVE  \/ Tail(longer)[i] = e
                        \/ \E j \in 1..Len(list) : Tail(longer)[i] = list[j]
      OBVIOUS
    <3>1. CASE i = Len(list)
      BY <1>1, <1>5, <3>1
    <3>2. CASE i # Len(list)
      <4>1. i + 1 \in 1..Len(list)
        BY <1>1, <3>2
      <4> QED
        BY <1>1, <1>5, <4>1
    <3> QED
      BY <3>1, <3>2
  <2>2. Len(Tail(longer)) >= 1
    BY <1>1, <1>3, <1>5, <1>6
  <2> DEFINE t == Pushed(list, e)
  <2>3. t = Tail(longer)
    BY <1>2, <1>6
  <2>4. t \in Seq(S) /\ Len(t) = Len(list) /\ t # <<>>
    BY <1>5, <2>2, <2>3, Len(<<>>) = 0
  <2>5. \A i \in 1..Len(t) : t[i] = e \/ \E j \in 1..Len(list) : t[i] = list[j]
    BY <2>1, <2>3, <2>4
  <2> HIDE DEF t
  <2>6. /\ t \in Seq(S)
        /\ Len(t) \in Nat
        /\ Len(t) <= Len(list) + 1
        /\ Len(list) <= MaxElements => Len(t) <= MaxElements
    BY <1>1, <2>4
  <2> QED
    BY <2>4, <2>5, <2>6 DEF t
<1>7. CASE ~(Len(longer) > MaxElements)
  BY <1>1, <1>2, <1>3, <1>4, <1>7
<1> QED
  BY <1>6, <1>7

\* The empty list is a list of entries.
LEMMA EntriesTyped == <<>> \in Seq(Seq(Undoable))
OBVIOUS

\* insertElement leaves well-typed lists and buttons.
LEMMA InsertElementTyped ==
  ASSUME TypeOK, NEW entry \in Seq(Undoable), InsertElement(entry)
  PROVE  undo' \in Seq(Seq(Undoable)) /\ redo' \in Seq(Seq(Undoable)) /\ button' \in Button
<1>1. CASE IsEnabled
  <2>1. undo' = Pushed(undo, entry) /\ redo' = <<>>
    BY <1>1 DEF InsertElement
  <2>2. button' = [undo |-> (undo = <<>>) \/ button.undo,
                   redo |-> (redo = <<>>) /\ button.redo]
    BY <1>1 DEF InsertElement
  <2>3. Pushed(undo, entry) \in Seq(Seq(Undoable))
    BY PushedTyped DEF TypeOK
  <2>4. button' \in Button
    BY <2>2 DEF Button
  <2> QED
    BY <2>1, <2>3, <2>4, EntriesTyped
<1>2. CASE ~IsEnabled
  BY <1>2 DEF InsertElement, undoVars, TypeOK
<1> QED
  BY <1>1, <1>2

\* clear leaves well-typed lists and buttons.
LEMMA ClearUndoTyped ==
  ASSUME TypeOK, ClearUndo
  PROVE  undo' \in Seq(Seq(Undoable)) /\ redo' \in Seq(Seq(Undoable)) /\ button' \in Button
<1>1. CASE activated
  <2>1. button' = [undo |-> (undo = <<>>) /\ button.undo,
                   redo |-> (redo = <<>>) /\ button.redo]
    BY <1>1 DEF ClearUndo
  <2>2. button' \in Button
    BY <2>1 DEF Button
  <2> QED
    BY <1>1, <2>2, EntriesTyped DEF ClearUndo
<1>2. CASE ~activated
  BY <1>2 DEF ClearUndo, undoVars, TypeOK
<1> QED
  BY <1>1, <1>2

\* Recording an element keeps the type of the trail.
LEMMA RecordTyped ==
  ASSUME TypeOK, trail # <<>>, NEW e \in Element
  PROVE  Record(e) \in Seq(Segment) /\ Len(Record(e)) = Len(trail)
<1>1. Top.log \in Seq(Element)
  BY TopInTrail
<1>2. Append(Top.log, e) \in Seq(Element)
  BY <1>1
<1> QED
  BY <1>2, WithTopLogTyped DEF Record

\* Recording an element, if there is a transaction, keeps the type of the trail.
LEMMA RecordIfTyped ==
  ASSUME TypeOK, NEW e \in Element
  PROVE  RecordIf(e) \in Seq(Segment)
<1>1. CASE trail = <<>>
  BY <1>1 DEF RecordIf, InTransaction, TypeOK
<1>2. CASE trail # <<>>
  BY <1>2, RecordTyped DEF RecordIf, InTransaction
<1> QED
  BY <1>1, <1>2

\* saveDataItem keeps the types of the trail, the lists and the buttons.
LEMMA SaveItemTyped ==
  ASSUME TypeOK, NEW c \in Cell, SaveItem(c)
  PROVE  /\ trail' \in Seq(Segment)
         /\ undo' \in Seq(Seq(Undoable))
         /\ redo' \in Seq(Seq(Undoable))
         /\ button' \in Button
<1>1. /\ trail \in Seq(Segment) /\ undo \in Seq(Seq(Undoable))
      /\ redo \in Seq(Seq(Undoable)) /\ button \in Button
  BY DEF TypeOK
<1>2. Item(c) \in Undoable /\ Item(c) \in Element
  BY DEF TypeOK, Item, ItemEl, Undoable, Element
<1>3. CASE c[2] \in Omit
  BY <1>1, <1>3 DEF SaveItem, undoVars
<1>4. CASE c[2] \notin Omit /\ InTransaction
  <2>1. Record(Item(c)) \in Seq(Segment)
    BY <1>2, <1>4, RecordTyped DEF InTransaction
  <2> QED
    BY <1>1, <1>4, <2>1 DEF SaveItem, undoVars
<1>5. CASE c[2] \notin Omit /\ ~InTransaction
  <2>1. InsertElement(<<Item(c)>>) /\ UNCHANGED trail
    BY <1>5 DEF SaveItem
  <2>2. <<Item(c)>> \in Seq(Undoable)
    BY <1>2
  <2> QED
    BY <1>1, <2>1, <2>2, InsertElementTyped
<1> QED
  BY <1>3, <1>4, <1>5

\* Restoring an entry gives an entry of the same length for the other list.
LEMMA ExchangedTyped ==
  ASSUME TypeOK, NEW e \in Seq(Undoable)
  PROVE  Exchanged(e) \in Seq(Undoable) /\ Len(Exchanged(e)) = Len(e)
<1>1. Len(e) \in Nat /\ \A i \in 1..Len(e) : e[i] \in Undoable
  OBVIOUS
<1>2. ASSUME NEW i \in 1..Len(e)
      PROVE  Exchanged(e)[i] \in Undoable
  <2>1. CASE e[i].kind = "item"
    <3> DEFINE saved == IF Earlier(e, i) = {} THEN live[e[i].cell]
                        ELSE e[LastOf(Earlier(e, i))].saved
    <3>1. e[i] \in ItemEl
      BY <1>1, <2>1, UndoableIsElement
    <3>2. live[e[i].cell] \in Value
      BY <3>1 DEF TypeOK, ItemEl
    <3>3. ASSUME Earlier(e, i) # {}
          PROVE  e[LastOf(Earlier(e, i))].saved \in Value
      <4>1. Earlier(e, i) \in SUBSET (1..Len(e))
        BY <1>1 DEF Earlier
      <4>2. LastOf(Earlier(e, i)) \in Earlier(e, i)
        BY <1>1, <3>3, <4>1, LastOfSet
      <4> DEFINE l == LastOf(Earlier(e, i))
      <4>3. l \in 1..Len(e) /\ e[l].kind = "item"
        BY <4>1, <4>2 DEF Earlier
      <4> HIDE DEF l
      <4>4. e[l] \in ItemEl
        BY <1>1, <4>3, UndoableIsElement
      <4> QED
        BY <4>4 DEF ItemEl, l
    <3>4. saved \in Value
      BY <3>2, <3>3
    <3>5. Exchanged(e)[i] = [e[i] EXCEPT !.saved = saved]
      BY <2>1 DEF Exchanged
    <3> HIDE DEF saved
    <3> QED
      BY <3>1, <3>4, <3>5 DEF ItemEl, Undoable
  <2>2. CASE e[i].kind # "item"
    <3>1. e[i] \in ActionEl
      BY <1>1, <2>2, UndoableIsElement
    <3>2. Exchanged(e)[i] = [e[i] EXCEPT !.to = e[i].from, !.from = e[i].to]
      BY <2>2 DEF Exchanged
    <3> QED
      BY <3>1, <3>2 DEF ActionEl, Undoable
  <2> QED
    BY <2>1, <2>2
<1>3. Exchanged(e) \in [1..Len(e) -> Undoable]
  <2>1. DOMAIN Exchanged(e) = 1..Len(e)
    BY DEF Exchanged
  <2>2. Exchanged(e) = [i \in 1..Len(e) |-> Exchanged(e)[i]]
    BY DEF Exchanged
  <2> QED
    BY <1>2, <2>1, <2>2
<1> QED
  BY <1>1, <1>3, SeqOfFunction

\* Restoring an entry leaves every cell with a value and every folder with a
\* page.
LEMMA AfterTyped ==
  ASSUME TypeOK, NEW e \in Seq(Undoable)
  PROVE  LiveAfter(e) \in [Cell -> Value] /\ PageAfter(e) \in [Folder -> Page]
<1>1. Len(e) \in Nat /\ \A i \in 1..Len(e) : e[i] \in Undoable
  OBVIOUS
<1>2. ASSUME NEW c \in Cell
      PROVE  LiveAfter(e)[c] \in Value
  <2> DEFINE at == {i \in 1..Len(e) : e[i].kind = "item" /\ e[i].cell = c}
  <2>1. LiveAfter(e)[c] = IF at = {} THEN live[c] ELSE e[LastOf(at)].saved
    BY DEF LiveAfter
  <2>2. live[c] \in Value
    BY DEF TypeOK
  <2>3. ASSUME at # {}
        PROVE  e[LastOf(at)].saved \in Value
    <3>1. at \in SUBSET (1..Len(e))
      OBVIOUS
    <3>2. LastOf(at) \in at
      <4> HIDE DEF at
      <4> QED
        BY <1>1, <2>3, <3>1, LastOfSet
    <3> DEFINE l == LastOf(at)
    <3>3. l \in 1..Len(e) /\ e[l].kind = "item"
      BY <3>2
    <3> HIDE DEF l, at
    <3>4. e[l] \in ItemEl
      BY <1>1, <3>3, UndoableIsElement
    <3> QED
      BY <3>4 DEF ItemEl, l
  <2> HIDE DEF at
  <2> QED
    BY <2>1, <2>2, <2>3
<1>3. ASSUME NEW f \in Folder
      PROVE  PageAfter(e)[f] \in Page
  <2> DEFINE at == {i \in 1..Len(e) : e[i].kind = "action" /\ e[i].folder = f}
  <2>1. PageAfter(e)[f] = IF at = {} THEN page[f] ELSE e[LastOf(at)].to
    BY DEF PageAfter
  <2>2. page[f] \in Page
    BY DEF TypeOK
  <2>3. ASSUME at # {}
        PROVE  e[LastOf(at)].to \in Page
    <3>1. at \in SUBSET (1..Len(e))
      OBVIOUS
    <3>2. LastOf(at) \in at
      <4> HIDE DEF at
      <4> QED
        BY <1>1, <2>3, <3>1, LastOfSet
    <3> DEFINE l == LastOf(at)
    <3>3. l \in 1..Len(e) /\ e[l].kind = "action"
      BY <3>2
    <3> HIDE DEF l, at
    <3>4. e[l] \in ActionEl
      BY <1>1, <3>3, UndoableIsElement
    <3> QED
      BY <3>4 DEF ActionEl, l
  <2> HIDE DEF at
  <2> QED
    BY <2>1, <2>2, <2>3
<1>4. LiveAfter(e) = [c \in Cell |-> LiveAfter(e)[c]]
  BY DEF LiveAfter
<1>5. PageAfter(e) = [f \in Folder |-> PageAfter(e)[f]]
  BY DEF PageAfter
<1> QED
  BY <1>2, <1>3, <1>4, <1>5

\* The records that say which loop is running have their type.
LEMMA LoopRecords ==
  /\ Idle \in Loop /\ Idle.op = "idle"
  /\ \A op \in Ops, o \in Owner :
       /\ [Idle EXCEPT !.op = op, !.owner = o] \in Loop
       /\ [Idle EXCEPT !.op = op, !.owner = o].op = op
       /\ [Idle EXCEPT !.op = op, !.owner = o].owner = o
  /\ \A op \in Ops, todo \in SUBSET Cell :
       /\ [Idle EXCEPT !.op = op, !.todo = todo] \in Loop
       /\ [Idle EXCEPT !.op = op, !.todo = todo].op = op
  /\ \A op \in Ops, b \in BOOLEAN :
       /\ [Idle EXCEPT !.op = op, !.guard = b] \in Loop
       /\ [Idle EXCEPT !.op = op, !.guard = b].op = op
<1>1. Idle \in Loop /\ Idle.op = "idle"
  BY DEF Loop, Idle, Ops
<1>2. ASSUME NEW op \in Ops, NEW o \in Owner
      PROVE  /\ [Idle EXCEPT !.op = op, !.owner = o] \in Loop
             /\ [Idle EXCEPT !.op = op, !.owner = o].op = op
             /\ [Idle EXCEPT !.op = op, !.owner = o].owner = o
  BY <1>1 DEF Loop
<1>3. ASSUME NEW op \in Ops, NEW todo \in SUBSET Cell
      PROVE  /\ [Idle EXCEPT !.op = op, !.todo = todo] \in Loop
             /\ [Idle EXCEPT !.op = op, !.todo = todo].op = op
  BY <1>1 DEF Loop
<1>4. ASSUME NEW op \in Ops, NEW b \in BOOLEAN
      PROVE  /\ [Idle EXCEPT !.op = op, !.guard = b] \in Loop
             /\ [Idle EXCEPT !.op = op, !.guard = b].op = op
  BY <1>1 DEF Loop
<1> QED
  BY <1>1, <1>2, <1>3, <1>4

\* While a commit or an abort runs there is a transaction on the trail.
LEMMA OpenTransaction ==
  ASSUME TypeOK, OwnerIsOpen, busy.op \in {"commit", "abort"}
  PROVE  trail # <<>> /\ busy.owner \in Owner
<1>1. busy.owner \in Owners
  BY DEF OwnerIsOpen
<1>2. PICK i \in 1..Len(trail) : busy.owner = trail[i].owner
  BY <1>1 DEF Owners
<1>3. trail \in Seq(Segment)
  BY DEF TypeOK
<1>4. trail # <<>>
  BY <1>2, <1>3, Len(<<>>) = 0
<1> QED
  BY <1>2, <1>3, <1>4, SegmentFields

\* The trail without its innermost segment.
LEMMA FrontOfTrail ==
  ASSUME TypeOK, trail # <<>>
  PROVE  /\ Front(trail) \in Seq(Segment)
         /\ Len(Front(trail)) = Len(trail) - 1
         /\ \A k \in 1..(Len(trail) - 1) : Front(trail)[k] = trail[k]
BY FrontOfSeq DEF TypeOK

\* Closing a point keeps the types of busy and failed.
LEMMA AfterPointTyped ==
  ASSUME TypeOK, AfterPoint
  PROVE  busy' \in Loop /\ failed' \in BOOLEAN
BY LoopRecords DEF TypeOK, AfterPoint

\* The trail without the newest element of its innermost log.
LEMMA DropNewestTyped ==
  ASSUME TypeOK, trail # <<>>, Top.log # <<>>
  PROVE  /\ DropNewest \in Seq(Segment)
         /\ Newest \in Element
         /\ Len(DropNewest) = Len(trail)
         /\ \A k \in 1..(Len(trail) - 1) : DropNewest[k] = trail[k]
         /\ DropNewest[Len(trail)] = [Top EXCEPT !.log = Front(Top.log)]
<1>1. Top.log \in Seq(Element)
  BY TopInTrail
<1>2. Front(Top.log) \in Seq(Element) /\ Last(Top.log) \in Element
  BY <1>1, FrontOfSeq
<1> QED
  BY <1>2, WithTopLogTyped DEF DropNewest, Newest

\* commitInnerTransaction moves or drops the oldest element of the innermost
\* log and leaves all other segments, and all owners, as they are.
LEMMA CommitElementTrail ==
  ASSUME TypeOK, CommitElement
  PROVE  /\ trail' \in Seq(Segment)
         /\ Len(trail') = Len(trail)
         /\ \A k \in 1..(Len(trail) - 2) : trail'[k] = trail[k]
         /\ \A k \in 1..Len(trail) : trail'[k].owner = trail[k].owner
         /\ trail'[Len(trail)].log = Tail(trail[Len(trail)].log)
         /\ \/ /\ trail'[Len(trail) - 1].log
                    = Append(trail[Len(trail) - 1].log, Head(trail[Len(trail)].log))
               /\ ~Resident(Head(trail[Len(trail)].log), trail[Len(trail) - 1].log)
            \/ /\ trail'[Len(trail) - 1].log = trail[Len(trail) - 1].log
               /\ Resident(Head(trail[Len(trail)].log), trail[Len(trail) - 1].log)
<1> DEFINE n == Len(trail)
           log == trail[n].log
           outer == trail[n - 1].log
           e == Head(log)
           new == IF Resident(e, outer) THEN outer ELSE Append(outer, e)
           inner == [trail[n] EXCEPT !.log = Tail(log)]
           around == [trail[n - 1] EXCEPT !.log = new]
<1>1. trail \in Seq(Segment) /\ n \in Nat /\ n > 1 /\ n \in 1..n /\ n - 1 \in 1..n
  BY DEF TypeOK, CommitElement
<1>2. /\ trail[n] \in Segment /\ trail[n - 1] \in Segment
      /\ log \in Seq(Element) /\ outer \in Seq(Element)
  <2>1. \A k \in 1..Len(trail) : trail[k] \in Segment /\ trail[k].log \in Seq(Element)
    BY <1>1, SegmentFields
  <2> QED
    BY <1>1, <2>1
<1>3. log # <<>>
  BY DEF CommitElement, Top
<1>4. trail' = [trail EXCEPT ![n].log = Tail(log), ![n - 1].log = new]
  BY <1>1 DEF CommitElement, Top
<1>5. trail' = [[trail EXCEPT ![n] = inner] EXCEPT ![n - 1] = around]
  BY <1>1, <1>4
<1>6. Tail(log) \in Seq(Element) /\ e \in Element
  <2> HIDE DEF log
  <2> QED
    BY <1>2, <1>3, TailOfSeq
<1>7. new \in Seq(Element)
  <2> HIDE DEF log, outer, e
  <2> QED
    BY <1>2, <1>6
<1>8. inner \in Segment /\ inner.log = Tail(log) /\ inner.owner = trail[n].owner
  <2> HIDE DEF n
  <2> QED
    BY <1>2, <1>6 DEF Segment
<1>9. around \in Segment /\ around.log = new /\ around.owner = trail[n - 1].owner
  <2> HIDE DEF new, n
  <2> QED
    BY <1>2, <1>7 DEF Segment
<1> HIDE DEF inner, around, new, log, outer, e, n
<1>10. /\ [trail EXCEPT ![n] = inner] \in Seq(Segment)
       /\ Len([trail EXCEPT ![n] = inner]) = Len(trail)
       /\ \A j \in 1..Len(trail) : [trail EXCEPT ![n] = inner][j] = IF j = n THEN inner ELSE trail[j]
  BY <1>1, <1>8, ExceptOfSeq DEF n
<1>11. /\ trail' \in Seq(Segment)
       /\ Len(trail') = n
       /\ \A j \in 1..n : trail'[j] = IF j = n - 1 THEN around
                                      ELSE IF j = n THEN inner ELSE trail[j]
  <2> DEFINE t == [trail EXCEPT ![n] = inner]
  <2>1. t \in Seq(Segment) /\ Len(t) = n
    BY <1>10 DEF n
  <2>2. \A j \in 1..n : t[j] = IF j = n THEN inner ELSE trail[j]
    BY <1>10 DEF n
  <2>3. trail' = [t EXCEPT ![n - 1] = around]
    BY <1>5
  <2> HIDE DEF t
  <2>4. /\ [t EXCEPT ![n - 1] = around] \in Seq(Segment)
        /\ Len([t EXCEPT ![n - 1] = around]) = n
        /\ \A j \in 1..n : [t EXCEPT ![n - 1] = around][j] = IF j = n - 1 THEN around ELSE t[j]
    BY <1>1, <1>9, <2>1, ExceptOfSeq
  <2> QED
    BY <2>2, <2>3, <2>4
<1>12. n # n - 1 /\ \A k \in 1..(n - 2) : k \in 1..n /\ k # n /\ k # n - 1
  BY <1>1
<1>13. trail'[n] = inner /\ trail'[n - 1] = around
  BY <1>1, <1>11, <1>12
<1>14. \A k \in 1..n : trail'[k].owner = trail[k].owner
  BY <1>8, <1>9, <1>11
<1>15. \A k \in 1..(n - 2) : trail'[k] = trail[k]
  BY <1>11, <1>12
<1> QED
  BY <1>8, <1>9, <1>11, <1>13, <1>14, <1>15 DEF n, new, log, outer, e

\* The cell of an item in an existing cycle.
LEMMA CellOfTyped ==
  ASSUME TypeOK, NEW i \in 1..Len(cycles), NEW n \in Name
  PROVE  CellOf(cycles[i], n) \in Cell
<1>1. cycles[i] \in Cycle
  BY DEF TypeOK
<1> QED
  BY <1>1 DEF CellOf, Cell

-----------------------------------------------------------------------------

\* startTransaction preserves the types.
LEMMA BeginTyped ==
  ASSUME TypeOK, NEW o \in Owner, Begin(o)
  PROVE  TypeOK'
<1>1. [owner |-> o, log |-> <<>>] \in Segment
  BY DEF Segment
<1>2. trail' \in Seq(Segment)
  BY <1>1 DEF Begin, TypeOK
<1>3. final' \in [Owner -> BOOLEAN]
  BY DEF Begin, TypeOK
<1>4. owing' \subseteq Owner
  BY DEF Begin, TypeOK
<1> QED
  BY <1>2, <1>3, <1>4 DEF Begin, TypeOK, poolVars, undoVars, modeVars

\* The start of a commit or an abort preserves the types.
LEMMA EndTyped ==
  ASSUME TypeOK, NEW o \in Owner, Commit(o) \/ Abort(o)
  PROVE  TypeOK'
<1>1. owing' \subseteq Owner
  BY DEF Commit, Abort, TypeOK
<1>2. failed' \in BOOLEAN
  BY DEF Commit, Abort, LateEnd, TypeOK
<1>3. busy' \in Loop
  <2>1. [Idle EXCEPT !.op = "commit", !.owner = o] \in Loop
    BY LoopRecords DEF Ops
  <2>2. [Idle EXCEPT !.op = "abort", !.owner = o] \in Loop
    BY LoopRecords DEF Ops
  <2> QED
    BY <2>1, <2>2 DEF Commit, Abort, LateEnd, TypeOK
<1> QED
  BY <1>1, <1>2, <1>3 DEF Commit, Abort, TypeOK, poolVars, undoVars, modeVars

\* The loops of commit and abort preserve the types.
LEMMA LoopTyped ==
  ASSUME TypeOK, OwnerIsOpen, CommitElement \/ CommitInner \/ AbortPoint
  PROVE  TypeOK'
<1>1. trail # <<>>
  BY OpenTransaction DEF CommitElement, CommitInner, AbortPoint
<1>2. CASE CommitElement
  BY <1>2, CommitElementTrail DEF CommitElement, TypeOK, poolVars, undoVars, modeVars
<1>3. CASE CommitInner \/ AbortPoint
  <2>1. trail' \in Seq(Segment)
    BY <1>1, <1>3, FrontOfTrail DEF CommitInner, AbortPoint
  <2>2. busy' \in Loop /\ failed' \in BOOLEAN
    BY <1>3, AfterPointTyped DEF CommitInner, AbortPoint
  <2> QED
    BY <1>3, <2>1, <2>2 DEF CommitInner, AbortPoint, TypeOK, poolVars, undoVars, modeVars
<1> QED
  BY <1>2, <1>3

\* commitFinalTransaction preserves the types.
LEMMA CommitFinalTyped ==
  ASSUME TypeOK, OwnerIsOpen, CommitFinal
  PROVE  TypeOK'
<1>1. trail # <<>> /\ Top.log \in Seq(Element)
  BY OpenTransaction, TopInTrail DEF CommitFinal
<1>2. busy' \in Loop /\ failed' \in BOOLEAN
  BY AfterPointTyped DEF CommitFinal
<1>3. undo' \in Seq(Seq(Undoable)) /\ redo' \in Seq(Seq(Undoable)) /\ button' \in Button
  <2>1. CASE ~IsEnabled \/ Top.log = <<>>
    BY <2>1 DEF CommitFinal, undoVars, TypeOK
  <2>2. CASE /\ ~(~IsEnabled \/ Top.log = <<>>)
             /\ \E i \in 1..Len(Top.log) : CycleElement(Top.log[i])
    <3>1. ClearUndo
      BY <2>2 DEF CommitFinal
    <3> QED
      BY <3>1, ClearUndoTyped
  <2>3. CASE /\ ~(~IsEnabled \/ Top.log = <<>>)
             /\ ~\E i \in 1..Len(Top.log) : CycleElement(Top.log[i])
    <3>1. InsertElement(Top.log)
      BY <2>3 DEF CommitFinal
    <3>2. Top.log \in Seq(Undoable)
      BY <1>1, <2>3, UndoableLog
    <3> QED
      BY <3>1, <3>2, InsertElementTyped
  <2> QED
    BY <2>1, <2>2, <2>3
<1>4. <<>> \in Seq(Segment)
  OBVIOUS
<1> QED
  BY <1>2, <1>3, <1>4 DEF CommitFinal, TypeOK, poolVars, modeVars

\* The steps of abortTransaction preserve the types.
LEMMA RestoreTyped ==
  ASSUME TypeOK, OwnerIsOpen,
         \/ RestoreItem \/ RestorePage \/ RestoreSwitch \/ RestoreNew \/ RestoreDelete
  PROVE  TypeOK'
<1>1. busy.op = "abort" /\ Top.log # <<>> /\ trail' = DropNewest
      /\ UNCHANGED <<final, owing, undoVars, modeVars, busy>>
  BY DEF RestoreItem, RestorePage, RestoreSwitch, RestoreNew, RestoreDelete, Recovering
<1>2. trail # <<>>
  BY <1>1, OpenTransaction
<1>3. trail' \in Seq(Segment) /\ Newest \in Element
  BY <1>1, <1>2, DropNewestTyped
<1>4. /\ Newest.kind = "item" => Newest.cell \in Cell /\ Newest.saved \in Value
      /\ Newest.kind = "action" => Newest.folder \in Folder /\ Newest.to \in Page
      /\ Newest.kind = "switch" => Newest.num \in Nat
      /\ Newest.kind = "new" => Newest.old \in Nat /\ Newest.new \in Nat
      /\ Newest.kind = "delete" => Newest.cycle \in Cycle /\ Newest.num \in Nat
  BY <1>3, ElementFields
<1>5. CASE RestoreItem
  <2>1. live' \in [Cell -> Value]
    BY <1>4, <1>5 DEF RestoreItem, Recovering, TypeOK
  <2> QED
    BY <1>1, <1>3, <1>5, <2>1 DEF RestoreItem, TypeOK, undoVars, modeVars
<1>6. CASE RestorePage
  <2>1. page' \in [Folder -> Page]
    BY <1>4, <1>6 DEF RestorePage, Recovering, TypeOK
  <2> QED
    BY <1>1, <1>3, <1>6, <2>1 DEF RestorePage, TypeOK, undoVars, modeVars
<1>7. CASE RestoreSwitch
  <2>1. actual' \in Nat
    BY <1>4, <1>7 DEF RestoreSwitch, Recovering, TypeOK
  <2> QED
    BY <1>1, <1>3, <1>7, <2>1 DEF RestoreSwitch, TypeOK, undoVars, modeVars
<1>8. CASE RestoreNew
  <2>1. actual' \in Nat
    BY <1>4, <1>8 DEF RestoreNew, Recovering, TypeOK
  <2>2. cycles' \in Seq(Cycle)
    BY <1>8, RemoveAtSeq DEF RestoreNew, TypeOK
  <2> QED
    BY <1>1, <1>3, <1>8, <2>1, <2>2 DEF RestoreNew, TypeOK, undoVars, modeVars
<1>9. CASE RestoreDelete
  <2>1. cycles' \in Seq(Cycle)
    BY <1>4, <1>9, InsertAtSeq DEF RestoreDelete, Recovering, TypeOK
  <2>2. failed' \in BOOLEAN
    BY <1>9 DEF RestoreDelete, TypeOK
  <2> QED
    BY <1>1, <1>3, <1>9, <2>1, <2>2 DEF RestoreDelete, TypeOK, undoVars, modeVars
<1> QED
  BY <1>5, <1>6, <1>7, <1>8, <1>9

\* A write preserves the types.
LEMMA WriteTyped ==
  ASSUME TypeOK, NEW i \in 1..Len(cycles), NEW n \in Name, NEW v \in Value,
         Write(i, n, v)
  PROVE  TypeOK'
<1> DEFINE c == CellOf(cycles[i], n)
<1>1. c \in Cell
  BY CellOfTyped
<1> HIDE DEF c
<1>2. /\ SaveItem(c)
      /\ live' = [live EXCEPT ![c] = v]
      /\ UNCHANGED <<page, cycles, actual, final, owing, modeVars, busy, failed>>
  BY DEF Write, c
<1>3. live' \in [Cell -> Value]
  BY <1>1, <1>2 DEF TypeOK
<1> QED
  BY <1>1, <1>2, <1>3, SaveItemTyped DEF TypeOK, modeVars

\* A folder switch preserves the types.
LEMMA SwitchPageTyped ==
  ASSUME TypeOK, NEW f \in Folder, NEW p \in Page, SwitchPage(f, p)
  PROVE  TypeOK'
<1> DEFINE e == [kind |-> "action", folder |-> f, to |-> page[f], from |-> p]
<1>1. e \in ActionEl /\ e \in Undoable /\ e \in Element
  BY DEF TypeOK, ActionEl, Undoable, Element
<1>2. page' \in [Folder -> Page]
  BY DEF SwitchPage, TypeOK
<1> HIDE DEF e
<1>3. CASE InTransaction
  <2>1. trail' = Record(e) /\ UNCHANGED undoVars
    BY <1>3 DEF SwitchPage, e
  <2>2. Record(e) \in Seq(Segment)
    BY <1>1, <1>3, RecordTyped DEF InTransaction
  <2> QED
    BY <1>2, <2>1, <2>2 DEF SwitchPage, TypeOK, undoVars, modeVars
<1>4. CASE ~InTransaction
  <2>1. InsertElement(<<e>>) /\ UNCHANGED trail
    BY <1>4 DEF SwitchPage, e
  <2>2. <<e>> \in Seq(Undoable)
    BY <1>1
  <2>3. undo' \in Seq(Seq(Undoable)) /\ redo' \in Seq(Seq(Undoable)) /\ button' \in Button
    BY <2>1, <2>2, InsertElementTyped
  <2> QED
    BY <1>2, <2>1, <2>3 DEF SwitchPage, TypeOK, undoVars, modeVars
<1> QED
  BY <1>3, <1>4

\* NewCycle preserves the types; it reads the actual cycle, which must exist.
LEMMA NewCycleTyped ==
  ASSUME TypeOK, ActualExists, NEW c \in Cycle, NewCycle(c)
  PROVE  TypeOK'
<1> DEFINE e == [kind |-> "new", old |-> actual, new |-> Len(cycles) + 1, cycle |-> c]
<1>1. cycles \in Seq(Cycle) /\ Len(cycles) \in Nat /\ actual \in Nat /\ cycles[actual] \in Cycle
  BY DEF TypeOK, ActualExists
<1>2. e \in Element
  BY <1>1 DEF NewEl, Element
<1>3. cycles' \in Seq(Cycle) /\ actual' \in Nat
  BY <1>1 DEF NewCycle
<1>4. live' \in [Cell -> Value]
  <2>1. ASSUME NEW d \in Cell, d[1] = c
        PROVE  <<cycles[actual], d[2]>> \in Cell
    BY <1>1, <2>1, DataAssumption DEF Cell
  <2>2. \A d \in Cell : (IF d[1] = c THEN live[<<cycles[actual], d[2]>>] ELSE live[d]) \in Value
    BY <2>1 DEF TypeOK
  <2> QED
    BY <2>2 DEF NewCycle
<1>5. trail' \in Seq(Segment)
  <2> HIDE DEF e
  <2>1. trail' = RecordIf(e)
    BY DEF NewCycle, e
  <2> QED
    BY <1>2, <2>1, RecordIfTyped
<1>6. undo' \in Seq(Seq(Undoable)) /\ redo' \in Seq(Seq(Undoable)) /\ button' \in Button
  BY ClearUndoTyped DEF NewCycle
<1> QED
  BY <1>3, <1>4, <1>5, <1>6 DEF NewCycle, TypeOK, modeVars

\* SetCycle preserves the types.
LEMMA SetCycleTyped ==
  ASSUME TypeOK, NEW i \in 1..Len(cycles), SetCycle(i)
  PROVE  TypeOK'
<1> DEFINE e == [kind |-> "switch", num |-> actual]
<1>1. e \in Element
  BY DEF SwitchEl, Element, TypeOK
<1>2. i \in Nat
  OBVIOUS
<1> HIDE DEF e
<1>3. trail' = RecordIf(e) /\ actual' = i
  BY DEF SetCycle, e
<1>4. trail' \in Seq(Segment)
  BY <1>1, <1>3, RecordIfTyped
<1>5. undo' \in Seq(Seq(Undoable)) /\ redo' \in Seq(Seq(Undoable)) /\ button' \in Button
  BY ClearUndoTyped DEF SetCycle
<1> QED
  BY <1>2, <1>3, <1>4, <1>5 DEF SetCycle, TypeOK, modeVars

\* RemoveCycle preserves the types.
LEMMA RemoveCycleTyped ==
  ASSUME TypeOK, NEW i \in 1..Len(cycles), RemoveCycle(i)
  PROVE  TypeOK'
<1> DEFINE switch == [kind |-> "switch", num |-> actual]
           delete == [kind |-> "delete", cycle |-> cycles[i], num |-> i]
<1>1. switch \in Element /\ delete \in Element
  BY DEF SwitchEl, DeleteEl, Element, TypeOK
<1>2. cycles' \in Seq(Cycle)
  BY RemoveAtSeq DEF RemoveCycle, TypeOK
<1>3. actual' \in Nat
  <2>1. i \in Nat /\ actual \in Nat
    BY DEF TypeOK
  <2>2. actual' = IF actual < i \/ actual = 1 THEN actual ELSE actual - 1
    BY DEF RemoveCycle
  <2>3. actual < i \/ actual = 1 \/ actual - 1 \in Nat
    BY <2>1
  <2> QED
    BY <2>1, <2>2, <2>3
<1> HIDE DEF switch, delete
<1>4. trail' \in Seq(Segment)
  <2>1. trail' = IF InTransaction THEN WithTopLog(Top.log \o <<switch, delete>>) ELSE trail
    BY DEF RemoveCycle, switch, delete
  <2>2. CASE InTransaction
    <3>1. Top.log \in Seq(Element)
      BY <2>2, TopInTrail DEF InTransaction
    <3>2. Top.log \o <<switch, delete>> \in Seq(Element)
      BY <1>1, <3>1
    <3> QED
      BY <2>1, <2>2, <3>2, WithTopLogTyped DEF InTransaction
  <2>3. CASE ~InTransaction
    BY <2>1, <2>3 DEF TypeOK
  <2> QED
    BY <2>2, <2>3
<1>5. undo' \in Seq(Seq(Undoable)) /\ redo' \in Seq(Seq(Undoable)) /\ button' \in Button
  BY ClearUndoTyped DEF RemoveCycle
<1> QED
  BY <1>2, <1>3, <1>4, <1>5 DEF RemoveCycle, TypeOK, modeVars

\* A step of ClearCycle preserves the types.
LEMMA ClearItemTyped ==
  ASSUME TypeOK, NEW c \in Cell, ClearItem(c)
  PROVE  TypeOK'
<1>1. live' \in [Cell -> Value]
  BY DataAssumption DEF ClearItem, TypeOK
<1>2. busy' \in Loop
  <2>1. [busy EXCEPT !.todo = @ \ {c}] \in Loop
    BY DEF TypeOK, Loop
  <2> QED
    BY <2>1, LoopRecords DEF ClearItem
<1>3. /\ trail' \in Seq(Segment) /\ undo' \in Seq(Seq(Undoable))
      /\ redo' \in Seq(Seq(Undoable)) /\ button' \in Button
  <2>1. CASE InTransaction
    BY <2>1, SaveItemTyped DEF ClearItem
  <2>2. CASE ~InTransaction
    BY <2>2 DEF ClearItem, undoVars, TypeOK
  <2> QED
    BY <2>1, <2>2
<1> QED
  BY <1>1, <1>2, <1>3 DEF ClearItem, TypeOK, modeVars

\* Undo preserves the types.
LEMMA UndoTyped ==
  ASSUME TypeOK, Undo
  PROVE  TypeOK'
<1>1. CASE activated /\ undo # <<>>
  <2> DEFINE e == Last(undo)
  <2>1. e \in Seq(Undoable) /\ Front(undo) \in Seq(Seq(Undoable))
    BY <1>1, FrontOfSeq DEF TypeOK
  <2> HIDE DEF e
  <2>2. LiveAfter(e) \in [Cell -> Value] /\ PageAfter(e) \in [Folder -> Page]
    BY <2>1, AfterTyped
  <2>3. Pushed(redo, Exchanged(e)) \in Seq(Seq(Undoable))
    BY <2>1, ExchangedTyped, PushedTyped DEF TypeOK
  <2>4. /\ live' = LiveAfter(e) /\ page' = PageAfter(e)
        /\ undo' = Front(undo) /\ redo' = Pushed(redo, Exchanged(e))
        /\ button' = [undo |-> (Len(undo) > 1) /\ button.undo,
                      redo |-> (redo = <<>>) \/ button.redo]
        /\ GuardedUpdate
    BY <1>1 DEF Undo, e
  <2>5. button' \in Button
    BY <2>4 DEF Button
  <2>6. enabled' \in BOOLEAN /\ busy' \in Loop
    BY <2>4, LoopRecords DEF GuardedUpdate, Ops
  <2> QED
    BY <2>1, <2>2, <2>3, <2>4, <2>5, <2>6 DEF Undo, TypeOK
<1>2. CASE ~(activated /\ undo # <<>>)
  <2>1. button' = [undo |-> FALSE, redo |-> activated /\ redo # <<>>]
    BY <1>2 DEF Undo
  <2>2. button' \in Button
    BY <2>1 DEF Button
  <2> QED
    BY <1>2, <2>2 DEF Undo, TypeOK
<1> QED
  BY <1>1, <1>2

\* Redo preserves the types.
LEMMA RedoTyped ==
  ASSUME TypeOK, Redo
  PROVE  TypeOK'
<1>1. CASE activated /\ redo # <<>>
  <2> DEFINE e == Last(redo)
  <2>1. e \in Seq(Undoable) /\ Front(redo) \in Seq(Seq(Undoable))
    BY <1>1, FrontOfSeq DEF TypeOK
  <2> HIDE DEF e
  <2>2. LiveAfter(e) \in [Cell -> Value] /\ PageAfter(e) \in [Folder -> Page]
    BY <2>1, AfterTyped
  <2>3. Pushed(undo, Exchanged(e)) \in Seq(Seq(Undoable))
    BY <2>1, ExchangedTyped, PushedTyped DEF TypeOK
  <2>4. /\ live' = LiveAfter(e) /\ page' = PageAfter(e)
        /\ redo' = Front(redo) /\ undo' = Pushed(undo, Exchanged(e))
        /\ button' = [undo |-> (undo = <<>>) \/ button.undo,
                      redo |-> (Len(redo) > 1) /\ button.redo]
        /\ GuardedUpdate
    BY <1>1 DEF Redo, e
  <2>5. button' \in Button
    BY <2>4 DEF Button
  <2>6. enabled' \in BOOLEAN /\ busy' \in Loop
    BY <2>4, LoopRecords DEF GuardedUpdate, Ops
  <2> QED
    BY <2>1, <2>2, <2>3, <2>4, <2>5, <2>6 DEF Redo, TypeOK
<1>2. CASE ~(activated /\ redo # <<>>)
  <2>1. button' = [undo |-> activated /\ undo # <<>>, redo |-> FALSE]
    BY <1>2 DEF Redo
  <2>2. button' \in Button
    BY <2>1 DEF Button
  <2> QED
    BY <1>2, <2>2 DEF Redo, TypeOK
<1> QED
  BY <1>1, <1>2

\* The calls that only change modes or start and end updates preserve the
\* types.
LEMMA ModeTyped ==
  ASSUME TypeOK,
         \/ \E i \in 1..Len(cycles) : ClearCycle(i)
         \/ UpdateForms \/ UpdateDone
         \/ Activate \/ EnableUndo \/ DisallowUndo \/ AllowUndo
  PROVE  TypeOK'
<1>1. ASSUME NEW i \in 1..Len(cycles), ClearCycle(i)
      PROVE  TypeOK'
  <2> DEFINE todo == {CellOf(cycles[i], n) : n \in Name \ (Global \cup Protected)}
  <2>1. todo \in SUBSET Cell
    BY CellOfTyped
  <2> HIDE DEF todo
  <2>2. busy' = [Idle EXCEPT !.op = "clear", !.todo = todo]
    BY <1>1 DEF ClearCycle, todo
  <2>3. busy' \in Loop
    BY <2>1, <2>2, LoopRecords DEF Ops
  <2> QED
    BY <1>1, <2>3 DEF ClearCycle, TypeOK, poolVars, undoVars, modeVars
<1>2. CASE UpdateForms
  <2>1. IsEnabled \in BOOLEAN
    BY DEF IsEnabled
  <2>2. busy' \in Loop
    BY <1>2, <2>1, LoopRecords DEF UpdateForms, Ops
  <2>3. enabled' \in BOOLEAN
    BY <1>2 DEF UpdateForms, TypeOK
  <2> QED
    BY <1>2, <2>2, <2>3 DEF UpdateForms, TypeOK, poolVars, undoVars
<1>3. CASE UpdateDone
  <2>1. busy' \in Loop /\ enabled' \in BOOLEAN
    BY <1>3, LoopRecords DEF UpdateDone
  <2> QED
    BY <1>3, <2>1 DEF UpdateDone, TypeOK, poolVars, undoVars
<1>4. CASE Activate
  BY <1>4 DEF Activate, TypeOK, poolVars, Button
<1>5. CASE EnableUndo
  BY <1>5, EntriesTyped DEF EnableUndo, TypeOK, poolVars, Button
<1>6. CASE DisallowUndo
  BY <1>6 DEF DisallowUndo, TypeOK, poolVars, undoVars
<1>7. CASE AllowUndo
  BY <1>7 DEF AllowUndo, TypeOK, poolVars, undoVars
<1> QED
  BY <1>1, <1>2, <1>3, <1>4, <1>5, <1>6, <1>7

\* Every step preserves TypeOK.
LEMMA TypeOKStep ==
  ASSUME TypeOK, ActualExists, OwnerIsOpen, [Next]_vars
  PROVE  TypeOK'
<1>1. CASE Step
  BY <1>1, LoopTyped, CommitFinalTyped, RestoreTyped, ClearItemTyped, ModeTyped DEF Step
<1>2. CASE Call
  BY <1>2, BeginTyped, EndTyped, WriteTyped, SwitchPageTyped, NewCycleTyped,
     SetCycleTyped, RemoveCycleTyped, ModeTyped, UndoTyped, RedoTyped DEF Call
<1>3. CASE UNCHANGED vars
  BY <1>3 DEF vars, TypeOK
<1> QED
  BY <1>1, <1>2, <1>3 DEF Next

(*------------------------- the cycles of the trail -----------------------*)

\* The cycles and the actual one.
CyclesNow == [cycles |-> cycles, actual |-> actual]
Pool == {p \in [cycles : Seq(Cycle), actual : Nat] : p.actual \in 1..Len(p.cycles)}

\* What an element tells of them: a before it, b after it.
PoolStep(e, a, b) ==
  /\ e.kind = "new" =>
       b.cycles = Append(a.cycles, e.cycle) /\ e.new = Len(b.cycles) /\ e.old = a.actual
  /\ e.kind = "delete" =>
       /\ e.num \in 1..Len(a.cycles) /\ e.cycle = a.cycles[e.num]
       /\ b.cycles = RemoveAt(a.cycles, e.num) /\ b.actual = a.actual
  /\ e.kind = "switch" => b.cycles = a.cycles /\ e.num = a.actual
  /\ e.kind \in {"item", "action"} => b = a

\* past[k][i] are the cycles before element i of log k of trail t.
Pasts(t, n, past) ==
  /\ past \in [Nat -> [Nat -> Pool]]
  /\ \A k \in 1..Len(t) : \A i \in 1..Len(t[k].log) :
       PoolStep(t[k].log[i], past[k][i], past[k][i + 1])
  /\ \A k \in 1..(Len(t) - 1) : past[k + 1][1] = past[k][Len(t[k].log) + 1]
  /\ t # <<>> => past[Len(t)][Len(t[Len(t)].log) + 1] = n

\* The trail t accounts for the cycles n: they were g[k] when transaction k began.
Accounted(t, n, g) ==
  \E past : Pasts(t, n, past) /\ \A k \in 1..Len(t) : past[k][1] = g[k]

\* The first n transactions began alike.
Alike(g, h, n) == \A k \in 1..n : h[k] = g[k]

\* The inductive invariant of the pool and the trail.
PoolInv ==
  /\ TypeOK
  /\ ActualExists
  /\ OwnerIsOpen
  /\ \E g : Accounted(trail, CyclesNow, g)

-----------------------------------------------------------------------------

\* Without transactions the trail tells nothing of the cycles.
LEMMA AccountedEmpty ==
  ASSUME NEW n \in Pool, NEW g
  PROVE  Accounted(<<>>, n, g)
<1> DEFINE past == [k \in Nat |-> [i \in Nat |-> n]]
<1>1. past \in [Nat -> [Nat -> Pool]]
  OBVIOUS
<1>2. Pasts(<<>>, n, past)
  BY <1>1 DEF Pasts
<1> QED
  BY <1>2, Len(<<>>) = 0 DEF Accounted

\* Only the open transactions count.
LEMMA AccountedSame ==
  ASSUME NEW t, NEW n, NEW g, Accounted(t, n, g), NEW h, \A k \in 1..Len(t) : h[k] = g[k]
  PROVE  Accounted(t, n, h)
BY DEF Accounted

\* A transaction begins.
LEMMA AccountedPush ==
  ASSUME NEW t \in Seq(Segment), NEW n \in Pool, NEW g, Accounted(t, n, g),
         NEW s \in Segment, s.log = <<>>,
         NEW h, \A k \in 1..Len(t) : h[k] = g[k], h[Len(t) + 1] = n
  PROVE  Accounted(Append(t, s), n, h)
<1> DEFINE m == Len(t) + 1
           u == Append(t, s)
<1>1. PICK past : Pasts(t, n, past) /\ \A k \in 1..Len(t) : past[k][1] = g[k]
  BY DEF Accounted
<1>2. /\ m \in Nat
      /\ Len(u) = m
      /\ \A k \in 1..Len(t) : u[k] = t[k]
      /\ u[m] = s
      /\ Len(t) \in Nat
      /\ Len(s.log) = 0
  OBVIOUS
<1> HIDE DEF u
<1> DEFINE fresh == [i \in Nat |-> n]
           new == [past EXCEPT ![m] = fresh]
<1>3. past \in [Nat -> [Nat -> Pool]]
  BY <1>1 DEF Pasts
<1>4. /\ new \in [Nat -> [Nat -> Pool]]
      /\ new[m] = fresh
      /\ \A k \in 1..Len(t) : new[k] = past[k]
  <2>1. fresh \in [Nat -> Pool]
    OBVIOUS
  <2>2. \A k \in 1..Len(t) : k \in Nat /\ k # m
    BY <1>2
  <2> HIDE DEF fresh, m
  <2> QED
    BY <1>2, <1>3, <2>1, <2>2
<1>5. fresh[1] = n
  OBVIOUS
<1>10. \A k \in 1..Len(u) : new[k][1] = h[k]
  <2> SUFFICES ASSUME NEW k \in 1..Len(u)
               PROVE  new[k][1] = h[k]
    OBVIOUS
  <2>1. CASE k = m
    BY <1>4, <1>5, <2>1
  <2>2. CASE k # m
    <3>1. k \in 1..Len(t)
      BY <1>2, <2>2
    <3> HIDE DEF new, fresh, m
    <3> QED
      BY <1>1, <1>4, <3>1
  <2> QED
    BY <2>1, <2>2
<1> HIDE DEF new, fresh, m
<1>6. \A k \in 1..Len(u) : \A i \in 1..Len(u[k].log) :
        PoolStep(u[k].log[i], new[k][i], new[k][i + 1])
  <2> SUFFICES ASSUME NEW k \in 1..Len(u), NEW i \in 1..Len(u[k].log)
               PROVE  PoolStep(u[k].log[i], new[k][i], new[k][i + 1])
    OBVIOUS
  <2>1. k # m
    BY <1>2
  <2>2. k \in 1..Len(t)
    BY <1>2, <2>1 DEF m
  <2>3. u[k] = t[k] /\ new[k] = past[k]
    BY <1>2, <1>4, <2>2
  <2> QED
    BY <1>1, <2>2, <2>3 DEF Pasts
<1>7. \A k \in 1..(Len(u) - 1) : new[k + 1][1] = new[k][Len(u[k].log) + 1]
  <2> SUFFICES ASSUME NEW k \in 1..(Len(u) - 1)
               PROVE  new[k + 1][1] = new[k][Len(u[k].log) + 1]
    OBVIOUS
  <2>1. k \in 1..Len(t)
    BY <1>2 DEF m
  <2>2. CASE k = Len(t)
    <3>1. t # <<>> /\ k + 1 = m
      BY <2>1, <2>2 DEF m
    <3> QED
      BY <1>1, <1>2, <1>4, <1>5, <2>1, <2>2, <3>1 DEF Pasts
  <2>3. CASE k # Len(t)
    <3>1. k + 1 \in 1..Len(t) /\ k \in 1..(Len(t) - 1)
      BY <1>2, <2>1, <2>3
    <3>2. past[k + 1][1] = past[k][Len(t[k].log) + 1]
      BY <1>1, <3>1 DEF Pasts
    <3> QED
      BY <1>2, <1>4, <2>1, <3>1, <3>2
  <2> QED
    BY <2>2, <2>3
<1>8. new[Len(u)][Len(u[Len(u)].log) + 1] = n
  <2>1. Len(u[Len(u)].log) + 1 = 1
    BY <1>2
  <2> QED
    BY <1>2, <1>4, <1>5, <2>1
<1>9. Pasts(u, n, new)
  BY <1>4, <1>6, <1>7, <1>8 DEF Pasts
<1> QED
  BY <1>9, <1>10 DEF Accounted, u

\* A transaction without elements is closed.
LEMMA AccountedPop ==
  ASSUME NEW t \in Seq(Segment), t # <<>>, NEW n, NEW g, Accounted(t, n, g),
         t[Len(t)].log = <<>>
  PROVE  Accounted(Front(t), n, g)
<1> DEFINE u == Front(t)
<1>1. PICK past : Pasts(t, n, past) /\ \A k \in 1..Len(t) : past[k][1] = g[k]
  BY DEF Accounted
<1>2. /\ Len(t) \in Nat \ {0}
      /\ u \in Seq(Segment)
      /\ Len(u) = Len(t) - 1
      /\ \A k \in 1..Len(u) : u[k] = t[k]
  BY FrontOfSeq, NonEmptySeq
<1> HIDE DEF u
<1>3. ASSUME u # <<>>
      PROVE  past[Len(u)][Len(u[Len(u)].log) + 1] = n
  <2>1. Len(u) \in 1..(Len(t) - 1) /\ Len(u) \in 1..Len(u) /\ Len(u) + 1 = Len(t)
    BY <1>2, <1>3
  <2>2. past[Len(t)][1] = past[Len(u)][Len(t[Len(u)].log) + 1]
    BY <1>1, <2>1 DEF Pasts
  <2>3. past[Len(t)][1] = n
    <3>1. Len(t[Len(t)].log) + 1 = 1
      OBVIOUS
    <3> QED
      BY <1>1, <3>1 DEF Pasts
  <2> QED
    BY <1>2, <2>1, <2>2, <2>3
<1>4. \A k \in 1..Len(u) : k \in 1..Len(t)
  BY <1>2
<1>5. \A k \in 1..(Len(u) - 1) : k \in 1..(Len(t) - 1) /\ k \in 1..Len(u)
  BY <1>2
<1>6. Pasts(u, n, past)
  BY <1>1, <1>2, <1>3, <1>4, <1>5 DEF Pasts
<1>7. \A k \in 1..Len(u) : past[k][1] = g[k]
  BY <1>1, <1>4
<1> QED
  BY <1>6, <1>7 DEF Accounted, u

\* An element is recorded in the innermost transaction.
LEMMA AccountedGrow ==
  ASSUME NEW t \in Seq(Segment), t # <<>>, NEW n, NEW g, Accounted(t, n, g),
         NEW e \in Element, NEW m \in Pool, PoolStep(e, n, m),
         NEW u \in Seq(Segment), Len(u) = Len(t),
         \A k \in 1..(Len(t) - 1) : u[k].log = t[k].log,
         u[Len(t)].log = Append(t[Len(t)].log, e)
  PROVE  Accounted(u, m, g)
<1> DEFINE l == Len(t)
           log == t[l].log
           end == Len(log) + 1
<1>1. PICK past : Pasts(t, n, past) /\ \A k \in 1..Len(t) : past[k][1] = g[k]
  BY DEF Accounted
<1>2. l \in Nat \ {0} /\ l \in 1..l
  OBVIOUS
<1>3. /\ log \in Seq(Element)
      /\ end \in Nat
      /\ Len(u[l].log) = end
      /\ \A i \in 1..Len(log) : u[l].log[i] = log[i]
      /\ u[l].log[end] = e
  <2>1. log \in Seq(Element)
    BY <1>2, SegmentFields
  <2> HIDE DEF log
  <2> QED
    BY <2>1 DEF log
<1>4. past \in [Nat -> [Nat -> Pool]] /\ past[l][end] = n
  BY <1>1 DEF Pasts
<1> DEFINE row == [past[l] EXCEPT ![end + 1] = m]
           new == [past EXCEPT ![l] = row]
<1> HIDE DEF end
<1>5. /\ row \in [Nat -> Pool]
      /\ row[end + 1] = m
      /\ \A i \in 1..end : row[i] = past[l][i]
  <2>1. past[l] \in [Nat -> Pool]
    BY <1>2, <1>4
  <2>2. end + 1 \in Nat /\ \A i \in 1..end : i \in Nat /\ i # end + 1
    BY <1>3
  <2> HIDE DEF l, log
  <2> QED
    BY <2>1, <2>2
<1> HIDE DEF row, log, l
<1>6. /\ new \in [Nat -> [Nat -> Pool]]
      /\ new[l] = row
      /\ \A k \in 1..(l - 1) : new[k] = past[k]
  <2>1. \A k \in 1..(l - 1) : k \in Nat /\ k # l
    BY <1>2
  <2> QED
    BY <1>2, <1>4, <1>5, <2>1
<1> HIDE DEF new
<1>7. \A k \in 1..Len(u) : \A i \in 1..Len(u[k].log) :
        PoolStep(u[k].log[i], new[k][i], new[k][i + 1])
  <2> SUFFICES ASSUME NEW k \in 1..Len(u), NEW i \in 1..Len(u[k].log)
               PROVE  PoolStep(u[k].log[i], new[k][i], new[k][i + 1])
    OBVIOUS
  <2>1. CASE k # l
    <3>1. k \in 1..(l - 1) /\ k \in 1..Len(t)
      BY <1>2, <2>1 DEF l
    <3>2. u[k].log = t[k].log /\ new[k] = past[k]
      BY <1>6, <3>1 DEF l
    <3> QED
      BY <1>1, <3>1, <3>2 DEF Pasts
  <2>2. CASE k = l /\ i # end
    <3>1. i \in 1..Len(log) /\ i \in 1..end /\ i + 1 \in 1..end
      BY <1>3, <2>2 DEF end
    <3>2. PoolStep(log[i], past[l][i], past[l][i + 1])
      BY <1>1, <1>2, <3>1 DEF Pasts, l, log
    <3>3. u[k].log[i] = log[i] /\ new[k] = row
      BY <1>3, <1>6, <2>2, <3>1
    <3>4. row[i] = past[l][i] /\ row[i + 1] = past[l][i + 1]
      BY <1>5, <3>1
    <3> QED
      BY <3>2, <3>3, <3>4
  <2>3. CASE k = l /\ i = end
    <3>1. end \in 1..end
      BY <1>3 DEF end
    <3> QED
      BY <1>3, <1>4, <1>5, <1>6, <2>3, <3>1
  <2>4. k = l => i \in 1..end
    BY <1>3
  <2> QED
    BY <2>1, <2>2, <2>3
<1>8. \A k \in 1..(Len(u) - 1) : new[k + 1][1] = new[k][Len(u[k].log) + 1]
  <2> SUFFICES ASSUME NEW k \in 1..(Len(u) - 1)
               PROVE  new[k + 1][1] = new[k][Len(u[k].log) + 1]
    OBVIOUS
  <2>1. /\ u[k].log = t[k].log
        /\ new[k] = past[k]
        /\ past[k + 1][1] = past[k][Len(t[k].log) + 1]
    BY <1>1, <1>6 DEF Pasts, l
  <2>2. new[k + 1][1] = past[k + 1][1]
    <3>1. CASE k + 1 = l
      <4>1. 1 \in 1..end
        BY <1>3 DEF end
      <4> QED
        BY <1>5, <1>6, <3>1, <4>1
    <3>2. CASE k + 1 # l
      <4>1. k + 1 \in 1..(l - 1)
        BY <1>2, <3>2 DEF l
      <4> QED
        BY <1>6, <4>1
    <3> QED
      BY <3>1, <3>2
  <2> QED
    BY <2>1, <2>2
<1>9. new[Len(u)][Len(u[Len(u)].log) + 1] = m
  BY <1>3, <1>5, <1>6 DEF l
<1>10. Pasts(u, m, new)
  BY <1>6, <1>7, <1>8, <1>9 DEF Pasts
<1>11. \A k \in 1..Len(u) : new[k][1] = g[k]
  <2> SUFFICES ASSUME NEW k \in 1..Len(u)
               PROVE  new[k][1] = g[k]
    OBVIOUS
  <2>1. CASE k = l
    <3>1. 1 \in 1..end
      BY <1>3 DEF end
    <3> QED
      BY <1>1, <1>2, <1>5, <1>6, <2>1, <3>1 DEF l
  <2>2. CASE k # l
    <3>1. k \in 1..(l - 1) /\ k \in 1..Len(t)
      BY <1>2, <2>2 DEF l
    <3> QED
      BY <1>1, <1>6, <3>1
  <2> QED
    BY <2>1, <2>2
<1> QED
  BY <1>10, <1>11 DEF Accounted

\* The newest element of the innermost transaction is dropped.
LEMMA AccountedShrink ==
  ASSUME NEW t \in Seq(Segment), t # <<>>, NEW n, NEW g, Accounted(t, n, g),
         t[Len(t)].log # <<>>,
         NEW u \in Seq(Segment), Len(u) = Len(t),
         \A k \in 1..(Len(t) - 1) : u[k].log = t[k].log,
         u[Len(t)].log = Front(t[Len(t)].log)
  PROVE  \E a \in Pool : Accounted(u, a, g) /\ PoolStep(Last(t[Len(t)].log), a, n)
<1> DEFINE l == Len(t)
           log == t[l].log
           a(past) == past[l][Len(log)]
<1>1. PICK past : Pasts(t, n, past) /\ \A k \in 1..Len(t) : past[k][1] = g[k]
  BY DEF Accounted
<1>2. l \in Nat \ {0} /\ l \in 1..l
  OBVIOUS
<1>3. /\ log \in Seq(Element)
      /\ Len(log) \in Nat \ {0}
      /\ Len(log) \in 1..Len(log)
      /\ Last(log) = log[Len(log)]
      /\ Len(u[l].log) = Len(log) - 1
      /\ \A i \in 1..(Len(log) - 1) : u[l].log[i] = log[i]
  <2>1. log \in Seq(Element)
    BY <1>2, SegmentFields
  <2>2. u[l].log = Front(log) /\ log # <<>>
    OBVIOUS
  <2> HIDE DEF log, l
  <2>3. /\ Len(log) \in Nat \ {0}
        /\ Last(log) = log[Len(log)]
        /\ Len(Front(log)) = Len(log) - 1
        /\ \A i \in 1..(Len(log) - 1) : Front(log)[i] = log[i]
    BY <2>1, <2>2, FrontOfSeq, NonEmptySeq
  <2> QED
    BY <2>1, <2>2, <2>3
<1> HIDE DEF log
<1>4. /\ past \in [Nat -> [Nat -> Pool]]
      /\ a(past) \in Pool
      /\ past[l][Len(log) + 1] = n
  BY <1>1, <1>2, <1>3 DEF Pasts, log
<1>5. PoolStep(Last(log), a(past), n)
  BY <1>1, <1>2, <1>3, <1>4 DEF Pasts, log
<1> HIDE DEF l
<1>6. \A k \in 1..Len(u) : \A i \in 1..Len(u[k].log) :
        PoolStep(u[k].log[i], past[k][i], past[k][i + 1])
  <2> SUFFICES ASSUME NEW k \in 1..Len(u), NEW i \in 1..Len(u[k].log)
               PROVE  PoolStep(u[k].log[i], past[k][i], past[k][i + 1])
    OBVIOUS
  <2>1. CASE k # l
    <3>1. k \in 1..(l - 1) /\ k \in 1..Len(t)
      BY <1>2, <2>1 DEF l
    <3>2. u[k].log = t[k].log
      BY <3>1 DEF l
    <3> QED
      BY <1>1, <3>1, <3>2 DEF Pasts
  <2>2. CASE k = l
    <3>1. i \in 1..(Len(log) - 1) /\ i \in 1..Len(log)
      BY <1>3, <2>2
    <3> QED
      BY <1>1, <1>2, <1>3, <2>2, <3>1 DEF Pasts, l, log
  <2> QED
    BY <2>1, <2>2
<1>7. \A k \in 1..(Len(u) - 1) : past[k + 1][1] = past[k][Len(u[k].log) + 1]
  BY <1>1 DEF Pasts
<1>8. past[Len(u)][Len(u[Len(u)].log) + 1] = a(past)
  BY <1>2, <1>3 DEF l
<1>9. Pasts(u, a(past), past)
  BY <1>4, <1>6, <1>7, <1>8 DEF Pasts
<1>10. \A k \in 1..Len(u) : past[k][1] = g[k]
  BY <1>1
<1> QED
  BY <1>4, <1>5, <1>9, <1>10 DEF Accounted, l, log

\* The oldest element of the innermost transaction, which thereby begins later,
\* goes to the enclosing one, or an item is dropped.
LEMMA AccountedMove ==
  ASSUME NEW t \in Seq(Segment), Len(t) > 1, NEW n, NEW g, Accounted(t, n, g),
         t[Len(t)].log # <<>>,
         NEW u \in Seq(Segment), Len(u) = Len(t),
         \A k \in 1..(Len(t) - 2) : u[k].log = t[k].log,
         u[Len(t)].log = Tail(t[Len(t)].log),
         \/ u[Len(t) - 1].log = Append(t[Len(t) - 1].log, Head(t[Len(t)].log))
         \/ /\ u[Len(t) - 1].log = t[Len(t) - 1].log
            /\ Head(t[Len(t)].log).kind = "item"
  PROVE  \E h : Accounted(u, n, h) /\ Alike(g, h, Len(t) - 1)
<1> DEFINE l == Len(t)
           o == l - 1
           log == t[l].log
           outer == t[o].log
           end == Len(outer) + 1
           moved == Head(log)
<1>1. PICK past : Pasts(t, n, past) /\ \A k \in 1..Len(t) : past[k][1] = g[k]
  BY DEF Accounted
<1>2. l \in Nat \ {0} /\ l \in 1..l /\ o \in 1..l /\ o \in Nat /\ o + 1 = l /\ o # l
      /\ o \in 1..(l - 1) /\ o = l - 1 /\ l - 2 \in Nat /\ Len(u) = l /\ Len(t) = l
  OBVIOUS
<1> HIDE DEF l, o
<1>3. log \in Seq(Element) /\ outer \in Seq(Element) /\ end \in Nat /\ log # <<>>
  BY <1>2, SegmentFields DEF l
<1>4. /\ Len(log) \in Nat \ {0}
      /\ Len(u[l].log) = Len(log) - 1
      /\ \A i \in 1..(Len(log) - 1) : u[l].log[i] = log[i + 1]
      /\ moved = log[1]
  <2>1. u[l].log = Tail(log)
    BY DEF l
  <2> HIDE DEF log
  <2> QED
    BY <1>3, <2>1, TailOfSeq, NonEmptySeq
<1> HIDE DEF log, outer, moved
<1>5. /\ past \in [Nat -> [Nat -> Pool]]
      /\ past[l] \in [Nat -> Pool]
      /\ past[o] \in [Nat -> Pool]
      /\ past[l][Len(log) + 1] = n
      /\ past[l][1] = past[o][end]
      /\ PoolStep(moved, past[l][1], past[l][2])
  <2>1. past \in [Nat -> [Nat -> Pool]]
    BY <1>1 DEF Pasts
  <2>2. past[o + 1][1] = past[o][end]
    BY <1>1, <1>2 DEF Pasts, l, outer
  <2>3. 1 \in 1..Len(log) /\ 1 + 1 = 2
    BY <1>4
  <2>4. PoolStep(log[1], past[l][1], past[l][2])
    BY <1>1, <1>2, <2>3 DEF Pasts, l, log
  <2>5. past[l][Len(log) + 1] = n
    BY <1>1 DEF Pasts, l, log
  <2> QED
    BY <1>2, <1>4, <2>1, <2>2, <2>4, <2>5
<1> HIDE DEF end
<1> DEFINE shifted == [i \in Nat |-> past[l][i + 1]]
           grown == [past[o] EXCEPT ![end + 1] = past[l][2]]
<1>6. /\ shifted \in [Nat -> Pool]
      /\ \A i \in Nat : shifted[i] = past[l][i + 1]
  <2>1. \A i \in Nat : i + 1 \in Nat
    OBVIOUS
  <2>2. \A i \in Nat : past[l][i + 1] \in Pool
    BY <1>5, <2>1
  <2> QED
    BY <2>2
<1>7. /\ grown \in [Nat -> Pool]
      /\ grown[end + 1] = past[l][2]
      /\ \A i \in 1..end : grown[i] = past[o][i]
  <2>1. end + 1 \in Nat /\ \A i \in 1..end : i \in Nat /\ i # end + 1
    BY <1>3
  <2> QED
    BY <1>5, <2>1
<1> HIDE DEF shifted, grown
<1>8. PICK row \in [Nat -> Pool] :
        /\ row[1] = past[o][1]
        /\ row[Len(u[o].log) + 1] = past[l][2]
        /\ \A i \in 1..Len(u[o].log) : PoolStep(u[o].log[i], row[i], row[i + 1])
  <2>1. \A i \in 1..Len(outer) : PoolStep(outer[i], past[o][i], past[o][i + 1])
    BY <1>1, <1>2 DEF Pasts, l, outer
  <2>2. 1 \in 1..end
    BY <1>3 DEF end
  <2>3. CASE u[o].log = Append(outer, moved)
    <3>1. /\ Len(u[o].log) = end
          /\ \A i \in 1..Len(outer) : u[o].log[i] = outer[i]
          /\ u[o].log[end] = moved
      BY <1>3, <2>3 DEF end
    <3>2. ASSUME NEW i \in 1..end
          PROVE  PoolStep(u[o].log[i], grown[i], grown[i + 1])
      <4>1. CASE i = end
        BY <1>5, <1>7, <3>1, <4>1
      <4>2. CASE i # end
        <5>1. i \in 1..Len(outer) /\ i + 1 \in 1..end
          <6>1. end - 1 = Len(outer)
            BY <1>3 DEF end
          <6> QED
            BY <1>3, <4>2, <6>1, Below
        <5> QED
          BY <1>7, <2>1, <3>1, <5>1
      <4> QED
        BY <4>1, <4>2
    <3> QED
      BY <1>7, <2>2, <3>1, <3>2
  <2>4. CASE u[o].log = outer /\ moved.kind = "item"
    <3>1. past[l][2] = past[o][end]
      BY <1>5, <2>4 DEF PoolStep
    <3> QED
      BY <1>5, <2>1, <2>4, <3>1 DEF end
  <2> QED
    BY <2>3, <2>4 DEF l, o, log, outer, moved
<1> DEFINE new == [past EXCEPT ![o] = row, ![l] = shifted]
<1>9. /\ new \in [Nat -> [Nat -> Pool]]
      /\ new[l] = shifted
      /\ new[o] = row
      /\ \A k \in 1..(l - 2) : new[k] = past[k]
  <2>1. \A k \in 1..(l - 2) : k \in Nat /\ k # l /\ k # o
    BY <1>2
  <2> QED
    BY <1>2, <1>5, <1>6, <1>8, <2>1
<1> HIDE DEF new
<1>10. \A k \in 1..Len(u) : \A i \in 1..Len(u[k].log) :
        PoolStep(u[k].log[i], new[k][i], new[k][i + 1])
  <2> SUFFICES ASSUME NEW k \in 1..Len(u), NEW i \in 1..Len(u[k].log)
               PROVE  PoolStep(u[k].log[i], new[k][i], new[k][i + 1])
    OBVIOUS
  <2>1. CASE k = l
    <3>1. /\ i \in 1..(Len(log) - 1) /\ i + 1 \in 1..Len(log)
          /\ i \in Nat /\ i + 1 \in Nat
      <4>1. i \in 1..(Len(log) - 1) /\ Len(log) \in Nat
        BY <1>4, <2>1
      <4> QED
        BY <4>1, Shifted
    <3>2. PoolStep(log[i + 1], past[l][i + 1], past[l][(i + 1) + 1])
      BY <1>1, <1>2, <3>1 DEF Pasts, l, log
    <3> QED
      BY <1>4, <1>6, <1>9, <2>1, <3>1, <3>2
  <2>2. CASE k = o
    BY <1>8, <1>9, <2>2
  <2>3. CASE k # l /\ k # o
    <3>1. k \in 1..(l - 2) /\ k \in 1..Len(t)
      BY <1>2, <2>3, BelowTwo
    <3>2. u[k].log = t[k].log
      BY <3>1 DEF l
    <3> QED
      BY <1>1, <1>9, <3>1, <3>2 DEF Pasts
  <2> QED
    BY <2>1, <2>2, <2>3
<1>11. \A k \in 1..(Len(u) - 1) : new[k + 1][1] = new[k][Len(u[k].log) + 1]
  <2> SUFFICES ASSUME NEW k \in 1..(Len(u) - 1)
               PROVE  new[k + 1][1] = new[k][Len(u[k].log) + 1]
    OBVIOUS
  <2>1. CASE k = o
    <3>1. new[k + 1][1] = past[l][2]
      BY <1>2, <1>6, <1>9, <2>1, 1 \in Nat, 1 + 1 = 2
    <3> QED
      BY <1>8, <1>9, <2>1, <3>1
  <2>2. CASE k # o
    <3>1. k \in 1..(l - 2) /\ k \in 1..(Len(t) - 1) /\ k + 1 \in 1..o
      <4>1. k \in 1..o
        BY <1>2
      <4>2. k \in 1..(o - 1) /\ k + 1 \in 1..o
        BY <1>2, <2>2, <4>1, Below
      <4> QED
        BY <1>2, <4>1, <4>2
    <3>2. past[k + 1][1] = past[k][Len(t[k].log) + 1]
      BY <1>1, <3>1 DEF Pasts
    <3>3. new[k + 1][1] = past[k + 1][1]
      <4>1. CASE k + 1 = o
        BY <1>8, <1>9, <4>1
      <4>2. CASE k + 1 # o
        <5>1. k + 1 \in 1..(l - 2)
          BY <1>2, <3>1, <4>2
        <5> QED
          BY <1>9, <5>1
      <4> QED
        BY <4>1, <4>2
    <3>4. new[k] = past[k] /\ u[k].log = t[k].log
      BY <1>9, <3>1 DEF l
    <3> QED
      BY <3>2, <3>3, <3>4
  <2> QED
    BY <2>1, <2>2
<1>12. new[Len(u)][Len(u[Len(u)].log) + 1] = n
  <2>1. Len(u[l].log) + 1 = Len(log) /\ Len(log) \in Nat
    BY <1>4
  <2>2. new[Len(u)][Len(u[Len(u)].log) + 1] = shifted[Len(log)]
    BY <1>2, <1>9, <2>1
  <2> QED
    BY <1>5, <1>6, <2>1, <2>2
<1>13. Pasts(u, n, new)
  BY <1>9, <1>10, <1>11, <1>12 DEF Pasts
<1> DEFINE h == [k \in 1..Len(u) |-> new[k][1]]
<1>14. Accounted(u, n, h)
  BY <1>13 DEF Accounted
<1>15. ASSUME NEW k \in 1..(l - 1)
       PROVE  h[k] = g[k]
  <2>1. k \in 1..Len(u) /\ k \in 1..Len(t) /\ past[k][1] = g[k]
    BY <1>1, <1>2
  <2>2. new[k][1] = past[k][1]
    <3>1. k = o \/ k \in 1..(l - 2)
      BY <1>2
    <3> QED
      BY <1>8, <1>9, <3>1
  <2> QED
    BY <2>1, <2>2
<1> QED
  BY <1>14, <1>15 DEF l, Alike

-----------------------------------------------------------------------------

\* The owners of the trail depend on nothing but its segments.
LEMMA OwnersKept ==
  ASSUME Len(trail') = Len(trail),
         \A k \in 1..Len(trail) : trail'[k].owner = trail[k].owner
  PROVE  Owners' = Owners
BY DEF Owners

\* The restore steps leave the open transactions and the loop as they are.
LEMMA DropNewestOwners ==
  ASSUME TypeOK, OwnerIsOpen,
         \/ RestoreItem \/ RestorePage \/ RestoreSwitch \/ RestoreNew \/ RestoreDelete
  PROVE  Owners' = Owners /\ busy' = busy
<1>1. busy.op = "abort" /\ Top.log # <<>> /\ trail' = DropNewest /\ busy' = busy
  BY DEF RestoreItem, RestorePage, RestoreSwitch, RestoreNew, RestoreDelete, Recovering
<1>2. trail # <<>>
  BY <1>1, OpenTransaction
<1>3. Len(trail) \in Nat /\ Top = trail[Len(trail)] /\ Top \in Segment
  BY <1>2, TopInTrail DEF Top
<1>4. [Top EXCEPT !.log = Front(Top.log)].owner = Top.owner
  BY <1>3 DEF Segment
<1>5. /\ Len(DropNewest) = Len(trail)
      /\ \A k \in 1..(Len(trail) - 1) : DropNewest[k] = trail[k]
      /\ DropNewest[Len(trail)] = [Top EXCEPT !.log = Front(Top.log)]
  BY <1>1, <1>2, DropNewestTyped
<1>6. \A k \in 1..Len(trail) : DropNewest[k].owner = trail[k].owner
  <2> SUFFICES ASSUME NEW k \in 1..Len(trail)
               PROVE  DropNewest[k].owner = trail[k].owner
    OBVIOUS
  <2>1. CASE k = Len(trail)
    BY <1>3, <1>4, <1>5, <2>1
  <2>2. CASE k # Len(trail)
    <3>1. k \in 1..(Len(trail) - 1)
      BY <1>3, <2>2
    <3> QED
      BY <1>5, <3>1
  <2> QED
    BY <2>1, <2>2
<1> QED
  BY <1>1, <1>5, <1>6, OwnersKept

\* The owner of a loop that goes on is below the point that was closed.
LEMMA OwnerBelowTop ==
  ASSUME TypeOK, trail # <<>>, NEW o \in Owners, Top.owner # o, trail' = Front(trail)
  PROVE  Len(trail) > 1 /\ o \in Owners'
<1>1. PICK i \in 1..Len(trail) : o = trail[i].owner
  BY DEF Owners
<1>2. /\ Len(trail) \in Nat \ {0}
      /\ Len(Front(trail)) = Len(trail) - 1
      /\ \A k \in 1..(Len(trail) - 1) : Front(trail)[k] = trail[k]
  BY FrontOfTrail, TopInTrail
<1>3. i # Len(trail)
  BY <1>1 DEF Top
<1>4. i \in 1..(Len(trail) - 1) /\ Len(trail) > 1
  BY <1>2, <1>3
<1> QED
  BY <1>1, <1>2, <1>4 DEF Owners

\* Every step preserves OwnerIsOpen.
LEMMA OwnerIsOpenStep ==
  ASSUME PoolInv, [Next]_vars
  PROVE  OwnerIsOpen'
<1> USE DEF PoolInv
<1>1. ASSUME NEW o \in Owner, Commit(o) \/ Abort(o)
      PROVE  OwnerIsOpen'
  <2>1. CASE LateEnd(o) /\ busy = Idle
    BY <2>1, LoopRecords DEF LateEnd, OwnerIsOpen
  <2>2. CASE o \in Owners /\ busy'.owner = o
    BY <1>1, <2>2 DEF Commit, Abort, OwnerIsOpen, Owners
  <2>3. /\ [Idle EXCEPT !.op = "commit", !.owner = o].owner = o
        /\ [Idle EXCEPT !.op = "abort", !.owner = o].owner = o
    BY LoopRecords DEF Ops
  <2> QED
    BY <1>1, <2>1, <2>2, <2>3 DEF Commit, Abort
<1>2. CASE CommitElement
  BY <1>2, CommitElementTrail, OwnersKept DEF CommitElement, OwnerIsOpen
<1>3. CASE CommitInner \/ AbortPoint \/ CommitFinal
  <2>1. trail # <<>> /\ busy.owner \in Owners
    BY <1>3, OpenTransaction DEF CommitInner, AbortPoint, CommitFinal, OwnerIsOpen
  <2>2. AfterPoint
    BY <1>3 DEF CommitInner, AbortPoint, CommitFinal
  <2>3. CASE Top.owner = busy.owner \/ Len(trail) = 1
    BY <2>2, <2>3, LoopRecords DEF AfterPoint, OwnerIsOpen
  <2>4. CASE ~(Top.owner = busy.owner \/ Len(trail) = 1)
    <3>1. busy' = busy /\ trail' = Front(trail)
      BY <1>3, <2>2, <2>4 DEF AfterPoint, CommitInner, AbortPoint, CommitFinal
    <3> QED
      BY <2>1, <2>4, <3>1, OwnerBelowTop DEF OwnerIsOpen
  <2> QED
    BY <2>3, <2>4
<1>4. CASE RestoreItem \/ RestorePage \/ RestoreSwitch \/ RestoreNew \/ RestoreDelete
  BY <1>4, DropNewestOwners DEF OwnerIsOpen
<1>5. ASSUME busy'.op \notin {"commit", "abort"}
      PROVE  OwnerIsOpen'
  BY <1>5 DEF OwnerIsOpen
<1>6. ASSUME NEW c \in Cell, ClearItem(c)
      PROVE  OwnerIsOpen'
  <2>1. busy' = Idle \/ busy'.op = "clear"
    BY <1>6 DEF ClearItem, TypeOK, Loop
  <2> QED
    BY <1>5, <2>1, LoopRecords
<1>7. CASE UpdateDone \/ UpdateForms \/ Activate \/ EnableUndo \/ DisallowUndo \/ AllowUndo
  <2>1. busy' = Idle \/ busy'.op = "update"
    <3>1. CASE UpdateForms
      BY <3>1 DEF UpdateForms, Idle
    <3>2. CASE UpdateDone \/ Activate \/ EnableUndo \/ DisallowUndo \/ AllowUndo
      BY <3>2 DEF UpdateDone, Activate, EnableUndo, DisallowUndo, AllowUndo
    <3> QED
      BY <1>7, <3>1, <3>2
  <2> QED
    BY <1>5, <2>1, LoopRecords
<1>8. ASSUME NEW o \in Owner, Begin(o)
      PROVE  OwnerIsOpen'
  BY <1>5, <1>8, LoopRecords DEF Begin
<1>9. ASSUME NEW i \in 1..Len(cycles), NEW n \in Name, NEW v \in Value, Write(i, n, v)
      PROVE  OwnerIsOpen'
  BY <1>5, <1>9 DEF Write
<1>10. ASSUME NEW f \in Folder, NEW p \in Page, SwitchPage(f, p)
       PROVE  OwnerIsOpen'
  BY <1>5, <1>10 DEF SwitchPage
<1>11. ASSUME NEW c \in Cycle, NewCycle(c)
       PROVE  OwnerIsOpen'
  BY <1>5, <1>11, LoopRecords DEF NewCycle
<1>12. ASSUME NEW i \in 1..Len(cycles), SetCycle(i) \/ RemoveCycle(i) \/ ClearCycle(i)
       PROVE  OwnerIsOpen'
  <2>1. busy' = Idle \/ busy'.op = "clear"
    BY <1>12 DEF SetCycle, RemoveCycle, ClearCycle, Idle
  <2> QED
    BY <1>5, <2>1, LoopRecords
<1>13. CASE Undo \/ Redo
  <2>1. busy' = Idle \/ busy'.op = "update"
    BY <1>13, LoopRecords DEF Undo, Redo, UserMayUndo, GuardedUpdate, Ops
  <2> QED
    BY <1>5, <2>1, LoopRecords
<1>14. CASE UNCHANGED vars
  BY <1>14 DEF vars, OwnerIsOpen, Owners
<1> QED
  BY <1>1, <1>2, <1>3, <1>4, <1>6, <1>7, <1>8, <1>9, <1>10, <1>11, <1>12, <1>13, <1>14
     DEF Next, Step, Call

\* Recording an element that changes the cycles from n to m.
LEMMA AccountedRecord ==
  ASSUME TypeOK, trail # <<>>, NEW n, NEW g, Accounted(trail, n, g),
         NEW e \in Element, NEW m \in Pool, PoolStep(e, n, m),
         trail' = Record(e)
  PROVE  Accounted(trail', m, g)
<1>1. /\ trail \in Seq(Segment) /\ Top = trail[Len(trail)] /\ Top \in Segment
      /\ Top.log \in Seq(Element)
  BY TopInTrail DEF TypeOK, Top
<1>2. Append(Top.log, e) \in Seq(Element)
  BY <1>1
<1>3. /\ trail' \in Seq(Segment)
      /\ Len(trail') = Len(trail)
      /\ \A k \in 1..(Len(trail) - 1) : trail'[k] = trail[k]
      /\ trail'[Len(trail)] = [Top EXCEPT !.log = Append(Top.log, e)]
  BY <1>2, WithTopLogTyped DEF Record
<1>4. trail'[Len(trail)].log = Append(trail[Len(trail)].log, e)
  BY <1>1, <1>3 DEF Segment
<1>5. \A k \in 1..(Len(trail) - 1) : trail'[k].log = trail[k].log
  BY <1>3
<1> QED
  BY <1>1, <1>3, <1>4, <1>5, AccountedGrow

\* The cycles are never empty.
LEMMA CyclesPool ==
  ASSUME TypeOK, ActualExists
  PROVE  /\ CyclesNow \in Pool /\ cycles \in Seq(Cycle) /\ Len(cycles) \in Nat \ {0}
         /\ actual \in Nat
<1>1. cycles \in Seq(Cycle) /\ actual \in 1..Len(cycles) /\ actual \in Nat
  BY DEF TypeOK, ActualExists
<1> QED
  BY <1>1 DEF Pool, CyclesNow

\* saveDataItem leaves the cycles as they are.
LEMMA AccountedSaveItem ==
  ASSUME TypeOK, ActualExists, NEW g, Accounted(trail, CyclesNow, g), NEW c \in Cell, SaveItem(c)
  PROVE  Accounted(trail', CyclesNow, g) /\ Len(trail') = Len(trail)
<1>1. CASE trail' = trail
  BY <1>1
<1>2. CASE trail' = Record(Item(c)) /\ InTransaction
  <2>1. Item(c) \in Element
    BY DEF TypeOK, Item, ItemEl, Undoable, Element
  <2>2. PoolStep(Item(c), CyclesNow, CyclesNow)
    BY DEF PoolStep, Item
  <2>3. CyclesNow \in Pool
    BY CyclesPool
  <2>4. Len(trail') = Len(trail)
    BY <1>2, <2>1, RecordTyped DEF InTransaction
  <2> QED
    BY <1>2, <2>1, <2>2, <2>3, <2>4, AccountedRecord DEF InTransaction
<1> QED
  BY <1>1, <1>2 DEF SaveItem

\* The restore steps bring back the cycles there were before the element
\* was recorded, so that every cycle they speak of exists and TTInsertCycle
\* never fails its assertion.
LEMMA AccountedRestore ==
  ASSUME PoolInv, NEW g, Accounted(trail, CyclesNow, g),
         \/ RestoreItem \/ RestorePage \/ RestoreSwitch \/ RestoreNew \/ RestoreDelete
  PROVE  /\ Accounted(trail', CyclesNow', g)
         /\ PoolStep(Newest, CyclesNow', CyclesNow)
         /\ Len(trail') = Len(trail)
         /\ ActualExists'
         /\ failed' = failed
<1> USE DEF PoolInv
<1>1. busy.op = "abort" /\ Top.log # <<>> /\ trail' = DropNewest
  BY DEF RestoreItem, RestorePage, RestoreSwitch, RestoreNew, RestoreDelete, Recovering
<1>2. trail # <<>>
  BY <1>1, OpenTransaction
<1>3. /\ trail \in Seq(Segment) /\ Top = trail[Len(trail)] /\ Top \in Segment
      /\ cycles \in Seq(Cycle) /\ Len(cycles) \in Nat \ {0}
  BY <1>2, TopInTrail DEF TypeOK, Top, ActualExists
<1>4. /\ trail' \in Seq(Segment)
      /\ Newest \in Element
      /\ Len(trail') = Len(trail)
      /\ \A k \in 1..(Len(trail) - 1) : trail'[k] = trail[k]
      /\ trail'[Len(trail)] = [Top EXCEPT !.log = Front(Top.log)]
  BY <1>1, <1>2, DropNewestTyped
<1>5. trail'[Len(trail)].log = Front(trail[Len(trail)].log)
  BY <1>3, <1>4 DEF Segment
<1>6. \A k \in 1..(Len(trail) - 1) : trail'[k].log = trail[k].log
  BY <1>4
<1>7. Newest = Last(trail[Len(trail)].log)
  BY <1>3 DEF Newest
<1>8. PICK a \in Pool : Accounted(trail', a, g) /\ PoolStep(Newest, a, CyclesNow)
  BY <1>1, <1>2, <1>3, <1>4, <1>5, <1>6, <1>7, AccountedShrink
<1>9. /\ a.cycles \in Seq(Cycle) /\ Len(a.cycles) \in Nat \ {0}
      /\ a.actual \in 1..Len(a.cycles) /\ a.actual \in Nat
      /\ a = [cycles |-> a.cycles, actual |-> a.actual]
  BY DEF Pool
<1>10. /\ CyclesNow.cycles = cycles /\ CyclesNow.actual = actual
       /\ cycles' = a.cycles /\ actual' = a.actual => CyclesNow' = a
  BY <1>9 DEF CyclesNow
<1>11. cycles' = a.cycles /\ actual' = a.actual => ActualExists'
  BY <1>9 DEF ActualExists
<1> SUFFICES cycles' = a.cycles /\ actual' = a.actual /\ failed' = failed
  BY <1>4, <1>8, <1>10, <1>11
<1>12. CASE RestoreItem \/ RestorePage
  <2>1. /\ Newest.kind \in {"item", "action"}
        /\ cycles' = cycles /\ actual' = actual /\ failed' = failed
    BY <1>12 DEF RestoreItem, RestorePage, Recovering
  <2>2. CyclesNow = a
    BY <1>8, <2>1 DEF PoolStep
  <2> QED
    BY <1>10, <2>1, <2>2
<1>13. CASE RestoreSwitch
  <2>1. Newest.kind = "switch" /\ cycles' = cycles /\ failed' = failed
    BY <1>13 DEF RestoreSwitch, Recovering
  <2>2. a.cycles = cycles /\ a.actual = Newest.num
    BY <1>8, <1>10, <2>1 DEF PoolStep
  <2>3. actual' = Newest.num
    BY <1>9, <1>13, <2>2 DEF RestoreSwitch
  <2> QED
    BY <2>1, <2>2, <2>3
<1>14. CASE RestoreNew
  <2>1. Newest.kind = "new" /\ failed' = failed
    BY <1>14 DEF RestoreNew, Recovering
  <2>2. cycles = Append(a.cycles, Newest.cycle) /\ Newest.new = Len(cycles) /\ Newest.old = a.actual
    BY <1>8, <1>10, <2>1 DEF PoolStep
  <2>3. Newest.cycle \in Cycle
    BY <1>4, <2>1, ElementFields
  <2>4. /\ Len(cycles) = Len(a.cycles) + 1 /\ Newest.new = Len(a.cycles) + 1
        /\ Newest.new \in 1..Len(cycles) /\ Len(cycles) - 1 = Len(a.cycles)
    BY <1>9, <2>2, <2>3
  <2>5. /\ cycles' = RemoveAt(cycles, Newest.new)
        /\ actual' = IF Newest.old \in 1..(Len(cycles) - 1) THEN Newest.old ELSE 1
    BY <1>14, <2>4 DEF RestoreNew
  <2>6. cycles' = a.cycles
    BY <1>9, <2>2, <2>3, <2>4, <2>5, RemoveAppended
  <2>7. actual' = a.actual
    BY <1>9, <2>2, <2>4, <2>5
  <2> QED
    BY <2>1, <2>6, <2>7
<1>15. CASE RestoreDelete
  <2>1. Newest.kind = "delete" /\ actual' = actual
    BY <1>15 DEF RestoreDelete, Recovering
  <2>2. /\ Newest.num \in 1..Len(a.cycles) /\ Newest.cycle = a.cycles[Newest.num]
        /\ cycles = RemoveAt(a.cycles, Newest.num) /\ actual = a.actual
    BY <1>8, <1>10, <2>1 DEF PoolStep
  <2>3. Len(cycles) = Len(a.cycles) - 1
    BY <1>9, <2>2, RemoveAtSeq
  <2>4. Newest.num \in 1..(Len(cycles) + 1)
    BY <1>9, <2>2, <2>3
  <2>5. /\ cycles' = InsertAt(cycles, Newest.num, Newest.cycle)
        /\ failed' = failed
    BY <1>15, <2>4 DEF RestoreDelete
  <2>6. cycles' = a.cycles
    BY <1>9, <2>2, <2>5, InsertRemoved
  <2> QED
    BY <2>1, <2>2, <2>5, <2>6
<1> QED
  BY <1>12, <1>13, <1>14, <1>15

\* What a restore makes of the cycles.
LEMMA CyclesRestored ==
  ASSUME PoolInv,
         \/ RestoreItem \/ RestorePage \/ RestoreSwitch \/ RestoreNew \/ RestoreDelete
  PROVE  /\ Newest.kind = "new" => cycles = Append(cycles', Newest.cycle)
         /\ Newest.kind = "delete" => /\ Newest.num \in 1..Len(cycles')
                                     /\ Newest.cycle = cycles'[Newest.num]
                                     /\ cycles = RemoveAt(cycles', Newest.num)
         /\ failed' = failed
<1>1. PICK g : Accounted(trail, CyclesNow, g)
  BY DEF PoolInv
<1>2. PoolStep(Newest, CyclesNow', CyclesNow) /\ failed' = failed
  BY <1>1, AccountedRestore
<1> QED
  BY <1>2 DEF PoolStep, CyclesNow

\* RemoveCycle records the switch and the deletion in this order.
LEMMA AccountedRemoveCycle ==
  ASSUME PoolInv, NEW g, Accounted(trail, CyclesNow, g), NEW i \in 1..Len(cycles), RemoveCycle(i)
  PROVE  Accounted(trail', CyclesNow', g) /\ Len(trail') = Len(trail) /\ ActualExists'
<1> USE DEF PoolInv
<1> DEFINE switch == [kind |-> "switch", num |-> actual]
           delete == [kind |-> "delete", cycle |-> cycles[i], num |-> i]
<1>1. switch \in Element /\ delete \in Element
  BY DEF SwitchEl, DeleteEl, Element, TypeOK
<1>2. /\ cycles \in Seq(Cycle) /\ Len(cycles) \in Nat /\ Len(cycles) > 1
      /\ Len(cycles') = Len(cycles) - 1
  BY RemoveAtSeq DEF RemoveCycle, TypeOK
<1>3. ActualExists'
  <2>1. actual' = IF actual < i \/ actual = 1 THEN actual ELSE actual - 1
    BY DEF RemoveCycle
  <2>2. CASE actual < i \/ actual = 1
    BY <1>2, <2>1, <2>2 DEF ActualExists, TypeOK
  <2>3. CASE ~(actual < i \/ actual = 1)
    BY <1>2, <2>1, <2>3 DEF ActualExists, TypeOK
  <2> QED
    BY <2>2, <2>3
<1> DEFINE switched == [cycles |-> cycles, actual |-> actual']
<1>4. /\ PoolStep(switch, CyclesNow, switched)
      /\ PoolStep(delete, switched, CyclesNow')
      /\ switched \in Pool /\ CyclesNow' \in Pool
  <2>1. cycles' = RemoveAt(cycles, i)
    BY DEF RemoveCycle
  <2>2. cycles' \in Seq(Cycle) /\ actual' \in 1..Len(cycles') /\ actual' \in Nat
    BY <1>2, <1>3, <2>1, RemoveAtSeq DEF ActualExists
  <2>3. actual' \in 1..Len(cycles)
    BY <1>2, <2>2
  <2> QED
    BY <1>2, <2>1, <2>2, <2>3 DEF PoolStep, Pool, CyclesNow
<1>5. trail' = IF InTransaction THEN WithTopLog(Top.log \o <<switch, delete>>) ELSE trail
  BY DEF RemoveCycle
<1> HIDE DEF switch, delete, switched
<1>6. CASE InTransaction
  <2> DEFINE first == Append(Top.log, switch)
             t == WithTopLog(first)
  <2>1. /\ trail # <<>> /\ trail \in Seq(Segment) /\ Len(trail) \in Nat \ {0}
        /\ Top = trail[Len(trail)] /\ Top \in Segment
        /\ Top.log \in Seq(Element)
    BY <1>6, TopInTrail DEF InTransaction, TypeOK, Top
  <2>2. first \in Seq(Element) /\ Append(first, delete) \in Seq(Element)
    BY <1>1, <2>1
  <2>3. Top.log \o <<switch, delete>> = Append(first, delete)
    BY <1>1, <2>1, AppendTwo
  <2> HIDE DEF first
  <2>4. /\ t \in Seq(Segment)
        /\ Len(t) = Len(trail)
        /\ \A k \in 1..(Len(trail) - 1) : t[k] = trail[k]
        /\ t[Len(trail)] = [Top EXCEPT !.log = first]
    BY <2>1, <2>2, WithTopLogTyped
  <2>5. t[Len(trail)].log = first
    BY <2>1, <2>4 DEF Segment
  <2>6. /\ trail' \in Seq(Segment)
        /\ Len(trail') = Len(trail)
        /\ \A k \in 1..(Len(trail) - 1) : trail'[k] = trail[k]
        /\ trail'[Len(trail)] = [Top EXCEPT !.log = Append(first, delete)]
    BY <1>5, <1>6, <2>1, <2>2, <2>3, WithTopLogTyped
  <2>7. trail'[Len(trail)].log = Append(first, delete)
    BY <2>1, <2>6 DEF Segment
  <2> HIDE DEF t
  <2>8. Accounted(t, switched, g)
    <3>1. t[Len(trail)].log = Append(trail[Len(trail)].log, switch)
      BY <2>1, <2>5 DEF first
    <3>2. \A k \in 1..(Len(trail) - 1) : t[k].log = trail[k].log
      BY <2>4
    <3> QED
      BY <1>1, <1>4, <2>1, <2>4, <3>1, <3>2, AccountedGrow
  <2>9. t # <<>> /\ \A k \in 1..(Len(t) - 1) : trail'[k].log = t[k].log
    BY <2>1, <2>4, <2>6, Len(<<>>) = 0
  <2> QED
    BY <1>1, <1>3, <1>4, <2>4, <2>5, <2>6, <2>7, <2>8, <2>9, AccountedGrow
<1>7. CASE ~InTransaction
  BY <1>3, <1>4, <1>5, <1>7, AccountedEmpty DEF InTransaction
<1> QED
  BY <1>6, <1>7

\* The begins of the transactions stay the same over a step, but for that of
\* the innermost one while a commit moves its elements, and a new one begins now.
Continued(g, h) ==
  \A k \in 1..Len(trail') :
    /\ k <= Len(trail) /\ (busy.op = "commit" => k < Len(trail)) => h[k] = g[k]
    /\ k > Len(trail) => h[k] = CyclesNow

\* Every step keeps the trail in accord with the cycles, and the
\* actual cycle in existence.
LEMMA AccountedStep ==
  ASSUME PoolInv, [Next]_vars, NEW g, Accounted(trail, CyclesNow, g)
  PROVE  /\ \E h : Accounted(trail', CyclesNow', h) /\ Continued(g, h)
         /\ ActualExists'
<1> USE DEF PoolInv
<1> DEFINE Goal == /\ \E h : Accounted(trail', CyclesNow', h) /\ Continued(g, h)
                   /\ ActualExists'
<1>0. /\ trail \in Seq(Segment) /\ CyclesNow \in Pool /\ cycles \in Seq(Cycle)
      /\ Len(cycles) \in Nat \ {0} /\ actual \in Nat /\ Len(trail) \in Nat
      /\ actual \in 1..Len(cycles)
  BY CyclesPool DEF TypeOK, ActualExists
<1>1. CASE UNCHANGED <<trail, cycles, actual>>
  <2>1. Accounted(trail', CyclesNow', g) /\ Continued(g, g) /\ ActualExists'
    BY <1>0, <1>1 DEF ActualExists, CyclesNow, Continued
  <2> QED
    BY <2>1
<1>2. ASSUME Accounted(trail', CyclesNow', g), Len(trail') <= Len(trail), ActualExists'
      PROVE  Goal
  <2>1. Continued(g, g)
    BY <1>0, <1>2 DEF Continued
  <2> QED
    BY <1>2, <2>1
<1>19. UNCHANGED <<cycles, actual>> => CyclesNow' = CyclesNow /\ ActualExists'
  BY DEF CyclesNow, ActualExists
<1>3. ASSUME NEW o \in Owner, Begin(o)
      PROVE  Goal
  <2> DEFINE s == [owner |-> o, log |-> <<>>]
             h == [k \in Nat |-> IF k = Len(trail) + 1 THEN CyclesNow ELSE g[k]]
  <2>1. s \in Segment /\ s.log = <<>>
    BY DEF Segment
  <2>2. trail' = Append(trail, s) /\ UNCHANGED <<cycles, actual>>
    BY <1>3 DEF Begin, poolVars
  <2> HIDE DEF s
  <2>3. (\A k \in 1..Len(trail) : h[k] = g[k]) /\ h[Len(trail) + 1] = CyclesNow
    BY <1>0
  <2> HIDE DEF h
  <2>4. Accounted(trail', CyclesNow', h)
    BY <1>0, <1>19, <2>1, <2>2, <2>3, AccountedPush
  <2>5. Len(trail') = Len(trail) + 1
    BY <1>0, <2>1, <2>2
  <2>6. Continued(g, h)
    BY <1>0, <2>3, <2>5 DEF Continued
  <2> QED
    BY <1>19, <2>2, <2>4, <2>6
<1>4. CASE CommitElement
  <2>1. /\ Len(trail) > 1 /\ trail[Len(trail)].log # <<>> /\ UNCHANGED <<cycles, actual>>
        /\ busy.op = "commit"
    BY <1>4 DEF CommitElement, Top, poolVars
  <2>2. /\ trail' \in Seq(Segment)
        /\ Len(trail') = Len(trail)
        /\ \A k \in 1..(Len(trail) - 2) : trail'[k].log = trail[k].log
        /\ trail'[Len(trail)].log = Tail(trail[Len(trail)].log)
        /\ \/ trail'[Len(trail) - 1].log
                = Append(trail[Len(trail) - 1].log, Head(trail[Len(trail)].log))
           \/ /\ trail'[Len(trail) - 1].log = trail[Len(trail) - 1].log
              /\ Head(trail[Len(trail)].log).kind = "item"
    BY <1>4, CommitElementTrail DEF Resident
  <2>3. PICK h : Accounted(trail', CyclesNow, h) /\ Alike(g, h, Len(trail) - 1)
    <3>1. trail \in Seq(Segment)
      BY <1>0
    <3> QED
      BY <2>1, <2>2, <3>1, AccountedMove
  <2>4. Continued(g, h)
    BY <1>0, <2>1, <2>2, <2>3 DEF Continued, Alike
  <2> QED
    BY <1>19, <2>1, <2>3, <2>4
<1>5. CASE CommitInner \/ AbortPoint
  <2>1. /\ trail # <<>> /\ trail' = Front(trail) /\ trail[Len(trail)].log = <<>>
        /\ UNCHANGED <<cycles, actual>>
    BY <1>5, OpenTransaction DEF CommitInner, AbortPoint, Top, poolVars
  <2>2. Len(trail') <= Len(trail)
    BY <1>0, <2>1, FrontOfSeq
  <2> QED
    BY <1>0, <1>2, <1>19, <2>1, <2>2, AccountedPop
<1>6. CASE CommitFinal
  <2>1. trail' = <<>> /\ UNCHANGED <<cycles, actual>>
    BY <1>6 DEF CommitFinal, poolVars
  <2> QED
    BY <1>0, <1>2, <1>19, <2>1, AccountedEmpty, Len(<<>>) = 0
<1>7. CASE RestoreItem \/ RestorePage \/ RestoreSwitch \/ RestoreNew \/ RestoreDelete
  BY <1>0, <1>2, <1>7, AccountedRestore
<1>8. ASSUME NEW c \in Cell, ClearItem(c)
      PROVE  Goal
  <2>1. UNCHANGED <<cycles, actual>> /\ (SaveItem(c) \/ trail' = trail)
    BY <1>8 DEF ClearItem
  <2> QED
    BY <1>0, <1>1, <1>2, <1>19, <2>1, AccountedSaveItem
<1>9. ASSUME NEW i \in 1..Len(cycles), NEW n \in Name, NEW v \in Value, Write(i, n, v)
      PROVE  Goal
  <2>1. SaveItem(CellOf(cycles[i], n)) /\ UNCHANGED <<cycles, actual>>
    BY <1>9 DEF Write
  <2> QED
    BY <1>0, <1>2, <1>19, <2>1, CellOfTyped, AccountedSaveItem
<1>10. ASSUME NEW f \in Folder, NEW p \in Page, SwitchPage(f, p)
       PROVE  Goal
  <2> DEFINE e == [kind |-> "action", folder |-> f, to |-> page[f], from |-> p]
  <2>1. e \in Element /\ PoolStep(e, CyclesNow, CyclesNow)
    BY DEF TypeOK, ActionEl, Undoable, Element, PoolStep
  <2>2. UNCHANGED <<cycles, actual>> /\ (trail' = trail \/ (InTransaction /\ trail' = Record(e)))
    BY <1>10 DEF SwitchPage
  <2> HIDE DEF e
  <2>3. trail' = Record(e) /\ InTransaction => Len(trail') = Len(trail)
    BY <2>1, RecordTyped DEF InTransaction
  <2> QED
    BY <1>0, <1>1, <1>2, <1>19, <2>1, <2>2, <2>3, AccountedRecord DEF InTransaction
<1>11. ASSUME NEW c \in Cycle, NewCycle(c)
       PROVE  Goal
  <2> DEFINE e == [kind |-> "new", old |-> actual, new |-> Len(cycles) + 1, cycle |-> c]
  <2>2. /\ trail' = RecordIf(e)
        /\ cycles' = Append(cycles, c) /\ Len(cycles') = Len(cycles) + 1
        /\ actual' = Len(cycles) + 1
    BY <1>0, <1>11 DEF NewCycle
  <2>1. /\ e \in Element /\ PoolStep(e, CyclesNow, CyclesNow')
        /\ CyclesNow' \in Pool
    <3>1. e \in Element
      BY <1>0 DEF NewEl, Element
    <3>2. cycles' \in Seq(Cycle) /\ actual' \in 1..Len(cycles') /\ actual' \in Nat
      BY <1>0, <2>2
    <3> QED
      BY <2>2, <3>1, <3>2 DEF Pool, PoolStep, CyclesNow
  <2>3. ActualExists'
    BY <1>0, <2>2 DEF ActualExists
  <2> HIDE DEF e
  <2>4. CASE InTransaction
    <3>1. trail # <<>> /\ trail' = Record(e)
      BY <2>2, <2>4 DEF InTransaction, RecordIf
    <3>2. Len(trail') = Len(trail)
      BY <2>1, <3>1, RecordTyped
    <3>3. Accounted(trail', CyclesNow', g)
      BY <2>1, <3>1, AccountedRecord
    <3> QED
      BY <1>0, <1>2, <2>3, <3>2, <3>3
  <2>5. CASE ~InTransaction
    <3>1. trail' = trail /\ trail = <<>>
      BY <2>2, <2>5 DEF InTransaction, RecordIf
    <3>2. Accounted(trail', CyclesNow', g)
      BY <2>1, <3>1, AccountedEmpty
    <3> QED
      BY <1>0, <1>2, <2>3, <3>1, <3>2
  <2> QED
    BY <2>4, <2>5
<1>12. ASSUME NEW i \in 1..Len(cycles), SetCycle(i)
       PROVE  Goal
  <2> DEFINE e == [kind |-> "switch", num |-> actual]
  <2>2. trail' = RecordIf(e) /\ cycles' = cycles /\ actual' = i
    BY <1>12 DEF SetCycle
  <2>1. e \in Element /\ PoolStep(e, CyclesNow, CyclesNow') /\ CyclesNow' \in Pool
    BY <1>0, <2>2 DEF SwitchEl, Element, PoolStep, CyclesNow, Pool
  <2>3. ActualExists'
    BY <2>2 DEF ActualExists
  <2> HIDE DEF e
  <2>4. CASE InTransaction
    <3>1. trail # <<>> /\ trail' = Record(e)
      BY <2>2, <2>4 DEF InTransaction, RecordIf
    <3>2. Len(trail') = Len(trail)
      BY <2>1, <3>1, RecordTyped
    <3>3. Accounted(trail', CyclesNow', g)
      BY <2>1, <3>1, AccountedRecord
    <3> QED
      BY <1>0, <1>2, <2>3, <3>2, <3>3
  <2>5. CASE ~InTransaction
    <3>1. trail' = trail /\ trail = <<>>
      BY <2>2, <2>5 DEF InTransaction, RecordIf
    <3>2. Accounted(trail', CyclesNow', g)
      BY <2>1, <3>1, AccountedEmpty
    <3> QED
      BY <1>0, <1>2, <2>3, <3>1, <3>2
  <2> QED
    BY <2>4, <2>5
<1>13. ASSUME NEW i \in 1..Len(cycles), RemoveCycle(i)
       PROVE  Goal
  BY <1>0, <1>2, <1>13, AccountedRemoveCycle
<1>14. CASE \/ UpdateDone \/ UpdateForms \/ Undo \/ Redo
            \/ Activate \/ EnableUndo \/ DisallowUndo \/ AllowUndo
            \/ UNCHANGED vars
  <2>1. UNCHANGED <<trail, cycles, actual>>
    BY <1>14 DEF UpdateDone, UpdateForms, Undo, Redo,
       Activate, EnableUndo, DisallowUndo, AllowUndo, vars, poolVars
  <2> QED
    BY <1>1, <2>1
<1>15. ASSUME NEW o \in Owner, Commit(o) \/ Abort(o)
       PROVE  Goal
  BY <1>1, <1>15 DEF Commit, Abort, poolVars
<1>16. ASSUME NEW i \in 1..Len(cycles), ClearCycle(i)
       PROVE  Goal
  BY <1>1, <1>16 DEF ClearCycle, poolVars
<1>17. CASE Step
  BY <1>4, <1>5, <1>6, <1>7, <1>8, <1>14, <1>17 DEF Step
<1>18. CASE Call
  BY <1>3, <1>9, <1>10, <1>11, <1>12, <1>13, <1>14, <1>15, <1>16, <1>18 DEF Call
<1> QED
  BY <1>14, <1>17, <1>18 DEF Next

-----------------------------------------------------------------------------

\* The initial states satisfy the invariant.
LEMMA PoolInvInit == Init => PoolInv
<1> SUFFICES ASSUME Init
             PROVE  PoolInv
  OBVIOUS
<1>1. PICK c \in Cycle : cycles = <<c>>
  BY DEF Init
<1>2. cycles \in Seq(Cycle) /\ Len(cycles) = 1
  BY <1>1
<1>3. button \in Button
  BY DEF Init, Button
<1>4. TypeOK
  <2>1. live \in [Cell -> Value] /\ page \in [Folder -> Page]
    BY DataAssumption DEF Init
  <2>2. final \in [Owner -> BOOLEAN]
    BY DEF Init
  <2>3. trail \in Seq(Segment)
    BY DEF Init
  <2>4. undo \in Seq(Seq(Undoable)) /\ redo \in Seq(Seq(Undoable))
    BY EntriesTyped DEF Init
  <2>5. busy \in Loop
    BY LoopRecords DEF Init
  <2> QED
    BY <1>2, <1>3, <2>1, <2>2, <2>3, <2>4, <2>5 DEF Init, TypeOK
<1>5. ActualExists /\ OwnerIsOpen
  <2>1. ActualExists
    BY <1>2 DEF Init, ActualExists
  <2>2. busy.op = "idle"
    BY LoopRecords DEF Init
  <2> QED
    BY <2>1, <2>2 DEF OwnerIsOpen
<1>6. \E g : Accounted(trail, CyclesNow, g)
  BY <1>4, <1>5, CyclesPool, AccountedEmpty DEF Init
<1> QED
  BY <1>4, <1>5, <1>6 DEF PoolInv

\* Every step preserves the invariant.
LEMMA PoolInvStep == PoolInv /\ [Next]_vars => PoolInv'
<1> SUFFICES ASSUME PoolInv, [Next]_vars
             PROVE  PoolInv'
  OBVIOUS
<1>1. TypeOK'
  BY TypeOKStep DEF PoolInv
<1>2. OwnerIsOpen'
  BY OwnerIsOpenStep
<1>3. ActualExists' /\ \E h : Accounted(trail', CyclesNow', h)
  <2>1. PICK g : Accounted(trail, CyclesNow, g)
    BY DEF PoolInv
  <2> QED
    BY <2>1, AccountedStep
<1> QED
  BY <1>1, <1>2, <1>3 DEF PoolInv

\* The invariant holds in every reachable state.
LEMMA PoolInvariant == Spec => []PoolInv
BY PoolInvInit, PoolInvStep, PTL DEF Spec

\* In every reachable state the variables have their types, whatever the
\* numbers of owners, items, cycles and folders and whatever their calls.
THEOREM TypeCorrect == Spec => []TypeOK
<1>1. PoolInv => TypeOK
  BY DEF PoolInv
<1> QED
  BY <1>1, PoolInvariant, PTL

-----------------------------------------------------------------------------
(* The assertions of the trail                                             *)

\* An owner that is final and has not ended yet owns the outermost
\* transaction, and the owner of a running loop has ended.
OutermostKnown ==
  /\ \A o \in owing : final[o] => trail # <<>> /\ trail[1].owner = o
  /\ busy.op \in {"commit", "abort"} => busy.owner \notin owing

AssertInv == PoolInv /\ ~failed /\ OutermostKnown

\* The steps of the loops leave the owners that have not ended as they are.
LEMMA OutermostKept ==
  ASSUME PoolInv, OutermostKnown,
         UNCHANGED <<final, owing>>,
         trail # <<>> => trail' # <<>> /\ trail'[1].owner = trail[1].owner,
         busy'.op \in {"commit", "abort"} => busy' = busy
  PROVE  OutermostKnown'
BY DEF OutermostKnown

\* Recording in the innermost transaction keeps the outermost one.
LEMMA OutermostOfRecord ==
  ASSUME TypeOK, trail # <<>>, NEW log \in Seq(Element), trail' = WithTopLog(log)
  PROVE  trail' # <<>> /\ trail'[1].owner = trail[1].owner
<1>1. /\ Len(trail) \in Nat \ {0} /\ Top \in Segment /\ Top = trail[Len(trail)]
      /\ Len(trail') = Len(trail)
      /\ \A k \in 1..(Len(trail) - 1) : trail'[k] = trail[k]
      /\ trail'[Len(trail)] = [Top EXCEPT !.log = log]
  BY TopInTrail, WithTopLogTyped DEF Top
<1>2. [Top EXCEPT !.log = log].owner = Top.owner
  BY <1>1 DEF Segment
<1>3. trail' # <<>>
  BY <1>1, Len(<<>>) = 0
<1>4. CASE Len(trail) = 1
  BY <1>1, <1>2, <1>3, <1>4
<1>5. CASE Len(trail) # 1
  <2>1. 1 \in 1..(Len(trail) - 1)
    BY <1>1, <1>5
  <2> QED
    BY <1>1, <1>3, <2>1
<1> QED
  BY <1>4, <1>5

\* No step reaches an assertion, and OutermostKnown is preserved.
LEMMA AssertInvStep ==
  ASSUME AssertInv, [Next]_vars
  PROVE  ~failed' /\ OutermostKnown'
<1> USE DEF AssertInv
<1>0. TypeOK /\ ActualExists /\ OwnerIsOpen
  BY DEF PoolInv
<1>1. ASSUME NEW o \in Owner, Begin(o)
      PROVE  ~failed' /\ OutermostKnown'
  <2> DEFINE s == [owner |-> o, log |-> <<>>]
  <2>1. trail \in Seq(Segment) /\ s \in Segment /\ s.owner = o
    BY <1>0 DEF TypeOK, Segment
  <2>2. /\ trail' = Append(trail, s) /\ owing' = owing \cup {o}
        /\ final' = [final EXCEPT ![o] = ~InTransaction]
        /\ busy' = Idle /\ failed' = failed /\ o \notin owing
    BY <1>1 DEF Begin
  <2> HIDE DEF s
  <2>3. trail' # <<>> /\ (trail # <<>> => trail'[1] = trail[1])
        /\ (trail = <<>> => trail'[1] = s)
    BY <2>1, <2>2
  <2>4. ASSUME NEW p \in owing', final'[p]
        PROVE  trail'[1].owner = p
    <3>1. CASE p = o
      <4>1. ~InTransaction
        BY <1>0, <2>2, <2>4, <3>1 DEF TypeOK
      <4> QED
        BY <2>1, <2>3, <3>1, <4>1 DEF InTransaction
    <3>2. CASE p # o
      <4>1. p \in owing /\ final[p] /\ p \in Owner
        BY <1>0, <2>2, <2>4, <3>2 DEF TypeOK
      <4> QED
        BY <2>3, <4>1 DEF OutermostKnown
    <3> QED
      BY <3>1, <3>2
  <2>5. busy'.op = "idle"
    BY <2>2, LoopRecords
  <2> QED
    BY <2>2, <2>3, <2>4, <2>5 DEF OutermostKnown
<1>2. ASSUME NEW o \in Owner, Commit(o) \/ Abort(o)
      PROVE  ~failed' /\ OutermostKnown'
  <2>1. o \in owing /\ owing' = owing \ {o} /\ UNCHANGED <<trail, final>> /\ busy = Idle
    BY <1>2 DEF Commit, Abort
  <2>2. CASE LateEnd(o)
    <3>1. ~(InTransaction /\ final[o])
      <4> SUFFICES ASSUME trail # <<>>, final[o]
                   PROVE  FALSE
        BY DEF InTransaction
      <4>1. trail[1].owner = o
        BY <2>1 DEF OutermostKnown
      <4>2. 1 \in 1..Len(trail)
        BY <1>0, TopInTrail
      <4>3. o \in Owners
        BY <4>1, <4>2 DEF Owners
      <4> QED
        BY <2>2, <4>3 DEF LateEnd
    <3>2. ~failed' /\ busy' = busy
      BY <2>2, <3>1 DEF LateEnd
    <3> QED
      BY <2>1, <3>2, LoopRecords DEF OutermostKnown
  <2>3. CASE failed' = failed /\ busy'.owner = o
    BY <2>1, <2>3 DEF OutermostKnown
  <2>4. /\ [Idle EXCEPT !.op = "commit", !.owner = o].owner = o
        /\ [Idle EXCEPT !.op = "abort", !.owner = o].owner = o
    BY LoopRecords DEF Ops
  <2> QED
    BY <1>2, <2>2, <2>3, <2>4 DEF Commit, Abort
<1>3. CASE CommitElement
  <2>1. /\ Len(trail') = Len(trail)
        /\ \A k \in 1..Len(trail) : trail'[k].owner = trail[k].owner
    BY <1>0, <1>3, CommitElementTrail
  <2>2. Len(trail) > 1 /\ Len(trail) \in Nat
    BY <1>0, <1>3 DEF CommitElement, TypeOK
  <2>3. trail' # <<>> /\ trail'[1].owner = trail[1].owner
    BY <2>1, <2>2, Len(<<>>) = 0
  <2>4. UNCHANGED <<final, owing, busy, failed>>
    BY <1>3 DEF CommitElement
  <2> QED
    BY <2>3, <2>4, OutermostKept
<1>4. CASE CommitInner \/ AbortPoint \/ CommitFinal
  <2>1. /\ trail # <<>> /\ busy.owner \in Owners
        /\ UNCHANGED <<final, owing>> /\ AfterPoint
        /\ busy.op \in {"commit", "abort"}
        /\ trail' = Front(trail) \/ (trail' = <<>> /\ Len(trail) = 1)
    BY <1>0, <1>4, OpenTransaction DEF CommitInner, AbortPoint, CommitFinal, OwnerIsOpen
  <2>2. Len(trail) \in Nat \ {0} /\ Top = trail[Len(trail)]
    BY <1>0, <2>1, TopInTrail DEF Top
  <2>3. Len(trail) = 1 => Top.owner = busy.owner
    <3>1. PICK i \in 1..Len(trail) : busy.owner = trail[i].owner
      BY <2>1 DEF Owners
    <3> QED
      BY <2>2, <3>1
  <2>4. ~failed'
    BY <2>1, <2>3 DEF AfterPoint
  <2>5. busy'.op \in {"commit", "abort"} => busy' = busy
    BY <2>1, LoopRecords DEF AfterPoint
  <2>6. CASE Len(trail) = 1
    <3>1. trail[1].owner = busy.owner
      BY <2>2, <2>3, <2>6
    <3>2. \A o \in owing' : ~final'[o]
      BY <2>1, <3>1 DEF OutermostKnown
    <3> QED
      BY <2>1, <2>4, <2>5, <3>2 DEF OutermostKnown
  <2>7. CASE Len(trail) # 1
    <3>1. /\ trail' = Front(trail) /\ Len(trail') = Len(trail) - 1
          /\ \A k \in 1..(Len(trail) - 1) : trail'[k] = trail[k]
      BY <1>0, <2>1, <2>7, FrontOfTrail
    <3>2. 1 \in 1..(Len(trail) - 1) /\ trail' # <<>>
      BY <2>2, <2>7, <3>1, Len(<<>>) = 0
    <3>3. trail'[1] = trail[1]
      BY <3>1, <3>2
    <3> QED
      BY <2>1, <2>4, <2>5, <3>2, <3>3, OutermostKept
  <2> QED
    BY <2>6, <2>7
<1>5. CASE RestoreItem \/ RestorePage \/ RestoreSwitch \/ RestoreNew \/ RestoreDelete
  <2>1. /\ busy.op = "abort" /\ Top.log # <<>> /\ trail' = DropNewest
        /\ UNCHANGED <<final, owing, busy>>
    BY <1>5 DEF RestoreItem, RestorePage, RestoreSwitch, RestoreNew, RestoreDelete, Recovering
  <2>2. trail # <<>>
    BY <1>0, <2>1, OpenTransaction
  <2>3. Top.log \in Seq(Element)
    BY <1>0, <2>2, TopInTrail
  <2>4. Front(Top.log) \in Seq(Element)
    BY <2>1, <2>3, FrontOfSeq
  <2>5. trail' # <<>> /\ trail'[1].owner = trail[1].owner
    BY <1>0, <2>1, <2>2, <2>4, OutermostOfRecord DEF DropNewest
  <2>6. failed' = failed
    BY <1>5, CyclesRestored
  <2>7. OutermostKnown'
    BY <2>1, <2>5, OutermostKept
  <2> QED
    BY <2>6, <2>7
<1>6. ASSUME UNCHANGED <<final, owing, failed>>,
             busy'.op \in {"commit", "abort"} => busy' = busy,
             trail' = trail
      PROVE  ~failed' /\ OutermostKnown'
  BY <1>6, OutermostKept
<1>7. ASSUME UNCHANGED <<final, owing, failed>>,
             busy'.op \notin {"commit", "abort"},
             NEW e \in Element, trail # <<>>, trail' = Record(e)
      PROVE  ~failed' /\ OutermostKnown'
  <2>1. Append(Top.log, e) \in Seq(Element)
    BY <1>0, <1>7, TopInTrail
  <2>2. trail' # <<>> /\ trail'[1].owner = trail[1].owner
    BY <1>0, <1>7, <2>1, OutermostOfRecord DEF Record
  <2> QED
    BY <1>7, <2>2, OutermostKept
<1>8. ASSUME UNCHANGED <<final, owing, failed>>,
             busy'.op \notin {"commit", "abort"},
             NEW c \in Cell, SaveItem(c)
      PROVE  ~failed' /\ OutermostKnown'
  <2>1. Item(c) \in Element
    BY <1>0 DEF TypeOK, Item, ItemEl, Undoable, Element
  <2>2. trail' = trail \/ (trail # <<>> /\ trail' = Record(Item(c)))
    BY <1>8 DEF SaveItem, InTransaction
  <2> QED
    BY <1>6, <1>7, <1>8, <2>1, <2>2
<1>9. ASSUME NEW c \in Cell, ClearItem(c)
      PROVE  ~failed' /\ OutermostKnown'
  <2>1. busy'.op \notin {"commit", "abort"}
    <3>1. busy' = Idle \/ busy'.op = "clear"
      BY <1>0, <1>9 DEF ClearItem, TypeOK, Loop
    <3> QED
      BY <3>1, LoopRecords
  <2>2. UNCHANGED <<final, owing, failed>> /\ (SaveItem(c) \/ trail' = trail)
    BY <1>9 DEF ClearItem
  <2> QED
    BY <1>6, <1>8, <2>1, <2>2
<1>10. ASSUME NEW i \in 1..Len(cycles), NEW n \in Name, NEW v \in Value, Write(i, n, v)
       PROVE  ~failed' /\ OutermostKnown'
  <2>1. /\ UNCHANGED <<final, owing, failed>>
        /\ busy'.op \notin {"commit", "abort"}
        /\ SaveItem(CellOf(cycles[i], n))
    BY <1>10 DEF Write
  <2> QED
    BY <1>0, <1>8, <2>1, CellOfTyped
<1>11. ASSUME NEW f \in Folder, NEW p \in Page, SwitchPage(f, p)
       PROVE  ~failed' /\ OutermostKnown'
  <2> DEFINE e == [kind |-> "action", folder |-> f, to |-> page[f], from |-> p]
  <2>1. e \in Element
    BY <1>0 DEF TypeOK, ActionEl, Undoable, Element
  <2>2. /\ UNCHANGED <<final, owing, failed>>
        /\ busy'.op \notin {"commit", "abort"}
        /\ trail' = trail \/ (trail # <<>> /\ trail' = Record(e))
    BY <1>11 DEF SwitchPage, InTransaction
  <2> HIDE DEF e
  <2> QED
    BY <1>6, <1>7, <2>1, <2>2
<1>12. ASSUME NEW c \in Cycle, NewCycle(c)
       PROVE  ~failed' /\ OutermostKnown'
  <2> DEFINE e == [kind |-> "new", old |-> actual, new |-> Len(cycles) + 1, cycle |-> c]
  <2>1. e \in Element
    BY <1>0 DEF TypeOK, NewEl, Element
  <2>2. /\ UNCHANGED <<final, owing, failed>>
        /\ busy'.op \notin {"commit", "abort"}
        /\ trail' = trail \/ (trail # <<>> /\ trail' = Record(e))
    BY <1>12, LoopRecords DEF NewCycle, RecordIf, InTransaction
  <2> HIDE DEF e
  <2> QED
    BY <1>6, <1>7, <2>1, <2>2
<1>13. ASSUME NEW i \in 1..Len(cycles), SetCycle(i)
       PROVE  ~failed' /\ OutermostKnown'
  <2> DEFINE e == [kind |-> "switch", num |-> actual]
  <2>1. e \in Element
    BY <1>0 DEF TypeOK, SwitchEl, Element
  <2>2. /\ UNCHANGED <<final, owing, failed>>
        /\ busy'.op \notin {"commit", "abort"}
        /\ trail' = trail \/ (trail # <<>> /\ trail' = Record(e))
    BY <1>13, LoopRecords DEF SetCycle, RecordIf, InTransaction
  <2> HIDE DEF e
  <2> QED
    BY <1>6, <1>7, <2>1, <2>2
<1>14. ASSUME NEW i \in 1..Len(cycles), RemoveCycle(i)
       PROVE  ~failed' /\ OutermostKnown'
  <2> DEFINE switch == [kind |-> "switch", num |-> actual]
             delete == [kind |-> "delete", cycle |-> cycles[i], num |-> i]
  <2>1. switch \in Element /\ delete \in Element
    BY <1>0 DEF SwitchEl, DeleteEl, Element, TypeOK
  <2>2. /\ UNCHANGED <<final, owing, failed>>
        /\ busy'.op \notin {"commit", "abort"}
        /\ \/ trail' = trail
           \/ trail # <<>> /\ trail' = WithTopLog(Top.log \o <<switch, delete>>)
    BY <1>14, LoopRecords DEF RemoveCycle, InTransaction
  <2> HIDE DEF switch, delete
  <2>3. CASE trail' = trail
    BY <1>6, <2>2, <2>3
  <2>4. CASE trail # <<>> /\ trail' = WithTopLog(Top.log \o <<switch, delete>>)
    <3>1. Top.log \in Seq(Element)
      BY <1>0, <2>4, TopInTrail
    <3>2. Top.log \o <<switch, delete>> \in Seq(Element)
      BY <2>1, <3>1
    <3>3. trail' # <<>> /\ trail'[1].owner = trail[1].owner
      BY <1>0, <2>4, <3>2, OutermostOfRecord
    <3> QED
      BY <2>2, <3>3, OutermostKept
  <2> QED
    BY <2>2, <2>3, <2>4
<1>15. ASSUME NEW i \in 1..Len(cycles), ClearCycle(i)
       PROVE  ~failed' /\ OutermostKnown'
  <2>1. busy'.op \notin {"commit", "abort"} /\ UNCHANGED <<final, owing, failed, trail>>
    BY <1>15 DEF ClearCycle, Idle
  <2> QED
    BY <1>6, <2>1
<1>16. CASE UpdateForms \/ UpdateDone \/ Undo \/ Redo
  <2>1. UNCHANGED <<final, owing, failed, trail>>
    BY <1>16 DEF UpdateForms, UpdateDone, Undo, Redo
  <2>2. busy' = Idle \/ busy'.op = "update"
    <3>1. CASE UpdateForms
      BY <3>1 DEF UpdateForms, Idle
    <3>2. CASE UpdateDone
      BY <3>2 DEF UpdateDone
    <3>3. CASE Undo \/ Redo
      BY <3>3, LoopRecords DEF Undo, Redo, UserMayUndo, GuardedUpdate, Ops
    <3> QED
      BY <1>16, <3>1, <3>2, <3>3
  <2>3. busy'.op \notin {"commit", "abort"}
    BY <2>2, LoopRecords
  <2> QED
    BY <1>6, <2>1, <2>3
<1>17. CASE Activate \/ EnableUndo \/ DisallowUndo \/ AllowUndo \/ UNCHANGED vars
  <2>1. UNCHANGED <<final, owing, failed, trail, busy>>
    BY <1>17 DEF Activate, EnableUndo, DisallowUndo, AllowUndo, vars
  <2> QED
    BY <1>6, <2>1
<1> HIDE DEF AssertInv
<1>18. CASE Step
  BY <1>3, <1>4, <1>5, <1>9, <1>16, <1>18 DEF Step
<1>19. CASE Call
  BY <1>1, <1>2, <1>10, <1>11, <1>12, <1>13, <1>14, <1>15, <1>16, <1>17, <1>19 DEF Call
<1> QED
  BY <1>17, <1>18, <1>19 DEF Next

\* No order of begins and ends, and no sequence of changes to the cycles,
\* reaches an assertion of commitTransaction, abortTransaction or
\* TTInsertCycle: the outermost owner is always found.
THEOREM NoAssertionFails == Spec => []NoAssertFails
<1>1. Init => AssertInv
  <2> SUFFICES ASSUME Init
               PROVE  AssertInv
    OBVIOUS
  <2>1. busy.op = "idle" /\ owing = {} /\ ~failed
    BY LoopRecords DEF Init
  <2> QED
    BY <2>1, PoolInvInit DEF AssertInv, OutermostKnown
<1>2. AssertInv /\ [Next]_vars => AssertInv'
  BY AssertInvStep, PoolInvStep DEF AssertInv
<1>3. AssertInv => NoAssertFails
  BY DEF AssertInv, NoAssertFails
<1> QED
  BY <1>1, <1>2, <1>3, PTL DEF Spec

\* The actual cycle exists in every reachable state, also between the steps
\* of an abort that takes cycles away and brings them back.
THEOREM ActualCycleExists == Spec => []ActualExists
<1>1. PoolInv => ActualExists
  BY DEF PoolInv
<1> QED
  BY <1>1, PoolInvariant, PTL

-----------------------------------------------------------------------------
(* Logs that hold every item once                                          *)

\* The empty log holds nothing twice.
LEMMA UniqueEmpty == UniqueIn(<<>>)
BY Len(<<>>) = 0 DEF UniqueIn

\* A log without its newest element.
LEMMA UniqueFront ==
  ASSUME NEW log \in Seq(Element), log # <<>>, UniqueIn(log)
  PROVE  UniqueIn(Front(log))
<1> DEFINE f == Front(log)
<1>1. /\ Len(log) \in Nat \ {0} /\ Len(f) = Len(log) - 1
      /\ \A i \in 1..(Len(log) - 1) : f[i] = log[i]
  BY FrontOfSeq, NonEmptySeq
<1> HIDE DEF f
<1>2. \A i \in 1..Len(f) : i \in 1..Len(log) /\ f[i] = log[i]
  BY <1>1
<1> QED
  BY <1>2 DEF UniqueIn, f

\* A log without its oldest element.
LEMMA UniqueTail ==
  ASSUME NEW log \in Seq(Element), log # <<>>, UniqueIn(log)
  PROVE  UniqueIn(Tail(log))
<1> DEFINE f == Tail(log)
<1>1. /\ Len(log) \in Nat \ {0} /\ Len(f) = Len(log) - 1
      /\ \A i \in 1..(Len(log) - 1) : f[i] = log[i + 1]
  BY TailOfSeq, NonEmptySeq
<1> HIDE DEF f
<1>2. \A i \in 1..Len(f) : i + 1 \in 1..Len(log) /\ f[i] = log[i + 1]
  BY <1>1
<1>3. \A i, j \in 1..Len(f) : i + 1 = j + 1 => i = j
  BY <1>1
<1>4. UniqueIn(f)
  BY <1>2, <1>3 DEF UniqueIn
<1> QED
  BY <1>4 DEF f

\* A log with one more element.
LEMMA UniqueAppend ==
  ASSUME NEW log \in Seq(Element), NEW e \in Element, UniqueIn(log),
         e.kind = "item" => ~Holds(log, e.cell)
  PROVE  UniqueIn(Append(log, e))
<1> DEFINE a == Append(log, e)
           n == Len(log) + 1
<1>1. /\ Len(log) \in Nat /\ Len(a) = n /\ a[n] = e
      /\ \A i \in 1..Len(log) : a[i] = log[i]
  OBVIOUS
<1> HIDE DEF a
<1>2. \A i \in 1..Len(a) : i = n \/ i \in 1..Len(log)
  BY <1>1
<1> HIDE DEF n
<1> SUFFICES ASSUME NEW i \in 1..Len(a), NEW j \in 1..Len(a),
                    a[i].kind = "item", a[j].kind = "item", a[i].cell = a[j].cell
             PROVE  i = j
  BY DEF UniqueIn, a
<1>3. CASE i \in 1..Len(log) /\ j \in 1..Len(log)
  BY <1>1, <1>3 DEF UniqueIn
<1>4. CASE i = n /\ j \in 1..Len(log)
  BY <1>1, <1>4 DEF Holds
<1>5. CASE j = n /\ i \in 1..Len(log)
  BY <1>1, <1>5 DEF Holds
<1> QED
  BY <1>2, <1>3, <1>4, <1>5

\* The entry that a restore puts on the other list concerns the same items.
LEMMA ExchangedItems ==
  ASSUME TypeOK, NEW e \in Seq(Undoable)
  PROVE  /\ Len(Exchanged(e)) = Len(e)
         /\ \A i \in 1..Len(e) :
              /\ Exchanged(e)[i].kind = e[i].kind
              /\ e[i].kind = "item" => Exchanged(e)[i].cell = e[i].cell
<1> DEFINE x == Exchanged(e)
<1>1. Len(e) \in Nat /\ \A i \in 1..Len(e) : e[i] \in Undoable
  OBVIOUS
<1>2. Len(x) = Len(e)
  BY ExchangedTyped
<1>3. ASSUME NEW i \in 1..Len(e)
      PROVE  x[i].kind = e[i].kind /\ (e[i].kind = "item" => x[i].cell = e[i].cell)
  <2>1. CASE e[i].kind = "item"
    <3> DEFINE saved == IF Earlier(e, i) = {} THEN live[e[i].cell]
                        ELSE e[LastOf(Earlier(e, i))].saved
    <3>1. e[i] \in ItemEl
      BY <1>1, <2>1, UndoableIsElement
    <3>2. x[i] = [e[i] EXCEPT !.saved = saved]
      BY <2>1 DEF Exchanged
    <3> HIDE DEF saved, x
    <3> QED
      BY <3>1, <3>2 DEF ItemEl
  <2>2. CASE e[i].kind # "item"
    <3>1. e[i] \in ActionEl
      BY <1>1, <2>2, UndoableIsElement
    <3>2. x[i] = [e[i] EXCEPT !.to = e[i].from, !.from = e[i].to]
      BY <2>2 DEF Exchanged
    <3> HIDE DEF x
    <3> QED
      BY <2>2, <3>1, <3>2 DEF ActionEl
  <2> QED
    BY <2>1, <2>2
<1> QED
  BY <1>2, <1>3

\* It holds every item once, as the entry did.
LEMMA UniqueExchanged ==
  ASSUME TypeOK, NEW e \in Seq(Undoable), UniqueIn(e)
  PROVE  UniqueIn(Exchanged(e))
<1>1. PICK x : x = Exchanged(e)
  OBVIOUS
<1>2. /\ Len(x) = Len(e)
      /\ \A i \in 1..Len(e) : /\ x[i].kind = e[i].kind
                              /\ e[i].kind = "item" => x[i].cell = e[i].cell
  BY <1>1, ExchangedItems
<1>3. UniqueIn(x)
  BY <1>2 DEF UniqueIn
<1> QED
  BY <1>1, <1>3

-----------------------------------------------------------------------------
(* The trail saves every item once                                         *)

\* The innermost log is replaced by one that holds every item once.
LEMMA SavedOnceLog ==
  ASSUME TypeOK, SavedOnce, trail # <<>>,
         NEW log \in Seq(Element), UniqueIn(log), trail' = WithTopLog(log)
  PROVE  SavedOnce'
<1>1. /\ Len(trail) \in Nat \ {0} /\ Top \in Segment /\ Top = trail[Len(trail)]
  BY TopInTrail DEF Top
<1>2. /\ Len(trail') = Len(trail)
      /\ \A k \in 1..(Len(trail) - 1) : trail'[k] = trail[k]
      /\ trail'[Len(trail)] = [Top EXCEPT !.log = log]
  BY WithTopLogTyped
<1>3. UniqueIn(trail'[Len(trail)].log)
  BY <1>1, <1>2 DEF Segment
<1>4. ASSUME NEW k \in 1..Len(trail')
      PROVE  UniqueIn(trail'[k].log)
  <2>1. k = Len(trail) \/ (k \in 1..(Len(trail) - 1) /\ k \in 1..Len(trail))
    BY <1>1, <1>2
  <2>2. CASE k \in 1..(Len(trail) - 1) /\ k \in 1..Len(trail)
    BY <1>2, <2>2 DEF SavedOnce
  <2> QED
    BY <1>3, <2>1, <2>2
<1> QED
  BY <1>4 DEF SavedOnce

\* The log of the innermost transaction.
LEMMA TopLogUnique ==
  ASSUME TypeOK, SavedOnce, trail # <<>>
  PROVE  Top.log \in Seq(Element) /\ UniqueIn(Top.log)
<1>1. Len(trail) \in 1..Len(trail) /\ Top = trail[Len(trail)]
  BY TopInTrail DEF Top
<1> QED
  BY <1>1, TopInTrail DEF SavedOnce

\* Recording an element that is not saved yet.
LEMMA SavedOnceRecord ==
  ASSUME TypeOK, SavedOnce, trail # <<>>, NEW e \in Element,
         e.kind = "item" => ~Holds(Top.log, e.cell),
         trail' = Record(e)
  PROVE  SavedOnce'
<1>1. Top.log \in Seq(Element) /\ UniqueIn(Top.log)
  BY TopLogUnique
<1>2. Append(Top.log, e) \in Seq(Element)
  BY <1>1
<1>3. UniqueIn(Append(Top.log, e))
  BY <1>1, UniqueAppend
<1> QED
  BY <1>2, <1>3, SavedOnceLog DEF Record

\* saveDataItem records an item only if the transaction has not saved it yet.
LEMMA SavedOnceSaveItem ==
  ASSUME TypeOK, SavedOnce, NEW c \in Cell, SaveItem(c)
  PROVE  SavedOnce'
<1>1. Item(c) \in Element /\ Item(c).cell = c
  BY DEF TypeOK, Item, ItemEl, Undoable, Element
<1>2. trail' = trail \/ (trail # <<>> /\ ~Holds(Top.log, c) /\ trail' = Record(Item(c)))
  BY DEF SaveItem, InTransaction
<1>3. CASE trail' = trail
  BY <1>3 DEF SavedOnce
<1>4. CASE trail # <<>> /\ ~Holds(Top.log, c) /\ trail' = Record(Item(c))
  <2> DEFINE e == Item(c)
  <2>1. e \in Element /\ ~Holds(Top.log, e.cell) /\ trail' = Record(e)
    BY <1>1, <1>4
  <2> HIDE DEF e
  <2> QED
    BY <1>4, <2>1, SavedOnceRecord
<1> QED
  BY <1>2, <1>3, <1>4

\* A transaction begins with an empty log.
LEMMA SavedOnceBegin ==
  ASSUME TypeOK, SavedOnce, NEW o \in Owner, trail' = Append(trail, [owner |-> o, log |-> <<>>])
  PROVE  SavedOnce'
<1> DEFINE s == [owner |-> o, log |-> <<>>]
<1>1. trail \in Seq(Segment) /\ s.log = <<>> /\ trail' = Append(trail, s)
  BY DEF TypeOK
<1> HIDE DEF s
<1>2. /\ Len(trail) \in Nat /\ Len(trail') = Len(trail) + 1
      /\ trail'[Len(trail) + 1] = s
      /\ \A k \in 1..Len(trail) : trail'[k] = trail[k]
  BY <1>1
<1>3. ASSUME NEW k \in 1..Len(trail')
      PROVE  UniqueIn(trail'[k].log)
  <2>1. CASE k \in 1..Len(trail)
    BY <1>2, <2>1 DEF SavedOnce
  <2>2. CASE k = Len(trail) + 1
    BY <1>1, <1>2, <2>2, UniqueEmpty
  <2> QED
    BY <1>2, <2>1, <2>2
<1> QED
  BY <1>3 DEF SavedOnce

\* The innermost transaction is closed.
LEMMA SavedOncePop ==
  ASSUME TypeOK, SavedOnce, trail # <<>>, trail' = Front(trail) \/ trail' = <<>>
  PROVE  SavedOnce'
<1>1. CASE trail' = Front(trail)
  <2>1. /\ Len(trail) \in Nat /\ Len(trail') = Len(trail) - 1
        /\ \A k \in 1..(Len(trail) - 1) : trail'[k] = trail[k]
    BY <1>1, FrontOfTrail DEF TypeOK
  <2>2. \A k \in 1..Len(trail') : k \in 1..Len(trail) /\ trail'[k] = trail[k]
    BY <2>1
  <2> QED
    BY <2>2 DEF SavedOnce
<1>2. CASE trail' = <<>>
  BY <1>2, Len(<<>>) = 0 DEF SavedOnce
<1> QED
  BY <1>1, <1>2

\* An abort drops the newest element.
LEMMA SavedOnceShrink ==
  ASSUME TypeOK, SavedOnce, trail # <<>>, Top.log # <<>>, trail' = DropNewest
  PROVE  SavedOnce'
<1>1. Top.log \in Seq(Element) /\ UniqueIn(Top.log)
  BY TopLogUnique
<1>2. Front(Top.log) \in Seq(Element) /\ UniqueIn(Front(Top.log))
  BY <1>1, FrontOfSeq, UniqueFront
<1> QED
  BY <1>2, SavedOnceLog DEF DropNewest

\* RemoveCycle records the actual cycle and the deleted one.
LEMMA SavedOnceRemoveCycle ==
  ASSUME TypeOK, SavedOnce, NEW i \in 1..Len(cycles), RemoveCycle(i)
  PROVE  SavedOnce'
<1> DEFINE switch == [kind |-> "switch", num |-> actual]
           delete == [kind |-> "delete", cycle |-> cycles[i], num |-> i]
<1>1. /\ switch \in Element /\ delete \in Element
      /\ switch.kind # "item" /\ delete.kind # "item"
  BY DEF SwitchEl, DeleteEl, Element, TypeOK
<1> HIDE DEF switch, delete
<1>2. trail' = IF InTransaction THEN WithTopLog(Top.log \o <<switch, delete>>) ELSE trail
  BY DEF RemoveCycle, switch, delete
<1>3. CASE InTransaction
  <2>1. trail # <<>> /\ Top.log \in Seq(Element) /\ UniqueIn(Top.log)
    BY <1>3, TopLogUnique DEF InTransaction
  <2> DEFINE one == Append(Top.log, switch)
             two == Append(one, delete)
  <2>2. one \in Seq(Element) /\ UniqueIn(one)
    BY <1>1, <2>1, UniqueAppend
  <2>3. Top.log \o <<switch, delete>> = two
    BY <1>1, <2>1, AppendTwo
  <2> HIDE DEF one
  <2>4. two \in Seq(Element) /\ UniqueIn(two)
    BY <1>1, <2>2, UniqueAppend
  <2> HIDE DEF two
  <2> QED
    BY <1>2, <1>3, <2>1, <2>3, <2>4, SavedOnceLog
<1>4. CASE ~InTransaction
  BY <1>2, <1>4 DEF SavedOnce
<1> QED
  BY <1>3, <1>4

\* A commit moves an element to the enclosing transaction only if that has
\* not saved the same item.
LEMMA SavedOnceMove ==
  ASSUME TypeOK, SavedOnce, CommitElement
  PROVE  SavedOnce'
<1> DEFINE n == Len(trail)
           log == trail[n].log
           outer == trail[n - 1].log
           e == Head(log)
<1>1. trail \in Seq(Segment) /\ n \in Nat /\ n > 1 /\ n \in 1..n /\ n - 1 \in 1..n
  BY DEF TypeOK, CommitElement
<1>2. log \in Seq(Element) /\ outer \in Seq(Element) /\ log # <<>>
  <2>1. \A k \in 1..Len(trail) : trail[k].log \in Seq(Element)
    BY <1>1, SegmentFields
  <2> QED
    BY <1>1, <2>1 DEF CommitElement, Top
<1>3. UniqueIn(log) /\ UniqueIn(outer)
  BY <1>1 DEF SavedOnce
<1>4. /\ Len(trail') = n
      /\ \A k \in 1..(n - 2) : trail'[k] = trail[k]
      /\ trail'[n].log = Tail(log)
      /\ \/ trail'[n - 1].log = Append(outer, e) /\ ~Resident(e, outer)
         \/ trail'[n - 1].log = outer
  BY CommitElementTrail
<1> HIDE DEF n, log, outer
<1>5. e \in Element
  BY <1>2, TailOfSeq, NonEmptySeq
<1> HIDE DEF e
<1>6. UniqueIn(trail'[n].log)
  BY <1>2, <1>3, <1>4, UniqueTail
<1>7. UniqueIn(trail'[n - 1].log)
  <2>1. CASE trail'[n - 1].log = Append(outer, e) /\ ~Resident(e, outer)
    <3>1. e.kind = "item" => ~Holds(outer, e.cell)
      BY <2>1 DEF Resident
    <3>2. UniqueIn(Append(outer, e))
      BY <1>2, <1>3, <1>5, <3>1, UniqueAppend
    <3> QED
      BY <2>1, <3>2
  <2>2. CASE trail'[n - 1].log = outer
    BY <1>3, <2>2
  <2> QED
    BY <1>4, <2>1, <2>2
<1>8. ASSUME NEW k \in 1..Len(trail')
      PROVE  UniqueIn(trail'[k].log)
  <2>1. k = n \/ k = n - 1 \/ (k \in 1..(n - 2) /\ k \in 1..Len(trail))
    BY <1>1, <1>4 DEF n
  <2>2. CASE k \in 1..(n - 2) /\ k \in 1..Len(trail)
    BY <1>4, <2>2 DEF SavedOnce
  <2> QED
    BY <1>6, <1>7, <2>1, <2>2
<1> QED
  BY <1>8 DEF SavedOnce

\* Every step keeps the items of every transaction unique.
LEMMA SavedOnceStep ==
  ASSUME PoolInv, SavedOnce, [Next]_vars
  PROVE  SavedOnce'
<1>0. TypeOK /\ OwnerIsOpen
  BY DEF PoolInv
<1>1. ASSUME trail' = trail
      PROVE  SavedOnce'
  BY <1>1 DEF SavedOnce
<1>2. ASSUME NEW e \in Element, e.kind # "item",
             trail' = trail \/ (trail # <<>> /\ trail' = Record(e))
      PROVE  SavedOnce'
  BY <1>0, <1>1, <1>2, SavedOnceRecord
<1>3. ASSUME NEW o \in Owner, Begin(o) \/ Commit(o) \/ Abort(o)
      PROVE  SavedOnce'
  <2>1. CASE Begin(o)
    BY <1>0, <2>1, SavedOnceBegin DEF Begin
  <2>2. CASE Commit(o) \/ Abort(o)
    BY <1>1, <2>2 DEF Commit, Abort
  <2> QED
    BY <1>3, <2>1, <2>2
<1>4. CASE CommitElement
  BY <1>0, <1>4, SavedOnceMove
<1>5. CASE CommitInner \/ CommitFinal \/ AbortPoint
  <2>1. busy.op \in {"commit", "abort"} /\ (trail' = Front(trail) \/ trail' = <<>>)
    BY <1>5 DEF CommitInner, CommitFinal, AbortPoint
  <2> QED
    BY <1>0, <2>1, OpenTransaction, SavedOncePop
<1>6. CASE RestoreItem \/ RestorePage \/ RestoreSwitch \/ RestoreNew \/ RestoreDelete
  <2>1. busy.op = "abort" /\ Top.log # <<>> /\ trail' = DropNewest
    BY <1>6 DEF RestoreItem, RestorePage, RestoreSwitch, RestoreNew, RestoreDelete, Recovering
  <2> QED
    BY <1>0, <2>1, OpenTransaction, SavedOnceShrink
<1>7. ASSUME NEW c \in Cell, ClearItem(c)
      PROVE  SavedOnce'
  <2>1. SaveItem(c) \/ trail' = trail
    BY <1>7 DEF ClearItem
  <2> QED
    BY <1>0, <1>1, <2>1, SavedOnceSaveItem
<1>8. ASSUME NEW i \in 1..Len(cycles), NEW n \in Name, NEW v \in Value, Write(i, n, v)
      PROVE  SavedOnce'
  <2>1. SaveItem(CellOf(cycles[i], n)) /\ CellOf(cycles[i], n) \in Cell
    BY <1>0, <1>8, CellOfTyped DEF Write
  <2> QED
    BY <1>0, <2>1, SavedOnceSaveItem
<1>9. ASSUME NEW f \in Folder, NEW p \in Page, SwitchPage(f, p)
      PROVE  SavedOnce'
  <2> DEFINE e == [kind |-> "action", folder |-> f, to |-> page[f], from |-> p]
  <2>1. e \in Element /\ e.kind # "item"
    BY <1>0 DEF TypeOK, ActionEl, Undoable, Element
  <2>2. trail' = trail \/ (trail # <<>> /\ trail' = Record(e))
    BY <1>9 DEF SwitchPage, InTransaction
  <2> HIDE DEF e
  <2> QED
    BY <1>2, <2>1, <2>2
<1>10. ASSUME NEW c \in Cycle, NewCycle(c)
       PROVE  SavedOnce'
  <2> DEFINE e == [kind |-> "new", old |-> actual, new |-> Len(cycles) + 1, cycle |-> c]
  <2>1. e \in Element /\ e.kind # "item"
    BY <1>0 DEF TypeOK, NewEl, Element
  <2>2. trail' = trail \/ (trail # <<>> /\ trail' = Record(e))
    BY <1>10 DEF NewCycle, RecordIf, InTransaction
  <2> HIDE DEF e
  <2> QED
    BY <1>2, <2>1, <2>2
<1>11. ASSUME NEW i \in 1..Len(cycles), SetCycle(i)
       PROVE  SavedOnce'
  <2> DEFINE e == [kind |-> "switch", num |-> actual]
  <2>1. e \in Element /\ e.kind # "item"
    BY <1>0 DEF TypeOK, SwitchEl, Element
  <2>2. trail' = trail \/ (trail # <<>> /\ trail' = Record(e))
    BY <1>11 DEF SetCycle, RecordIf, InTransaction
  <2> HIDE DEF e
  <2> QED
    BY <1>2, <2>1, <2>2
<1>12. ASSUME NEW i \in 1..Len(cycles), RemoveCycle(i) \/ ClearCycle(i)
       PROVE  SavedOnce'
  BY <1>0, <1>1, <1>12, SavedOnceRemoveCycle DEF ClearCycle
<1>13. CASE UpdateDone \/ UpdateForms \/ Undo \/ Redo
  BY <1>1, <1>13 DEF UpdateDone, UpdateForms, Undo, Redo
<1>14. CASE Activate \/ EnableUndo \/ DisallowUndo \/ AllowUndo \/ UNCHANGED vars
  BY <1>1, <1>14 DEF Activate, EnableUndo, DisallowUndo, AllowUndo, vars
<1>15. CASE Step
  BY <1>4, <1>5, <1>6, <1>7, <1>13, <1>15 DEF Step
<1>16. CASE Call
  BY <1>3, <1>8, <1>9, <1>10, <1>11, <1>12, <1>13, <1>14, <1>16 DEF Call
<1> QED
  BY <1>14, <1>15, <1>16 DEF Next

\* In every reachable state a transaction has saved every item at most once,
\* also after inner transactions were merged into it and while one is undone.
THEOREM EveryItemSavedOnce == Spec => []SavedOnce
<1>1. Init => SavedOnce
  BY Len(<<>>) = 0 DEF Init, SavedOnce
<1>2. PoolInv /\ SavedOnce /\ [Next]_vars => SavedOnce'
  BY SavedOnceStep
<1> QED
  BY <1>1, <1>2, PoolInvariant, PTL DEF Spec

-----------------------------------------------------------------------------
(* The undo and redo lists                                                 *)

\* Before undo is activated the lists stay empty: the buttons are first told
\* FALSE by Activate, and that must be true.
EmptyUnlessActivated == ~activated => undo = <<>> /\ redo = <<>>

\* While a GUI update runs nothing is recorded for undo.
UpdateRecordsNothing == busy.op = "update" => ~IsEnabled

\* The inductive invariant of the undo and redo lists.  EntriesUnique needs
\* SavedOnce: the log of an outermost transaction becomes an entry.
ListsInv ==
  /\ ListsBounded
  /\ EntriesNotEmpty
  /\ EntriesUnique
  /\ ButtonsTruthful
  /\ EmptyUnlessActivated
UndoInv == PoolInv /\ SavedOnce /\ ListsInv /\ UpdateRecordsNothing

\* What the entries of one list have in common.
SoundList(list) == \A i \in 1..Len(list) : list[i] # <<>> /\ UniqueIn(list[i])

\* EntriesNotEmpty and EntriesUnique speak of both lists alike.
LEMMA SoundLists ==
  SoundList(undo) /\ SoundList(redo) <=> EntriesNotEmpty /\ EntriesUnique
BY DEF SoundList, EntriesNotEmpty, EntriesUnique

\* The empty list is sound.
LEMMA SoundEmpty == SoundList(<<>>)
BY Len(<<>>) = 0 DEF SoundList

\* A list stays sound when a sound entry is pushed.
LEMMA SoundPushed ==
  ASSUME NEW list \in Seq(Seq(Undoable)), SoundList(list),
         NEW e \in Seq(Undoable), e # <<>>, UniqueIn(e)
  PROVE  SoundList(Pushed(list, e))
<1> DEFINE l == Pushed(list, e)
<1>1. \A i \in 1..Len(l) : l[i] = e \/ \E j \in 1..Len(list) : l[i] = list[j]
  BY PushedTyped
<1> HIDE DEF l
<1>2. SoundList(l)
  BY <1>1 DEF SoundList
<1> QED
  BY <1>2 DEF l

\* A list stays sound when its last entry is taken.
LEMMA SoundFront ==
  ASSUME NEW list \in Seq(Seq(Undoable)), list # <<>>, SoundList(list)
  PROVE  /\ SoundList(Front(list))
         /\ Last(list) \in Seq(Undoable)
         /\ Last(list) # <<>>
         /\ UniqueIn(Last(list))
<1>1. /\ Len(list) \in Nat \ {0}
      /\ Len(Front(list)) = Len(list) - 1
      /\ \A i \in 1..(Len(list) - 1) : Front(list)[i] = list[i]
      /\ Last(list) = list[Len(list)]
      /\ Last(list) \in Seq(Undoable)
  BY FrontOfSeq, NonEmptySeq
<1>2. \A i \in 1..Len(Front(list)) : i \in 1..Len(list) /\ Front(list)[i] = list[i]
  BY <1>1
<1>3. Len(list) \in 1..Len(list)
  BY <1>1
<1> QED
  BY <1>1, <1>2, <1>3 DEF SoundList

\* Restoring an entry gives a sound entry for the other list.
LEMMA SoundExchanged ==
  ASSUME TypeOK, NEW e \in Seq(Undoable), e # <<>>, UniqueIn(e)
  PROVE  Exchanged(e) \in Seq(Undoable) /\ Exchanged(e) # <<>> /\ UniqueIn(Exchanged(e))
<1>1. Len(e) # 0
  OBVIOUS
<1>2. Exchanged(e) \in Seq(Undoable) /\ Len(Exchanged(e)) = Len(e)
  BY ExchangedTyped
<1>3. Exchanged(e) # <<>>
  BY <1>1, <1>2, Len(<<>>) = 0
<1> QED
  BY <1>2, <1>3, UniqueExchanged

\* The lists stay as they are.
LEMMA ListsKept ==
  ASSUME ListsInv, UNCHANGED undoVars, activated' = activated
  PROVE  ListsInv'
BY DEF ListsInv, ListsBounded, EntriesNotEmpty, EntriesUnique, ButtonsTruthful,
       EmptyUnlessActivated, undoVars

\* insertElement: a new entry, nothing to redo.
LEMMA ListsInsert ==
  ASSUME TypeOK, ListsInv, activated' = activated,
         NEW e \in Seq(Undoable), e # <<>>, UniqueIn(e), InsertElement(e)
  PROVE  ListsInv'
<1>1. CASE ~IsEnabled
  BY <1>1, ListsKept DEF InsertElement
<1>2. CASE IsEnabled
  <2>1. /\ undo' = Pushed(undo, e) /\ redo' = <<>> /\ activated
        /\ button' = [undo |-> (undo = <<>>) \/ button.undo,
                      redo |-> (redo = <<>>) /\ button.redo]
    BY <1>2 DEF InsertElement, IsEnabled
  <2>2. undo \in Seq(Seq(Undoable)) /\ Len(undo) \in Nat /\ Len(redo) \in Nat
        /\ MaxElements \in Nat
    BY BoundAssumption DEF TypeOK
  <2>3. Len(undo) <= MaxElements
    BY <2>2 DEF ListsInv, ListsBounded
  <2>4. /\ Pushed(undo, e) # <<>>
        /\ Len(Pushed(undo, e)) \in Nat
        /\ Len(Pushed(undo, e)) <= MaxElements
    BY <2>2, <2>3, PushedTyped
  <2>5. ListsBounded'
    BY <2>1, <2>2, <2>4, Len(<<>>) = 0 DEF ListsBounded
  <2>6. EntriesNotEmpty' /\ EntriesUnique'
    <3>1. SoundList(undo)
      BY SoundLists DEF ListsInv
    <3>2. SoundList(undo') /\ SoundList(redo')
      BY <2>1, <2>2, <3>1, SoundPushed, SoundEmpty
    <3> QED
      BY <3>2 DEF SoundList, EntriesNotEmpty, EntriesUnique
  <2>7. ButtonsTruthful'
    <3>1. button.undo = (undo # <<>>) /\ button.redo = (redo # <<>>)
      BY <2>1 DEF ListsInv, ButtonsTruthful
    <3>2. ((undo = <<>>) \/ button.undo) = TRUE /\ ((redo = <<>>) /\ button.redo) = FALSE
      BY <3>1
    <3>3. button' = [undo |-> TRUE, redo |-> FALSE]
      BY <2>1, <3>2
    <3> QED
      BY <2>1, <2>4, <3>3 DEF ButtonsTruthful
  <2> QED
    BY <2>1, <2>5, <2>6, <2>7 DEF ListsInv, EmptyUnlessActivated
<1> QED
  BY <1>1, <1>2

\* clear: nothing to undo and nothing to redo.
LEMMA ListsClear ==
  ASSUME TypeOK, ListsInv, activated' = activated, ClearUndo
  PROVE  ListsInv'
<1>1. CASE ~activated
  BY <1>1, ListsKept DEF ClearUndo
<1>2. CASE activated
  <2>1. /\ undo' = <<>> /\ redo' = <<>>
        /\ button' = [undo |-> (undo = <<>>) /\ button.undo,
                      redo |-> (redo = <<>>) /\ button.redo]
    BY <1>2 DEF ClearUndo
  <2>2. ListsBounded'
    BY <2>1, BoundAssumption, Len(<<>>) = 0 DEF ListsBounded
  <2>3. EntriesNotEmpty' /\ EntriesUnique'
    BY <2>1, Len(<<>>) = 0 DEF EntriesNotEmpty, EntriesUnique
  <2>4. ButtonsTruthful'
    <3>1. button.undo = (undo # <<>>) /\ button.redo = (redo # <<>>)
      BY <1>2 DEF ListsInv, ButtonsTruthful
    <3>2. ((undo = <<>>) /\ button.undo) = FALSE /\ ((redo = <<>>) /\ button.redo) = FALSE
      BY <3>1
    <3>3. button' = [undo |-> FALSE, redo |-> FALSE]
      BY <2>1, <3>2
    <3> QED
      BY <2>1, <3>3 DEF ButtonsTruthful
  <2> QED
    BY <2>1, <2>2, <2>3, <2>4 DEF ListsInv, EmptyUnlessActivated
<1> QED
  BY <1>1, <1>2

\* An entry is restored and goes from one list to the other; since the lists
\* are bounded together, nothing is pushed out.
LEMMA EntryMoves ==
  ASSUME TypeOK, NEW from \in Seq(Seq(Undoable)), NEW to \in Seq(Seq(Undoable)),
         SoundList(from), SoundList(to), from # <<>>,
         Len(from) + Len(to) <= MaxElements,
         NEW f, f = Front(from),
         NEW t, t = Pushed(to, Exchanged(Last(from)))
  PROVE  /\ SoundList(f) /\ SoundList(t)
         /\ Len(f) + Len(t) <= MaxElements
         /\ t # <<>>
         /\ (f # <<>>) <=> Len(from) > 1
<1> DEFINE e == Exchanged(Last(from))
<1>1. e \in Seq(Undoable) /\ e # <<>> /\ UniqueIn(e)
  BY SoundFront, SoundExchanged
<1> HIDE DEF e
<1>2. SoundList(f) /\ SoundList(t)
  BY <1>1, SoundFront, SoundPushed DEF e
<1>3. /\ Len(t) \in Nat /\ Len(t) <= Len(to) + 1 /\ t # <<>>
      /\ Len(to) \in Nat
  BY <1>1, PushedTyped DEF e
<1>4. f \in Seq(Seq(Undoable)) /\ Len(f) \in Nat /\ Len(f) = Len(from) - 1 /\ Len(from) \in Nat
  <2>1. f \in Seq(Seq(Undoable)) /\ Len(f) = Len(from) - 1
    BY FrontOfSeq
  <2> QED
    BY <2>1
<1>5. (f # <<>>) <=> Len(f) > 0
  BY <1>4
<1>6. Len(f) + Len(t) <= MaxElements
  BY <1>3, <1>4, BoundAssumption
<1> QED
  BY <1>2, <1>3, <1>4, <1>5, <1>6

\* undo() restores the newest entry and offers it for redo.
LEMMA ListsUndo ==
  ASSUME TypeOK, ListsInv, Undo
  PROVE  ListsInv'
<1>1. /\ undo \in Seq(Seq(Undoable)) /\ redo \in Seq(Seq(Undoable))
      /\ SoundList(undo) /\ SoundList(redo) /\ Len(undo) + Len(redo) <= MaxElements
      /\ Len(undo) \in Nat /\ Len(redo) \in Nat
  BY SoundLists DEF TypeOK, ListsInv, ListsBounded
<1>2. activated' = activated
  BY DEF Undo
<1>3. CASE activated /\ undo # <<>>
  <2>1. /\ undo' = Front(undo)
        /\ redo' = Pushed(redo, Exchanged(Last(undo)))
        /\ button' = [undo |-> (Len(undo) > 1) /\ button.undo,
                      redo |-> (redo = <<>>) \/ button.redo]
    BY <1>3 DEF Undo
  <2>2. /\ SoundList(undo') /\ SoundList(redo')
        /\ Len(undo') + Len(redo') <= MaxElements
        /\ redo' # <<>>
        /\ (undo' # <<>>) <=> Len(undo) > 1
    BY <1>1, <1>3, <2>1, EntryMoves
  <2>3. EntriesNotEmpty' /\ EntriesUnique'
    BY <2>2 DEF SoundList, EntriesNotEmpty, EntriesUnique
  <2>4. button.undo = (undo # <<>>) /\ button.redo = (redo # <<>>)
    BY <1>3 DEF ListsInv, ButtonsTruthful
  <2>5. /\ ((Len(undo) > 1) /\ button.undo) = (undo' # <<>>)
        /\ ((redo = <<>>) \/ button.redo) = (redo' # <<>>)
    BY <1>3, <2>2, <2>4
  <2>6. ButtonsTruthful'
    BY <2>1, <2>5 DEF ButtonsTruthful
  <2> QED
    BY <1>2, <1>3, <2>2, <2>3, <2>6 DEF ListsInv, ListsBounded, EmptyUnlessActivated
<1>4. CASE ~(activated /\ undo # <<>>)
  <2>1. undo' = undo /\ redo' = redo
        /\ button' = [undo |-> FALSE, redo |-> activated /\ redo # <<>>]
    BY <1>4 DEF Undo
  <2>2. ButtonsTruthful'
    <3> SUFFICES ASSUME activated
                 PROVE  button' = [undo |-> undo # <<>>, redo |-> redo # <<>>]
      BY <1>2, <2>1 DEF ButtonsTruthful
    <3>1. (undo # <<>>) = FALSE /\ (activated /\ redo # <<>>) = (redo # <<>>)
      BY <1>4
    <3> QED
      BY <2>1, <3>1
  <2> QED
    BY <1>2, <2>1, <2>2 DEF ListsInv, ListsBounded, EntriesNotEmpty, EntriesUnique,
                            EmptyUnlessActivated
<1> QED
  BY <1>3, <1>4

\* redo() restores the newest undone entry and offers it for undo.
LEMMA ListsRedo ==
  ASSUME TypeOK, ListsInv, Redo
  PROVE  ListsInv'
<1>1. /\ undo \in Seq(Seq(Undoable)) /\ redo \in Seq(Seq(Undoable))
      /\ SoundList(undo) /\ SoundList(redo) /\ Len(redo) + Len(undo) <= MaxElements
      /\ Len(undo) \in Nat /\ Len(redo) \in Nat
  BY SoundLists DEF TypeOK, ListsInv, ListsBounded
<1>2. activated' = activated
  BY DEF Redo
<1>3. CASE activated /\ redo # <<>>
  <2>1. /\ redo' = Front(redo)
        /\ undo' = Pushed(undo, Exchanged(Last(redo)))
        /\ button' = [undo |-> (undo = <<>>) \/ button.undo,
                      redo |-> (Len(redo) > 1) /\ button.redo]
    BY <1>3 DEF Redo
  <2>2. /\ SoundList(redo') /\ SoundList(undo')
        /\ Len(redo') + Len(undo') <= MaxElements
        /\ undo' # <<>>
        /\ (redo' # <<>>) <=> Len(redo) > 1
    BY <1>1, <1>3, <2>1, EntryMoves
  <2>3. EntriesNotEmpty' /\ EntriesUnique'
    BY <2>2 DEF SoundList, EntriesNotEmpty, EntriesUnique
  <2>4. button.undo = (undo # <<>>) /\ button.redo = (redo # <<>>)
    BY <1>3 DEF ListsInv, ButtonsTruthful
  <2>5. /\ ((Len(redo) > 1) /\ button.redo) = (redo' # <<>>)
        /\ ((undo = <<>>) \/ button.undo) = (undo' # <<>>)
    BY <1>3, <2>2, <2>4
  <2>6. ButtonsTruthful'
    BY <2>1, <2>5 DEF ButtonsTruthful
  <2>7. ListsBounded'
    <3>1. undo' \in Seq(Seq(Undoable)) /\ redo' \in Seq(Seq(Undoable))
      BY RedoTyped DEF TypeOK
    <3>2. Len(undo') \in Nat /\ Len(redo') \in Nat
      BY <3>1
    <3> QED
      BY <2>2, <3>2 DEF ListsBounded
  <2> QED
    BY <1>2, <1>3, <2>3, <2>6, <2>7 DEF ListsInv, EmptyUnlessActivated
<1>4. CASE ~(activated /\ redo # <<>>)
  <2>1. undo' = undo /\ redo' = redo
        /\ button' = [undo |-> activated /\ undo # <<>>, redo |-> FALSE]
    BY <1>4 DEF Redo
  <2>2. ButtonsTruthful'
    <3> SUFFICES ASSUME activated
                 PROVE  button' = [undo |-> undo # <<>>, redo |-> redo # <<>>]
      BY <1>2, <2>1 DEF ButtonsTruthful
    <3>1. (redo # <<>>) = FALSE /\ (activated /\ undo # <<>>) = (undo # <<>>)
      BY <1>4
    <3> QED
      BY <2>1, <3>1
  <2> QED
    BY <1>2, <2>1, <2>2 DEF ListsInv, ListsBounded, EntriesNotEmpty, EntriesUnique,
                            EmptyUnlessActivated
<1> QED
  BY <1>3, <1>4

\* Undo is activated, or enabled again with empty lists.
LEMMA ListsActivated ==
  ASSUME TypeOK, ListsInv, Activate \/ EnableUndo
  PROVE  ListsInv'
<1>1. /\ undo' = <<>> /\ redo' = <<>> /\ activated'
      /\ button' = [undo |-> FALSE, redo |-> FALSE]
  BY DEF Activate, EnableUndo, ListsInv, EmptyUnlessActivated
<1>2. ListsBounded' /\ EntriesNotEmpty' /\ EntriesUnique'
  BY <1>1, BoundAssumption, Len(<<>>) = 0 DEF ListsBounded, EntriesNotEmpty, EntriesUnique
<1>3. ButtonsTruthful'
  BY <1>1 DEF ButtonsTruthful
<1> QED
  BY <1>1, <1>2, <1>3 DEF ListsInv, EmptyUnlessActivated

\* saveDataItem outside a transaction makes an entry of its own.
LEMMA ListsSaveItem ==
  ASSUME TypeOK, ListsInv, activated' = activated, NEW c \in Cell, SaveItem(c)
  PROVE  ListsInv'
<1>1. CASE UNCHANGED undoVars
  BY <1>1, ListsKept
<1>2. CASE InsertElement(<<Item(c)>>)
  <2> DEFINE e == <<Item(c)>>
  <2>1. Item(c) \in Undoable
    BY DEF TypeOK, Item, ItemEl, Undoable
  <2>2. e \in Seq(Undoable) /\ e # <<>> /\ UniqueIn(e)
    BY <2>1 DEF UniqueIn
  <2>3. InsertElement(e)
    BY <1>2
  <2> HIDE DEF e
  <2> QED
    BY <2>2, <2>3, ListsInsert
<1> QED
  BY <1>1, <1>2 DEF SaveItem

\* commitFinalTransaction makes an entry of the log, clears the lists or
\* leaves them alone.
LEMMA ListsCommitFinal ==
  ASSUME PoolInv, SavedOnce, ListsInv, CommitFinal
  PROVE  ListsInv'
<1>1. TypeOK /\ OwnerIsOpen /\ activated' = activated /\ trail # <<>>
  BY OpenTransaction DEF CommitFinal, PoolInv, modeVars
<1>2. Top.log \in Seq(Element) /\ UniqueIn(Top.log)
  BY <1>1, TopLogUnique
<1>3. CASE UNCHANGED undoVars
  BY <1>1, <1>3, ListsKept
<1>4. CASE ClearUndo
  BY <1>1, <1>4, ListsClear
<1>5. CASE /\ Top.log # <<>>
           /\ ~\E i \in 1..Len(Top.log) : CycleElement(Top.log[i])
           /\ InsertElement(Top.log)
  BY <1>1, <1>2, <1>5, UndoableLog, ListsInsert
<1> QED
  BY <1>3, <1>4, <1>5 DEF CommitFinal

\* Every step keeps the undo and redo lists and their buttons in order.
LEMMA ListsInvStep ==
  ASSUME UndoInv, [Next]_vars
  PROVE  ListsInv'
<1>0. TypeOK /\ OwnerIsOpen /\ ActualExists /\ PoolInv /\ SavedOnce /\ ListsInv
  BY DEF UndoInv, PoolInv
<1>1. ASSUME UNCHANGED undoVars, activated' = activated
      PROVE  ListsInv'
  BY <1>0, <1>1, ListsKept
<1>2. ASSUME NEW o \in Owner, Begin(o) \/ Commit(o) \/ Abort(o)
      PROVE  ListsInv'
  BY <1>1, <1>2 DEF Begin, Commit, Abort, modeVars
<1>3. CASE CommitElement \/ CommitInner \/ AbortPoint
  BY <1>1, <1>3 DEF CommitElement, CommitInner, AbortPoint, modeVars
<1>4. CASE CommitFinal
  BY <1>0, <1>4, ListsCommitFinal
<1>5. CASE RestoreItem \/ RestorePage \/ RestoreSwitch \/ RestoreNew \/ RestoreDelete
  <2>1. UNCHANGED undoVars /\ activated' = activated
    BY <1>5 DEF RestoreItem, RestorePage, RestoreSwitch, RestoreNew, RestoreDelete,
                Recovering, modeVars
  <2> QED
    BY <1>1, <2>1
<1>6. ASSUME NEW c \in Cell, ClearItem(c)
      PROVE  ListsInv'
  <2>1. activated' = activated /\ (SaveItem(c) \/ UNCHANGED undoVars)
    BY <1>6 DEF ClearItem, modeVars
  <2> QED
    BY <1>0, <1>1, <2>1, ListsSaveItem
<1>7. ASSUME NEW i \in 1..Len(cycles), NEW n \in Name, NEW v \in Value, Write(i, n, v)
      PROVE  ListsInv'
  <2>1. /\ SaveItem(CellOf(cycles[i], n)) /\ CellOf(cycles[i], n) \in Cell
        /\ activated' = activated
    BY <1>0, <1>7, CellOfTyped DEF Write, modeVars
  <2> QED
    BY <1>0, <2>1, ListsSaveItem
<1>8. ASSUME NEW f \in Folder, NEW p \in Page, SwitchPage(f, p)
      PROVE  ListsInv'
  <2> DEFINE el == [kind |-> "action", folder |-> f, to |-> page[f], from |-> p]
             e == <<el>>
  <2>1. el \in Undoable
    BY <1>0 DEF TypeOK, ActionEl, Undoable
  <2>2. e \in Seq(Undoable) /\ e # <<>> /\ UniqueIn(e)
    BY <2>1 DEF UniqueIn
  <2>3. activated' = activated /\ (UNCHANGED undoVars \/ InsertElement(e))
    BY <1>8 DEF SwitchPage, modeVars
  <2> HIDE DEF e
  <2> QED
    BY <1>0, <1>1, <2>2, <2>3, ListsInsert
<1>9. ASSUME \/ \E c \in Cycle : NewCycle(c)
             \/ \E i \in 1..Len(cycles) : SetCycle(i) \/ RemoveCycle(i)
      PROVE  ListsInv'
  <2>1. ClearUndo /\ activated' = activated
    BY <1>9 DEF NewCycle, SetCycle, RemoveCycle, modeVars
  <2> QED
    BY <1>0, <2>1, ListsClear
<1>10. CASE \/ \E i \in 1..Len(cycles) : ClearCycle(i)
            \/ UpdateForms \/ UpdateDone \/ DisallowUndo \/ AllowUndo \/ UNCHANGED vars
  BY <1>1, <1>10 DEF ClearCycle, UpdateForms, UpdateDone, DisallowUndo, AllowUndo,
                     vars, undoVars, modeVars
<1>11. CASE Undo \/ Redo
  BY <1>0, <1>11, ListsUndo, ListsRedo
<1>12. CASE Activate \/ EnableUndo
  BY <1>0, <1>12, ListsActivated
<1>13. CASE Step
  BY <1>3, <1>4, <1>5, <1>6, <1>10, <1>13 DEF Step
<1>14. CASE Call
  BY <1>2, <1>7, <1>8, <1>9, <1>10, <1>11, <1>12, <1>14 DEF Call
<1> QED
  BY <1>10, <1>13, <1>14 DEF Next

\* Recording is off from the start of a GUI update to its end.
LEMMA UpdateStep ==
  ASSUME TypeOK, UpdateRecordsNothing, [Next]_vars
  PROVE  UpdateRecordsNothing'
<1>1. ASSUME busy'.op # "update"
      PROVE  UpdateRecordsNothing'
  BY <1>1 DEF UpdateRecordsNothing
<1>2. ASSUME ~enabled'
      PROVE  UpdateRecordsNothing'
  BY <1>2 DEF UpdateRecordsNothing, IsEnabled
<1>3. ASSUME UNCHANGED <<busy, activated, enabled>>
      PROVE  UpdateRecordsNothing'
  BY <1>3 DEF UpdateRecordsNothing, IsEnabled
<1>4. ASSUME NEW o \in Owner, Begin(o) \/ Commit(o) \/ Abort(o)
      PROVE  UpdateRecordsNothing'
  <2>1. \/ UNCHANGED <<busy, activated, enabled>>
        \/ busy' = [Idle EXCEPT !.op = "commit", !.owner = o]
        \/ busy' = [Idle EXCEPT !.op = "abort", !.owner = o]
    BY <1>4 DEF Begin, Commit, Abort, LateEnd, modeVars
  <2> QED
    BY <1>1, <1>3, <2>1, LoopRecords DEF Ops
<1>5. CASE CommitElement \/ CommitInner \/ CommitFinal \/ AbortPoint
  <2>1. \/ UNCHANGED <<busy, activated, enabled>>
        \/ busy' = Idle
    BY <1>5 DEF CommitElement, CommitInner, CommitFinal, AbortPoint, AfterPoint, modeVars
  <2> QED
    BY <1>1, <1>3, <2>1, LoopRecords
<1>6. CASE RestoreItem \/ RestorePage \/ RestoreSwitch \/ RestoreNew \/ RestoreDelete
  <2>1. UNCHANGED <<busy, activated, enabled>>
    BY <1>6 DEF RestoreItem, RestorePage, RestoreSwitch, RestoreNew, RestoreDelete,
                Recovering, modeVars
  <2> QED
    BY <1>3, <2>1
<1>7. ASSUME NEW c \in Cell, ClearItem(c)
      PROVE  UpdateRecordsNothing'
  <2>1. busy' = Idle \/ busy'.op = "clear"
    BY <1>7 DEF ClearItem, TypeOK, Loop
  <2> QED
    BY <1>1, <2>1, LoopRecords
<1>8. CASE \/ \E i \in 1..Len(cycles), n \in Name, v \in Value : Write(i, n, v)
           \/ \E f \in Folder, p \in Page : SwitchPage(f, p)
           \/ \E c \in Cycle : NewCycle(c)
           \/ \E i \in 1..Len(cycles) : SetCycle(i) \/ RemoveCycle(i)
           \/ UNCHANGED vars
  <2>1. UNCHANGED <<busy, activated, enabled>>
    BY <1>8 DEF Write, SwitchPage, NewCycle, SetCycle, RemoveCycle, vars, modeVars
  <2> QED
    BY <1>3, <2>1
<1>9. ASSUME NEW i \in 1..Len(cycles), ClearCycle(i)
      PROVE  UpdateRecordsNothing'
  <2>1. busy'.op = "clear"
    BY <1>9 DEF ClearCycle, Idle
  <2> QED
    BY <1>1, <2>1
<1>10. CASE UpdateDone
  BY <1>1, <1>10, LoopRecords DEF UpdateDone
<1>11. CASE UpdateForms
  <2>1. IsEnabled => ~enabled'
    BY <1>11 DEF UpdateForms
  <2>2. ~IsEnabled => ~IsEnabled'
    BY <1>11 DEF UpdateForms, IsEnabled
  <2> QED
    BY <1>2, <2>1, <2>2 DEF UpdateRecordsNothing
<1>12. CASE Undo \/ Redo
  <2>1. ~enabled' \/ (busy' = busy /\ busy = Idle)
    BY <1>12 DEF Undo, Redo, GuardedUpdate, UserMayUndo
  <2> QED
    BY <1>1, <1>2, <2>1, LoopRecords
<1>13. CASE Activate \/ EnableUndo \/ DisallowUndo \/ AllowUndo
  <2>1. busy' = busy /\ busy = Idle
    BY <1>13 DEF Activate, EnableUndo, DisallowUndo, AllowUndo
  <2> QED
    BY <1>1, <2>1, LoopRecords
<1>14. CASE Step
  BY <1>5, <1>6, <1>7, <1>10, <1>14 DEF Step
<1>15. CASE Call
  BY <1>4, <1>8, <1>9, <1>11, <1>12, <1>13, <1>15 DEF Call
<1> QED
  BY <1>8, <1>14, <1>15 DEF Next

\* The inductive invariant holds in every reachable state.
LEMMA UndoInvariant == Spec => []UndoInv
<1>1. Init => UndoInv
  <2> SUFFICES ASSUME Init
               PROVE  UndoInv
    OBVIOUS
  <2>1. PoolInv
    BY PoolInvInit
  <2>2. undo = <<>> /\ redo = <<>> /\ ~activated /\ trail = <<>> /\ busy = Idle
    BY DEF Init
  <2>3. SavedOnce
    BY <2>2, Len(<<>>) = 0 DEF SavedOnce
  <2>4. ListsBounded /\ EntriesNotEmpty /\ EntriesUnique
    BY <2>2, BoundAssumption, Len(<<>>) = 0 DEF ListsBounded, EntriesNotEmpty, EntriesUnique
  <2>5. ButtonsTruthful /\ EmptyUnlessActivated
    BY <2>2 DEF ButtonsTruthful, EmptyUnlessActivated
  <2>6. UpdateRecordsNothing
    BY <2>2 DEF UpdateRecordsNothing, IsEnabled
  <2> QED
    BY <2>1, <2>3, <2>4, <2>5, <2>6 DEF UndoInv, ListsInv
<1>2. UndoInv /\ [Next]_vars => UndoInv'
  <2> SUFFICES ASSUME UndoInv, [Next]_vars
               PROVE  UndoInv'
    OBVIOUS
  <2>1. PoolInv' /\ SavedOnce'
    BY PoolInvStep, SavedOnceStep DEF UndoInv
  <2>2. ListsInv'
    BY ListsInvStep
  <2>3. UpdateRecordsNothing'
    BY UpdateStep DEF UndoInv, PoolInv
  <2> QED
    BY <2>1, <2>2, <2>3 DEF UndoInv
<1> QED
  BY <1>1, <1>2, PTL DEF Spec

\* The undo and redo lists together never hold more than MaxElements entries:
\* no undo or redo drops the entry it moves to the other list.
THEOREM ListsStayBounded == Spec => []ListsBounded
<1>1. UndoInv => ListsBounded
  BY DEF UndoInv, ListsInv
<1> QED
  BY <1>1, UndoInvariant, PTL

\* A transaction without changes leaves no entry: every entry the user can
\* undo or redo restores something.
THEOREM NoEmptyEntry == Spec => []EntriesNotEmpty
<1>1. UndoInv => EntriesNotEmpty
  BY DEF UndoInv, ListsInv
<1> QED
  BY <1>1, UndoInvariant, PTL

\* An entry holds every item once, so that the forward restore of
\* DataTTrailItemList exchanges each content exactly once.
THEOREM EntriesHoldItemsOnce == Spec => []EntriesUnique
<1>1. UndoInv => EntriesUnique
  BY DEF UndoInv, ListsInv
<1> QED
  BY <1>1, UndoInvariant, PTL

\* Both: every entry of the two lists restores something, and each item once.
THEOREM EntriesAreSound == Spec => []EntriesSound
<1>1. UndoInv => EntriesSound
  BY DEF UndoInv, ListsInv, EntriesSound
<1> QED
  BY <1>1, UndoInvariant, PTL

\* The undo and redo buttons are lit exactly when there is something to undo
\* or redo, although insertElement, clear, undo and redo tell them only of
\* changes.
THEOREM ButtonsTellTheTruth == Spec => []ButtonsTruthful
<1>1. UndoInv => ButtonsTruthful
  BY DEF UndoInv, ListsInv
<1> QED
  BY <1>1, UndoInvariant, PTL

\* What GUI updates write and what aborts restore never reaches the undo and
\* redo lists.
THEOREM UpdatesLeaveUndoAlone == Spec => UndoUntouched
<1> DEFINE Untouched == busy.op \in {"update", "abort"} => UNCHANGED <<undo, redo>>
<1>1. ASSUME UndoInv, [Next]_vars
      PROVE  Untouched
  <2> SUFFICES ASSUME busy.op \in {"update", "abort"}
               PROVE  undo' = undo /\ redo' = redo
    OBVIOUS
  <2>1. busy # Idle /\ busy.op \notin {"idle", "commit", "clear"}
    BY LoopRecords
  <2>2. ASSUME NEW c \in Cell, SaveItem(c), busy.op = "update"
        PROVE  undo' = undo /\ redo' = redo
    <3>1. ~IsEnabled
      BY <1>1, <2>2 DEF UndoInv, UpdateRecordsNothing
    <3> QED
      BY <2>2, <3>1 DEF SaveItem, InsertElement, undoVars
  <2>3. CASE RestoreItem \/ RestorePage \/ RestoreSwitch \/ RestoreNew \/ RestoreDelete
    <3>1. UNCHANGED undoVars
      BY <2>3 DEF RestoreItem, RestorePage, RestoreSwitch, RestoreNew, RestoreDelete,
                  Recovering
    <3> QED
      BY <3>1 DEF undoVars
  <2>4. CASE AbortPoint \/ UpdateDone \/ UNCHANGED vars
    BY <2>4 DEF AbortPoint, UpdateDone, undoVars, vars
  <2>5. ASSUME NEW i \in 1..Len(cycles), NEW n \in Name, NEW v \in Value, Write(i, n, v)
        PROVE  undo' = undo /\ redo' = redo
    <3>1. SaveItem(CellOf(cycles[i], n)) /\ busy.op = "update"
      BY <2>1, <2>5 DEF Write
    <3>2. CellOf(cycles[i], n) \in Cell
      BY <1>1, <2>5, CellOfTyped DEF UndoInv, PoolInv
    <3> QED
      BY <2>2, <3>1, <3>2
  <2>6. ~(CommitElement \/ CommitInner \/ CommitFinal \/ \E c \in Cell : ClearItem(c))
    BY <2>1 DEF CommitElement, CommitInner, CommitFinal, ClearItem
  <2>7. CASE Step
    BY <2>3, <2>4, <2>6, <2>7 DEF Step
  <2>8. CASE Call
    <3>1. ~\E o \in Owner : Begin(o) \/ Commit(o) \/ Abort(o)
      BY <2>1 DEF Begin, Commit, Abort
    <3>2. ~\E f \in Folder, p \in Page : SwitchPage(f, p)
      BY <2>1 DEF SwitchPage
    <3>3. ~\E c \in Cycle : NewCycle(c)
      BY <2>1 DEF NewCycle
    <3>4. ~\E i \in 1..Len(cycles) : SetCycle(i) \/ RemoveCycle(i) \/ ClearCycle(i)
      BY <2>1 DEF SetCycle, RemoveCycle, ClearCycle
    <3>5. ~(Undo \/ Redo \/ UpdateForms)
      BY <2>1 DEF Undo, Redo, UserMayUndo, UpdateForms
    <3>6. ~(Activate \/ EnableUndo \/ DisallowUndo \/ AllowUndo)
      BY <2>1 DEF Activate, EnableUndo, DisallowUndo, AllowUndo
    <3> QED
      BY <2>5, <2>8, <3>1, <3>2, <3>3, <3>4, <3>5, <3>6 DEF Call
  <2> QED
    BY <1>1, <2>4, <2>7, <2>8 DEF Next
<1>2. UndoInv /\ [Next]_vars => [Untouched]_vars
  BY <1>1
<1> QED
  BY <1>2, UndoInvariant, PTL DEF Spec, UndoUntouched

-----------------------------------------------------------------------------
(* The elements of the trail in order                                      *)

\* The trail t holds the element e.
OnTrail(t, e) == \E k \in 1..Len(t) : \E i \in 1..Len(t[k].log) : t[k].log[i] = e

\* No cycle is deleted twice, and an item was saved before a cycle was made
\* only if it belongs to another one.
Apart(e, f) ==
  /\ e.kind = "delete" /\ f.kind = "delete" => e.cycle # f.cycle
  /\ e.kind = "item" /\ f.kind = "new" => e.cell[1] # f.cycle

\* All elements are apart from those recorded later.
Ordered(t) ==
  \A k, m \in 1..Len(t) : \A i \in 1..Len(t[k].log), j \in 1..Len(t[m].log) :
    k < m \/ (k = m /\ i < j) => Apart(t[k].log[i], t[m].log[j])

\* A trail that has lost transactions without elements, or its last elements.
LEMMA OrderedPart ==
  ASSUME NEW t, NEW u, Ordered(t),
         \A k \in 1..Len(u) : \A i \in 1..Len(u[k].log) :
           k \in 1..Len(t) /\ i \in 1..Len(t[k].log) /\ u[k].log[i] = t[k].log[i]
  PROVE  Ordered(u) /\ \A f : OnTrail(u, f) => OnTrail(t, f)
<1>1. Ordered(u)
  BY DEF Ordered
<1>2. ASSUME NEW f, OnTrail(u, f)
      PROVE  OnTrail(t, f)
  BY <1>2 DEF OnTrail
<1> QED
  BY <1>1, <1>2

\* The empty trail.
LEMMA OrderedEmpty == Ordered(<<>>) /\ \A f : ~OnTrail(<<>>, f)
<1>1. 1..Len(<<>>) = {}
  BY Len(<<>>) = 0
<1> QED
  BY <1>1 DEF Ordered, OnTrail

\* A transaction begins, and one without elements ends.
LEMMA OrderedPush ==
  ASSUME NEW t \in Seq(Segment), NEW s \in Segment, s.log = <<>>, Ordered(t)
  PROVE  Ordered(Append(t, s)) /\ \A f : OnTrail(Append(t, s), f) <=> OnTrail(t, f)
<1> DEFINE u == Append(t, s)
<1>1. /\ Len(t) \in Nat /\ Len(u) = Len(t) + 1 /\ u[Len(t) + 1] = s
      /\ \A k \in 1..Len(t) : u[k] = t[k]
  OBVIOUS
<1> HIDE DEF u
<1>2. Len(u[Len(t) + 1].log) = 0
  BY <1>1, Len(<<>>) = 0
<1>3. ASSUME NEW k \in 1..Len(u), NEW i \in 1..Len(u[k].log)
      PROVE  k \in 1..Len(t) /\ i \in 1..Len(t[k].log) /\ u[k].log[i] = t[k].log[i]
  <2>1. k # Len(t) + 1
    BY <1>2
  <2>2. k \in 1..Len(t)
    BY <1>1, <2>1
  <2> QED
    BY <1>1, <2>2
<1>4. Ordered(u) /\ \A f : OnTrail(u, f) => OnTrail(t, f)
  BY <1>3, OrderedPart
<1>5. ASSUME NEW f, OnTrail(t, f)
      PROVE  OnTrail(u, f)
  <2>1. PICK k \in 1..Len(t) : \E i \in 1..Len(t[k].log) : t[k].log[i] = f
    BY <1>5 DEF OnTrail
  <2>2. k \in 1..Len(u) /\ u[k] = t[k]
    BY <1>1
  <2> QED
    BY <2>1, <2>2 DEF OnTrail
<1> QED
  BY <1>4, <1>5 DEF u

\* The innermost transaction, without elements, goes away.
LEMMA OrderedPop ==
  ASSUME NEW t \in Seq(Segment), t # <<>>, t[Len(t)].log = <<>>, Ordered(t)
  PROVE  Ordered(Front(t)) /\ \A f : OnTrail(Front(t), f) <=> OnTrail(t, f)
<1> DEFINE u == Front(t)
<1>1. /\ Len(t) \in Nat \ {0} /\ Len(u) = Len(t) - 1
      /\ \A k \in 1..(Len(t) - 1) : u[k] = t[k]
  BY FrontOfSeq, NonEmptySeq
<1> HIDE DEF u
<1>2. Len(t[Len(t)].log) = 0
  BY Len(<<>>) = 0
<1>3. \A k \in 1..Len(u) : k \in 1..Len(t) /\ u[k] = t[k]
  BY <1>1
<1>4. Ordered(u) /\ \A f : OnTrail(u, f) => OnTrail(t, f)
  BY <1>3, OrderedPart
<1>5. ASSUME NEW f, OnTrail(t, f)
      PROVE  OnTrail(u, f)
  <2>1. PICK k \in 1..Len(t) : \E i \in 1..Len(t[k].log) : t[k].log[i] = f
    BY <1>5 DEF OnTrail
  <2>2. k # Len(t)
    BY <1>2, <2>1
  <2>3. k \in 1..Len(u) /\ u[k] = t[k]
    BY <1>1, <2>2
  <2> QED
    BY <2>1, <2>3 DEF OnTrail
<1> QED
  BY <1>4, <1>5 DEF u

\* An element is recorded.
LEMMA OrderedGrow ==
  ASSUME NEW t \in Seq(Segment), t # <<>>, Ordered(t), NEW e \in Element,
         \A f : OnTrail(t, f) => Apart(f, e),
         NEW u \in Seq(Segment), Len(u) = Len(t),
         \A k \in 1..(Len(t) - 1) : u[k].log = t[k].log,
         u[Len(t)].log = Append(t[Len(t)].log, e)
  PROVE  Ordered(u) /\ \A f : OnTrail(u, f) <=> OnTrail(t, f) \/ f = e
<1> DEFINE l == Len(t)
           log == t[l].log
<1>1. l \in Nat \ {0} /\ l \in 1..l /\ Len(u) = l
  BY NonEmptySeq
<1>2. log \in Seq(Element)
  BY <1>1, SegmentFields
<1> HIDE DEF log
<1>3. /\ Len(log) \in Nat /\ Len(u[l].log) = Len(log) + 1
      /\ \A i \in 1..Len(log) : u[l].log[i] = log[i]
      /\ u[l].log[Len(log) + 1] = e
  <2>1. u[l].log = Append(log, e)
    BY DEF log
  <2> QED
    BY <1>2, <2>1, AppendedSeq
<1> HIDE DEF l
<1> DEFINE Old(k, i) == k \in 1..l /\ i \in 1..Len(t[k].log) /\ u[k].log[i] = t[k].log[i]
           New(k, i) == k = l /\ i = Len(log) + 1 /\ u[k].log[i] = e
<1>4. ASSUME NEW k \in 1..l, NEW i \in 1..Len(u[k].log)
      PROVE  Old(k, i) \/ New(k, i)
  <2>1. CASE k # l
    <3>1. k \in 1..(l - 1)
      BY <1>1, <2>1
    <3> QED
      BY <3>1 DEF l
  <2>2. CASE k = l
    <3>1. i \in 1..(Len(log) + 1)
      BY <1>3, <2>2
    <3>2. i \in 1..Len(log) \/ i = Len(log) + 1
      BY <1>3, <3>1
    <3> QED
      BY <1>3, <2>2, <3>2 DEF log
  <2> QED
    BY <2>1, <2>2
<1>5. ASSUME NEW k \in 1..l, NEW m \in 1..l,
             NEW i \in 1..Len(u[k].log), NEW j \in 1..Len(u[m].log),
             k < m \/ (k = m /\ i < j)
      PROVE  Apart(u[k].log[i], u[m].log[j])
  <2>1. CASE Old(k, i) /\ Old(m, j)
    <3>1. Apart(t[k].log[i], t[m].log[j])
      BY <1>5, <2>1 DEF Ordered, l
    <3> QED
      BY <2>1, <3>1
  <2>2. CASE Old(k, i) /\ New(m, j)
    <3>1. OnTrail(t, t[k].log[i])
      BY <2>2 DEF OnTrail, l
    <3> QED
      BY <2>2, <3>1
  <2>3. CASE New(k, i)
    <3>1. m = l /\ i < j /\ j \in 1..(Len(log) + 1)
      BY <1>1, <1>3, <1>5, <2>3
    <3> QED
      BY <1>3, <2>3, <3>1
  <2> QED
    BY <1>4, <2>1, <2>2, <2>3
<1>6. Ordered(u)
  BY <1>1, <1>5 DEF Ordered
<1>7. ASSUME NEW f, OnTrail(u, f)
      PROVE  OnTrail(t, f) \/ f = e
  <2>1. PICK k \in 1..l : \E i \in 1..Len(u[k].log) : u[k].log[i] = f
    BY <1>1, <1>7 DEF OnTrail
  <2>2. PICK i \in 1..Len(u[k].log) : u[k].log[i] = f
    BY <2>1
  <2>3. CASE Old(k, i)
    BY <2>2, <2>3 DEF OnTrail, l
  <2> QED
    BY <1>4, <2>2, <2>3
<1>8. ASSUME NEW f, OnTrail(t, f)
      PROVE  OnTrail(u, f)
  <2>1. PICK k \in 1..l : \E i \in 1..Len(t[k].log) : t[k].log[i] = f
    BY <1>8 DEF OnTrail, l
  <2>2. PICK i \in 1..Len(t[k].log) : t[k].log[i] = f
    BY <2>1
  <2>3. i \in 1..Len(u[k].log) /\ u[k].log[i] = t[k].log[i]
    <3>1. CASE k # l
      <4>1. k \in 1..(l - 1)
        BY <1>1, <3>1
      <4> QED
        BY <4>1 DEF l
    <3>2. CASE k = l
      <4>1. i \in 1..Len(log)
        BY <3>2 DEF log
      <4> QED
        BY <1>3, <3>2, <4>1 DEF log
    <3> QED
      BY <3>1, <3>2
  <2> QED
    BY <1>1, <2>2, <2>3 DEF OnTrail
<1>9. OnTrail(u, e)
  <2>1. Len(log) + 1 \in 1..Len(u[l].log)
    BY <1>3
  <2> QED
    BY <1>1, <1>3, <2>1 DEF OnTrail
<1> QED
  BY <1>6, <1>7, <1>8, <1>9

\* The newest element is dropped.
LEMMA OrderedShrink ==
  ASSUME NEW t \in Seq(Segment), t # <<>>, t[Len(t)].log # <<>>, Ordered(t),
         NEW u \in Seq(Segment), Len(u) = Len(t),
         \A k \in 1..(Len(t) - 1) : u[k].log = t[k].log,
         u[Len(t)].log = Front(t[Len(t)].log)
  PROVE  /\ Ordered(u)
         /\ \A f : OnTrail(t, f) <=> OnTrail(u, f) \/ f = Last(t[Len(t)].log)
         /\ \A f : OnTrail(u, f) => Apart(f, Last(t[Len(t)].log))
<1> DEFINE l == Len(t)
           log == t[l].log
<1>0. PICK e : e = Last(t[Len(t)].log)
  OBVIOUS
<1>1. l \in Nat \ {0} /\ l \in 1..l /\ Len(u) = l
  BY NonEmptySeq
<1>2. log \in Seq(Element)
  BY <1>1, SegmentFields
<1>3. /\ Len(log) \in Nat \ {0} /\ Len(u[l].log) = Len(log) - 1
      /\ \A i \in 1..(Len(log) - 1) : u[l].log[i] = log[i]
      /\ e = log[Len(log)]
  <2>1. u[l].log = Front(log) /\ log # <<>> /\ e = Last(log)
    BY <1>0
  <2> HIDE DEF log, l
  <2>2. /\ Len(log) \in Nat \ {0}
        /\ Last(log) = log[Len(log)]
        /\ Len(Front(log)) = Len(log) - 1
        /\ \A i \in 1..(Len(log) - 1) : Front(log)[i] = log[i]
    BY <1>2, <2>1, FrontOfSeq, NonEmptySeq
  <2> QED
    BY <2>1, <2>2
<1> HIDE DEF log, l
<1>4. ASSUME NEW k \in 1..Len(u), NEW i \in 1..Len(u[k].log)
      PROVE  /\ k \in 1..l /\ i \in 1..Len(t[k].log) /\ u[k].log[i] = t[k].log[i]
             /\ k < l \/ (k = l /\ i < Len(log))
  <2>1. CASE k # l
    <3>1. k \in 1..(l - 1) /\ k < l
      BY <1>1, <2>1
    <3> QED
      BY <1>1, <3>1 DEF l
  <2>2. CASE k = l
    <3>1. i \in 1..(Len(log) - 1) /\ i < Len(log) /\ i \in 1..Len(log)
      BY <1>3, <2>2
    <3> QED
      BY <1>1, <1>3, <2>2, <3>1 DEF log
  <2> QED
    BY <2>1, <2>2
<1>5. Ordered(u) /\ \A f : OnTrail(u, f) => OnTrail(t, f)
  <2>1. \A k \in 1..Len(u) : \A i \in 1..Len(u[k].log) :
          k \in 1..Len(t) /\ i \in 1..Len(t[k].log) /\ u[k].log[i] = t[k].log[i]
    BY <1>4 DEF l
  <2> QED
    BY <2>1, OrderedPart
<1>6. Len(log) \in 1..Len(log)
  BY <1>3
<1>7. OnTrail(t, e)
  BY <1>1, <1>3, <1>6 DEF OnTrail, l, log
<1>8. ASSUME NEW f, OnTrail(t, f)
      PROVE  OnTrail(u, f) \/ f = e
  <2>1. PICK k \in 1..l : \E i \in 1..Len(t[k].log) : t[k].log[i] = f
    BY <1>8 DEF OnTrail, l
  <2>2. PICK i \in 1..Len(t[k].log) : t[k].log[i] = f
    BY <2>1
  <2>3. CASE k # l
    <3>1. k \in 1..(l - 1)
      BY <1>1, <2>3
    <3>2. u[k].log = t[k].log
      BY <3>1 DEF l
    <3> QED
      BY <1>1, <2>2, <3>2 DEF OnTrail
  <2>4. CASE k = l
    <3>1. i \in 1..(Len(log) - 1) \/ i = Len(log)
      BY <1>3, <2>4 DEF log
    <3>2. CASE i \in 1..(Len(log) - 1)
      <4>1. i \in 1..Len(u[l].log) /\ u[l].log[i] = f
        BY <1>3, <2>2, <2>4, <3>2 DEF log
      <4> QED
        BY <1>1, <4>1 DEF OnTrail
    <3>3. CASE i = Len(log)
      BY <1>3, <2>2, <2>4, <3>3 DEF log
    <3> QED
      BY <3>1, <3>2, <3>3
  <2> QED
    BY <2>3, <2>4
<1>9. ASSUME NEW f, OnTrail(u, f)
      PROVE  Apart(f, e)
  <2>1. PICK k \in 1..Len(u) : \E i \in 1..Len(u[k].log) : u[k].log[i] = f
    BY <1>9 DEF OnTrail
  <2>2. PICK i \in 1..Len(u[k].log) : u[k].log[i] = f
    BY <2>1
  <2>3. /\ k \in 1..l /\ i \in 1..Len(t[k].log) /\ f = t[k].log[i]
        /\ k < l \/ (k = l /\ i < Len(log))
    BY <1>4, <2>2
  <2>4. Len(log) \in 1..Len(t[l].log) /\ e = t[l].log[Len(log)]
    BY <1>3, <1>6 DEF log
  <2>5. Apart(t[k].log[i], t[l].log[Len(log)])
    BY <1>1, <2>3, <2>4 DEF Ordered, l
  <2> QED
    BY <2>3, <2>4, <2>5
<1> QED
  BY <1>0, <1>5, <1>7, <1>8, <1>9

\* The oldest element of the innermost transaction goes to the enclosing one,
\* or an item is dropped.
LEMMA OrderedMove ==
  ASSUME NEW t \in Seq(Segment), Len(t) > 1, t[Len(t)].log # <<>>, Ordered(t),
         NEW u \in Seq(Segment), Len(u) = Len(t),
         \A k \in 1..(Len(t) - 2) : u[k].log = t[k].log,
         u[Len(t)].log = Tail(t[Len(t)].log),
         \/ u[Len(t) - 1].log = Append(t[Len(t) - 1].log, Head(t[Len(t)].log))
         \/ /\ u[Len(t) - 1].log = t[Len(t) - 1].log
            /\ Head(t[Len(t)].log).kind = "item"
  PROVE  /\ Ordered(u)
         /\ \A f : OnTrail(u, f) => OnTrail(t, f)
         /\ \A f : OnTrail(t, f) => OnTrail(u, f) \/ f.kind = "item"
<1> DEFINE l == Len(t)
           o == l - 1
           log == t[l].log
           outer == t[o].log
           moved == Head(log)
<1>1. l \in Nat \ {0} /\ l \in 1..l /\ o \in 1..l /\ o \in Nat /\ o + 1 = l /\ o # l
      /\ o < l /\ l - 2 \in Nat /\ Len(u) = l
  OBVIOUS
<1>2. log \in Seq(Element) /\ outer \in Seq(Element) /\ log # <<>>
  BY <1>1, SegmentFields
<1>3. /\ u[l].log = Tail(log)
      /\ u[o].log = Append(outer, moved) \/ (u[o].log = outer /\ moved.kind = "item")
  OBVIOUS
<1>4. \A k \in 1..l : k = l \/ k = o \/ (k \in 1..(l - 2) /\ k < o /\ u[k].log = t[k].log)
  BY <1>1
<1> HIDE DEF log, outer
<1>5. /\ Len(log) \in Nat \ {0} /\ 1 \in 1..Len(log) /\ moved = log[1] /\ moved \in Element
      /\ Len(u[l].log) = Len(log) - 1
      /\ \A i \in 1..(Len(log) - 1) : u[l].log[i] = log[i + 1] /\ i + 1 \in 1..Len(log)
  <2>1. /\ Len(log) \in Nat \ {0} /\ moved = log[1] /\ moved \in Element
        /\ Len(Tail(log)) = Len(log) - 1
        /\ \A i \in 1..(Len(log) - 1) : Tail(log)[i] = log[i + 1]
    BY <1>2, TailedSeq, TailOfSeq
  <2>2. 1 \in 1..Len(log) /\ \A i \in 1..(Len(log) - 1) : i + 1 \in 1..Len(log)
    BY <2>1
  <2> QED
    BY <1>3, <2>1, <2>2
<1> HIDE DEF moved
<1>6. /\ Len(outer) \in Nat
      /\ Len(u[o].log) = Len(outer) \/ (Len(u[o].log) = Len(outer) + 1 /\ u[o].log[Len(outer) + 1] = moved)
      /\ \A i \in 1..Len(outer) : i \in 1..Len(u[o].log) /\ u[o].log[i] = outer[i]
  <2>1. CASE u[o].log = Append(outer, moved)
    <3>1. \A i \in 1..Len(outer) : i \in 1..(Len(outer) + 1)
      BY <1>2
    <3> QED
      BY <1>2, <1>5, <2>1, <3>1, AppendedSeq
  <2>2. CASE u[o].log = outer
    BY <1>2, <2>2
  <2> QED
    BY <1>3, <2>1, <2>2
<1> HIDE DEF l, o
<1> DEFINE Old(k, i) == k \in 1..o /\ i \in 1..Len(t[k].log) /\ u[k].log[i] = t[k].log[i]
           New(k, i) == k = o /\ i = Len(outer) + 1 /\ u[k].log[i] = log[1]
           Inner(k, i) == k = l /\ i + 1 \in 1..Len(log) /\ u[k].log[i] = log[i + 1]
<1>7. ASSUME NEW k \in 1..l, NEW i \in 1..Len(u[k].log)
      PROVE  Old(k, i) \/ New(k, i) \/ Inner(k, i)
  <2>1. CASE k = l
    BY <1>5, <2>1
  <2>2. CASE k = o
    <3>1. i \in 1..Len(outer) \/ (i = Len(outer) + 1 /\ u[o].log[Len(outer) + 1] = moved)
      BY <1>6, <2>2
    <3>2. o \in 1..o
      BY <1>1
    <3> QED
      BY <1>5, <1>6, <2>2, <3>1, <3>2 DEF outer
  <2>3. CASE k \in 1..(l - 2) /\ k < o /\ u[k].log = t[k].log
    <3>1. k \in 1..o
      BY <1>1, <2>3
    <3> QED
      BY <2>3, <3>1
  <2> QED
    BY <1>4, <2>1, <2>2, <2>3
<1> DEFINE Pair(k, i, m, j) ==
             /\ k \in 1..l /\ m \in 1..l
             /\ i \in 1..Len(t[k].log) /\ j \in 1..Len(t[m].log)
             /\ k < m \/ (k = m /\ i < j)
<1>8. ASSUME NEW k, NEW i, NEW m, NEW j, Pair(k, i, m, j)
      PROVE  Apart(t[k].log[i], t[m].log[j])
  BY <1>8 DEF Ordered, l
<1>9. ASSUME NEW k \in 1..l, NEW m \in 1..l,
             NEW i \in 1..Len(u[k].log), NEW j \in 1..Len(u[m].log),
             k < m \/ (k = m /\ i < j)
      PROVE  Apart(u[k].log[i], u[m].log[j])
  <2>0. k \in Nat /\ m \in Nat /\ k <= l /\ m <= l
        /\ \A n \in 1..o : n \in 1..l /\ n < l
    BY <1>1
  <2>1. CASE Old(k, i) /\ Old(m, j)
    BY <1>8, <1>9, <2>0, <2>1
  <2>2. CASE Old(k, i) /\ New(m, j)
    <3>1. Pair(k, i, l, 1)
      BY <1>1, <1>5, <2>0, <2>2 DEF log
    <3>2. Apart(t[k].log[i], t[l].log[1])
      BY <1>8, <3>1
    <3> QED
      BY <2>2, <3>2 DEF log
  <2>3. CASE Old(k, i) /\ Inner(m, j)
    <3>1. Pair(k, i, l, j + 1)
      BY <1>1, <2>0, <2>3 DEF log
    <3> QED
      BY <1>8, <2>3, <3>1 DEF log
  <2>4. CASE New(k, i) /\ (Old(m, j) \/ New(m, j))
    <3>1. m = o /\ i < j
      BY <1>1, <1>9, <2>0, <2>4
    <3>2. j \in 1..(Len(outer) + 1)
      BY <1>6, <3>1
    <3> QED
      BY <1>6, <2>4, <3>1, <3>2
  <2>5. CASE New(k, i) /\ Inner(m, j)
    <3>1. j \in Nat /\ 1 < j + 1
      <4>1. j \in 1..(Len(log) - 1)
        BY <1>5, <2>5
      <4> QED
        BY <1>5, <4>1
    <3>2. Pair(l, 1, l, j + 1)
      BY <1>1, <1>5, <2>5, <3>1 DEF log
    <3>3. Apart(t[l].log[1], t[l].log[j + 1])
      BY <1>8, <3>2
    <3> QED
      BY <2>5, <3>3 DEF log
  <2>6. CASE Inner(k, i)
    <3>1. m = l /\ i < j
      BY <1>1, <1>9, <2>0, <2>6
    <3>2. i \in 1..(Len(log) - 1) /\ j \in 1..(Len(log) - 1)
      BY <1>5, <2>6, <3>1
    <3>3. i + 1 < j + 1 /\ u[m].log[j] = log[j + 1] /\ j + 1 \in 1..Len(log)
      BY <1>5, <3>1, <3>2
    <3>4. Pair(l, i + 1, l, j + 1)
      BY <1>1, <2>6, <3>3 DEF log
    <3> QED
      BY <1>8, <2>6, <3>3, <3>4 DEF log
  <2> QED
    BY <1>7, <2>1, <2>2, <2>3, <2>4, <2>5, <2>6
<1>10. Ordered(u)
  BY <1>1, <1>9 DEF Ordered
<1>11. ASSUME NEW f, OnTrail(u, f)
       PROVE  OnTrail(t, f)
  <2>1. PICK k \in 1..l : \E i \in 1..Len(u[k].log) : u[k].log[i] = f
    BY <1>1, <1>11 DEF OnTrail
  <2>2. PICK i \in 1..Len(u[k].log) : u[k].log[i] = f
    BY <2>1
  <2>3. CASE Old(k, i)
    <3>1. k \in 1..l
      OBVIOUS
    <3> QED
      BY <2>2, <2>3, <3>1 DEF OnTrail, l
  <2>4. CASE New(k, i)
    BY <1>1, <1>5, <2>2, <2>4 DEF OnTrail, l, log
  <2>5. CASE Inner(k, i)
    BY <1>1, <2>2, <2>5 DEF OnTrail, l, log
  <2> QED
    BY <1>7, <2>3, <2>4, <2>5
<1>12. ASSUME NEW f, OnTrail(t, f)
       PROVE  OnTrail(u, f) \/ f.kind = "item"
  <2>1. PICK k \in 1..l : \E i \in 1..Len(t[k].log) : t[k].log[i] = f
    BY <1>12 DEF OnTrail, l
  <2>2. PICK i \in 1..Len(t[k].log) : t[k].log[i] = f
    BY <2>1
  <2>3. CASE k = l /\ i # 1
    <3>1. i \in 1..Len(log) /\ log[i] = f
      BY <2>2, <2>3 DEF log
    <3>2. i - 1 \in 1..(Len(log) - 1) /\ (i - 1) + 1 = i
      BY <1>5, <2>3, <3>1
    <3>3. i - 1 \in 1..Len(u[l].log) /\ u[l].log[i - 1] = f
      BY <1>5, <3>1, <3>2
    <3> QED
      BY <1>1, <3>3 DEF OnTrail
  <2>4. CASE k = l /\ i = 1
    <3>1. f = moved
      BY <1>5, <2>2, <2>4 DEF log
    <3>2. CASE u[o].log = Append(outer, moved)
      <4>1. Len(outer) + 1 \in 1..Len(u[o].log) /\ u[o].log[Len(outer) + 1] = moved
        BY <1>2, <1>5, <3>2
      <4> QED
        BY <1>1, <3>1, <4>1 DEF OnTrail
    <3> QED
      BY <1>3, <3>1, <3>2
  <2>5. CASE k = o
    <3>1. i \in 1..Len(outer) /\ outer[i] = f
      BY <2>2, <2>5 DEF outer
    <3> QED
      BY <1>1, <1>6, <3>1 DEF OnTrail
  <2>6. CASE u[k].log = t[k].log
    BY <1>1, <2>2, <2>6 DEF OnTrail
  <2> QED
    BY <1>4, <2>3, <2>4, <2>5, <2>6
<1> QED
  BY <1>10, <1>11, <1>12

-----------------------------------------------------------------------------
(* The cycles that the elements speak of                                   *)

\* The trail t holds the cycle c in a delete element.
Holding(t, c) == \E d : OnTrail(t, d) /\ d.kind = "delete" /\ d.cycle = c

\* With the cycles cs in the pool no cycle of the trail t is lost, and none is
\* both in the pool and held.
Known(t, cs) ==
  /\ Ordered(t)
  /\ \A c \in cs : ~Holding(t, c)
  /\ \A e : OnTrail(t, e) /\ e.kind = "item" =>
       e.cell[1] \in cs \cup {NoCycle} \/ Holding(t, e.cell[1])

\* A trail without elements knows all cycles.
LEMMA KnownEmpty ==
  ASSUME NEW cs
  PROVE  Known(<<>>, cs)
BY OrderedEmpty DEF Known, Holding

\* A trail that lost elements, none of them a deleted cycle.
LEMMA KnownPart ==
  ASSUME NEW t, NEW cs, Known(t, cs), NEW u, Ordered(u),
         \A f : OnTrail(u, f) => OnTrail(t, f),
         \A f : OnTrail(t, f) => OnTrail(u, f) \/ f.kind # "delete"
  PROVE  Known(u, cs)
<1>1. \A c : Holding(u, c) <=> Holding(t, c)
  BY DEF Holding
<1> QED
  BY <1>1 DEF Known

\* An element is recorded that leaves the cycles as they are.
LEMMA KnownGrow ==
  ASSUME NEW t, NEW cs, Known(t, cs), NEW u, Ordered(u),
         NEW e, e.kind \notin {"new", "delete"},
         e.kind = "item" => e.cell[1] \in cs \cup {NoCycle},
         \A f : OnTrail(u, f) <=> OnTrail(t, f) \/ f = e
  PROVE  Known(u, cs)
<1>1. \A c : Holding(u, c) <=> Holding(t, c)
  BY DEF Holding
<1> QED
  BY <1>1 DEF Known

\* A new cycle is recorded.
LEMMA KnownNew ==
  ASSUME NEW t, NEW cs, Known(t, cs), NEW u, Ordered(u),
         NEW e, e.kind = "new", NEW c, ~Holding(t, c),
         \A f : OnTrail(u, f) <=> OnTrail(t, f) \/ f = e,
         NEW cr, \A d : d \in cr <=> d \in cs \/ d = c
  PROVE  Known(u, cr)
<1>1. \A d : Holding(u, d) <=> Holding(t, d)
  BY DEF Holding
<1>2. \A d \in cr : ~Holding(u, d)
  BY <1>1 DEF Known
<1>3. \A f : OnTrail(u, f) /\ f.kind = "item" =>
        f.cell[1] \in cr \cup {NoCycle} \/ Holding(u, f.cell[1])
  BY <1>1 DEF Known
<1> QED
  BY <1>2, <1>3 DEF Known

\* A new cycle is taken back.
LEMMA KnownRestoreNew ==
  ASSUME NEW t, NEW cs, Known(t, cs), NEW u, Ordered(u),
         NEW e, e.kind = "new",
         \A f : OnTrail(t, f) <=> OnTrail(u, f) \/ f = e,
         \A f : OnTrail(u, f) => Apart(f, e),
         NEW cr, \A d : d \in cs <=> d \in cr \/ d = e.cycle
  PROVE  Known(u, cr)
<1>1. \A d : Holding(u, d) <=> Holding(t, d)
  BY DEF Holding
<1>2. \A d \in cr : ~Holding(u, d)
  BY <1>1 DEF Known
<1>3. \A f : OnTrail(u, f) /\ f.kind = "item" =>
        f.cell[1] \in cr \cup {NoCycle} \/ Holding(u, f.cell[1])
  BY <1>1 DEF Known, Apart
<1> QED
  BY <1>2, <1>3 DEF Known

\* A deleted cycle is brought back.
LEMMA KnownRestoreDelete ==
  ASSUME NEW t, NEW cs, Known(t, cs), NEW u, Ordered(u),
         NEW e, e.kind = "delete",
         \A f : OnTrail(t, f) <=> OnTrail(u, f) \/ f = e,
         \A f : OnTrail(u, f) => Apart(f, e),
         NEW cr, \A d : d \in cr <=> d \in cs \/ d = e.cycle
  PROVE  Known(u, cr)
<1>1. \A d : Holding(t, d) <=> Holding(u, d) \/ d = e.cycle
  BY DEF Holding
<1>2. ~Holding(u, e.cycle)
  BY DEF Holding, Apart
<1>3. \A d \in cr : ~Holding(u, d)
  BY <1>1, <1>2 DEF Known
<1>4. \A f : OnTrail(u, f) /\ f.kind = "item" =>
        f.cell[1] \in cr \cup {NoCycle} \/ Holding(u, f.cell[1])
  BY <1>1 DEF Known
<1> QED
  BY <1>3, <1>4 DEF Known

-----------------------------------------------------------------------------
(* The inductive invariant of the cycles                                   *)

\* The items of a log belong to the cycles cs or to all.
Within(log, cs) ==
  \A i \in 1..Len(log) : log[i].kind = "item" => log[i].cell[1] \in cs \cup {NoCycle}
ListWithin(list, cs) == \A i \in 1..Len(list) : Within(list[i], cs)

\* The inductive invariant of the cycles: what the trail, the lists and the
\* running ClearCycle speak of.  A change of the cycles on the trail has
\* emptied the lists, so that an abort restores no cycle under an entry.
TrailKnown == IsInjective(cycles) /\ Known(trail, ToSet(cycles))
ListsKnown == ListWithin(undo, ToSet(cycles)) /\ ListWithin(redo, ToSet(cycles))
NoUndoAcross ==
  (\E e : OnTrail(trail, e) /\ CycleElement(e)) => undo = <<>> /\ redo = <<>>
TodoKnown ==
  busy.op = "clear" => \A c \in busy.todo : c[1] \in ToSet(cycles) \cup {NoCycle}

CyclesInv == UndoInv /\ TrailKnown /\ ListsKnown /\ NoUndoAcross /\ TodoKnown

\* HeldCycles are the cycles held in delete elements.
LEMMA HeldIsHolding == \A c : c \in HeldCycles <=> Holding(trail, c)
<1>1. ASSUME NEW c, c \in HeldCycles
      PROVE  Holding(trail, c)
  <2>1. PICK k \in 1..Len(trail) : c \in Held(trail[k].log)
    BY <1>1 DEF HeldCycles
  <2>2. PICK i \in 1..Len(trail[k].log) : trail[k].log[i].kind = "delete" /\ c = trail[k].log[i].cycle
    BY <2>1 DEF Held
  <2>3. OnTrail(trail, trail[k].log[i])
    BY DEF OnTrail
  <2> QED
    BY <2>2, <2>3 DEF Holding
<1>2. ASSUME NEW c, Holding(trail, c)
      PROVE  c \in HeldCycles
  <2>1. PICK d : OnTrail(trail, d) /\ d.kind = "delete" /\ d.cycle = c
    BY <1>2 DEF Holding
  <2>2. PICK k \in 1..Len(trail) : \E i \in 1..Len(trail[k].log) : trail[k].log[i] = d
    BY <2>1 DEF OnTrail
  <2>3. c \in Held(trail[k].log)
    BY <2>1, <2>2 DEF Held
  <2> QED
    BY <2>3 DEF HeldCycles
<1> QED
  BY <1>1, <1>2

\* What is recorded comes after all elements of the trail.
LEMMA OrderedRecord ==
  ASSUME TypeOK, trail # <<>>, Ordered(trail), NEW e \in Element,
         \A f : OnTrail(trail, f) => Apart(f, e), trail' = Record(e)
  PROVE  Ordered(trail') /\ \A f : OnTrail(trail', f) <=> OnTrail(trail, f) \/ f = e
<1>1. /\ trail \in Seq(Segment) /\ Top = trail[Len(trail)] /\ Top \in Segment
      /\ Top.log \in Seq(Element)
  BY TopInTrail DEF TypeOK, Top
<1>2. Append(Top.log, e) \in Seq(Element)
  BY <1>1
<1>3. /\ trail' \in Seq(Segment)
      /\ Len(trail') = Len(trail)
      /\ \A k \in 1..(Len(trail) - 1) : trail'[k] = trail[k]
      /\ trail'[Len(trail)] = [Top EXCEPT !.log = Append(Top.log, e)]
  BY <1>2, WithTopLogTyped DEF Record
<1>4. trail'[Len(trail)].log = Append(trail[Len(trail)].log, e)
  BY <1>1, <1>3 DEF Segment
<1>5. \A k \in 1..(Len(trail) - 1) : trail'[k].log = trail[k].log
  BY <1>3
<1> QED
  BY <1>1, <1>3, <1>4, <1>5, OrderedGrow

\* An abort drops the newest element.
LEMMA OrderedDrop ==
  ASSUME TypeOK, trail # <<>>, Top.log # <<>>, Ordered(trail), trail' = DropNewest
  PROVE  /\ Ordered(trail')
         /\ OnTrail(trail, Newest)
         /\ \A f : OnTrail(trail, f) <=> OnTrail(trail', f) \/ f = Newest
         /\ \A f : OnTrail(trail', f) => Apart(f, Newest)
<1>1. trail \in Seq(Segment) /\ Top = trail[Len(trail)] /\ Top \in Segment
  BY TopInTrail DEF TypeOK, Top
<1>2. /\ trail' \in Seq(Segment)
      /\ Len(trail') = Len(trail)
      /\ \A k \in 1..(Len(trail) - 1) : trail'[k] = trail[k]
      /\ trail'[Len(trail)] = [Top EXCEPT !.log = Front(Top.log)]
  BY DropNewestTyped
<1>3. trail'[Len(trail)].log = Front(trail[Len(trail)].log)
  BY <1>1, <1>2 DEF Segment
<1>4. \A k \in 1..(Len(trail) - 1) : trail'[k].log = trail[k].log
  BY <1>2
<1>5. Newest = Last(trail[Len(trail)].log) /\ trail[Len(trail)].log # <<>>
  BY <1>1 DEF Newest
<1>6. /\ Ordered(trail')
      /\ \A f : OnTrail(trail, f) <=> OnTrail(trail', f) \/ f = Newest
      /\ \A f : OnTrail(trail', f) => Apart(f, Newest)
  BY <1>1, <1>2, <1>3, <1>4, <1>5, OrderedShrink
<1> QED
  BY <1>6

\* A clear empties both lists, activated or not.
LEMMA ClearedLists ==
  ASSUME ListsInv, ClearUndo
  PROVE  undo' = <<>> /\ redo' = <<>>
BY DEF ClearUndo, ListsInv, EmptyUnlessActivated, undoVars

\* The cell that an existing cycle gives to a name.
LEMMA CellOfLiving ==
  ASSUME TypeOK, NEW i \in 1..Len(cycles), NEW n
  PROVE  CellOf(cycles[i], n)[1] \in ToSet(cycles) \cup {NoCycle}
<1>1. cycles[i] \in ToSet(cycles)
  BY SetOf DEF TypeOK
<1> QED
  BY <1>1 DEF CellOf

-----------------------------------------------------------------------------
(* No step loses a cycle of the trail                                      *)

\* The cycles stay, and a change of them is no news on the trail.
NoChange ==
  /\ cycles' = cycles
  /\ \A e : OnTrail(trail', e) /\ CycleElement(e) => OnTrail(trail, e)

\* saveDataItem records items of existing cycles.
LEMMA KnownSaveItem ==
  ASSUME TypeOK, TrailKnown, NEW c \in Cell, c[1] \in ToSet(cycles) \cup {NoCycle},
         SaveItem(c), cycles' = cycles
  PROVE  TrailKnown' /\ NoChange
<1> DEFINE e == Item(c)
<1>1. e \in Element /\ e.kind = "item" /\ e.cell = c
  BY DEF TypeOK, Item, ItemEl, Undoable, Element
<1>2. trail' = trail \/ (trail # <<>> /\ trail' = Record(e))
  BY DEF SaveItem, InTransaction
<1> HIDE DEF e
<1>3. CASE trail' = trail
  BY <1>3 DEF TrailKnown, NoChange
<1>4. CASE trail # <<>> /\ trail' = Record(e)
  <2>1. \A f : OnTrail(trail, f) => Apart(f, e)
    BY <1>1 DEF Apart
  <2>2. Ordered(trail') /\ \A f : OnTrail(trail', f) <=> OnTrail(trail, f) \/ f = e
    BY <1>1, <1>4, <2>1, OrderedRecord DEF TrailKnown, Known
  <2>3. Known(trail', ToSet(cycles))
    BY <1>1, <2>2, KnownGrow DEF TrailKnown
  <2> QED
    BY <1>1, <2>2, <2>3 DEF TrailKnown, NoChange, CycleElement
<1> QED
  BY <1>2, <1>3, <1>4

\* An element that tells nothing of a cycle is recorded.
LEMMA KnownRecord ==
  ASSUME TypeOK, TrailKnown, NEW e \in Element, e.kind \in {"action", "switch"},
         trail' = trail \/ (trail # <<>> /\ trail' = Record(e)), cycles' = cycles
  PROVE  /\ TrailKnown'
         /\ \A f : OnTrail(trail', f) => OnTrail(trail, f) \/ f = e
<1>1. CASE trail' = trail
  BY <1>1 DEF TrailKnown
<1>2. CASE trail # <<>> /\ trail' = Record(e)
  <2>1. \A f : OnTrail(trail, f) => Apart(f, e)
    BY DEF Apart
  <2>2. Ordered(trail') /\ \A f : OnTrail(trail', f) <=> OnTrail(trail, f) \/ f = e
    BY <1>2, <2>1, OrderedRecord DEF TrailKnown, Known
  <2>3. Known(trail', ToSet(cycles))
    BY <2>2, KnownGrow DEF TrailKnown
  <2> QED
    BY <2>2, <2>3 DEF TrailKnown
<1> QED
  BY <1>1, <1>2

\* NewCycle takes a cycle that neither the pool nor the trail knows.
LEMMA KnownNewCycle ==
  ASSUME PoolInv, TrailKnown, NEW c \in Cycle, NewCycle(c)
  PROVE  TrailKnown'
<1> DEFINE e == [kind |-> "new", old |-> actual, new |-> Len(cycles) + 1, cycle |-> c]
<1>0. TypeOK /\ cycles \in Seq(Cycle) /\ actual \in Nat /\ Len(cycles) \in Nat
  BY DEF PoolInv, TypeOK
<1>1. e \in Element /\ e.kind = "new" /\ e.cycle = c
  BY <1>0 DEF NewEl, Element
<1>2. /\ c \notin KnownCycles /\ cycles' = Append(cycles, c)
      /\ \/ trail # <<>> /\ trail' = Record(e)
         \/ trail = <<>> /\ trail' = <<>>
  <2>1. CASE InTransaction
    BY <2>1 DEF NewCycle, RecordIf, InTransaction
  <2>2. CASE ~InTransaction
    BY <2>2 DEF NewCycle, RecordIf, InTransaction
  <2> QED
    BY <2>1, <2>2
<1> HIDE DEF e
<1>3. c \notin ToSet(cycles) /\ ~Holding(trail, c) /\ c # NoCycle
  BY <1>2, HeldIsHolding, DataAssumption DEF KnownCycles
<1>4. IsInjective(cycles') /\ \A d : d \in ToSet(cycles') <=> d \in ToSet(cycles) \/ d = c
  BY <1>0, <1>2, <1>3, DistinctAppend DEF TrailKnown
<1>5. CASE trail' = <<>>
  BY <1>4, <1>5, KnownEmpty DEF TrailKnown
<1>6. CASE trail # <<>> /\ trail' = Record(e)
  <2>1. \A f : OnTrail(trail, f) => Apart(f, e)
    BY <1>1, <1>3 DEF Apart, TrailKnown, Known
  <2>2. Ordered(trail') /\ \A f : OnTrail(trail', f) <=> OnTrail(trail, f) \/ f = e
    BY <1>0, <1>1, <1>6, <2>1, OrderedRecord DEF TrailKnown, Known
  <2>3. Known(trail', ToSet(cycles'))
    BY <1>1, <1>3, <1>4, <2>2, KnownNew DEF TrailKnown
  <2> QED
    BY <1>4, <2>3 DEF TrailKnown
<1> QED
  BY <1>2, <1>5, <1>6

\* A switch and a deletion are recorded one after the other.
LEMMA OrderedRecordTwo ==
  ASSUME TypeOK, trail # <<>>, Ordered(trail), NEW a \in Element, NEW b \in Element,
         a.kind = "switch", \A f : OnTrail(trail, f) => Apart(f, b),
         trail' = WithTopLog(Top.log \o <<a, b>>)
  PROVE  /\ Ordered(trail')
         /\ \A f : OnTrail(trail', f) <=> OnTrail(trail, f) \/ f = a \/ f = b
<1> DEFINE first == Append(Top.log, a)
           t == WithTopLog(first)
<1>1. /\ trail \in Seq(Segment) /\ Len(trail) \in Nat \ {0}
      /\ Top = trail[Len(trail)] /\ Top \in Segment
      /\ Top.log \in Seq(Element)
  BY TopInTrail DEF TypeOK, Top
<1>2. first \in Seq(Element) /\ Append(first, b) \in Seq(Element)
  BY <1>1
<1>3. Top.log \o <<a, b>> = Append(first, b)
  BY <1>1, AppendTwo
<1> HIDE DEF first
<1>4. /\ t \in Seq(Segment)
      /\ Len(t) = Len(trail)
      /\ \A k \in 1..(Len(trail) - 1) : t[k] = trail[k]
      /\ t[Len(trail)] = [Top EXCEPT !.log = first]
  BY <1>1, <1>2, WithTopLogTyped
<1>5. t[Len(trail)].log = first
  BY <1>1, <1>4 DEF Segment
<1>6. /\ trail' \in Seq(Segment)
      /\ Len(trail') = Len(trail)
      /\ \A k \in 1..(Len(trail) - 1) : trail'[k] = trail[k]
      /\ trail'[Len(trail)] = [Top EXCEPT !.log = Append(first, b)]
  BY <1>2, <1>3, WithTopLogTyped
<1>7. trail'[Len(trail)].log = Append(first, b)
  BY <1>1, <1>6 DEF Segment
<1> HIDE DEF t
<1>8. Ordered(t) /\ \A f : OnTrail(t, f) <=> OnTrail(trail, f) \/ f = a
  <2>1. t[Len(trail)].log = Append(trail[Len(trail)].log, a)
    BY <1>1, <1>5 DEF first
  <2>2. \A k \in 1..(Len(trail) - 1) : t[k].log = trail[k].log
    BY <1>4
  <2>3. \A f : OnTrail(trail, f) => Apart(f, a)
    BY DEF Apart
  <2> QED
    BY <1>1, <1>4, <2>1, <2>2, <2>3, OrderedGrow
<1>9. t # <<>> /\ \A k \in 1..(Len(t) - 1) : trail'[k].log = t[k].log
  BY <1>1, <1>4, <1>6, Len(<<>>) = 0
<1>10. \A f : OnTrail(t, f) => Apart(f, b)
  BY <1>8 DEF Apart
<1>11. Ordered(trail') /\ \A f : OnTrail(trail', f) <=> OnTrail(t, f) \/ f = b
  <2>1. t \in Seq(Segment) /\ t # <<>> /\ trail' \in Seq(Segment) /\ Len(trail') = Len(t)
    BY <1>4, <1>6, <1>9
  <2>2. /\ \A k \in 1..(Len(t) - 1) : trail'[k].log = t[k].log
        /\ trail'[Len(t)].log = Append(t[Len(t)].log, b)
    BY <1>4, <1>5, <1>6, <1>7, <1>9
  <2>3. Ordered(t)
    BY <1>8
  <2> QED
    BY <1>10, <2>1, <2>2, <2>3, OrderedGrow
<1> QED
  BY <1>8, <1>11

\* RemoveCycle moves a cycle from the pool to the trail, or loses it with its
\* items when there is no transaction.
LEMMA KnownRemoveCycle ==
  ASSUME PoolInv, TrailKnown, NEW i \in 1..Len(cycles), RemoveCycle(i)
  PROVE  TrailKnown'
<1> DEFINE switch == [kind |-> "switch", num |-> actual]
           delete == [kind |-> "delete", cycle |-> cycles[i], num |-> i]
<1>0. TypeOK /\ cycles \in Seq(Cycle) /\ cycles[i] \in Cycle
  BY DEF PoolInv, TypeOK
<1>1. /\ switch \in Element /\ delete \in Element
      /\ switch.kind = "switch" /\ delete.kind = "delete" /\ delete.cycle = cycles[i]
  BY <1>0 DEF SwitchEl, DeleteEl, Element, TypeOK
<1>2. /\ cycles' = RemoveAt(cycles, i)
      /\ trail' = IF InTransaction THEN WithTopLog(Top.log \o <<switch, delete>>) ELSE trail
  BY DEF RemoveCycle
<1> HIDE DEF switch, delete
<1>3. /\ IsInjective(cycles')
      /\ \A d : d \in ToSet(cycles') <=> d \in ToSet(cycles) /\ d # cycles[i]
  BY <1>0, <1>2, DistinctRemoveAt DEF TrailKnown
<1>4. cycles[i] \in ToSet(cycles)
  BY <1>0, SetOf
<1>5. CASE ~InTransaction
  BY <1>2, <1>3, <1>5, KnownEmpty DEF TrailKnown, InTransaction
<1>6. CASE InTransaction
  <2>1. \A f : OnTrail(trail, f) => Apart(f, delete)
    BY <1>1, <1>4 DEF Apart, TrailKnown, Known, Holding
  <2>2. trail # <<>> /\ trail' = WithTopLog(Top.log \o <<switch, delete>>)
    BY <1>2, <1>6 DEF InTransaction
  <2>3. /\ Ordered(trail')
        /\ \A f : OnTrail(trail', f) <=> OnTrail(trail, f) \/ f = switch \/ f = delete
    BY <1>0, <1>1, <2>1, <2>2, OrderedRecordTwo DEF TrailKnown, Known
  <2>4. \A d : Holding(trail', d) <=> Holding(trail, d) \/ d = cycles[i]
    BY <1>1, <2>3 DEF Holding
  <2>5. \A d \in ToSet(cycles') : ~Holding(trail', d)
    BY <1>3, <2>4 DEF TrailKnown, Known
  <2>6. \A f : OnTrail(trail', f) /\ f.kind = "item" =>
          f.cell[1] \in ToSet(cycles') \cup {NoCycle} \/ Holding(trail', f.cell[1])
    BY <1>1, <1>3, <2>3, <2>4 DEF TrailKnown, Known
  <2> QED
    BY <1>3, <2>3, <2>5, <2>6 DEF TrailKnown, Known
<1> QED
  BY <1>5, <1>6

\* The restore steps bring back the cycles of the time before, and with a
\* change of the cycles on the trail there is nothing to undo or redo.
LEMMA KnownRestore ==
  ASSUME PoolInv, TrailKnown, NoUndoAcross,
         \/ RestoreItem \/ RestorePage \/ RestoreSwitch \/ RestoreNew \/ RestoreDelete
  PROVE  /\ TrailKnown'
         /\ NoChange \/ (undo' = <<>> /\ redo' = <<>>)
<1>0. TypeOK /\ OwnerIsOpen /\ cycles \in Seq(Cycle)
  BY DEF PoolInv, TypeOK
<1>1. busy.op = "abort" /\ Top.log # <<>> /\ trail' = DropNewest /\ UNCHANGED undoVars
  BY DEF RestoreItem, RestorePage, RestoreSwitch, RestoreNew, RestoreDelete, Recovering
<1>2. trail # <<>> /\ Newest \in Element
  BY <1>0, <1>1, OpenTransaction, DropNewestTyped
<1>3. /\ Ordered(trail')
      /\ OnTrail(trail, Newest)
      /\ \A f : OnTrail(trail, f) <=> OnTrail(trail', f) \/ f = Newest
      /\ \A f : OnTrail(trail', f) => Apart(f, Newest)
  BY <1>0, <1>1, <1>2, OrderedDrop DEF TrailKnown, Known
<1>4. cycles' \in Seq(Cycle)
  BY <1>0, RestoreTyped DEF TypeOK
<1>5. CASE RestoreItem \/ RestorePage \/ RestoreSwitch
  <2>1. Newest.kind \in {"item", "action", "switch"} /\ cycles' = cycles
    BY <1>5 DEF RestoreItem, RestorePage, RestoreSwitch, Recovering
  <2>2. Known(trail', ToSet(cycles))
    BY <1>3, <2>1, KnownPart DEF TrailKnown
  <2> QED
    BY <1>3, <2>1, <2>2 DEF TrailKnown, NoChange
<1>6. ASSUME CycleElement(Newest)
      PROVE  undo' = <<>> /\ redo' = <<>>
  BY <1>1, <1>3, <1>6 DEF NoUndoAcross, undoVars
<1>7. CASE RestoreNew
  <2>1. Newest.kind = "new"
    BY <1>7 DEF RestoreNew, Recovering
  <2>2. cycles = Append(cycles', Newest.cycle) /\ Newest.cycle \in Cycle
    BY <1>2, <2>1, CyclesRestored, ElementFields
  <2>3. /\ IsInjective(cycles')
        /\ \A d : d \in ToSet(cycles) <=> d \in ToSet(cycles') \/ d = Newest.cycle
    BY <1>4, <2>2, DistinctShortened DEF TrailKnown
  <2>4. Known(trail', ToSet(cycles'))
    BY <1>3, <2>1, <2>3, KnownRestoreNew DEF TrailKnown
  <2> QED
    BY <1>6, <2>1, <2>3, <2>4 DEF TrailKnown, CycleElement
<1>8. CASE RestoreDelete
  <2>1. Newest.kind = "delete"
    BY <1>8 DEF RestoreDelete, Recovering
  <2>2. /\ Newest.num \in 1..Len(cycles') /\ Newest.cycle = cycles'[Newest.num]
        /\ cycles = RemoveAt(cycles', Newest.num)
    BY <2>1, CyclesRestored
  <2>3. Newest.cycle \notin ToSet(cycles)
    BY <1>3, <2>1 DEF TrailKnown, Known, Holding
  <2>4. /\ IsInjective(cycles')
        /\ \A d : d \in ToSet(cycles') <=> d \in ToSet(cycles) \/ d = Newest.cycle
    BY <1>4, <2>2, <2>3, DistinctRestored DEF TrailKnown
  <2>5. Known(trail', ToSet(cycles'))
    BY <1>3, <2>1, <2>4, KnownRestoreDelete DEF TrailKnown
  <2> QED
    BY <1>6, <2>1, <2>4, <2>5 DEF TrailKnown, CycleElement
<1> QED
  BY <1>5, <1>7, <1>8

\* Elements move to the enclosing transaction, transactions begin and end.
LEMMA KnownPoints ==
  ASSUME PoolInv, TrailKnown,
         \/ \E o \in Owner : Begin(o)
         \/ CommitElement \/ CommitInner \/ CommitFinal \/ AbortPoint
  PROVE  TrailKnown' /\ NoChange
<1>0. TypeOK /\ OwnerIsOpen /\ trail \in Seq(Segment) /\ Ordered(trail)
  BY DEF PoolInv, TypeOK, TrailKnown, Known
<1>1. cycles' = cycles
  BY DEF Begin, CommitElement, CommitInner, CommitFinal, AbortPoint, poolVars
<1>2. ASSUME Ordered(trail'),
             \A f : OnTrail(trail', f) => OnTrail(trail, f),
             \A f : OnTrail(trail, f) => OnTrail(trail', f) \/ f.kind # "delete"
      PROVE  TrailKnown' /\ NoChange
  <2>1. Known(trail', ToSet(cycles))
    BY <1>2, KnownPart DEF TrailKnown
  <2> QED
    BY <1>1, <1>2, <2>1 DEF TrailKnown, NoChange
<1>3. ASSUME NEW o \in Owner, Begin(o)
      PROVE  TrailKnown' /\ NoChange
  <2> DEFINE s == [owner |-> o, log |-> <<>>]
  <2>1. s \in Segment /\ s.log = <<>>
    BY DEF Segment
  <2>2. trail' = Append(trail, s)
    BY <1>3 DEF Begin
  <2> HIDE DEF s
  <2>3. Ordered(trail') /\ \A f : OnTrail(trail', f) <=> OnTrail(trail, f)
    BY <1>0, <2>1, <2>2, OrderedPush
  <2> QED
    BY <1>2, <2>3
<1>4. CASE CommitElement
  <2>1. Len(trail) > 1 /\ trail[Len(trail)].log # <<>>
    BY <1>4 DEF CommitElement, Top
  <2>2. /\ trail' \in Seq(Segment)
        /\ Len(trail') = Len(trail)
        /\ \A k \in 1..(Len(trail) - 2) : trail'[k].log = trail[k].log
        /\ trail'[Len(trail)].log = Tail(trail[Len(trail)].log)
        /\ \/ trail'[Len(trail) - 1].log
                = Append(trail[Len(trail) - 1].log, Head(trail[Len(trail)].log))
           \/ /\ trail'[Len(trail) - 1].log = trail[Len(trail) - 1].log
              /\ Head(trail[Len(trail)].log).kind = "item"
    BY <1>0, <1>4, CommitElementTrail DEF Resident
  <2>3. /\ Ordered(trail')
        /\ \A f : OnTrail(trail', f) => OnTrail(trail, f)
        /\ \A f : OnTrail(trail, f) => OnTrail(trail', f) \/ f.kind = "item"
    BY <1>0, <2>1, <2>2, OrderedMove
  <2> QED
    BY <1>2, <2>3
<1>5. CASE CommitInner \/ AbortPoint
  <2>1. trail # <<>> /\ trail' = Front(trail) /\ trail[Len(trail)].log = <<>>
    BY <1>0, <1>5, OpenTransaction DEF CommitInner, AbortPoint, Top
  <2>2. Ordered(trail') /\ \A f : OnTrail(trail', f) <=> OnTrail(trail, f)
    BY <1>0, <2>1, OrderedPop
  <2> QED
    BY <1>2, <2>2
<1>6. CASE CommitFinal
  <2>1. trail' = <<>>
    BY <1>6 DEF CommitFinal
  <2>2. \A f : ~OnTrail(trail', f)
    BY <2>1, OrderedEmpty
  <2> QED
    BY <1>1, <2>1, <2>2, KnownEmpty DEF TrailKnown, NoChange
<1> QED
  BY <1>3, <1>4, <1>5, <1>6

\* No step loses a cycle the trail speaks of; a step that changes the cycles
\* leaves nothing to undo or redo.
LEMMA TrailKnownStep ==
  ASSUME CyclesInv, [Next]_vars
  PROVE  /\ TrailKnown'
         /\ NoChange \/ (undo' = <<>> /\ redo' = <<>>)
<1> DEFINE Goal == /\ TrailKnown'
                   /\ NoChange \/ (undo' = <<>> /\ redo' = <<>>)
<1>0. /\ PoolInv /\ TypeOK /\ TrailKnown /\ NoUndoAcross /\ ListsInv /\ TodoKnown
      /\ actual \in Nat
  BY DEF CyclesInv, UndoInv, PoolInv, TypeOK
<1>1. ASSUME UNCHANGED <<trail, cycles>>
      PROVE  Goal
  BY <1>0, <1>1 DEF TrailKnown, NoChange
<1>2. CASE \/ \E o \in Owner : Begin(o)
           \/ CommitElement \/ CommitInner \/ CommitFinal \/ AbortPoint
  BY <1>0, <1>2, KnownPoints
<1>3. ASSUME NEW o \in Owner, Commit(o) \/ Abort(o)
      PROVE  Goal
  BY <1>1, <1>3 DEF Commit, Abort, poolVars
<1>4. CASE RestoreItem \/ RestorePage \/ RestoreSwitch \/ RestoreNew \/ RestoreDelete
  BY <1>0, <1>4, KnownRestore
<1>5. ASSUME NEW c \in Cell, ClearItem(c)
      PROVE  Goal
  <2>1. /\ cycles' = cycles /\ (SaveItem(c) \/ trail' = trail)
        /\ busy.op = "clear" /\ c \in busy.todo
    BY <1>5 DEF ClearItem
  <2>2. c[1] \in ToSet(cycles) \cup {NoCycle}
    BY <1>0, <2>1 DEF TodoKnown
  <2> QED
    BY <1>0, <1>1, <2>1, <2>2, KnownSaveItem
<1>6. ASSUME NEW i \in 1..Len(cycles), NEW n \in Name, NEW v \in Value, Write(i, n, v)
      PROVE  Goal
  <2> DEFINE c == CellOf(cycles[i], n)
  <2>1. SaveItem(c) /\ cycles' = cycles
    BY <1>6 DEF Write
  <2>2. c \in Cell /\ c[1] \in ToSet(cycles) \cup {NoCycle}
    BY <1>0, CellOfTyped, CellOfLiving
  <2> HIDE DEF c
  <2> QED
    BY <1>0, <2>1, <2>2, KnownSaveItem
<1>7. ASSUME NEW f \in Folder, NEW p \in Page, SwitchPage(f, p)
      PROVE  Goal
  <2> DEFINE e == [kind |-> "action", folder |-> f, to |-> page[f], from |-> p]
  <2>1. e \in Element /\ e.kind = "action"
    BY <1>0 DEF TypeOK, ActionEl, Undoable, Element
  <2>2. cycles' = cycles /\ (trail' = trail \/ (trail # <<>> /\ trail' = Record(e)))
    BY <1>7 DEF SwitchPage, InTransaction
  <2> HIDE DEF e
  <2>3. TrailKnown' /\ \A g : OnTrail(trail', g) => OnTrail(trail, g) \/ g = e
    BY <1>0, <2>1, <2>2, KnownRecord
  <2> QED
    BY <2>1, <2>2, <2>3 DEF NoChange, CycleElement
<1>8. ASSUME NEW c \in Cycle, NewCycle(c)
      PROVE  Goal
  BY <1>0, <1>8, KnownNewCycle, ClearedLists DEF NewCycle
<1>9. ASSUME NEW i \in 1..Len(cycles), SetCycle(i)
      PROVE  Goal
  <2> DEFINE e == [kind |-> "switch", num |-> actual]
  <2>1. e \in Element /\ e.kind = "switch"
    BY <1>0 DEF SwitchEl, Element
  <2>2. /\ cycles' = cycles /\ ClearUndo
        /\ trail' = trail \/ (trail # <<>> /\ trail' = Record(e))
    BY <1>9 DEF SetCycle, RecordIf, InTransaction
  <2> HIDE DEF e
  <2> QED
    BY <1>0, <2>1, <2>2, KnownRecord, ClearedLists
<1>10. ASSUME NEW i \in 1..Len(cycles), RemoveCycle(i)
       PROVE  Goal
  BY <1>0, <1>10, KnownRemoveCycle, ClearedLists DEF RemoveCycle
<1>11. ASSUME NEW i \in 1..Len(cycles), ClearCycle(i)
       PROVE  Goal
  BY <1>1, <1>11 DEF ClearCycle, poolVars
<1>12. CASE \/ UpdateDone \/ UpdateForms \/ Undo \/ Redo
            \/ Activate \/ EnableUndo \/ DisallowUndo \/ AllowUndo
            \/ UNCHANGED vars
  <2>1. UNCHANGED <<trail, cycles>>
    BY <1>12 DEF UpdateDone, UpdateForms, Undo, Redo,
       Activate, EnableUndo, DisallowUndo, AllowUndo, vars, poolVars
  <2> QED
    BY <1>1, <2>1
<1>13. CASE Step
  BY <1>2, <1>4, <1>5, <1>12, <1>13 DEF Step
<1>14. CASE Call
  BY <1>2, <1>3, <1>6, <1>7, <1>8, <1>9, <1>10, <1>11, <1>12, <1>14 DEF Call
<1> QED
  BY <1>12, <1>13, <1>14 DEF Next

-----------------------------------------------------------------------------
(* No step leaves an entry, or a running clear, without its cycle          *)

\* A list whose entries speak of existing cycles keeps doing so when such an
\* entry is pushed.
LEMMA WithinPushed ==
  ASSUME NEW cs, NEW list \in Seq(Seq(Undoable)), ListWithin(list, cs),
         NEW e \in Seq(Undoable), Within(e, cs)
  PROVE  ListWithin(Pushed(list, e), cs)
<1> DEFINE l == Pushed(list, e)
<1>1. \A i \in 1..Len(l) : l[i] = e \/ \E j \in 1..Len(list) : l[i] = list[j]
  BY PushedTyped
<1> HIDE DEF l
<1>2. ListWithin(l, cs)
  BY <1>1 DEF ListWithin
<1> QED
  BY <1>2 DEF l

\* An entry is restored and goes from one list to the other.
LEMMA WithinMoved ==
  ASSUME TypeOK, NEW cs, NEW from \in Seq(Seq(Undoable)), NEW to \in Seq(Seq(Undoable)),
         ListWithin(from, cs), ListWithin(to, cs), from # <<>>
  PROVE  /\ ListWithin(Front(from), cs)
         /\ ListWithin(Pushed(to, Exchanged(Last(from))), cs)
<1>1. /\ Len(from) \in Nat \ {0} /\ Len(Front(from)) = Len(from) - 1
      /\ \A i \in 1..(Len(from) - 1) : Front(from)[i] = from[i]
      /\ Last(from) = from[Len(from)] /\ Last(from) \in Seq(Undoable)
  BY FrontOfSeq, NonEmptySeq
<1>2. \A i \in 1..Len(Front(from)) : i \in 1..Len(from) /\ Front(from)[i] = from[i]
  BY <1>1
<1>3. ListWithin(Front(from), cs)
  BY <1>2 DEF ListWithin
<1>4. PICK e \in Seq(Undoable) : e = Last(from)
  BY <1>1
<1>5. Within(e, cs)
  BY <1>1, <1>4 DEF ListWithin
<1>6. PICK x : x = Exchanged(e)
  OBVIOUS
<1>7. /\ x \in Seq(Undoable) /\ Len(x) = Len(e)
      /\ \A i \in 1..Len(e) : /\ x[i].kind = e[i].kind
                              /\ e[i].kind = "item" => x[i].cell = e[i].cell
  BY <1>6, ExchangedItems, ExchangedTyped
<1>8. Within(x, cs)
  BY <1>5, <1>7 DEF Within
<1> QED
  BY <1>3, <1>4, <1>6, <1>7, <1>8, WithinPushed

ListsGoal == ListsKnown /\ NoUndoAcross

\* The lists stay, or are emptied.
LEMMA WithinKept ==
  ASSUME ListsGoal, NoChange, UNCHANGED <<undo, redo>>
  PROVE  ListsGoal'
BY DEF ListsGoal, ListsKnown, NoUndoAcross, NoChange

\* Empty lists speak of no cycle.
LEMMA WithinEmptied ==
  ASSUME undo' = <<>>, redo' = <<>>
  PROVE  ListsGoal'
BY Len(<<>>) = 0 DEF ListsGoal, ListsKnown, NoUndoAcross, ListWithin

\* A new entry comes when no transaction is open any more.
LEMMA WithinInserted ==
  ASSUME TypeOK, ListsGoal, cycles' = cycles, trail' = <<>>,
         NEW e \in Seq(Undoable), Within(e, ToSet(cycles)), InsertElement(e)
  PROVE  ListsGoal'
<1>1. NoUndoAcross'
  <2>1. \A f : ~OnTrail(trail', f)
    BY OrderedEmpty
  <2> QED
    BY <2>1 DEF NoUndoAcross
<1>2. ListsKnown'
  <2>1. /\ undo \in Seq(Seq(Undoable))
        /\ ListWithin(undo, ToSet(cycles)) /\ ListWithin(redo, ToSet(cycles))
    BY DEF TypeOK, ListsGoal, ListsKnown
  <2>2. CASE IsEnabled
    <3>1. undo' = Pushed(undo, e) /\ redo' = <<>>
      BY <2>2 DEF InsertElement
    <3>2. ListWithin(undo', ToSet(cycles))
      BY <2>1, <3>1, WithinPushed
    <3>3. ListWithin(redo', ToSet(cycles))
      BY <3>1, Len(<<>>) = 0 DEF ListWithin
    <3> QED
      BY <3>2, <3>3 DEF ListsKnown
  <2>3. CASE ~IsEnabled
    BY <2>1, <2>3 DEF InsertElement, undoVars, ListsKnown
  <2> QED
    BY <2>2, <2>3
<1> QED
  BY <1>1, <1>2 DEF ListsGoal

\* saveDataItem
LEMMA WithinSaveItem ==
  ASSUME TypeOK, ListsGoal, NoChange, NEW c \in Cell,
         c[1] \in ToSet(cycles) \cup {NoCycle}, SaveItem(c)
  PROVE  ListsGoal'
<1>1. CASE UNCHANGED undoVars
  BY <1>1, WithinKept DEF undoVars
<1>2. CASE ~InTransaction /\ InsertElement(<<Item(c)>>) /\ UNCHANGED trail
  <2> DEFINE e == <<Item(c)>>
  <2>1. Item(c) \in Undoable /\ Item(c).cell = c
    BY DEF TypeOK, Item, ItemEl, Undoable
  <2>2. e \in Seq(Undoable) /\ Within(e, ToSet(cycles))
    BY <2>1 DEF Within
  <2>3. InsertElement(e) /\ trail' = <<>> /\ cycles' = cycles
    BY <1>2 DEF InTransaction, NoChange
  <2> HIDE DEF e
  <2> QED
    BY <2>2, <2>3, WithinInserted
<1> QED
  BY <1>1, <1>2 DEF SaveItem

\* A log that becomes an entry is the whole trail, and holds no deleted cycle.
LEMMA FinalLogWithin ==
  ASSUME TypeOK, TrailKnown, trail # <<>>, Len(trail) = 1,
         \A i \in 1..Len(Top.log) : ~CycleElement(Top.log[i])
  PROVE  Top.log \in Seq(Undoable) /\ Within(Top.log, ToSet(cycles))
<1>1. Top.log \in Seq(Element) /\ Top = trail[1]
  BY TopInTrail DEF Top
<1>2. Top.log \in Seq(Undoable)
  BY <1>1, UndoableLog
<1>3. \A c : ~Holding(trail, c)
  <2> SUFFICES ASSUME NEW d, OnTrail(trail, d), d.kind = "delete"
               PROVE  FALSE
    BY DEF Holding
  <2>1. PICK k \in 1..Len(trail) : \E i \in 1..Len(trail[k].log) : trail[k].log[i] = d
    BY DEF OnTrail
  <2>2. k = 1
    BY <2>1
  <2> QED
    BY <1>1, <2>1, <2>2 DEF CycleElement
<1>4. ASSUME NEW i \in 1..Len(Top.log), Top.log[i].kind = "item"
      PROVE  Top.log[i].cell[1] \in ToSet(cycles) \cup {NoCycle}
  <2>1. 1 \in 1..Len(trail)
    OBVIOUS
  <2>2. OnTrail(trail, Top.log[i])
    BY <1>1, <2>1 DEF OnTrail
  <2> QED
    BY <1>3, <1>4, <2>2 DEF TrailKnown, Known
<1> QED
  BY <1>2, <1>4 DEF Within

\* commitFinalTransaction
LEMMA WithinCommitFinal ==
  ASSUME PoolInv, ListsInv, TrailKnown, ListsGoal, NoChange, CommitFinal
  PROVE  ListsGoal'
<1>1. TypeOK /\ OwnerIsOpen /\ trail # <<>> /\ Len(trail) = 1 /\ trail' = <<>> /\ cycles' = cycles
  BY OpenTransaction DEF CommitFinal, PoolInv, NoChange
<1>2. CASE UNCHANGED undoVars
  BY <1>2, WithinKept DEF undoVars
<1>3. CASE ClearUndo
  BY <1>3, ClearedLists, WithinEmptied
<1>4. CASE /\ ~\E i \in 1..Len(Top.log) : CycleElement(Top.log[i])
           /\ InsertElement(Top.log)
  <2>1. Top.log \in Seq(Undoable) /\ Within(Top.log, ToSet(cycles))
    BY <1>1, <1>4, FinalLogWithin
  <2> QED
    BY <1>1, <1>4, <2>1, WithinInserted
<1> QED
  BY <1>2, <1>3, <1>4 DEF CommitFinal

\* Every step keeps the entries within the existing cycles.
LEMMA ListsKnownStep ==
  ASSUME CyclesInv, [Next]_vars
  PROVE  ListsGoal'
<1>0. /\ PoolInv /\ TypeOK /\ OwnerIsOpen /\ TrailKnown /\ ListsGoal /\ ListsInv /\ TodoKnown
      /\ undo \in Seq(Seq(Undoable)) /\ redo \in Seq(Seq(Undoable))
  BY DEF CyclesInv, UndoInv, PoolInv, ListsGoal, TypeOK
<1>1. CASE undo' = <<>> /\ redo' = <<>>
  BY <1>1, WithinEmptied
<1>2. ASSUME NoChange
      PROVE  ListsGoal'
  <2>1. ASSUME UNCHANGED undoVars
        PROVE  ListsGoal'
    BY <1>0, <1>2, <2>1, WithinKept DEF undoVars
  <2>2. ASSUME NEW o \in Owner, Begin(o) \/ Commit(o) \/ Abort(o)
        PROVE  ListsGoal'
    BY <2>1, <2>2 DEF Begin, Commit, Abort
  <2>3. CASE \/ CommitElement \/ CommitInner \/ AbortPoint
             \/ RestoreItem \/ RestorePage \/ RestoreSwitch \/ RestoreNew \/ RestoreDelete
    <3>1. UNCHANGED undoVars
      BY <2>3 DEF CommitElement, CommitInner, AbortPoint, Recovering,
                  RestoreItem, RestorePage, RestoreSwitch, RestoreNew, RestoreDelete
    <3> QED
      BY <2>1, <3>1
  <2>4. CASE CommitFinal
    BY <1>0, <1>2, <2>4, WithinCommitFinal
  <2>5. ASSUME NEW c \in Cell, ClearItem(c)
        PROVE  ListsGoal'
    <3>1. SaveItem(c) \/ UNCHANGED undoVars
      BY <2>5 DEF ClearItem
    <3>2. c[1] \in ToSet(cycles) \cup {NoCycle}
      BY <1>0, <2>5 DEF ClearItem, TodoKnown
    <3> QED
      BY <1>0, <1>2, <2>1, <3>1, <3>2, WithinSaveItem
  <2>6. ASSUME NEW i \in 1..Len(cycles), NEW n \in Name, NEW v \in Value, Write(i, n, v)
        PROVE  ListsGoal'
    <3> DEFINE c == CellOf(cycles[i], n)
    <3>1. SaveItem(c) /\ c \in Cell /\ c[1] \in ToSet(cycles) \cup {NoCycle}
      BY <1>0, <2>6, CellOfTyped, CellOfLiving DEF Write
    <3> HIDE DEF c
    <3> QED
      BY <1>0, <1>2, <3>1, WithinSaveItem
  <2>7. ASSUME NEW f \in Folder, NEW p \in Page, SwitchPage(f, p)
        PROVE  ListsGoal'
    <3> DEFINE el == [kind |-> "action", folder |-> f, to |-> page[f], from |-> p]
               e == <<el>>
    <3>1. el \in Undoable /\ el.kind = "action"
      BY <1>0 DEF TypeOK, ActionEl, Undoable
    <3>2. e \in Seq(Undoable) /\ Within(e, ToSet(cycles))
      BY <3>1 DEF Within
    <3>3. \/ UNCHANGED undoVars
          \/ InsertElement(e) /\ trail' = <<>> /\ cycles' = cycles
      BY <2>7 DEF SwitchPage, InTransaction
    <3> HIDE DEF e
    <3> QED
      BY <1>0, <2>1, <3>2, <3>3, WithinInserted
  <2>8. ASSUME \/ \E c \in Cycle : NewCycle(c)
               \/ \E i \in 1..Len(cycles) : SetCycle(i) \/ RemoveCycle(i)
        PROVE  ListsGoal'
    <3>1. ClearUndo
      BY <2>8 DEF NewCycle, SetCycle, RemoveCycle
    <3> QED
      BY <1>0, <3>1, ClearedLists, WithinEmptied
  <2>9. CASE \/ \E i \in 1..Len(cycles) : ClearCycle(i)
             \/ UpdateForms \/ UpdateDone \/ DisallowUndo \/ AllowUndo \/ UNCHANGED vars
    <3>1. UNCHANGED undoVars
      BY <2>9 DEF ClearCycle, UpdateForms, UpdateDone, DisallowUndo, AllowUndo, vars, undoVars
    <3> QED
      BY <2>1, <3>1
  <2>10. CASE Activate \/ EnableUndo
    <3>1. UNCHANGED <<undo, redo>> \/ (undo' = <<>> /\ redo' = <<>>)
      BY <2>10 DEF Activate, EnableUndo
    <3> QED
      BY <1>0, <1>2, <3>1, WithinKept, WithinEmptied
  <2>11. CASE Undo \/ Redo
    <3>1. trail' = trail /\ cycles' = cycles
      BY <2>11 DEF Undo, Redo
    <3>2. CASE UNCHANGED <<undo, redo>>
      BY <1>0, <1>2, <3>2, WithinKept
    <3>3. CASE ~UNCHANGED <<undo, redo>>
      <4>1. \/ undo # <<>> /\ undo' = Front(undo) /\ redo' = Pushed(redo, Exchanged(Last(undo)))
            \/ redo # <<>> /\ redo' = Front(redo) /\ undo' = Pushed(undo, Exchanged(Last(redo)))
        BY <2>11, <3>3 DEF Undo, Redo
      <4>2. ~\E e : OnTrail(trail, e) /\ CycleElement(e)
        BY <1>0, <4>1 DEF ListsGoal, NoUndoAcross
      <4>3. ListWithin(undo', ToSet(cycles)) /\ ListWithin(redo', ToSet(cycles))
        BY <1>0, <4>1, WithinMoved DEF ListsGoal, ListsKnown
      <4> QED
        BY <3>1, <4>2, <4>3 DEF ListsGoal, ListsKnown, NoUndoAcross
    <3> QED
      BY <3>2, <3>3
  <2>12. CASE Step
    BY <2>3, <2>4, <2>5, <2>9, <2>12 DEF Step
  <2>13. CASE Call
    BY <2>2, <2>6, <2>7, <2>8, <2>9, <2>10, <2>11, <2>13 DEF Call
  <2> QED
    BY <2>9, <2>12, <2>13 DEF Next
<1> QED
  BY <1>1, <1>2, TrailKnownStep

\* ClearCycle starts with items of an existing cycle, and no cycle comes or
\* goes while it runs.
LEMMA TodoKnownStep ==
  ASSUME TypeOK, TodoKnown, [Next]_vars
  PROVE  TodoKnown'
<1>1. ASSUME busy'.op # "clear"
      PROVE  TodoKnown'
  BY <1>1 DEF TodoKnown
<1>2. ASSUME busy.op # "clear", busy' = busy \/ busy' = Idle
      PROVE  TodoKnown'
  BY <1>1, <1>2, LoopRecords
<1>3. ASSUME NEW o \in Owner, Begin(o) \/ Commit(o) \/ Abort(o)
      PROVE  TodoKnown'
  <2>1. \/ busy' = busy /\ busy = Idle
        \/ busy' = [Idle EXCEPT !.op = "commit", !.owner = o]
        \/ busy' = [Idle EXCEPT !.op = "abort", !.owner = o]
    BY <1>3 DEF Begin, Commit, Abort, LateEnd
  <2>2. [Idle EXCEPT !.op = "commit", !.owner = o].op = "commit"
    BY LoopRecords DEF Ops
  <2>3. [Idle EXCEPT !.op = "abort", !.owner = o].op = "abort"
    BY LoopRecords DEF Ops
  <2>4. CASE busy' = busy /\ busy = Idle
    BY <1>2, <2>4, LoopRecords
  <2> QED
    BY <1>1, <2>1, <2>2, <2>3, <2>4
<1>4. CASE CommitElement \/ CommitInner \/ CommitFinal \/ AbortPoint
  <2>1. busy.op \in {"commit", "abort"} /\ (busy' = busy \/ busy' = Idle)
    BY <1>4 DEF CommitElement, CommitInner, CommitFinal, AbortPoint, AfterPoint
  <2> QED
    BY <1>2, <2>1
<1>5. CASE RestoreItem \/ RestorePage \/ RestoreSwitch \/ RestoreNew \/ RestoreDelete
  <2>1. busy.op = "abort" /\ busy' = busy
    BY <1>5 DEF RestoreItem, RestorePage, RestoreSwitch, RestoreNew, RestoreDelete, Recovering
  <2> QED
    BY <1>2, <2>1
<1>6. ASSUME NEW c \in Cell, ClearItem(c)
      PROVE  TodoKnown'
  <2>1. busy.op = "clear" /\ cycles' = cycles
        /\ (busy' = Idle \/ busy' = [busy EXCEPT !.todo = @ \ {c}])
    BY <1>6 DEF ClearItem
  <2>2. CASE busy' = Idle
    BY <1>1, <2>2, LoopRecords
  <2>3. CASE busy' = [busy EXCEPT !.todo = @ \ {c}]
    <3>1. busy'.todo \subseteq busy.todo
      BY <2>3 DEF TypeOK, Loop
    <3> QED
      BY <2>1, <3>1 DEF TodoKnown
  <2> QED
    BY <2>1, <2>2, <2>3
<1>7. ASSUME NEW i \in 1..Len(cycles), NEW n \in Name, NEW v \in Value, Write(i, n, v)
      PROVE  TodoKnown'
  <2>1. busy.op # "clear" /\ busy' = busy
    BY <1>7 DEF Write
  <2> QED
    BY <1>2, <2>1
<1>8. CASE \/ \E f \in Folder, p \in Page : SwitchPage(f, p)
           \/ \E c \in Cycle : NewCycle(c)
           \/ \E i \in 1..Len(cycles) : SetCycle(i) \/ RemoveCycle(i)
           \/ Activate \/ EnableUndo \/ DisallowUndo \/ AllowUndo
  <2>1. busy' = busy /\ busy.op # "clear"
    BY <1>8, LoopRecords DEF SwitchPage, NewCycle, SetCycle, RemoveCycle,
                             Activate, EnableUndo, DisallowUndo, AllowUndo
  <2> QED
    BY <1>2, <2>1
<1>9. ASSUME NEW i \in 1..Len(cycles), ClearCycle(i)
      PROVE  TodoKnown'
  <2> DEFINE todo == {CellOf(cycles[i], n) : n \in Name \ (Global \cup Protected)}
  <2>1. \A c \in todo : c[1] \in ToSet(cycles) \cup {NoCycle}
    BY CellOfLiving
  <2> HIDE DEF todo
  <2>2. busy' = [Idle EXCEPT !.op = "clear", !.todo = todo] /\ cycles' = cycles
    BY <1>9 DEF ClearCycle, poolVars, todo
  <2>3. busy'.todo = todo
    BY <2>2 DEF Idle
  <2> QED
    BY <2>1, <2>2, <2>3 DEF TodoKnown
<1>10. CASE UpdateDone \/ UpdateForms \/ Undo \/ Redo
  <2>1. busy'.op # "clear"
    <3>1. CASE UpdateForms
      BY <3>1 DEF UpdateForms, Idle
    <3>2. CASE UpdateDone
      BY <3>2, LoopRecords DEF UpdateDone
    <3>3. CASE Undo \/ Redo
      <4>1. \/ busy' = busy /\ busy = Idle
            \/ busy' = [Idle EXCEPT !.op = "update", !.guard = TRUE]
        BY <3>3 DEF Undo, Redo, UserMayUndo, GuardedUpdate
      <4>2. CASE busy' = busy /\ busy = Idle
        BY <4>2, LoopRecords
      <4>3. CASE busy' = [Idle EXCEPT !.op = "update", !.guard = TRUE]
        BY <4>3 DEF Idle
      <4> QED
        BY <4>1, <4>2, <4>3
    <3> QED
      BY <1>10, <3>1, <3>2, <3>3
  <2> QED
    BY <1>1, <2>1
<1>11. CASE UNCHANGED vars
  BY <1>11 DEF vars, TodoKnown
<1>12. CASE Step
  BY <1>4, <1>5, <1>6, <1>10, <1>12 DEF Step
<1>13. CASE Call
  BY <1>3, <1>7, <1>8, <1>9, <1>10, <1>13 DEF Call
<1> QED
  BY <1>11, <1>12, <1>13 DEF Next

\* The inductive invariant of the cycles holds in every reachable state.
LEMMA CyclesInvariant == Spec => []CyclesInv
<1>1. Init => TrailKnown /\ ListsKnown /\ NoUndoAcross /\ TodoKnown
  <2> SUFFICES ASSUME Init
               PROVE  TrailKnown /\ ListsKnown /\ NoUndoAcross /\ TodoKnown
    OBVIOUS
  <2>1. PICK c \in Cycle : cycles = <<c>>
    BY DEF Init
  <2>2. trail = <<>> /\ undo = <<>> /\ redo = <<>> /\ busy.op = "idle"
    BY LoopRecords DEF Init
  <2>3. IsInjective(cycles)
    <3>1. cycles \in Seq(Cycle) /\ \A i, j \in 1..Len(cycles) : i = j
      BY <2>1
    <3> QED
      BY <3>1, SetOf
  <2>4. TrailKnown
    BY <2>2, <2>3, KnownEmpty DEF TrailKnown
  <2>5. ListsKnown
    BY <2>2, Len(<<>>) = 0 DEF ListsKnown, ListWithin
  <2> QED
    BY <2>2, <2>4, <2>5 DEF NoUndoAcross, TodoKnown
<1>2. CyclesInv /\ UndoInv' /\ [Next]_vars => CyclesInv'
  <2> SUFFICES ASSUME CyclesInv, UndoInv', [Next]_vars
               PROVE  CyclesInv'
    OBVIOUS
  <2>1. TrailKnown'
    BY TrailKnownStep
  <2>2. ListsKnown' /\ NoUndoAcross'
    BY ListsKnownStep DEF ListsGoal
  <2>3. TodoKnown'
    BY TodoKnownStep DEF CyclesInv, UndoInv, PoolInv
  <2> QED
    BY <2>1, <2>2, <2>3 DEF CyclesInv
<1>3. UndoInv /\ TrailKnown /\ ListsKnown /\ NoUndoAcross /\ TodoKnown => CyclesInv
  BY DEF CyclesInv
<1> QED
  BY <1>1, <1>2, <1>3, UndoInvariant, PTL DEF Spec

\* The actual cycle exists, and no cycle is in the pool twice or both in the
\* pool and held by the trail: also between the steps of an abort that takes
\* new cycles away and brings deleted ones back, in whatever order and nesting
\* the transactions made and deleted them.
THEOREM CyclesStayConsistent == Spec => []CyclesConsistent
<1>1. CyclesInv => CyclesConsistent
  <2> SUFFICES ASSUME CyclesInv
               PROVE  CyclesConsistent
    OBVIOUS
  <2>1. actual \in 1..Len(cycles) /\ IsInjective(cycles)
    BY DEF CyclesInv, UndoInv, PoolInv, ActualExists, TrailKnown
  <2>2. \A c \in ToSet(cycles) : c \notin HeldCycles
    BY HeldIsHolding DEF CyclesInv, TrailKnown, Known
  <2> QED
    BY <2>1, <2>2 DEF CyclesConsistent
<1> QED
  BY <1>1, CyclesInvariant, PTL

\* No saved item points into the container of a cycle that is gone: its cycle
\* is in the pool or held by the trail, and that of an entry to undo or redo
\* is in the pool.
THEOREM NoItemDangles == Spec => []NoDanglingItem
<1>1. CyclesInv => NoDanglingItem
  <2> SUFFICES ASSUME CyclesInv
               PROVE  NoDanglingItem
    OBVIOUS
  <2>1. ASSUME NEW k \in 1..Len(trail), NEW c \in CellsOf(trail[k].log)
        PROVE  c[1] \in KnownCycles \cup {NoCycle}
    <3>1. PICK i \in 1..Len(trail[k].log) :
             trail[k].log[i].kind = "item" /\ c = trail[k].log[i].cell
      BY DEF CellsOf
    <3>2. OnTrail(trail, trail[k].log[i])
      BY DEF OnTrail
    <3> QED
      BY <3>1, <3>2, HeldIsHolding DEF CyclesInv, TrailKnown, Known, KnownCycles
  <2>2. ASSUME NEW list, ListWithin(list, ToSet(cycles)),
               NEW i \in 1..Len(list), NEW c \in CellsOf(list[i])
        PROVE  c[1] \in ToSet(cycles) \cup {NoCycle}
    BY <2>2 DEF CellsOf, ListWithin, Within
  <2> QED
    BY <2>1, <2>2 DEF NoDanglingItem, CyclesInv, ListsKnown
<1> QED
  BY <1>1, CyclesInvariant, PTL
=============================================================================
