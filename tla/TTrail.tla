------------------------------- MODULE TTrail -------------------------------
(***************************************************************************)
(* The transaction trail of the INTENS data pool (datapool/DataTTrail*.cc, *)
(* DataPool.cc): nested transactions over a pool of data items and cycles, *)
(* and the undo and redo lists that committed transactions feed.           *)
(*                                                                         *)
(* A transaction point with the elements recorded after it is a segment    *)
(* [owner, log]; the trail is the sequence of open segments, the outermost *)
(* first.  The loops of commitTransaction, abortTransaction and ClearCycle *)
(* run one element per step: `busy` says which loop is running, and while  *)
(* one runs no other call is accepted, as in the single GUI thread.        *)
(* Cycles are numbered from 1 here and from 0 in the code.                 *)
(***************************************************************************)
EXTENDS Integers, SequencesExt

CONSTANTS
  Owner,        \* TransactionOwner objects (job controllers, streams, tables)
  Nobody,       \* the owner field of a call that has no owner
  Name,         \* top level data items of the data dictionary
  Global,       \* those shared by all cycles        (ItemIsGlobal)
  Omit,         \* those declared with OMIT_TTRAIL   (ItemIsWithoutTTrail)
  Protected,    \* those a clear leaves alone        (ItemIsProtected)
  Value,        \* contents of an item
  Empty,        \* the content of a cleared item
  Cycle,        \* identities a cycle can have
  NoCycle,      \* the cycle field of a cell that all cycles share
  Folder, Page, FirstPage,  \* GUI folders and their pages
  MaxElements,  \* length limit of the undo and redo lists (5 in the code)
  MaxDepth,     \* bound: open transactions at a time
  MaxLog,       \* bound: length of a log that the clients still add to
  Calls         \* bound: the kinds of calls the clients make

ASSUME DataAssumption ==
  /\ Global \subseteq Name /\ Omit \subseteq Name /\ Protected \subseteq Name
  /\ Empty \in Value
  /\ NoCycle \notin Cycle
  /\ Nobody \notin Owner
  /\ FirstPage \in Page

ASSUME BoundAssumption ==
  /\ MaxElements \in Nat \ {0}
  /\ MaxDepth \in Nat
  /\ MaxLog \in Nat

VARIABLES
  live,       \* content of every cell
  page,       \* active page of every folder
  cycles,     \* m_Cycles
  actual,     \* m_ActualCycle
  trail,      \* m_trail and m_trail_points
  final,      \* setFinalTransaction() flag of every owner
  owing,      \* owners that began a transaction and have not ended it yet
  undo, redo, \* m_undo_list, m_redo_list
  activated, enabled,  \* m_is_activated, m_is_enabled
  button,     \* what the undo and redo buttons were last told
  busy,       \* the loop that is running
  failed      \* an assert(false) of the trail was reached

poolVars == <<live, page, cycles, actual>>
undoVars == <<undo, redo, button>>
modeVars == <<activated, enabled>>
vars == <<live, page, cycles, actual, trail, final, owing,
          undo, redo, activated, enabled, button, busy, failed>>

-----------------------------------------------------------------------------
(* Data                                                                    *)

Cell == (Cycle \X (Name \ Global)) \cup ({NoCycle} \X Global)

\* The item `n` a data reference reaches through cycle `c`: cloneItem shares
\* a global item between all cycles.
CellOf(c, n) == IF n \in Global THEN <<NoCycle, n>> ELSE <<c, n>>

ItemEl   == [kind : {"item"}, cell : Cell, saved : Value]
ActionEl == [kind : {"action"}, folder : Folder, to : Page, from : Page]
SwitchEl == [kind : {"switch"}, num : Nat]
NewEl    == [kind : {"new"}, old : Nat, new : Nat, cycle : Cycle]
DeleteEl == [kind : {"delete"}, cycle : Cycle, num : Nat]

Undoable == ItemEl \cup ActionEl
Element  == Undoable \cup SwitchEl \cup NewEl \cup DeleteEl
Segment  == [owner : Owner, log : Seq(Element)]

\* The elements of type CYCLE: a transaction with one of them has no undo.
CycleElement(e) == e.kind \in {"switch", "new", "delete"}

\* Bug: the item is named, but not the cycle it belongs to.
ItemByName(c) == [kind |-> "item", cell |-> c[2], saved |-> live[c]]

Item(c) == [kind |-> "item", cell |-> c, saved |-> live[c]]

Ops  == {"idle", "commit", "abort", "clear", "update"}
Loop == [op : Ops, owner : Owner \cup {Nobody}, todo : SUBSET Cell, guard : BOOLEAN]
Idle == [op |-> "idle", owner |-> Nobody, todo |-> {}, guard |-> FALSE]

-----------------------------------------------------------------------------
(* The trail                                                               *)

InTransaction == trail # <<>>
Top           == trail[Len(trail)]
Owners        == {trail[i].owner : i \in 1..Len(trail)}

WithTopLog(log) == [trail EXCEPT ![Len(trail)].log = log]
Record(e)       == WithTopLog(Append(Top.log, e))

Holds(log, c) == \E i \in 1..Len(log) : log[i].kind = "item" /\ log[i].cell = c

\* Bug: nothing is compared with the enclosing transaction.
ResidentNever(e, log) == FALSE

\* Bug: the name of the element is compared, whether it was saved or not.
ResidentAlways(e, log) == e.kind = "item"

\* An element of the inner transaction is dropped on commit when the
\* enclosing transaction has saved the same item before.
Resident(e, log) == e.kind = "item" /\ Holds(log, e.cell)

\* Bound: clients change the pool while every open log is short.
RoomInTrail == \A k \in 1..Len(trail) : Len(trail[k].log) < MaxLog

-----------------------------------------------------------------------------
(* The undo and redo lists                                                 *)

IsEnabled == activated /\ enabled

Pushed(list, e) ==
  LET longer == Append(list, e)
  IN  IF Len(longer) > MaxElements THEN Tail(longer) ELSE longer

\* Bug: the redo list is cleared and its button is not told.
InsertElementSilently(entry) ==
  IF IsEnabled
  THEN /\ undo' = Pushed(undo, entry)
       /\ redo' = <<>>
       /\ button' = [button EXCEPT !.undo = (undo = <<>>) \/ @]
  ELSE UNCHANGED undoVars

InsertElement(entry) ==
  IF IsEnabled
  THEN /\ undo' = Pushed(undo, entry)
       /\ redo' = <<>>
       /\ button' = [undo |-> (undo = <<>>) \/ button.undo,
                     redo |-> (redo = <<>>) /\ button.redo]
  ELSE UNCHANGED undoVars

\* Bug: the entries to undo stay.
ClearRedoOnly ==
  IF activated
  THEN /\ redo' = <<>>
       /\ button' = [button EXCEPT !.redo = (redo = <<>>) /\ @]
       /\ UNCHANGED undo
  ELSE UNCHANGED undoVars

ClearUndo ==
  IF activated
  THEN /\ undo' = <<>>
       /\ redo' = <<>>
       /\ button' = [undo |-> (undo = <<>>) /\ button.undo,
                     redo |-> (redo = <<>>) /\ button.redo]
  ELSE UNCHANGED undoVars

\* Restoring an entry exchanges saved and live contents, element by element
\* in the order they were recorded, and swaps the pages of a folder switch.
Earlier(e, i) ==
  {j \in 1..(i - 1) : e[j].kind = "item" /\ e[j].cell = e[i].cell}
LastOf(S) == CHOOSE i \in S : \A j \in S : j <= i

Exchanged(e) ==
  [i \in 1..Len(e) |->
     IF e[i].kind = "item"
     THEN [e[i] EXCEPT !.saved = IF Earlier(e, i) = {} THEN live[e[i].cell]
                                 ELSE e[LastOf(Earlier(e, i))].saved]
     ELSE [e[i] EXCEPT !.to = e[i].from, !.from = e[i].to]]

LiveAfter(e) ==
  [c \in Cell |->
     LET at == {i \in 1..Len(e) : e[i].kind = "item" /\ e[i].cell = c}
     IN  IF at = {} THEN live[c] ELSE e[LastOf(at)].saved]

PageAfter(e) ==
  [f \in Folder |->
     LET at == {i \in 1..Len(e) : e[i].kind = "action" /\ e[i].folder = f}
     IN  IF at = {} THEN page[f] ELSE e[LastOf(at)].to]

-----------------------------------------------------------------------------
(* Transactions                                                            *)

\* Bug: the flag of an outermost owner is never taken back.
BeginKeepingFinal(o) ==
  /\ busy = Idle
  /\ o \notin owing
  /\ Len(trail) < MaxDepth
  /\ final' = [final EXCEPT ![o] = @ \/ ~InTransaction]
  /\ trail' = Append(trail, [owner |-> o, log |-> <<>>])
  /\ owing' = owing \cup {o}
  /\ UNCHANGED <<poolVars, undoVars, modeVars, busy, failed>>

Begin(o) ==
  /\ busy = Idle
  /\ o \notin owing
  /\ Len(trail) < MaxDepth
  /\ final' = [final EXCEPT ![o] = ~InTransaction]
  /\ trail' = Append(trail, [owner |-> o, log |-> <<>>])
  /\ owing' = owing \cup {o}
  /\ UNCHANGED <<poolVars, undoVars, modeVars, busy, failed>>

\* commitTransaction and abortTransaction treat a late owner alike: its
\* transaction is gone, the call is ignored unless it was the outermost one.
LateEnd(o) ==
  /\ o \notin Owners
  /\ failed' = (failed \/ (InTransaction /\ final[o]))
  /\ UNCHANGED busy

Commit(o) ==
  /\ busy = Idle
  /\ o \in owing
  /\ owing' = owing \ {o}
  /\ \/ LateEnd(o)
     \/ /\ o \in Owners
        /\ busy' = [Idle EXCEPT !.op = "commit", !.owner = o]
        /\ UNCHANGED failed
  /\ UNCHANGED <<poolVars, trail, final, undoVars, modeVars>>

Abort(o) ==
  /\ busy = Idle
  /\ o \in owing
  /\ owing' = owing \ {o}
  /\ \/ LateEnd(o)
     \/ /\ o \in Owners
        /\ busy' = [Idle EXCEPT !.op = "abort", !.owner = o]
        /\ UNCHANGED failed
  /\ UNCHANGED <<poolVars, trail, final, undoVars, modeVars>>

\* The loop ends with the owner's own transaction; to run out of transactions
\* before is the second assert(false).
AfterPoint ==
  /\ busy' = IF Top.owner = busy.owner \/ Len(trail) = 1 THEN Idle ELSE busy
  /\ failed' = (failed \/ (Top.owner # busy.owner /\ Len(trail) = 1))

\* commitInnerTransaction: the next element goes to the enclosing transaction
\* or is erased.
CommitElement ==
  LET n == Len(trail)
      e == Head(Top.log)
      outer == trail[n - 1].log
  IN  /\ busy.op = "commit"
      /\ n > 1
      /\ Top.log # <<>>
      /\ trail' = [trail EXCEPT
                     ![n].log = Tail(@),
                     ![n - 1].log = IF Resident(e, outer) THEN outer
                                    ELSE Append(outer, e)]
      /\ UNCHANGED <<poolVars, final, owing, undoVars, modeVars, busy, failed>>

\* Bug: the point of a swallowed transaction stays on the trail.
CommitInnerKeepingPoint ==
  /\ busy.op = "commit"
  /\ Len(trail) > 1
  /\ Top.log = <<>>
  /\ trail' = IF Top.owner = busy.owner THEN Front(trail) ELSE trail
  /\ AfterPoint
  /\ UNCHANGED <<poolVars, final, owing, undoVars, modeVars>>

\* commitInnerTransaction: no element is left, the point goes too.
CommitInner ==
  /\ busy.op = "commit"
  /\ Len(trail) > 1
  /\ Top.log = <<>>
  /\ trail' = Front(trail)
  /\ AfterPoint
  /\ UNCHANGED <<poolVars, final, owing, undoVars, modeVars>>

\* Bug: a transaction without changes gets an entry too.
\* commitFinalTransaction: one entry of the undo list for the transaction, or
\* no undo at all across a change of cycles.
CommitFinal ==
  /\ busy.op = "commit"
  /\ Len(trail) = 1
  /\ IF ~IsEnabled \/ Top.log = <<>>
     THEN UNCHANGED undoVars
     ELSE IF \E i \in 1..Len(Top.log) : CycleElement(Top.log[i])
          THEN ClearUndo
          ELSE InsertElement(Top.log)
  /\ trail' = <<>>
  /\ AfterPoint
  /\ UNCHANGED <<poolVars, final, owing, modeVars>>

-----------------------------------------------------------------------------
(* Abort: restore the elements, newest first, then drop the point          *)

Newest     == Last(Top.log)
DropNewest == WithTopLog(Front(Top.log))

Recovering(kind) ==
  /\ busy.op = "abort"
  /\ Top.log # <<>>
  /\ Newest.kind = kind
  /\ trail' = DropNewest
  /\ UNCHANGED <<final, owing, undoVars, modeVars, busy>>

RestoreItem ==
  /\ Recovering("item")
  /\ live' = [live EXCEPT ![Newest.cell] = Newest.saved]
  /\ UNCHANGED <<page, cycles, actual, failed>>

RestorePage ==
  /\ Recovering("action")
  /\ page' = [page EXCEPT ![Newest.folder] = Newest.to]
  /\ UNCHANGED <<live, cycles, actual, failed>>

\* SetCycle while m_recovering: the undo lists stay as they are.
RestoreSwitch ==
  /\ Recovering("switch")
  /\ actual' = IF Newest.num \in 1..Len(cycles) THEN Newest.num ELSE actual
  /\ UNCHANGED <<live, page, cycles, failed>>

\* Bug: the actual cycle is left alone when a new cycle is taken back.
RestoreNewOnly ==
  /\ Recovering("new")
  /\ cycles' = RemoveAt(cycles, Newest.new)
  /\ UNCHANGED <<live, page, actual, failed>>

\* TTRemoveCycle
RestoreNew ==
  /\ Recovering("new")
  /\ IF Newest.new \in 1..Len(cycles)
     THEN /\ cycles' = RemoveAt(cycles, Newest.new)
          /\ actual' = IF Newest.old \in 1..(Len(cycles) - 1) THEN Newest.old
                       ELSE 1
     ELSE UNCHANGED <<cycles, actual>>
  /\ UNCHANGED <<live, page, failed>>

\* TTInsertCycle, with its assertion
RestoreDelete ==
  /\ Recovering("delete")
  /\ IF Newest.num \in 1..(Len(cycles) + 1)
     THEN /\ cycles' = InsertAt(cycles, Newest.num, Newest.cycle)
          /\ UNCHANGED failed
     ELSE failed' = TRUE /\ UNCHANGED cycles
  /\ UNCHANGED <<live, page, actual>>

AbortPoint ==
  /\ busy.op = "abort"
  /\ Top.log = <<>>
  /\ trail' = Front(trail)
  /\ AfterPoint
  /\ UNCHANGED <<poolVars, final, owing, undoVars, modeVars>>

-----------------------------------------------------------------------------
(* Changes of the pool                                                     *)

\* Bug: the trail is not searched for the item.
SaveItemAlways(c) ==
  IF c[2] \in Omit THEN UNCHANGED <<trail, undoVars>>
  ELSE IF InTransaction
       THEN trail' = Record(Item(c)) /\ UNCHANGED undoVars
       ELSE InsertElement(<<Item(c)>>) /\ UNCHANGED trail

\* saveDataItem
SaveItem(c) ==
  IF c[2] \in Omit THEN UNCHANGED <<trail, undoVars>>
  ELSE IF InTransaction
       THEN /\ trail' = IF Holds(Top.log, c) THEN trail ELSE Record(Item(c))
            /\ UNCHANGED undoVars
       ELSE /\ InsertElement(<<Item(c)>>)
            /\ UNCHANGED trail

\* getDataItem for an update in cycle i, then the update: data fields, streams
\* and functions write, and so do callbacks of a GUI update.
Write(i, n, v) ==
  LET c == CellOf(cycles[i], n)
  IN  /\ busy.op = "idle" \/ (busy.op = "update" /\ "gui-write" \in Calls)
      /\ RoomInTrail
      /\ SaveItem(c)
      /\ live' = [live EXCEPT ![c] = v]
      /\ UNCHANGED <<page, cycles, actual, final, owing, modeVars, busy, failed>>

\* saveActionElement and activatePage of a folder
SwitchPage(f, p) ==
  LET e == [kind |-> "action", folder |-> f, to |-> page[f], from |-> p]
  IN  /\ "switch-page" \in Calls
      /\ InTransaction => "switch-in-transaction" \in Calls
      /\ busy.op = "idle"
      /\ p # page[f]
      /\ RoomInTrail
      /\ IF InTransaction
         THEN trail' = Record(e) /\ UNCHANGED undoVars
         ELSE InsertElement(<<e>>) /\ UNCHANGED trail
      /\ page' = [page EXCEPT ![f] = p]
      /\ UNCHANGED <<live, cycles, actual, final, owing, modeVars, busy, failed>>

-----------------------------------------------------------------------------
(* Cycles                                                                  *)

Held(log)    == {log[i].cycle : i \in {j \in 1..Len(log) : log[j].kind = "delete"}}
HeldCycles   == UNION {Held(trail[k].log) : k \in 1..Len(trail)}
KnownCycles  == ToSet(cycles) \cup HeldCycles

\* Bug: changes of the cycles are not recorded.
RecordIf(e) == IF InTransaction THEN Record(e) ELSE trail

\* DataPool::NewCycle: the new cycle starts as a clone of the actual one.
NewCycle(c) ==
  /\ "cycles" \in Calls
  /\ busy = Idle
  /\ c \notin KnownCycles
  /\ RoomInTrail
  /\ cycles' = Append(cycles, c)
  /\ actual' = Len(cycles) + 1
  /\ live' = [d \in Cell |-> IF d[1] = c THEN live[<<cycles[actual], d[2]>>]
                             ELSE live[d]]
  /\ trail' = RecordIf([kind |-> "new", old |-> actual,
                        new |-> Len(cycles) + 1, cycle |-> c])
  /\ ClearUndo
  /\ UNCHANGED <<page, final, owing, modeVars, busy, failed>>

\* DataPool::SetCycle with clearUndoStack; the callers that leave the undo
\* lists alone (plots, streams, cycle buttons) switch back before they return.
SetCycle(i) ==
  /\ "cycles" \in Calls
  /\ busy = Idle
  /\ i # actual
  /\ RoomInTrail
  /\ ClearUndo
  /\ trail' = RecordIf([kind |-> "switch", num |-> actual])
  /\ actual' = i
  /\ UNCHANGED <<live, page, cycles, final, owing, modeVars, busy, failed>>

\* Bug: the deleted cycle is saved before the actual one.
RemoveCycleWrongOrder(i) ==
  LET switch == [kind |-> "switch", num |-> actual]
      delete == [kind |-> "delete", cycle |-> cycles[i], num |-> i]
  IN  /\ "cycles" \in Calls
      /\ busy = Idle
      /\ Len(cycles) > 1
      /\ RoomInTrail
      /\ cycles' = RemoveAt(cycles, i)
      /\ actual' = IF actual < i \/ actual = 1 THEN actual ELSE actual - 1
      /\ trail' = IF InTransaction
                  THEN WithTopLog(Top.log \o <<delete, switch>>)
                  ELSE trail
      /\ ClearUndo
      /\ UNCHANGED <<live, page, final, owing, modeVars, busy, failed>>

\* DataPool::RemoveCycle; DataPoolIntens refuses to remove the last cycle.
RemoveCycle(i) ==
  LET switch == [kind |-> "switch", num |-> actual]
      delete == [kind |-> "delete", cycle |-> cycles[i], num |-> i]
  IN  /\ "cycles" \in Calls
      /\ busy = Idle
      /\ Len(cycles) > 1
      /\ RoomInTrail
      /\ cycles' = RemoveAt(cycles, i)
      /\ actual' = IF actual < i \/ actual = 1 THEN actual ELSE actual - 1
      /\ trail' = IF InTransaction
                  THEN WithTopLog(Top.log \o <<switch, delete>>)
                  ELSE trail
      /\ ClearUndo
      /\ UNCHANGED <<live, page, final, owing, modeVars, busy, failed>>

\* DataPool::ClearCycle walks over the items of the cycle.
ClearCycle(i) ==
  LET todo == {CellOf(cycles[i], n) : n \in Name \ (Global \cup Protected)}
  IN  /\ "clear-cycle" \in Calls
      /\ busy = Idle
      /\ todo # {}
      /\ busy' = [Idle EXCEPT !.op = "clear", !.todo = todo]
      /\ UNCHANGED <<poolVars, trail, final, owing, undoVars, modeVars, failed>>

\* clearCycle of the container: the old content is saved only in a transaction.
ClearItem(c) ==
  /\ busy.op = "clear"
  /\ c \in busy.todo
  /\ IF InTransaction THEN SaveItem(c) ELSE UNCHANGED <<trail, undoVars>>
  /\ live' = [live EXCEPT ![c] = Empty]
  /\ busy' = IF busy.todo = {c} THEN Idle
             ELSE [busy EXCEPT !.todo = @ \ {c}]
  /\ UNCHANGED <<page, cycles, actual, final, owing, modeVars, failed>>

-----------------------------------------------------------------------------
(* Undo and redo                                                           *)

UserMayUndo ==
  /\ "undo" \in Calls
  /\ busy = Idle
  /\ InTransaction => "undo-in-transaction" \in Calls

\* Bug: no guard, recording is on again after the restore.
UnguardedUpdate ==
  /\ enabled' = TRUE
  /\ busy' = [Idle EXCEPT !.op = "update", !.guard = TRUE]

\* DataTTrailUndoDisable around updateUserInterface(): recording is off until
\* the update is done, and on again after it.
GuardedUpdate ==
  /\ enabled' = FALSE
  /\ busy' = [Idle EXCEPT !.op = "update", !.guard = TRUE]

Undo ==
  /\ UserMayUndo
  /\ IF activated /\ undo # <<>>
     THEN LET e == Last(undo) IN
          /\ live' = LiveAfter(e)
          /\ page' = PageAfter(e)
          /\ undo' = Front(undo)
          /\ redo' = Pushed(redo, Exchanged(e))
          /\ button' = [undo |-> (Len(undo) > 1) /\ button.undo,
                        redo |-> (redo = <<>>) \/ button.redo]
          /\ GuardedUpdate
     ELSE /\ button' = [undo |-> FALSE, redo |-> activated /\ redo # <<>>]
          /\ UNCHANGED <<live, page, undo, redo, enabled, busy>>
  /\ UNCHANGED <<cycles, actual, trail, final, owing, activated, failed>>

Redo ==
  /\ UserMayUndo
  /\ IF activated /\ redo # <<>>
     THEN LET e == Last(redo) IN
          /\ live' = LiveAfter(e)
          /\ page' = PageAfter(e)
          /\ redo' = Front(redo)
          /\ undo' = Pushed(undo, Exchanged(e))
          /\ button' = [undo |-> (undo = <<>>) \/ button.undo,
                        redo |-> (Len(redo) > 1) /\ button.redo]
          /\ GuardedUpdate
     ELSE /\ button' = [undo |-> activated /\ undo # <<>>, redo |-> FALSE]
          /\ UNCHANGED <<live, page, undo, redo, enabled, busy>>
  /\ UNCHANGED <<cycles, actual, trail, final, owing, activated, failed>>

\* GuiQtManager::update has the same guard around it.
UpdateForms ==
  /\ "gui-write" \in Calls
  /\ busy = Idle
  /\ busy' = [Idle EXCEPT !.op = "update", !.guard = IsEnabled]
  /\ enabled' = IF IsEnabled THEN FALSE ELSE enabled
  /\ UNCHANGED <<poolVars, trail, final, owing, undoVars, activated, failed>>

UpdateDone ==
  /\ busy.op = "update"
  /\ busy' = Idle
  /\ enabled' = (enabled \/ (busy.guard /\ activated))
  /\ UNCHANGED <<poolVars, trail, final, owing, undoVars, activated, failed>>

\* DataPool::activateUndo at start-up, with the option --undo
Activate ==
  /\ busy = Idle
  /\ ~activated
  /\ activated' = TRUE
  /\ button' = [undo |-> FALSE, redo |-> FALSE]
  /\ UNCHANGED <<poolVars, trail, final, owing, undo, redo, enabled, busy, failed>>

\* DataPool::enableUndo, called by the job "Enable Undo"
EnableUndo ==
  /\ busy = Idle
  /\ activated
  /\ ~enabled
  /\ enabled' = TRUE
  /\ undo' = <<>>
  /\ redo' = <<>>
  /\ button' = [undo |-> FALSE, redo |-> FALSE]
  /\ UNCHANGED <<poolVars, trail, final, owing, activated, busy, failed>>

\* A job controller with BLOCK_UNDO disallows before its transaction begins
\* and allows after it ended.
DisallowUndo ==
  /\ "disallow" \in Calls
  /\ busy = Idle
  /\ IsEnabled
  /\ enabled' = FALSE
  /\ UNCHANGED <<poolVars, trail, final, owing, undoVars, activated, busy, failed>>

AllowUndo ==
  /\ "disallow" \in Calls
  /\ busy = Idle
  /\ activated
  /\ ~enabled
  /\ enabled' = TRUE
  /\ UNCHANGED <<poolVars, trail, final, owing, undoVars, activated, busy, failed>>

-----------------------------------------------------------------------------
Init ==
  /\ live = [c \in Cell |-> Empty]
  /\ page = [f \in Folder |-> FirstPage]
  /\ cycles \in {<<c>> : c \in Cycle}
  /\ actual = 1
  /\ trail = <<>>
  /\ final = [o \in Owner |-> FALSE]
  /\ owing = {}
  /\ undo = <<>>
  /\ redo = <<>>
  /\ activated = FALSE
  /\ enabled = FALSE
  /\ button = [undo |-> FALSE, redo |-> FALSE]
  /\ busy = Idle
  /\ failed = FALSE

\* The steps of the loop that is running.
Step ==
  \/ CommitElement \/ CommitInner \/ CommitFinal
  \/ RestoreItem \/ RestorePage \/ RestoreSwitch
  \/ RestoreNew \/ RestoreDelete \/ AbortPoint
  \/ \E c \in Cell : ClearItem(c)
  \/ UpdateDone

\* The calls of the clients.
Call ==
  \/ \E o \in Owner : Begin(o) \/ Commit(o) \/ Abort(o)
  \/ \E i \in 1..Len(cycles), n \in Name, v \in Value : Write(i, n, v)
  \/ \E f \in Folder, p \in Page : SwitchPage(f, p)
  \/ \E c \in Cycle : NewCycle(c)
  \/ \E i \in 1..Len(cycles) : SetCycle(i) \/ RemoveCycle(i) \/ ClearCycle(i)
  \/ Undo \/ Redo \/ UpdateForms
  \/ Activate \/ EnableUndo \/ DisallowUndo \/ AllowUndo

Next == Step \/ Call

Spec     == Init /\ [][Next]_vars
FairSpec == Spec /\ WF_vars(Step)

-----------------------------------------------------------------------------
(* Properties                                                              *)

Button == [undo : BOOLEAN, redo : BOOLEAN]

TypeOK ==
  /\ live \in [Cell -> Value]
  /\ page \in [Folder -> Page]
  /\ cycles \in Seq(Cycle)
  /\ actual \in Nat
  /\ trail \in Seq(Segment)
  /\ final \in [Owner -> BOOLEAN]
  /\ owing \subseteq Owner
  /\ undo \in Seq(Seq(Undoable))
  /\ redo \in Seq(Seq(Undoable))
  /\ activated \in BOOLEAN
  /\ enabled \in BOOLEAN
  /\ button \in Button
  /\ busy \in Loop
  /\ failed \in BOOLEAN

\* A log holds at most one saved content of a cell.
UniqueIn(log) ==
  \A i, j \in 1..Len(log) :
    (log[i].kind = "item" /\ log[j].kind = "item" /\ log[i].cell = log[j].cell)
      => i = j

\* A transaction saves the content an item had before its first change and
\* nothing later, also after inner transactions were merged into it.
SavedOnce == \A k \in 1..Len(trail) : UniqueIn(trail[k].log)

\* The elements of an undo or redo entry concern different items, so that the
\* forward restore() of DataTTrailItemList exchanges each exactly once.
EntriesUnique ==
  /\ \A i \in 1..Len(undo) : UniqueIn(undo[i])
  /\ \A i \in 1..Len(redo) : UniqueIn(redo[i])

\* An undo or redo that the user asks for always has something to restore:
\* transactions without changes leave no entry behind.
EntriesNotEmpty ==
  /\ \A i \in 1..Len(undo) : undo[i] # <<>>
  /\ \A i \in 1..Len(redo) : redo[i] # <<>>

\* Both: undo and redo restore something, and without ambiguity
\* (DataTTrail.cc:525, DataTTrailItemList.cc:65-70).
EntriesSound == EntriesUnique /\ EntriesNotEmpty

\* The two lists together hold at most MaxElements entries, so that no undo
\* or redo ever drops the entry it moves to the other list.
ListsBounded == Len(undo) + Len(redo) <= MaxElements

CellsOf(log) == {log[i].cell : i \in {j \in 1..Len(log) : log[j].kind = "item"}}

\* No saved item points into the container of a deleted cycle: the cycles of
\* the trail exist or are held by a delete element, those of the undo and
\* redo lists exist.
NoDanglingItem ==
  /\ \A k \in 1..Len(trail) : \A c \in CellsOf(trail[k].log) :
        c[1] \in KnownCycles \cup {NoCycle}
  /\ \A i \in 1..Len(undo) : \A c \in CellsOf(undo[i]) :
        c[1] \in ToSet(cycles) \cup {NoCycle}
  /\ \A i \in 1..Len(redo) : \A c \in CellsOf(redo[i]) :
        c[1] \in ToSet(cycles) \cup {NoCycle}

\* The actual cycle exists, and no cycle is both in the pool and held by a
\* delete element or in either place twice.
CyclesConsistent ==
  /\ actual \in 1..Len(cycles)
  /\ IsInjective(cycles)
  /\ ToSet(cycles) \cap HeldCycles = {}

\* The undo and redo buttons are lit exactly when there is something to undo
\* or redo.
ButtonsTruthful ==
  activated => button = [undo |-> undo # <<>>, redo |-> redo # <<>>]

\* No order of begins and ends of the owners reaches an assert(false) of
\* commitTransaction, abortTransaction or TTInsertCycle: the outermost owner
\* is always found, whatever inner owners come too late.
NoAssertFails == ~failed

\* The changes a GUI update makes, and the restores of an abort, never enter
\* or disturb the undo and redo lists (DataTTrailUndo.cc:252).  Callbacks while
\* an abort restores are no part of the model.
UndoUntouched ==
  [][busy.op \in {"update", "abort"} => UNCHANGED <<undo, redo>>]_vars

\* Every loop of the trail and every GUI update comes to its end.
LoopsEnd == busy # Idle ~> busy = Idle
=============================================================================
