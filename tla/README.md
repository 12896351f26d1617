# Verification of the INTENS data pool and its jobs

INTENS is an interpreter for graphical front ends of engineering programs: a
description file defines data items, forms and functions; the program builds
the GUI, runs the functions as jobs, starts external processes and exchanges
data with them.  All of it works on one *data pool*, and what makes the pool
safe to use is the *transaction trail*: nested transactions, and the undo and
redo lists that committed transactions feed.  The trail is the core of this
project.  The jobs, which own most of its transactions, come second, and third
what starts jobs or is started by them from outside: message queues and external
processes.

All numbers of lines refer to the repository; `datapool/X.cc` stands for
`src/datapool/X.cc` in it.

## 1. Inventory

| component | state | operations | who calls it |
|---|---|---|---|
| transaction trail (`datapool/DataTTrail*.cc`) | list of elements, list of transaction points, `m_recovering`, the final flag of each owner | start, commit, abort, save an item, a folder page, a cycle switch, a new or a deleted cycle | job controllers, file streams, tables, data references, folders, the pool |
| undo (`datapool/DataTTrailUndo.cc`, `DataTTrailElementList.cc`, `DataTTrailItemList.cc`) | undo list, redo list, activated, enabled | activate, enable, allow, disallow, insert, clear, undo, redo | the trail, the GUI (Ctrl-Z, Ctrl-Y), job controllers, updates |
| cycles (`datapool/DataPool.cc`, `DataItemContainer.cc`) | `m_Cycles`, `m_ActualCycle`, the items | new, set, clear, remove, and the inverses `TTRemoveCycle`, `TTInsertCycle` | functions, GUI, streams, plots; the inverses only the trail |
| folders (`gui/qt/GuiQtFolder.cc`) | active page | switch, map, unmap | user, functions |
| jobs (`job/JobController.cc`, `JobAction.cc`, `JobStarter.cc`, `JobFunction.cc`, `JobEngine.cc`) | a tree of controllers, the queue of starters, the engine of each function | start, stop, end, push, pop, cleanup | GUI, timers, message queues, REST |
| file streams (`operator/FileStream.cc`) | channels, process, an own transaction | read, write, cancel | jobs |
| table paste (`gui/qt/GuiQtTableViewBase.cc`) | the cells still to paste, a timer, an own transaction | paste, work, cancel | user |
| reply queues (`operator/MessageQueueReply.cc`, `MessageQueueThreads.cc`, the web replies of `job/JobAction.cc`) | a thread with a status for each queue, the registered result | receive, query, answer, abort | external clients |
| requests (`operator/MessageQueueRequest.cc`, `job/JobRequest.cc`) | a thread for each queue, its lists, the listener | start, terminate, response | jobs |
| subscribers (`operator/MessageQueueSubscriber.cc`) | messages that are kept, `s_triggerStarted` | message, return of a function | external publishers |
| publisher (`operator/MessageQueuePublisher.cc`) | a socket | send | jobs |
| processes (`operator/ProcessGroup.cc`, `Worker.cc`, `ProcessWrapper.cc`, `BatchProcess.cc`) | current process, child processes with their exit, channels | start, look (every 50 ms), stop, exit, error | jobs |
| parser, streamer, xfer, xml, plot, utils, app | descriptions, formats, drawings | translate and convert | all |

How they interact.  Everything except the message queue threads runs in the one
GUI thread; concurrency is the interleaving of calls between returns to the
event loop.  The threads hand what they receive to the GUI thread as queued
signals; a request thread also shares its lists with it, and a reply thread polls
a status that the GUI thread sets.  Child processes report through signals of
`QProcess`, which the event loop delivers between two looks of the worker.  A job controller begins a transaction, runs functions that write
items through `DataReference::getDataItem`, which saves the old content in the
trail, and commits or aborts in `JobController::end`.  Controllers nest, and
their ends do not always come in the order of their begins.  The last commit
turns the trail into one entry of the undo list.  Undo restores the entry, moves
it to the redo list and updates the GUI, whose callbacks may write items again.

What is hard: ends of transactions out of order, or after an outer one has ended
them already; merging of inner into outer transactions; numbers of cycles
that are valid only at one moment; pointers into cycles that are deleted; calls
back into the trail from a restore or an update; the limits of the lists.
Section 6 names what else the rest of the system has of that kind, and
PROJECT.json lists each hazard at its line.

What makes the components correct:

- *trail*: it implements nested transactions (`NestedTransactions`): an abort
  brings back the pool of the owner's begin, a commit changes nothing, both end
  the transactions inside; no assertion fails; every loop ends.
- *undo*: it implements a bounded history (`UndoHistory`); the lists stay within
  the limit, have no empty and no ambiguous entries; updates and restores leave
  them alone; the buttons tell the truth.
- *cycles*: the actual cycle exists, no cycle is in two places, nothing saved
  points into a deleted one.
- *jobs*: they are a queue (`JobQueue`) that runs one job at a time, in the order of
  submission, and never sleeps while one waits; each runs in a transaction of its own, which its end and
  nothing else ends; when none is left the GUI, the trail and undo are released.
- *file streams, paste*: their transaction is ended on every path.
- *reply queues*: every request is answered once, with its own response, when all
  that it has started is done (`ReplyService`); it is lost only with a failure.
- *requests, processes*: as actions of a job they end once per start, and a group
  of processes that has taken a stop does not end as if all were well (`ActionContract`);
  a request that is stopped while it is on ends at once, and it gets the answer to its
  own message; processes run one after the other and leave no child behind.
- *subscribers*: a function finds the data of the message that called it, messages
  are processed in their order, none is forgotten, and the starters stay a queue.

## 2. Modules

| module | what it is |
|---|---|
| `TTrail` | the trail, the undo lists, cycles and folder pages; properties |
| `NestedTransactions` | abstract: what transactions promise |
| `UndoHistory` | abstract: what undo and redo promise |
| `TTrailRefinement` | the mappings from `TTrail` to both |
| `TTrailHistory` | `TTrail` with the pool at each begin as a history variable |
| `Jobs` | starters, controllers, functions and processes with the owners of the open transactions; properties |
| `JobQueue` | abstract: what the job system does for those who submit jobs |
| `WebReply` | reply queues with their clients, threads and queries, on the promise of `JobQueue` |
| `ReplyService` | abstract: what the reply queues promise their clients |
| `Requests` | request jobs, their threads and queued signals |
| `Processes` | process groups, their worker and their child processes |
| `ActionContract` | abstract: what a request or a process group promises the function that called it |
| `Subscriber` | subscribers on the queue of starters, written out with the returns that submit the next starter; implements `JobQueue` |
| `MCTTrail`, `MCTTrailHistory`, `MCJobs`, `MCWebReply`, `MCRequests`, `MCProcesses`, `MCSubscriber` | symmetry sets, views, functions of starters, groups and headers for TLC |
| `SequenceLemmas` | facts about `Append`, `Tail`, `Front`, `RemoveAt`, `InsertAt`, and sequences without repetition |
| `TTrailProofs` | theorems on the types, the assertions and the cycles the trail accounts for; on saved items, lists and buttons, and on the cycles they belong to |
| `TTrailRefinementProofs` | theorems that `TTrail` implements `NestedTransactions` and `UndoHistory`, and that an abort restores the begin |
| `JobsProofs` | theorems on the types, the wakeup, the owners, the block of undo and the queue of `Jobs`, and on jobs that all go through the queue |
| `WebReplyProofs` | theorems on the types of `WebReply`, lost requests and the promise of `ReplyService` |
| `ProcessesProofs`, `RequestsProofs`, `SubscriberProofs` | theorems on the modules of these names |

### TTrail and the code

| state | code |
|---|---|
| `live`, `page` | contents of the items, active pages of the folders |
| `cycles`, `actual` | `m_Cycles`, `m_ActualCycle` (counted from 1) |
| `trail` | `m_trail` cut at `m_trail_points` into segments `[owner, log]` |
| `final` | `TransactionOwner::m_final_transaction` |
| `owing` | clients that have called Begin and not yet Commit or Rollback |
| `undo`, `redo`, `activated`, `enabled` | the lists and flags of `DataTTrailUndo` |
| `button` | the last status sent to the undo and redo listeners |
| `busy` | the loop that is running; `m_recovering` is `busy.op = "abort"` |
| `failed` | an `assert(false)` would have stopped the program |

Every public operation of the trail, of undo and of the cycles is an action.  A
call that loops over elements starts the loop in one step and then takes one
step per element, so that the state between two elements is visible to the
properties; while a loop runs no other call is accepted, except that
updates of the GUI accept writes.  Cells are pairs of a cycle *identity* and a
name: containers survive renumbering, numbers do not, and the elements of the
trail keep exactly what the code keeps (a container pointer for items and
deleted cycles, numbers for switches and new cycles).  Global items are one cell
that all cycles share.

The trail is a sequence of segments and not one list with iterators; the code
never holds an iterator across a call, so nothing is lost.  `m_transactions` is
the length of `trail` (its asserts compare it with the number of points).

Abstracted: the tree of elements below a top level item, which the trail saves as
a whole; time stamps; the wording of messages; the Qt side of folders
(`GuiQtFolder` with map and unmap).  Assumed of the clients: an owner begins a
transaction only after it has ended its last one, as controllers, streams and
tables do.

### Jobs and the code

| state | code |
|---|---|
| `queue`, `wait` | `JobStarter::s_jobqueue`, `s_wait` |
| `controller` | `m_next_controller` of each caller: made, started, with a transaction (`m_transactionStarted`), blocking undo, stopped, grabbing (`m_loopcontrol`) |
| `timers` | the zero timers of starters ("again", `tryAgain`) and of actions ("start", `JobController::start`) |
| `engine`, `canceled` | `m_engine` of each function with the way it goes on, `m_canceled` |
| `counter`, `active` | `JobController::s_objectCounter`, `JobManager::m_active_controller` |
| `open`, `allowed` | the owners on the trail; what `disallowUndo` and `allowUndo` leave |
| `failed` | the assert that would have stopped the program |

A step is the work of one event of the GUI thread.  Two things are finer: what the
code does by a call instead of a timer (functions of high priority, a function
that its process calls back) is a step of its own, which excludes all others
until the call has returned (`InCall`).  The slices of a function are
`Pause`, `RunProcess` and `Epilog` in any order, since the interpreted code may
be anything.  A starter is an object that the code makes for one job and then
deletes; a name that is free again is used for the next one.

`open` repeats of the trail only who owns which open transaction, begins and ends
by the rules of `DataTTrail` (an end takes those above with it, a late one does
nothing).  The first `assert` of `DataTTrail` about late ends of the final owner
belongs to `TTrail`, where `NoAssertionFails` is proved for all orders of calls.

Every job is an action that another action called: starter or task button, then
function, then process.  Functions that call functions do so within their
engine (`JobStackReturn`), without a controller.  A function waits for one action
at a time, and processes stand for all of them: confirmation dialogs, file
streams and delegations differ in what they do and not in how they are started
and ended.

### WebReply and the code

| state | code |
|---|---|
| `exchange` | where the message of a queue and its client is: with the client, sent, in work, a query at the client, its answer, the response being written |
| `status`, `expected` | `m_status` of a reply thread, whether `m_expectedQueryResultMembers` has members |
| `streams` | `m_responseStreams`, as the header whose they are |
| `events` | queued signals `receivedData` |
| `waiting`, `running`, `wait` | `s_jobqueue`, the job at work, `s_wait` |
| `thread`, `registered` | `m_mqReplyThread` of each function, `s_replyResultData` |
| `asking` | the query in which `doQuery` spins |
| `aborts` | abort commands whose timer of one second runs |

A step is one event of the GUI thread, or what a reply thread does between two
looks at its status; `doQuery` takes three, since the thread may look between
`setStatus` and `setExpectedQueryResultMembers`.  Jobs are those of
`JobQueue`, whose actions `WebReply` uses: `Jobs` implements it, so that `WebReply`
need not repeat controllers and timers.  Assumed: one client per queue, in
lockstep (a `ZMQ_REQ` socket), functions that are not of high priority, a
program that defines `AFTER_UPDATE_FORMS`.  Exceptions of the reply threads
(`FINISHED`) are left out.  The constants choose which functions have a web reply,
end with an update, open dialogs and may fail.

### Requests and the code

| state | code |
|---|---|
| `phase`, `result`, `req`, `stopped` | the controller of the request job |
| `job` | number of the job; it stands for the streams it sends |
| `thread`, `m_status`, `terminated` | the `QThread` with its run cut in four, its status, `QThread::terminate` called |
| `m_osVec`, `sent`, `resultDataList` | the lists that the thread and the GUI thread share |
| `listener` | whether `m_listener` is set |
| `events` | `finished` of the thread and `receivedData` of `slot_finished` |
| `crashed` | `m_requestThread->isRunning()` on a null pointer |
| `clean`, `wrote`, `answer` | history: nothing of earlier jobs was left at the begin, the input streams could be written, the data of the last signal that ended a job |

One request job runs at a time, because a function waits for one action.
`ReadInputData` is the part of `startRequest` in the GUI thread that fills `m_osVec`; whether
the streams can be written is a choice.  `startRequest` does not look at its result, so
that the thread then sends a header without data.
A thread fails only before its streams are sent; requests have a timeout; a
terminated thread may stop at any point or reach its end.  Timers may fire before
signals that are queued.

### Processes and the code

| state | code |
|---|---|
| `m_processes`, `m_current`, `m_stopped` | of the `ProcessGroup` |
| `phase`, `result`, `stopped` | the controller of the group |
| `m_is_running`, `m_exitCode`, `exitStatus` | of each process |
| `child` | the child process: none, running, killed and not yet gone, failed to start |

The worker's look is one of six actions, by the current process; signals of
`QProcess` come between two looks.  It is the Qt build; the channels carry data only.  A
process without a shell may fail to start.  Killed children come to their
end, others may run for ever.

### Subscriber and the code

| state | code |
|---|---|
| `events` | queued signals of the threads |
| `s_triggerStarted`, `s_procSubsVec` | the same |
| `data` | per header the message its streams have read |
| `shown`, `refresh` | what the GUI shows, the timer that updates it |
| `s_jobqueue`, `s_wait`, `timers`, `running` | the starters |
| `cleaning` | in the loop of `cleanup()`, one step per dropped starter |

Each header has its own streams (config-opmessagequeue.tex:40).  A starter
is represented by the message that made it; functions are not of high
priority.  Any function may fail.  The counter of updates that GUI elements
omit is left out.

## 3. Runs

| run | question | bounds | distinct states |
|---|---|---|---|
| `trail_data` | nested transactions with three owners, late ends, clears; liveness | 3 owners, depth 3, logs of 2, an ordinary item and one with OMIT_TTRAIL and PROTECTED | 74,000 |
| `trail_cycles` | aborts with cycles | 2 owners, depth 2, logs of 2, 2 cycles, 1 item, which is not global | 268,000 |
| `trail_undo` | undo with every switch it has | 1 owner, 1 item, a folder of 2 pages, lists of 2 | 371,000 |
| `undo_cycles` | the history of undo and redo, across changes of cycles | 2 cycles, an item and a global one, a folder, lists of 2, logs of 1 | 149,000 |
| `jobs_queue` | the promise of the job queue, with liveness; transactions, grab and undo at rest | 4 starters on 3 functions, one of high priority, AFTER_UPDATE_FORMS, 2 starters that block undo | 1,600 |
| `jobs_overlap` | what holds although jobs overlap | a field that begins early, a starter of a silent function, a task button | 24,000 |
| `web_reply` | requests and their responses, with liveness | 3 queues with a client each (a function with a web reply and queries, one without, the abort command), a timer function with one pending function, AFTER_UPDATE_FORMS, one abort under way | 49,000 |
| `requests` | the contract of a request, its answer, stops, liveness | 2 request queues, 3 jobs | 400,000 |
| `processes` | the contract of a process group, order, liveness | groups of three processes, of two and a daemon, of one and a pseudo process | 550 |
| `subscriber` | data, order and progress of messages, the queue | 2 headers with functions, 1 without, a button, 4 messages | 15,000 |
| `folder_undo` | *violated*: a folder switched twice in one transaction | | |
| `jobs_edit` | *violated*: a job in its own transaction, with a field and a silent function | | |

Why the bounds are enough.  Three owners are the least that let one be
outermost, one be swallowed and one be ended in order at a time, and depth 3 has
a transaction that is both inner and outer.  A log of two elements has the
repeated item and the two elements whose order matters; merging can make logs of
up to four, because `MaxLog` limits what clients add and not what a commit moves.
Two cycles give removal before and after the actual one, removal of the first,
creation after a switch; the identities are reused, so that a freed and
recreated container would be noticed.  Lists of two entries reach their limit
from both sides; the proofs hold for every limit.  Symmetry is used for owners
and cycles in runs of safety properties only; the view leaves out the contents of
freed cycles, which no action reads.

`Calls` chooses which calls a run's clients make.  `trail_undo` makes all of them
except those on cycles; `undo_cycles` leaves out the calls
about which the history promises nothing: writes of GUI callbacks (they change
the pool on purpose without a trace), disallowed recording, and undo inside a
transaction.  `trail_cycles` leaves out undo: an undo inside a transaction
is not taken back by an abort.

For the jobs, four starters give two that share a function and two that queue
behind the running one, in front of and behind the trigger of the update; three
functions have one with timers, one by calls and the one of the trigger.  The
jobs come again and again, and nothing counts them.  `jobs_overlap` has one actor
of each kind that can get past the queue or the grab: the edit of a field, a silent
job and a task button; `counter` is at most three.  It ends where an assert
fails, because the program does (`CHECK_DEADLOCK FALSE`); what the run says holds
until then.  `jobs_queue` has no button, because `AssertsHold` fails beside one.

Three jobs on two request queues give a job whose request was cancelled, one of another
request in between, and one that finds what the first has left.  Four messages
give one that runs, two that are kept, of the same and of another header, and one
that comes after them.  Three clients are one that waits for its result, one whose
polling keeps it waiting, and one that cancels; `Interrupts` is empty, since
an unexpected answer to a query makes two requests of one exchange.  A group
of three has a process between two others.  `requests` and `processes` really stop
when the jobs are used up or a child runs for ever (`CHECK_DEADLOCK FALSE`).

The properties of the new runs, in words.  `LostOnlyWithFailure`: a request stays
unanswered only if its job waited when another one failed.  `AnsweredOrLost`: no
thread polls for ever; for functions with a web reply this needs that other
clients are quiet some day.  `StoppedEnds`: a cancel ends a group, unless another
process was started after it or the current one had failed to start.
`OwnAnswer`: the answer is that to the message of the job itself, if nothing of the
earlier ones was left when it began; without this condition it does not hold.  A job
whose streams could not be written is not excepted: its message is then empty, and the
answer is the one to an empty message.  `StopsAtOnce`: a cancel, an abort or a quit ends the
request that is on in the same step and as aborted.  `ImplementsAction` does not say that: in
`Requests` no job is ever "stopping", and the contract would let one that is on
end well after a cancel.
`EveryMessageProcessed`: data are written, and shown when there is no function,
also when a function is dropped.

Fairness.  `Jobs!Spec` asks weak fairness of `TryAgain`, the zero timer of a
starter, which the event loop of the GUI fires as long as it turns.  It does not
assume that a function or a process ends.  `FairSpec` asks weak fairness of `Step`, the steps of a running loop
and the return of an update, and of nothing else.  In the code these are
statements of one function in one thread, which run on until it returns.  No
client is assumed ever to call, to commit or to abort.

`FairSpec` of `WebReply`, `Requests`, `Processes` and `Subscriber` asks weak fairness
of threads and timers, which the operating system and the event loop schedule, and
strong fairness of a signal that must find the GUI thread free again and again
(it is not while `doQuery` waits or `cleanup` loops).  Three assumptions are about the
environment and not about the code: functions end (`EndOk`, `EndFailed`), a client
that is asked answers, a killed child dies.  A request needs no answering
server, because its time runs out.

## 4. What the violations show, and where code and manual differ

- `folder_undo`.  `DataTTrailItemList::restore` (line 65) restores an entry
  forwards.  Items are saved once per transaction, so their order does not
  matter; folder switches are recorded each time.  After a transaction that
  switched a folder from page 1 to 2 and back, undo ends on page 2.
- `jobs_edit`.  A field begins the transaction of its job before it queues the
  job, so that the job can take back the input.  If a silent function is
  running, which leaves the mouse alone, this transaction lies inside that of the
  running job, whose end removes both.  The job of the field finds
  `m_transactionStarted` and begins none (`JobController.cc:117`): it runs without a
  transaction, its changes are not recorded and it cannot be rolled back.  The
  check in `doFinalWork` that no function runs is compiled out.

Two more disagreements are in the properties of passing runs, which state what the
code does:

- Priority.  The manual says that `PRIORITY=HIGH` "adds the function at the
  beginning of the function queue: it will run before the other waiting functions"
  (config-functions.tex:35).  `JobStarter::push` (line 390) appends every starter, and the
  priority only makes a function start and run without timers.  `ImplementsJobQueue` and
  `JobsAreQueued` thus state the order of submission for all functions; `jobs_queue`
  has one of high priority, which waits for its turn like the others.
- Streams that cannot be written.  The streams of a request "define the message(s) to
  send" (config-functions.tex:685).  If one cannot be written, `readInputData`
  (`MessageQueueThreads.cc:165`) empties the list of what is to be sent, emits `error` and returns
  false.  For requests the signal is connected to nothing, although there is a handler that
  would end them (`MessageQueueRequest.cc:131`), and `startRequest` ignores the
  result (line 63).  The thread sends the header alone, the job ends well with the answer
  to it, and the function goes on as if its message had been sent.  `OwnAnswer`
  states this answer.

Other steps of the models break what one might expect, without a run of their own:
an abort that comes after an outer commit is ignored (`DataTTrail.cc:191`);
an undo between a begin and an abort is not taken back (`DataTTrailUndo.cc:209`);
a task button pressed twice beside a silent job starts its controller again, up to
`assert( m_engine == 0 )` (`JobAction.h:195`); a function of a request or of a
message that waits behind one that fails is never called, and its client gets
no response (`JobStarter.cc:410`, against config-opmessagequeue.tex:39 and 46); a cancel
before a request has begun may use a null pointer (`MessageQueueRequest.cc:115`); a
cancel between two processes kills none of them (`ProcessGroup.cc:116`); a process
that fails to start leaves its job waiting (`ProcessWrapper.cc:326`).

## 5. What is proved

For every value of the constants of `TTrail` that satisfies `DataAssumption` and
`BoundAssumption`, and without further assumptions:

- `TypeCorrect`, `NoAssertionFails`, `ActualCycleExists`;
- `EveryItemSavedOnce`, `ListsStayBounded`, `EntriesAreSound` (from `NoEmptyEntry` and
  `EntriesHoldItemsOnce`), `ButtonsTellTheTruth`, `UpdatesLeaveUndoAlone`,
  `CyclesStayConsistent`, `NoItemDangles` (all in `TTrailProofs`).

And under the condition that `Calls` has no "undo-in-transaction"
(`TTrailRefinementProofs`):

- `TrailImplementsTransactions`: `TTrail` implements `NestedTransactions`;
- `AbortsRestoreAll`: an abort ends with the data, the pages, the cycles in their order
  and the actual cycle of its owner's begin.

And under the condition `AccountedCalls`, that `Calls` has none but "switch-page", "cycles"
and "undo" (`TTrailRefinementProofs`):

- `UndoImplementsHistory`: `TTrail` implements `UndoHistory`.

The first condition is needed: `DataTTrailUndo::undo` (line 209) does not ask whether a
transaction is open, and what it restores is recorded nowhere, so that an abort
does not take it back.  The code prevents such an undo only for jobs that disallow
it.

So is the second one.  Each call that it leaves out changes the pool behind the lists: a clear of a
cycle writes items and a job that disallows undo writes them while nothing is recorded,
callbacks of a GUI update too, and an undo inside a transaction takes an entry
away that an abort does not give back.  A folder that is switched
twice in a transaction is the finding of `folder_undo` (section 4).  In `UndoHistory` they would
be changes of the pool that neither enter the history nor end it.  What is left are writes, begins,
commits, aborts and late ends of any owners, page switches outside of transactions, cycles
that are made, deleted and switched, undo and redo between transactions, and the calls that
activate and enable undo.

The argument.  None of the properties is inductive alone.

`PoolInv` adds to the types that the actual cycle exists, that a running commit or
abort has its owner on the trail (or is done), and `Accounted`: the trail accounts for
the cycles and the actual one.  There is an assignment of them to every place of
the trail, which ends with those of the pool; a "new", "delete" or "switch" element
changes them from its place to the next as it was recorded, with numbers that
fit; and for each open transaction one of them, `g[k]`, is what there was when it
began.  Without it nothing says that `TTInsertCycle` gets a number in its range,
which is one of the assertions.

`AssertInv` adds `OutermostKnown`: an owner with the final flag that still owes
an end owns the outermost segment.  A commit or abort by another owner cannot
remove that segment before its own, so that no loop runs out of segments; a
late end by a final owner cannot happen, since its segment is still there.

`UndoInv` adds the properties of the logs and lists, that both lists are empty
until undo is activated, and that nothing is recorded while an update runs
(`UpdateRecordsNothing`).  `ListsBounded` is about the sum of both lengths: each
insert that grows the undo list empties the redo list, and undo and redo move one
entry; so no undo or redo drops an entry.  `UniqueIn` of a merged
log rests on `Resident`, and of an entry on that of the log it was.

`CyclesInv` adds to `UndoInv` which cycles the elements speak of, not only how
many there are.  `TrailKnown`: of two elements on the trail the earlier and the later
one are `Apart`, that is, no cycle is deleted twice and no item was saved before its
cycle was made; no cycle of the pool is held by a "delete" element; and the
cycle of each saved item is in the pool or held.  The order is what an abort needs: when it
takes a new cycle away, every item of that cycle was saved later and is restored
already.  `ListsKnown`: an entry to undo or redo has items of cycles in
the pool only.  It is inductive with `NoUndoAcross`: while there is a "switch", "new" or
"delete" element on the trail both lists are empty, since `newCycle` and
`removeCycle` clear them, so that an abort takes no cycle away under an entry.
`TodoKnown` says the same of the items that a running clear has still to visit.
`UndoInv` is needed for the numbers: `Accounted` says that the recorded number is a valid
place for the cycle that `TTInsertCycle` brings back, and for the actual one.

The first two theorems of `TTrailRefinementProofs` are about what the trail, undone to the
begin of a transaction, would give.  The refinement defines it without a run backwards:
an item or folder was what the first of its elements from there on brings back
(`Before`), and the cycles were those of the pool and those held, without those made
since.
Each action that changes the pool changes this for no begin (`BeginsKept`): a write
saves the old content unless it is saved already, and a restore takes the
element away that it restores.  Nor does a commit that moves an element outward
(`BeginsMoved`), whatever the outer transaction has saved before, or drops it
because the outer one has saved that item.  `OwnersApart` says that open transactions have
different owners, each of which owes an end or is the one of the running loop;
so the abstract step, which ends the transactions from the owner's on,
ends those that the loops then take away one by one.  The loops
are stutters of `NestedTransactions`, their start is its step.

`AbortsRestoreAll` is about more than the refinement, which knows the set
of cycles and neither their order nor the actual one.  `Remembered` relates the history
variable to the trail: for every open transaction what was remembered at its begin is
what its first elements bring back, and the `g[k]` of `Accounted`.  It leaves
out those that a running commit is about to merge, whose begins are no longer promised
to anyone.

`UndoImplementsHistory` adds to `CyclesInv` three parts, which are inductive with it.
`UndoIsOn`: while there is an entry, changes are recorded, or an update is under
way that turns recording on again; without it a write could leave the lists as they are.
`NoSwitchOpen`: no page switch is on the trail, so that a log that becomes an entry
has at most one element per item and none of a folder, and it does not matter that an
entry is restored forwards.  `UndoChained`: an entry of either list has each
item and each folder once, and a page switch in it leaves the page that the entries
after it lead to (`Linked`); items need nothing of this kind, since they are restored by
value.  The pool that an entry leads back to is defined as for the trail, by the first
entry that has an element of an item or a folder (`Back`).  Every step does one of
four things to the history (`HistoryMoves`): it leaves the committed pool
and the lists alone; it empties both lists; it adds an `Entry` that leads from the
new committed pool back to the old one; or it restores the last entry of one list and
adds to the other what leads from there back.  `MovesStep` shows this for every action,
`HistorySeen` that each of the four is a step of `UndoHistory` or a stutter, and `ChainedStep` that it
keeps `UndoChained`.  Inside a transaction the committed pool is what the
elements from the first begin on bring back, which `BeginsKept` and `BeginsMoved` say that no
step changes but the commit of the outermost transaction.

The step lemmas follow the disjuncts of `Next`, one lemma per action or group of
actions; `SequenceLemmas` has what they need of sequences.

For every value of the constants of `Jobs` that satisfies `ActorAssumption` and
`OptionAssumption` (`JobsProofs`), thus also where jobs overlap:

- `JobsTypeCorrect`, `WakeupNeverLost`, `OwnersStayKnown`, `UndoBlockedInTime`;
- `JobsAreQueued`: `Jobs` implements `JobQueue!SafeSpec`: the order is that of submission
  whatever the priority, which is not what the manual says (section 4).

The argument.  `JobInv` adds to these properties what the steps pass on between
them: a queued starter has not begun (`QueueApart`); a timer that starts a
controller of a starter or a process finds it there and not yet started
(`StartsOnce`); a function waits exactly while its process has a controller
(`WaitsForProcess`) and has a controller to return to while it works
(`HasController`); the counter is the number of controllers (`CounterExact`), which
makes it nonnegative.  `OneWakeup` is the centre: a starter that ends was
the only one at work, so that its return is the one look at the queue.
`UndoBlocked` rests on it: `allowUndo` does not count, so it is right only since
two jobs that block undo are never at work together, blockers being starters
that do not begin early (`ControllerKinds`).  Button timers are outside
`StartsOnce`; that is the gap of a button pressed twice.

Under a condition on the actors (`JobsProofs`):

- `QueuedJobsMeetNoAssert`, without task buttons (`Button = {}`);
- `QueuedJobsHaveTransactions`, `QueuedJobsLeaveNothing`, `QueuedJobIsActive`,
  `QueuedJobsEndTheirOwn`, under `AllJobsQueue`: also without fields that begin
  their transaction before their turn (`Early = {}`).

Menus, timers, message queues, REST requests and fields outside of a running job all go
through the queue; the conditions name the two ways around it.  They are needed: a button pressed twice
beside a silent job reaches an assert (section 4), and `jobs_edit` finds a job
without a transaction when there is an early field.  `SoloInv` adds to `JobInv` that
the trail is the chain of one job (`OneChain`: nothing, the transaction of the
starter that is on, or this and inside it that of its process), that `active` is this
starter (`ActiveExact`), that only who is on grabs the mouse (`GrabIsOn`) and that
a controller that was made has its timer (`MadeIsDue`).

For every value of the constants of `WebReply` that satisfies `WebAssumption`:
`WebReplyTypeCorrect`; and under `OwnFunctions`:

- `RequestsLostWithFailureOnly`;
- `RepliesKeepPromise`: `WebReply` implements `ReplyService!SafeSpec`.

`OwnFunctions` is how the include file `MessageQueueReply.inc` sets the queues up: a function belongs
to one queue and not to a timer, clients answer what they are asked, and at most one queue
calls functions with a web reply, because `s_replyResultData` is one variable of
all (`JobAction.cc:367`).  A function `m_mqReplyThread` of two queues would answer
the one that called last.  `WebInv` says where a request is: from its receipt to its response it is in
exactly one place, a signal (`SignalsApart`), a job that waits (`LineApart`) or runs
(`RunningKnown`), the registered result (`RegisteredKnown`) or a
query (`AskingKnown`), with the status that its thread then has; and that the streams are those
of its header (`StreamsKnown`).  `WebStep` shows at once that every step keeps this and is
a step or a stutter of `ReplyService`.

For every value of the constants that satisfies the assumption of the module:

- `ProcessesTypeCorrect`, `ProcessesInOrder`, `GroupKeepsContract`;
- `RequestsTypeCorrect`, `ListenerOfWaitingJob`, `JobsGetTheirAnswer`,
  `RequestKeepsContract`, `RequestStopsAtOnce`;
- `SubscriberTypeCorrect`, `FunctionsFindTheirData`, `MessagesInOrder`,
  `SubscriberJobsAreQueued`.

The arguments.  `Processes`: that the current process alone may run, and that a
process that runs belongs to a group that is on, is inductive with the types; the
rest follows from the exit status of those before it.  `Requests`: `RequestsInv` says
that the listener is set exactly while the job waits (`ListenerWaits`), that an idle
thread has emptied its list (`ListsCleared`), and that, after a clean begin,
what is in the thread and the signals of the waiting request is of the message of the
present job (`OnlyOwn`), be it empty or not; numbers of jobs only grow (`Numbered`).
`RequestStopsAtOnce` follows from `ListenerWaits`: who stops the job finds its listener.  `Subscriber`: `Wakeups`
ties `s_wait` to the timer, the running job and the loop of cleanup; `Line` and `Kept` say
that at most one job of a message is in the line from the running job to the end
of the queue, exactly when `s_triggerStarted`, with the data of its header, and
that all kept messages and all signals are younger.

Only model-checked.  Liveness is out of the reach of the prover: `LoopsEnd`, `EveryJobEnds`,
`StoppedEnds`, `EveryMessageProcessed`, `AnsweredOrLost`, and the fair part of
`ImplementsJobQueue`, whose safe part is `JobsAreQueued` and `SubscriberJobsAreQueued`.
The other way round, the types of `Subscriber` and `ListenerWaits` of `Requests` are among what is
proved and no part of a run.  All invariants and all other action properties and refinements that the passing runs check are
theorems, some under the conditions named above.

## 6. Not modelled

Parser, streams, formats, plots, utilities and the widgets are the larger part of the
sources; they translate, convert and draw, and have no protocol state of their own.
File streams and paste have a transaction of their own; what of it reaches the trail
is in `TTrail` as the calls of an owner.  REST and sockets start jobs as the
reply queues do.  Of the message queues the publisher, exceptions of the reply and
subscriber threads and the telemetry are left out; of the processes the channels,
Matlab and the other build; of the jobs the deferred deletion of starters and the
base items, which a starter gets only when it leaves the queue, so that the comparison in
`push` never finds them.  Callbacks while an abort restores, which the code does
not record (`m_recovering`), are left out: that an abort leaves the undo lists
alone is thus no more than the guard of the model.  `commitAllTransactions`,
`abortAllTransactions` and the non-temporary `disable` have no caller.
`DynamicDatapoolAlloc` extends the dictionary at run time; it adds
items to all containers and does not pass through the trail.

## 7. Plan

1. `FileStream` and table paste: the transaction is ended on every path.
2. `Jobs` composed with `TTrail`: the owners of `TTrail` are the controllers, a
   transaction that blocks undo disallows it, undo by the user between slices;
   undo while a job disallows it; writes of the application layer after a
   pool operation.
3. `WebReply` with functions without an update and without AFTER_UPDATE_FORMS.
4. Proofs: `UndoImplementsHistory` with jobs that disallow undo, once a property says what the
   older entries still promise after them; the theorems of `Jobs` and `TTrail` for their
   composition.

The runs of later parts may take the place of runs that then ask the same
question of a smaller system.
