# TLA+ models of the task board

Models, model-checking runs and machine-checked proofs for the collaborative
task board in `src/`: a Go server over Postgres (`src/server`) and a React
client (`src/client/src`). The two halves meet in the *event log*: every
mutation of a project appends events with consecutive seqs in its own
transaction, and every open browser tab shows the board those events describe.
The models ask whether that holds when requests run at once, deadlock, fail,
and when messages are late, duplicated, reordered or lost.

## The system

| Part | Code | State | Operations |
|---|---|---|---|
| Store | `server/store.go`, `migrations/` | tables `projects`, `tasks`, `task_dependencies`, `comments` | create, patch and delete projects and tasks, breakdown batches, comments |
| Validation | `server/validation.go` | none; reads inside the caller's transaction | dependencies exist, same project, no cycle; completion only after the dependencies; batch index graph |
| Event log | `server/events.go` | table `events`, column `projects.last_seq` | `recordEvent` claims a seq and appends; `ListEventsSince` |
| HTTP handlers | `server/handlers.go` | none | decode, one store call, then `broadcastEvents` |
| Hub | `server/hub.go` | connected clients, what each views, a bounded send queue each | register, `setViewing` with replay, broadcast, presence rosters, closing of slow clients |
| Live connection | `client/src/live.ts` | one WebSocket per tab, reconnect timer | connect, send `viewing`/`rename`, dispatch |
| Board sync | `client/src/ProjectDetail.tsx` | tasks, `lastSeq`, buffer, `fillingGap`, `snapshotLoading` | `refresh`, `applyEvent`, `processBuffer`, `fillGap`, optimistic moves |
| Presence | `hub.go`, `useWsEvents.ts` | rosters per project | join, leave, move, rename |
| Task list cache | `handlers.go`, the browser | ETag = `lastSeq`, cached body | `listTasks`, 304 |
| Breakdown | `ai.go`, `BreakdownModal.tsx`, `taskUtils.ts` | suggestions under review | suggest, deselect and renumber, apply |
| Rate limiter | `server/ratelimit.go` | token bucket per caller | allow, sweep |
| Panels and dashboard | `TaskPanel.tsx`, `ProjectList.tsx` | drafts, refetched lists | edit, refetch on events |

How they interact. A handler calls the store, which runs one Postgres
transaction of several statements and returns the events it logged; only then
does the handler give them to the hub, one call each, on its own goroutine, so
handlers overtake each other between commit and broadcast. The hub enqueues to
every connection. A tab's `viewing` message makes the connection's read loop
replay the log after the tab's `lastSeq`. A tab also reads over HTTP: the
project, the task list, the events after a seq.

What is hard about it, and what makes each part correct:

* *Store*: READ COMMITTED transactions, each seeing others' commits between its
  own statements; only row locks and foreign keys order them. Correct: no
  dependency cycle, no edge out of the project or to a deleted task, no
  completion before a dependency, no lost write, every operation ends.
* *Event log*: correct when seqs are 1..`last_seq` without hole or duplicate,
  events are logged if and only if their change is, and replaying the log gives
  the tables.
* *Hub and board sync*: messages in any order from three sources (live, replay,
  catch-up) against a snapshot read in two steps; broken connections, overflowing
  queues, a restarted server. Correct when the board always catches up with the log.
* *Presence*: each tab speaks over connections that come and go, each
  connection's read loop broadcasts for itself. Correct when the hub has every
  tab where it is and the roster on screen is the last true one.
* *Cache*: correct when a cached list is never used for a `lastSeq` it does not
  reflect.
* *Breakdown*: requests outlive the dialog that sent them. Correct when a review
  is created once and no dialog waits in vain; the index arithmetic, when the
  check accepts exactly what can be created and renumbering keeps the graph.
* *Rate limiter*: buckets are made late, refilled late and swept. Correct when
  nobody can tell, and nobody gets more than the rate.

`PROJECT.json` lists these hazards at the lines where they bite.

## Modules

| Module | What it is |
|---|---|
| `EventLog.tla` | the abstract promise: a log per project, grown by whole blocks, erased only with its project |
| `TaskStore.tla` | the store, statement by statement; implements `EventLog` |
| `MCTaskStore.tla` | small instances of `TaskStore`: requests, batches, seeded databases |
| `TaskStoreProofs.tla` | types, locks, claims, the gapless log of `TaskStore` and that it implements `EventLog`, proved |
| `RowsProofs.tla` | rows and edges of `TaskStore` stay consistent and its logs create a task before they speak of it, proved |
| `ReplayProofs.tla` | the logs of `TaskStore` replay to its tables, proved |
| `GraphProofs.tla` | cycles, completion and the finish line of a breakdown in the dependency graph of `TaskStore`, proved |
| `Sync.tla` | one tab, its connection, the hub, the handlers and the browser's cache over a growing log |
| `SyncProofs.tla` | the theorems about `Sync` |
| `Presence.tla` | several tabs, their connections over time, and the hub's rosters |
| `PresenceProofs.tla` | the theorems about `Presence` |
| `TokenBucket.tla` | the abstract promise of the limiter: a bucket per caller that is always there |
| `RateLimit.tla` | the limiter as it is; implements `TokenBucket` |
| `RateLimitProofs.tla` | the theorems about `RateLimit` |
| `Breakdown.tla` | the breakdown dialog and its two requests, composed with `RateLimit`, and the pure functions both sides check and renumber with |
| `BreakdownProofs.tla` | the theorems about `Breakdown` |
| `MCBreakdown.tla` | a small instance of `Breakdown`: answers and graphs |

### TaskStore

Committed rows are the variables `projects`, `tasks`, `deps`, `comments` and
`events`; an open transaction's uncommitted writes, its locks and the statement
it runs next (`pc`) are in the record `txn[t]`. One action is one SQL statement,
or several of which at most one can be told apart by another transaction. A
statement sees the committed rows overlaid with its own writes (`TaskSeen`,
`DepsSeen`); `Commit` makes the writes visible at once, `Rollback` drops them.

The row locks are those Postgres takes, because the code counts on them: `FOR
UPDATE` for `SELECT ... FOR UPDATE` and `DELETE` (with its cascades),
`FOR NO KEY UPDATE` for `UPDATE`, `FOR KEY SHARE` for a foreign key check. A
statement whose locks conflict with another transaction's waits (`Needs`,
`Conflict`); a cycle of waits is broken by aborting one of them
(`DeadlockVictim`); and any statement may fail (`Fail`), which is a broken
connection or a cancelled request.

| Operation in `store.go` | Actions |
|---|---|
| `CreateProject` | `CreateProject` |
| `UpdateProject` | `UpdateProjectLock`, then the shared end |
| `DeleteProject` | `DeleteProjectLock`, `DeleteProjectCascade`, `Commit` |
| `CreateTask` | `CreateTaskValidate`, `CreateTaskInsert`, shared end |
| `UpdateTask` | `UpdateTaskLock`, `UpdateTaskValidate`, `UpdateTaskComplete`, `UpdateTaskWrite`, shared end |
| `DeleteTask` | `DeleteTaskLock`, `DeleteTaskCascade`, shared end |
| `CreateTaskBatch` | `BatchLock`, `BatchInsert`, `BatchValidate`, shared end |
| `CreateComment`, `DeleteComment` | `...Resolve` (no lock), then the write, shared end |
| `insertDependencies`, `recordEvent`, `tx.Commit` | `InsertDependency`, `RecordEvent`, `Commit`: the shared end |

Abstracted: a task's configuration and assignees go with its title; time stamps,
JSON and length limits are left out; the depth-first cycle walks are
reachability (`Reach`). The reader of the log (`ApplyEvent`) is the board's
`applyEvent`, except that it also keeps comments by their events, where the
board leaves them to the panel, which fetches them anew. Ids are never handed out twice (`used`). A client names
only ids it may have seen.

### Sync

`log` grows by the block of a committed transaction, which is what the theorems
about `TaskStore` justify. A task's content is the seq of the last event that
wrote it, so a board is a function from tasks to seqs, 0 for a task it does not
show: exactly what tells a stale board from a right one. `tab` holds
`ProjectDetail`'s refs and state: board, `lastSeq`, the buffer (`pending`),
`snapshotLoadingRef` (`loading`), `subscribedProjectRef` (`subscribed`), the
one `fillGap` in flight, and the `refresh()` calls, each with the seqs at which
the server answered its two reads; `cache` is the task list the browser keeps,
with its ETag. `handlers` are requests that have committed
and not finished broadcasting; `queue` is the send queue and the network behind
it; `replay` is what `replayTo` has left.

| Code | Actions |
|---|---|
| `refresh` | `RefreshCalled`, `RefreshLands`, `RefreshFails` |
| `getProject`, `listTasks` with its 304 | `ProjectAnswered`; `ListTasks` (`lastSeq`, ETag), `ListAnswered` (the tasks) |
| message handler, `processBuffer` | `Deliver`, operator `ProcessBuffer` |
| `fillGap`, `listEvents` | `FetchAnswered`, `FetchLands`, `FetchFails` |
| `live.ts` and the effects on `connected` and on the focused task | `Open`, `Focus` |
| `ServeWS`, `setViewing`, `replayTo` | `Register`, `SetViewing`, `ReplayTo`, `ReplayFails` |
| handlers, `broadcastEvents`, `enqueue` | `Commit`, `Broadcast`, operator `Send` |
| failures | `Drop`, `Crash`, `CommitUnreported` |

Messages that a closing connection loses are lost at once: those that still
arrive are delivered before the close. Between the capacity of the send queue
and that of queue and network together a message may find room or close the
connection. Tabs share nothing but the log, so one is enough. A focus change in
a project the hub already has is about presence only and left to `Presence`.

### Presence

`tab[t]` is what App, the hooks and the live connection know: the view, whether
the board's `refresh()` is under way (`loading`) and has subscribed the tab, the
refreshes of boards it has left (`left`), the rosters on screen (`shown`).
`conns` are all WebSockets ever made, in the states connecting, open, broken (the
tab knows, the hub does not) and gone; `toServer` holds what was sent, which
waits while the connection is being made. A board whose first refresh failed
shows what events bring it; a task selected there is told to the hub by the
refresh that subscribes in the end. `hands` are rosters that
`broadcastPresence` has read under the lock and not yet sent, in the order in
which they were read. A roster is a set of entries, the code's is a list: the two
entries that a tab has while the hub still knows its old connection are one if
they say the same.

| Code | Actions |
|---|---|
| `App.tsx`, `ProjectDetail.tsx` | `OpenProject`, `LeaveProject`, `SelectTask`, `Subscribe`, `StraySubscribe` (the refresh of a board that is gone), `RefreshFails`, `RefreshAgain` (after a task is created) |
| `IdentityBadge.tsx` | `Rename` |
| `live.ts` | operators `Connected` (connect) and `Says` (send); `Connect`, `Opened` with the effect on `connected` |
| `useWsEvents.ts` | `Deliver`: a board takes its own project's rosters, the dashboard all |
| `ServeWS`, `setViewing`, `rename` | `Read`, `Unregister`, operator `Changed` for the rosters to send |
| `broadcastPresence`, `Broadcast` | `ReadRoster`, `Broadcast` |
| failures | `Drop` (network, deadline, full queue, failed attempt), `Crash` |

Registration and the tab's `onopen` are one step: what is sent in between waits
either way. Three variables are an observer's: `heard`, `stray`, `overtaken`.
They name the two known faults below, so that the properties can say exactly
when the roster may be wrong.

### RateLimit and Breakdown

Time is counted in the units in which a bucket refills; the code's 15 requests a
second, burst 30 and ten minutes are `Cost` = 1, `Capacity` = 30 and `TTL` = 9000
units of 1/15 second. `buckets` is the map, `cutoff` the one a sweep has taken
before it gets the mutex, `window` an observer that may start to count at any
moment. The actions are `Allowed` and `Refused` (`allow` under the mutex, and the
429), `SweepStarts`, `Sweep`, and the clock's `Tick`. A behaviour is the life of
one process.

`Breakdown` adds one dialog and its requests, each of which is an `Allowed` or
`Refused` of its caller. `modal` is `BreakdownModal` with the review it shows;
`applies` are the apply requests ever sent, with the dialog that waits for each.
`Open`, `Close`, `Retry`, `Toggle`, `Submit` are the user's; `AskArrives`,
`AskAnswered`, `AskFails` are `POST /breakdown` around whatever the model
answers; `ApplyArrives`, `ApplyAnswered`, `ApplyLost` are `POST
/breakdown/apply`, whose transaction is `CreateTaskBatch` of `TaskStore`; and
`Elsewhere` is every other request the limiter sees. A batch is the sequence of
its `dependsOn` lists. `Walk` is `validateSuggestions`' depth-first search with
its three marks, `Remap` is `remapSelectedSuggestions`.

## Runs

All runs bound the log: in `TaskStore` no operation starts once a log has
`MaxSeq` events, in `Sync` no transaction begins once the log has `MaxEvents`;
`Presence` bounds users' steps and failures, `Breakdown` the clock, dialogs and
requests. Behaviours therefore end, which is why deadlock is not checked; that
waiting for locks never ends in a standstill is `EveryOperationEnds`.

| Run | Shows | Instance |
|---|---|---|
| `store_empty` | gapless log, no forward reference, implements `EventLog`, no edge out of its project, breakdowns leave their parent last; what keeps rows and edges within their project, the log ahead of the tasks and its replay equal to the tables (but for dependencies on deleted tasks) | empty database, 2 projects, 3 tasks, 2 transactions, task operations, batches (chain, pair, a first subtask that depends on the second, cyclic), project creation and deletion |
| `store_races` | the inductive invariants of log and replay; the log replays to the tables, comments and renames included | 2 tasks joined by an edge and a third to create, a comment and a second to write, 2 transactions, 2 texts, every operation but batches and project creation |
| `store_apart` | with at most one dependency patch and one status patch open: no cycle, no completion before a dependency, and what makes both inductive | 3 tasks in a row and a fourth to create, 2 transactions, patches, deletions, a breakdown into one subtask |
| `store_liveness` | every operation ends, deadlocks included; no two tasks ever depend on each other | 2 tasks to do, without an edge or with one, patches, deletions, project deletion |
| `store_cycle` | *violation*: two patches close a cycle of three tasks | 3 tasks, one edge |
| `store_completion` | *violation*: completed while a dependency is reopened | 2 tasks |
| `store_stale_batch` | *violation*: a breakdown logs an edge to a deleted task | 4 tasks |
| `sync` | the board catches up from wherever it is; the buffer never waits in vain; what makes that inductive | 1 task, up to 3 events, pages of 1, the mount's `refresh()` and a later one that is not begun under the first or under a catch-up request, 2 failures of any kind, send queue of 1 and network of 1 |
| `sync_live` | the tab converges to the log; what waits in its buffer is applied in the end | 1 task, up to 3 events, pages of 1, the mount's `refresh()`, 2 failures of any kind |
| `sync_refresh` | *violation*: overlapping refreshes lose an event for ever | 1 task, up to 4 events, 2 `refresh()` calls at once |
| `presence` | the hub follows every tab; the last roster is true; what makes both inductive; presence settles | 2 tabs, one on a board, 2 projects, 2 names, 1 task, 2 steps of users, 1 failure of any kind |
| `breakdown` | no review is created twice, no dialog waits in vain, and what makes both inductive; the limiter keeps its rate and implements `TokenBucket`; check and renumbering are exact | 1 caller, burst 2, period 2, 3 units of time, 2 dialogs, 2 applies, 4 answers of the model; all graphs of up to 3 subtasks, 625 of 4 |

Why these bounds are enough to be interesting. Two open transactions give every
pairwise race, lock conflict and deadlock of two; three tasks give a cycle and a
dependency that is neither end of a patch. Properties about what one transaction
may do do not need a third; a deadlock of three would. The ids of an empty database are
interchangeable, so `store_empty` is checked up to permutations of projects,
tasks and transactions. `store_apart` keeps patches of one kind apart
(`PatchesApartSpec`) because `store_cycle` and `store_completion` show that its
properties fail when two of a kind meet; its tasks depend on each other in a row,
so that a cycle can take three edges.
`store_liveness` starts without an edge or with one: without, two patches can name
each other's task, which is the deadlock `NoMutualDependency` rests on. In `Sync` three events (one transaction may log two)
are the least for a gap with something beyond it while a catch-up is under way;
`Overlap` says what a task may be created, and with it the board refreshed,
under: another refresh, a catch-up request, or (where the properties hold)
neither; `sync_refresh` has the first;
a queue of one makes overflow, and with it a broken connection, a normal case
beside the counted failures; one task goes
through creation, patches and deletion, and a second would only repeat it, as a
board keeps tasks apart. `MaxEvents` is 2 and a transaction may log two events,
so logs have up to three. A page is one event in `sync` and `sync_live`, so that
catch-up needs several requests and a replay is cut as it is at the code's cap of
500.

In `presence` one tab starts on a board and one on the list, so that two steps
are a whole story: one joins while the other leaves, one opens a board and
leaves it before it has loaded, two boards change at once, a task is selected on a board that failed to load; the
second project
tells a board's rosters from the dashboard's. A connection that breaks is
followed by a second one of the same tab, which is where old and new could be
confused. In `breakdown` the clock runs one unit beyond the period, so that a
bucket is emptied, idle for just less or just as long as the sweep asks, and
used again; two dialogs and two applies let an answer arrive under a dialog that
did not ask for it. `MaxSubtasks` is 3 where the code has 10: an answer
of four subtasks is cut and names an index behind the cut. `AllGraphs` has all
batches below and at the limit; those above it show that the limit is kept.

Each property has a mutant in `PROJECT.json`, an operator of the module that
changes the definition as a plausible bug would: for instance `TaskLockShared`
(no `FOR UPDATE`), `RecordEventFromRow` (seq not claimed under the lock),
`SnapshotTasksFirst` (the reads of `refresh` swapped),
`ProcessBufferKeepsStale` (no filter), `OpenNoResubscribe` (no `viewing` on
reconnection). Replacing the original by it violates the property.

### Fairness

`TaskStore`: `SF` on every transaction's next statement. Postgres hands a lock
to its waiters in turn, so a statement that can run again and again does run;
its deadlock detector ends waits no one else would. Nothing forces a request to
arrive or a statement to fail.

`Sync`: requests are answered, handlers finish their broadcasts, the tab
reconnects and its callbacks run (`WF`); messages are delivered (`SF`, because
an overflow can take the queue away in between and the writer goroutine, given a
message again and again, writes one). Nothing is fair about commits, the user or
failures, which are finitely many by `MaxFaults`. `Converges` excuses `lost`:
events the tab was not sent because the query of `replayTo` failed or was cut at
its page, because a commit was reported as failed, or because the mount's refresh
failed, while no full replay has come since. The code retries none of these; the
tab is behind until the next live event shows it the gap. What happens then is
`BufferedIsApplied`, which excuses nothing: an event that has reached the buffer is
in the end applied, and all before it, over as many pages and failed requests as it
takes. It needs the same fairness: requests are answered and the tab's callbacks run.

`Presence`: something of the system's own steps happens as long as anything can
(`WF` of their disjunction): requests are answered, read loops run, tabs
reconnect and get their messages. Users and failures are bounded, so this much
is enough for `PresenceSettles`. A refresh of a board that is gone need not land.

## What the violations say

* `store_cycle`: `UpdateTask` locks only its own task's row, so two patches
  validate against graphs without each other's edge. Where B depends on A, one
  makes A depend on C, the other C on B, and both commit: a cycle of three. The
  comments at `store.go:617` and `validation.go:99` promise more. Two patches that
  name each other's task do not get there: each has its own row `FOR UPDATE`, the
  foreign key of its edge needs the other's, and one is aborted
  (`NoMutualDependency`, checked by `store_liveness` and proved).
* `store_completion`: `validateCanComplete` reads the dependencies' statuses
  without a lock; `store.go:321` says completions are blocked while a
  dependency is incomplete.
* `store_stale_batch`: `CreateTaskBatch` logs the dependency list read at its
  start; a `DeleteTask` that commits meanwhile makes it name a deleted task, and
  the log no longer replays to the tables.
* `sync_refresh`: `refresh()` is called on mount and again by `onCreated`; the
  calls share one loading flag and one `lastSeq`, and an older answer that lands
  last, under a catch-up request already sent, makes the tab skip an event. The
  proof of `ViewCatchesUp` found a second way there, with one refresh only: it
  is called while a catch-up request is out, whose answer is not buffered
  (`ProjectDetail.tsx:217-229`). It takes `lastSeq` beyond the snapshot's, the
  next request leaves from there, the snapshot takes `lastSeq` back, and the
  answer then skips what lies between. It needs two tasks, five events and
  pages of three, too many for a run from an empty board; both ways are what
  `Overlap = {}` leaves out.

Two faults are not violations of a run but the named exceptions of `presence`.
A refresh that lands after its board has gone still sends `viewing`, so the hub
counts the tab on a board it does not show (`stray`; `App.tsx:14` says that
clearing on leaving is enough). And of two rosters read one after the other the
first can be sent last and stay on screen (`overtaken`).

## Proofs

Everything proved holds for every value of the constants that satisfies the
named assumptions of the modules, which say no more than that sets of ids are
finite or differ, that `None` is no other value, and that sizes are numbers.

### TaskStore

`TaskStoreProofs.tla`:

* `TypeCorrect`: `Spec => []TypeOK`.
* `ClaimsFollowLog`: `Spec => []LogInvariant`.
* `LogHasNoGaps`: `Spec => []GaplessLog`, for any number of transactions,
  interleaved at every statement, failing and deadlocking anywhere.

`GaplessLog` is not inductive: it says nothing about seqs that are claimed and
not committed. `LogInvariant` adds that locks are exclusive (`LocksExclusive`),
that a transaction is in a state its statements produce (`ShapeOK`), that an
open transaction which has claimed seqs in a project holds that project's row
and has claimed exactly `last_seq + 1` up to its own version of it (`ClaimsOK`),
and that an existing project's id is used. The heart is `CommitStep`: the row
lock makes everybody else's claims be in other projects, so the committed block
continues the log and leaves the others' claims true. Lemma `GoStep` covers
every statement that commits nothing; there is one lemma per action, and
`NextInv` puts them together. `store_races` checks `LogInvariant` with TLC.

`RowsProofs.tla` proves `RowsStayConsistent`, `Spec => []RowsInvariant`, and from
it `DependenciesStayInProject`, `Spec => []DependenciesWithinProject`. Nothing in
`validateDependencies` locks the tasks it approves (`store.go:622`), so what makes
the edges right is spread over statements, and `RowsInvariant` says it of every
moment. Ids are handed out once, and a used id comes back, if at all, in no other
project: so whatever row has an approved id later is still of that project
(`MayLink`). Inserting the edge checks that the row exists and locks it until the
transaction ends (`Linked`). A deletion holds its rows, those it cascades to and,
through them, every edge (`DeletesOK`); a written task is new, in a project that
is held, or locked (`WritesOK`); and what a transaction has read of its own task
stays true under its lock (`ReadsOK`). The heart is `CommitOthers`: no commit
takes away what another open transaction relies on, because either their locks
collide (`HoldsAlone`) or the row was never theirs. Types and locks come from
`Inv` of `TaskStoreProofs.tla`. `store_empty` checks `RowsInvariant` with TLC.

Its second half proves `LogKnowsEveryTask`, `Spec => []NamesInvariant`, and
from it `NoTaskBeforeItsCreation`, `Spec => []NoForwardReference`. What the
property can promise is not that every name in the log is known when it appears:
`validateSuggestions` accepts any acyclic batch, so a subtask may depend on one that
comes after it in the batch, and its `task.created` then names a task the log
creates a few seqs later. What holds, and is proved, is that a project's log
creates each task once, that patches, dependency changes, deletions and comments
come after the creation of every task they name, and that a new task depends on
none the log never creates. `NamesInvariant` makes this inductive: every task in
the table is `Told` by the log of its project; a transaction's events, recorded and
still to come, create only its own new ids, each once, and name only tasks that are
told or that an earlier event of the same block creates (`BlockOK`); and what a
transaction has read and is going to put into an event is told (`ReadsTold`). Being
told is never lost while the project lives (`CommitToldKept`), so what is read without a
lock may be gone when the event is written, but never unknown; the seqs claimed under
the project row keep the block behind the log (`CommitFacts`). The rows it needs come
from `RowsInvariant`. `store_empty` checks `NamesInvariant` with TLC.

The end of `TaskStoreProofs.tla` proves `Implementation`: `Spec => ImplementsEventLog`,
the refinement that `store_empty` checks. The log of a project is mapped to the
sequence of its events' bodies, in the order of their seqs; `GaplessLog` makes
that a sequence. By `ClaimsOK` the claimed events of a commit are the next ones
of one project, so its sequence grows by their bodies (`CommitAppends`) and the
others' stay (`CommitKeepsLog`); the end of a project takes its sequence away; and
every other step leaves `projects` and `events` alone, which is a stutter.

`ReplayProofs.tla` is about what the event log is for: a client that knows nothing and
applies the whole log of a project shows what the tables hold.

* `LogShowsTables`: `Spec => []ReplayInvariant`.
* `LogMatchesLive`: `Spec => []LogMatchesLiveTasks`, for every operation: name,
  tasks and comments are the tables', and so are the dependencies between tasks
  the client shows.
* `LogMatchesWithoutBreakdowns`: if `CreateTaskBatch` is not among `Kinds`,
  `Spec => []LogMatchesTables`: the dependencies are the tables' without
  exception. The hypothesis is the fault of `store_stale_batch` and nothing
  else; the other seven operations and `CreateProject` are all in.

Neither property is inductive: they say nothing of what is written and not yet
committed. `ReplayInvariant` says it per transaction. `Block` is what the
transaction has recorded, in the order of the seqs it claimed, followed by what
it has still to record; it never changes once the operation has run its own
statements (`RecordedSame` is the step of `recordEvent`) and is what the operation
`Says`. What is written and will be written is the same thing as rows
(`ChangesOK`), and what a payload was computed from is still true or can only
have shrunk (`KnowsOK`): the row `UpdateTask` writes back whole is the committed
one, the dependents `DeleteTask` lists are all there are, the comment
`DeleteComment` found without a lock is on no other project's task. `Shows` says
what it means that a view shows a project, with the one exception for
dependencies on tasks that are gone. The heart is `CommitReplay`: the committed
log is the old one followed by `Block` (`CommitBlock`), so its replay is the old
one followed by the block's events (`CommitViews`), and one lemma per operation
(`CreateTaskShown` to `CreateTaskBatchShown`) applies those events and finds the
operation's rows; other boards do not notice (`OtherBoardShown`), and what other
transactions hold or know survives (`CommitHeld`, `CommitOthersKnow`). It is here
that a breakdown must be allowed its exception: the list it logs was read before
it was validated. `Views`, the recursion over the log, is dealt with by the same
`Induction` over sets of naturals as in `SyncProofs.tla`. `store_empty` and
`store_races` check `ReplayInvariant` with TLC.

`GraphProofs.tla` is about the dependency graph.

* `ValidatedListsStayValid`, `CyclesNeedTwoDependencyPatches`: `Spec` and
  `[]OneDependencyPatch` imply `[]PathsInvariant` and `[]Acyclic`.
  `OneDependencyPatch` says that of the open transactions at most one is an
  `UpdateTask` with a dependency list: creations, breakdowns, deletions and other
  patches, however many, close no cycle, and a dependency patch beside them is safe.
  `store_cycle` shows that the hypothesis is needed: with two, and an edge between
  tasks they have not written, there is one.
* `NoPairDependsOnEachOther`: `Spec => []PairsInvariant /\ []NoMutualDependency`,
  without a hypothesis: what two dependency patches can close is never a pair.
* `CheckedStatusesStayDone`, `CompletionNeedsTwoStatusPatches`: `Spec` and
  `[]OneStatusPatch` imply `[]StatusesInvariant` and `CompletedAfterDependencies`.
  `store_completion` shows that two open patches of a status are enough to break
  it. Dependency patches and breakdowns of the same task are kept out by its row lock.
* `ParentStaysFinishLine`: `Spec => ParentIsFinishLine`, without a hypothesis.

`Acyclic` says nothing of a list that has been validated and not yet written.
`PathsInvariant` adds that no path leads back from it over the committed edges;
`StatusesInvariant` is the same for what a completion has read. `PairsInvariant`
says of a validated list only that no edge leads straight back from it, and needs
no hypothesis: an edge another transaction commits would need the row of either of
its ends, one of which the patch holds (`CommitLists`, from `HoldsAlone`). `Reach` is a
recursion over path lengths, so the proofs speak of sets instead: k is not
reached from a list exactly if some set has the list, lacks k and has no edge
leading out of it (`NotReached`, from `ReachClosed` and `ReachLeast`). Each way
to write edges is then a way to make such a set from the ones there were: drop
edges (`FewerEdges`), replace a list no path leads back from (`ListReplaced`), add
a task nothing depends on (`SourceAdded`), add subtasks in the layers in which
`validateSuggestions` clears them (`LayersAdded`). That `UpdateTaskValidate`
walks its project's edges only is enough because no edge leaves a project
(`ValidatedPaths`, from `RowsInvariant`). The subtasks of a breakdown are all
reached from its parent because one that is not is no terminal, so another that is
not reached depends on it, and some would be left over after every layer
(`FromTheEnds`). What each operation has
written when it commits comes from `ReplayInvariant`; that a request stays valid
while it is served is `RequestsStayValid`. `store_apart` checks
`PathsInvariant` and `StatusesInvariant` with TLC.

### Sync

`SyncProofs.tla`:

* `TypeCorrect`, `GapFilled`: `Spec => []TypeOK`, `Spec => []GapIsBeingFilled`.
* `Inductive`: `Spec => []SyncInvariant`.
* `CatchesUp`: `Overlap = {}` implies `Spec => []ViewCatchesUp`.

`ViewCatchesUp` is about a recursion over the log, and it is not inductive: a
board can lead to the right tasks and yet be one that the next snapshot or
answer turns wrong. What is inductive is `ViewOK`: for every task the board
shows what some prefix of the log, `lastSeq` or longer, has for it
(`ShownFrom`); one refresh at most is waiting and, while it is, no catch-up
request; and a catch-up request starts at `lastSeq` or before. `ShownFrom`
explains why events may be applied to tasks that a later snapshot has brought:
an event either says what the log has at its seq, or finds the task already
beyond it. It rests on `LogFits`: a task is created exactly where the project
lacks it. `processBuffer` ends four actions, so what it does is said once
(`Worked`) and used by `WorkedOK`; `AnswersOK` keeps the answers within the log
and a snapshot's tasks no older than its seq, which in turn needs that the
cached list is no older than its ETag.

What `ApplyAll` computes is proved by induction over the seqs. The library's
induction theorems take an operator as a parameter, which the provers here do
not instantiate; lemma `Induction` says the same of a *set* of naturals, and
follows from the pigeonhole principle for finite sets (`FS_Injection`). From it
`ApplyAllIs` gets that the recursive function exists and satisfies its equation.

### Presence

`PresenceProofs.tla`, for finitely many tabs (`TabAssumption`):

* `TypeCorrect`: `Spec => []TypeOK`.
* `TabsSpeakUp`, `HubFollows`: `Spec => []FollowInvariant`,
  `Spec => []HubFollowsTab`.
* `RostersKeepUp`, `RosterTrue`: `Spec => []RosterInvariant`,
  `Spec => []LastRosterIsTrue`.

`HubFollowsTab` speaks only of a moment at which nothing is on the way.
`FollowInvariant` says of every moment what the hub will have when it has read
what is on the way: the last message of each kind decides (`LastView`,
`LastName`), a tab that subscribed before its connection opened will speak up when
it does, and of one that has not subscribed the hub knows no board. Likewise `RosterInvariant`: unless a loop has still to read it,
the roster read last is true (`HandsOK`), unless one is in hand or was overtaken,
the last one in every viewer's queue is (`QueueOK`), and a tab listens to one
board only. Steps of tabs, loops and sends change different parts of a
connection; the lemmas are by those parts.

### RateLimit

`RateLimitProofs.tla` proves, for any callers and any sizes, from `0 < Cost <=
Capacity` (`LimitAssumption`) and `Capacity <= TTL` (`IdleAssumption`: ten
minutes are more than enough to fill a bucket):

* `BucketsAddUp`: `LimiterSpec => []LimiterInvariant`.
* `RateIsKept`: `LimiterSpec => []WithinRate`: from whatever moment one counts, a
  caller gets no more through than a burst and what flows in.
* `SweepingIsInvisible`: `LimiterSpec => SweepIsInvisible`, the refinement of
  `TokenBucket`; a caller without a bucket is mapped to one with a full bucket.

`WithinRate` is not inductive: it forgets what is left in the bucket.
`LimiterInvariant` adds that what was let through and what is left never exceed
what has flowed in, that a bucket is no older than the last request it saw, and
that a waiting sweep looks back by a whole period. From the last two a swept
bucket was full (`IdleIsFull`), so dropping it changes nothing; there is one
lemma per action, saying what it does to the level every caller sees, and both
the invariant and the refinement rest on them.

### Breakdown

`BreakdownProofs.tla`, for any answers of the model and any sizes:

* `LimiterUnderDialog`: `Spec => []LimiterInvariant /\ []WithinRate /\
  SweepIsInvisible`.
* `BreakdownTyped`: `Spec => []TypeOK`.
* `DialogKeepsItsRequests`: `Spec => []DialogInvariant`.
* `ReviewCreatedOnce`, `DialogAwaitsAnAnswer`: `Spec => []CreatedOnce`,
  `Spec => []NeverLeftWaiting`.

Every step of the composed system is one of the limiter or leaves it alone
(`LimiterBesideDialog`), so the theorems about the limiter hold there too.
`CreatedOnce` and `NeverLeftWaiting` say nothing of a request whose answer is still
to come. `DialogInvariant` does: a request that its dialog awaits, or of whose
batch the dialog was told, is the last one made from its review (`Settled` is
what all others are), and a dialog shows its review only when all its requests
are settled. Lemma `AwaitedIsLast` is the reason why an error brings the review
back safely; `ErrorKeeps` uses it for refusals and lost answers alike. The type
invariant says more than a shape: what is under review is what `validateSuggestions`
let through, and what is sent is a renumbering of that.

### Only model-checked

* Liveness under fairness, which is beyond the provers: `EveryOperationEnds`,
  `Converges`, `BufferedIsApplied`, `PresenceSettles`.
* `ValidIsExact` and `RemapKeepsReview` of `Breakdown`: what a depth-first search
  and a sort compute for every graph, by folds within a recursive function. They
  are compared with their definitions on all small graphs.

## Plan

Done: `EventLog`, `TaskStore` with its proofs and its refinement, `Sync`,
`Presence`, `TokenBucket`, `RateLimit` and `Breakdown` with their proofs.

## Not modelled

* `handleMoveTask`'s optimistic move: a rejected move restores the task list of
  the moment of the drop and so undoes events applied since. With it
  `ViewCatchesUp` does not hold, and a weaker property that excuses it would
  excuse any lost event; it is listed among the hazards.
* The dashboard's and the comment thread's refetches, whose answers are applied
  as they arrive: nothing in the code orders them or promises to, so there is no
  property to state. Drafts of the task panel are sent whole, as the requests of
  `TaskStore` are.
* The AI request itself (an answer that is chosen, or an error), authentication
  (there is none), rendering and styles, identity and formatting, configuration,
  documentation, generated types and seed data: they keep no state that the rest
  depends on.
