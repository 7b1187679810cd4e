# A TLA+ model of content-storage-server

The server stores JSON contents in BadgerDB behind an HTTP interface. Writes are
asynchronous: a handler queues them, one worker commits them in batches, and the
shutdown paths have to settle or save what is still in memory. This directory
models that program, checks the models with TLC and proves their main invariants
with TLAPS. Paths and lines refer to the repository; `queue.go` and the other bare
file names are those of `pkg/storage`.

## The system

| part | source | state | operations |
|---|---|---|---|
| write queue | `queue.go`, `UnifiedNotificationSystem.go` | channel and its capacity, `stopChan`, `queueResizeCh`, `capacityMutex`, `writeQueueMu`, worker's batch and timer, `pendingItems`, completion waiters | `QueueWrite`, `QueueWriteSync`, `DoubleQueueCapacity`, `worker`, `processBatch`, `handleTaskError`, `WaitForContentWrite`, `simpleFlush`, `Stop`, `EmergencyStop`, `Serialize*` |
| counted map | `CountedSyncMap.go` | a `sync.Map` and an atomic counter | `Store`, `LoadOrStore`, `LoadAndDelete`, `Delete` |
| content store | `badger_CRUD.go`, `badger_queue.go`, `models/content.go` | BadgerDB, the queue, the access manager | `Store`, `Get`, `Delete`, `FlushQueue`, expiry and access limits |
| access tracking | `access_manager.go` | access count of each id | check, increment, remove, clean up |
| component shutdown | `badger_close.go` | which components run | `CloseWithTimeout`, `EmergencyShutdown`, `Restart`, `VerifyCleanShutdown` |
| emergency recovery | `recovery.go`, `badger_init.go` | recovery files, pending items | restore, requeue, archive |
| backup, GC, health | `backup.go`, `gc.go`, `health.go` | a goroutine with a ticker each, start and stop flags | `Start`, `Stop`, `SetInterval`, one round of the loop |
| listing | `pagination.go`, `filter.go` | none | `ListWithFilter`, `CountWithFilter` |
| handlers | `internal/handlers` | none of their own | store, get, delete with retries, list, status, sync, shutdown |
| middleware | `pkg/middleware` | tokens and backlog of the limiter, address list | limit, time out, allow, authenticate |
| main loop | `cmd/server/main.go`, `pkg/tls/autotls.go` | signal channel, server goroutine | serve, graceful and emergency shutdown |

How they interact: handlers call the content store; the store queues writes and
reads through `pendingItems` before BadgerDB; the worker commits; the main loop
calls `CloseWithTimeout` or `EmergencyShutdown`, which stop backup, GC and health,
flush and stop the queue and close the database; on the next start recovery puts
the saved tasks back. Shared state is `pendingItems` (writers, worker, closer,
readers), the channel (writers, doubling writer, worker, closer), the database and
the access trackers. A request passes the shutdown check, the rate limiter of echo, the
throttle, the address list and the timeout middleware, which calls the handler in a
goroutine of its own; main shares with it the flag of the shutdown and, in
`Shutdown`, waits for the requests under way.

What is hard: the channel is replaced while the worker blocks on it; a task is
tracked only after it was sent; entries are keyed by content id while tasks are
not; the counter and the map behind it change in separate steps; waiters check and
register separately; shutdown joins a worker that may be committing, an emergency does not
join it at all; a process may be killed between any two steps of a recovery; a
handler outlives the answer to its request; `Close` gives up on components that go
on. The full list,
with the line of each and the properties aimed at it, is under `hazards` in
`PROJECT.json`.

What makes each part correct, in one line each:

- write queue: an accepted write is committed once, in order, and its caller learns the truth; a shutdown loses no acknowledged write.
- counted map: the counter agrees with the map.
- content store: an id is reported missing only when its acknowledged writes failed or were deleted; a deleted content stays deleted.
- access tracking: no content is read more often than its limit and the Gets under way allow.
- shutdown and recovery: components stop in order and once; what a shutdown found tracked is written or saved, and lost only in the ways that are named below.
- listing: the pages a client fetches are the listing, nothing twice and nothing left out.
- handlers: both paths of the validator accept the same requests.
- middleware: a request holds exactly one token or backlog place and gives it back.
- main loop: the first signal drains, the second does not wait; nothing else is an emergency; the process ends.

## Modules

| module | models | how to read it |
|---|---|---|
| `WriteQueue` | `queue.go`, the waiters of `UnifiedNotificationSystem.go` and `pendingItems` inside the queue | One process per `WriteTask` (the goroutine in `QueueWrite` or `QueueWriteSync`), one for the worker, one per caller of `WaitForContentWrite`, one for the shutdown goroutine. `pc`, `worker`, `wait` and `closer` are their program counters. A step is what the code does in one critical section or one channel or atomic operation. |
| `MCWriteQueue` | - | assigns content ids to tasks for TLC, and the symmetry used by one run |
| `AcceptedWrites` | - | what the queue promises, without channels, batches and pending items; its `mode` says whether a shutdown makes its forced pass, which may commit a write again, or has ended, after which nothing is committed. `WriteQueue!ImplementsAcceptedWrites` is the refinement, `Stage` the value of `mode` |
| `CountedSyncMap` | `CountedSyncMap.go` alone, with any number of goroutines | one action per map access and per counter addition |
| `MCCountedSyncMap` | - | the instance TLC checks |
| `ContentStore` | `badger_CRUD.go`, `access_manager.go`, the get, delete and status handlers of `internal/handlers/content.go`, the tracker cleanups of `gc.go` and `internal/handlers/health.go` | One process per call of `Store`, per goroutine that serves requests (`Caller`) and per goroutine that cleans up trackers (`Cleaner`), beside a worker that commits queued writes. A step is one database transaction, one critical section of the access manager or one access of `pendingItems`. |
| `MCContentStore` | - | content ids and limits of the writes TLC checks |
| `Recovery` | `recovery.go`, `EmergencyShutdown` of `badger_close.go`, the serialization in `queue.go`, over any number of starts | One program counter, `main`, for the goroutine that recovers, serves and shuts down, beside the worker and the requests, which send, look up `pendingItems` and overwrite an entry in separate steps. A step is one file read, written or renamed, one send, one access of the counted map, one receive or one commit; a kill may come after each. |
| `MCRecovery` | - | the ids of the contents TLC checks |
| `Requests` | - | the set of requests, which the next modules share |
| `Throttle` | `middleware/throttle.go` | one program counter for each request; its deferred functions are the set `defers[r]` |
| `Components` | `backup.go`, `gc.go`, `health.go`, `CloseWithTimeout` of `badger_close.go`, the worker and the flush of `queue.go` | A *job* is a loop, the worker of the queue or a request that stores, backs up or collects, at `work[j]`. Each `Stop` runs in a goroutine (`stopper[c]`), and `Close` in one more (`closer`). |
| `Server` | `cmd/server/main.go`, `tls/autotls.go`, `middleware/setup.go`, `handlers/shutdown.go` | extends the two before it: a request is the process that answers (`phase[r]`) and, once its handler was called, the handler (`work[r]`); `main` is the main goroutine with its channel of signals `quit` |
| `Validation` | `handlers/validation.go`, the checks of `handlers/content.go` and of `models` | operators over requests described by what the checks tell apart: sizes, and the kind of text |
| `Listing` | `pagination.go`, `filter.go`, the listing handler | `ListWithFilter` and `CountWithFilter` as functions of a sequence of contents, with the defaults and limits of the handler |
| `Handlers` | - | puts `Server` and `Listing` (with `Validation`) together |
| `MCServer` | - | the requests and configurations TLC checks |
| `ServerProofs` | - | proofs about `Throttle`, `Components` and `Server` |
| `RecoveryProofs` | - | proofs about `Recovery` |
| `HandlersProofs` | - | proofs about `Validation` and `Listing` in `Server` |
| `WriteQueueProofs` | - | proofs about `WriteQueue`: types, capacities, the worker's wake-up |
| `WriteQueueResultsProofs` | - | proofs about `WriteQueue`: batches, results, tracked entries, waiters, the counter, both shutdowns |
| `WriteQueueOrderProofs` | - | proofs about `WriteQueue`: where each task is, in which order, and the refinement of `AcceptedWrites` |
| `CountedSyncMapProofs` | - | proofs about `CountedSyncMap` |
| `ContentStoreProofs` | - | proofs about `ContentStore` |

State of `WriteQueue` and its counterpart: `chan` holds the buffers of all channels
that ever existed, each named by its capacity (`DoubleQueueCapacity` makes every
channel larger than the ones before); `writeQueue`, `maxQueueSize`, `capacityMutex`,
`resizeToken` and `stopped` are the fields of the struct and `stopChan`;
`held` is the local variable `queue` of the worker and of the closer; `batch`,
`phase`, `failing`, `settling` and `removal` are the progress of `processBatch`,
which the worker and the closer never run at once; `pendingItems` and `count` are
the counted map; `db` is BadgerDB. `writeQueueMu` is not a variable: it is
write-locked only between the swap and the end of the drain loop, which is
`ReadLockFree`. The last group of variables is history and no action reads it.

Steps that the model merges because nothing can come between them that the
properties tell apart: loading the channel and sending to it (one read lock);
`IsEmpty` and closing `stopChan` in `simpleFlush`; decrementing the counter,
notifying the waiters and sending the error result after an entry was removed
(`NotifyRemoved`). `getMaxQueueSizeProtected` on the error paths only reads.

BadgerDB's `WriteBatch` is external: `Set` refuses the tasks of `Unstorable`
(marshalling errors and entries that are too large), `Flush` commits the batch, or
fails after having committed any proper prefix of it.

State of `ContentStore` and its counterpart: `pendingItems`, `db` and `accessCount` are
the three shared maps (a missing tracker and a count of zero behave alike and are one
value); `writeQueue` holds writes that were sent and are not committed, in the channel
or in the worker's batch; `settling` is the id of a write committed whose pending entry
is not removed yet; `op`, `id`, `content` and `due` are the locals of a request. The
queue is reduced to what `WriteQueue` shows of it while it does not grow: writes are
committed in order, or given up, one at a time. `IsContentInQueue` followed by the same
check in `WaitForContentWrite` is one step, since nothing depends on the first; removing
an entry and notifying the waiters is one step, since registering checks nothing. The
retry in `deleteWithRetry` is not modelled: it waits for an error text that no storage
function returns. The five attempts of a conflicting delete are one, since a failed
attempt changes nothing.

State of `Recovery` and its counterpart: contents are numbered in the order in which
they are sent, so that a later one of an id is a newer one. `file[s]` tells for each
timestamp `s` whether the three recovery files are absent, torn or whole, and
`savedPending`, `savedQueue` what they hold. `tasks` is the slice under construction
when saving and being sent when restoring. A request first sends its task, and its entry
is made later in one or two steps (`tracking`, `overwriting`); `count` is the counter of
the counted map, which the fast path of the flush reads. A commit may refuse some tasks
and a flush may fail after a part was written (`Commit`, one of the faults); either way
the entries of the whole batch's ids go. What `WriteQueue` takes apart is one step here:
a doubling, in which the worker may take a task ahead of those already transferred, and
a commit together with the removal of its entries. A graceful shutdown begins when no
request is under way; those that `Shutdown` cuts off are in `Server`.

History variables record which tasks a shutdown owes (`owed`), and the ways in which the
code may lose or overtake one, each a named exception of a property and each needed: the
run fails when any of them is dropped.

| variable | what it records | line |
|---|---|---|
| `excused` | tasks lost with the memory of a process, or with a pending-items file that could not be written | `badger_close.go:500-541` |
| `untracked` | tasks whose commit failed, and tasks whose entry went with the commit of another task of their id or under an older entry | `queue.go:306-317`, `340`, `465` |
| `resurrected` | entries put back by an overwrite after they had been counted as removed: the counter is too low by as many | `CountedSyncMap.go:24-28`, `queue.go:247` |
| `tardy` | entries made after the worker was done with their task | `queue.go:465` |
| `late` | tasks not tracked yet when an emergency saved the entries | `queue.go:839` |
| `exposed` | ids for which a file on disk may be older than the database, because a start left it behind and then served | `recovery.go:182` |
| `disordered` | ids whose tasks the worker received out of order in a doubling, or of which an entry was made that is older than the database or the entry before it | `queue.go:402-417`, `465` |

State of `Server` and its parts: the deferred functions of the throttle are steps of
their own. Until `Close` is called the loops need not move, since nobody reads what
they do; once it is, the goroutines that answer requests are forgotten and only
handlers are followed. A handler that failed, was refused or only read is `"ended"`.
Receiving a signal between the end of the three seconds and the server's own SIGTERM is
treated as receiving it after that signal. `"closing"` stands for the closing of the
database by BadgerDB, which may hang; `Close` then returns when its time is over. Of
the write queue, `Components` keeps the channel (`queued`, a set), the batch the worker is
committing and what became of each write: `committed`, `failed` (refused by BadgerDB, or
in a flush that failed) or `missed` (in the queue when the fast path of `simpleFlush`
returned). Ids, entries and the counter are left to `WriteQueue` and `CountedSyncMap`, so
the fast path may be taken at any time; what it can lose is what the run `loss` shows. The
flush is four steps of the closer, which waits for the worker (`FlushJoins`) and commits
what is left (`FlushSettles`) without a timeout, so a commit that hangs holds the process.

Operators marked `Mutant` are one-line bugs of the definition that follows them;
each property is checked to fail when the definition is replaced by one of them.

## Runs

| run | module, cfg | instance | shows |
|---|---|---|---|
| growth | `WriteQueueGrowth.cfg` | 3 writers, 2 of one id, 1 refused; capacity 1 to 3; batches of 2; flushes may fail | doubling twice, with the worker on any of the three channels: `TaskInOnePlace`, `TransferNeverBlocks`, `ReplacedChannelsAreEmpty`, `NoStrandedWorker`, `ChannelsKeepSendOrder`, `PartialBatchHasTimer`, `CountNeverOverReports` |
| results | `WriteQueueResults.cfg` | 3 writers, 2 synchronous ones of one id, 1 refused; 1 waiter; capacity 3 | `NoOlderOverwrite`, `SyncResultIsTrue`, `TrackedUntilSettled`, `WaitNilMeansSettled` |
| shutdown | `WriteQueueShutdown.cfg` | 3 writers of 3 ids; capacity 1 to 2; flushes may fail; either shutdown | `FlushSettlesAcknowledged`, `EmergencyKeepsAcknowledged`, and refinement of `AcceptedWrites` |
| live | `WriteQueueLive.cfg` | 2 writers of one id, 1 synchronous; capacity 1 to 2; graceful shutdown | `AcceptedEventuallySettles`, `CallsReturn`, `ShutdownFinishes` |
| reorder | `WriteQueueReorder.cfg` | 3 writers of one id; capacity 1 to 3 | `NoOlderOverwrite` is violated |
| loss | `WriteQueueLoss.cfg` | 2 writers of one id; graceful shutdown | `NoLossOnGracefulShutdown` is violated |
| counted_map | `CountedSyncMap.cfg` | 3 goroutines, 2 keys, 2 calls each | `DriftIsResurrection`, `NeverOverReports` |
| content_store | `ContentStore.cfg` | 2 writes of one id, limit 1 each, the second expires; 2 callers, 3 requests of any kind; 1 cleanup goroutine | `OverrunIsBounded`, `DeletedStaysDeleted`, `NotFoundIsTrue` |
| access_limit | `ContentAccessLimit.cfg` | 1 write with limit 1; 2 callers, 2 Gets | `ExactAccessLimit` is violated |
| stranded_entry | `ContentStranded.cfg` | 1 write | `QueuedMeansAwaiting` is violated |
| recovery | `Recovery.cfg` | 2 contents of one id; channel of 1, growing to 2; batches of 2; 3 starts with and without recovery, 2 emergencies, 1 fault (a commit, a file write or a rename) | `SavedTasksSurvive`, `NoStaleRestore`, `FlushSettlesRestored`, `StuckEntriesAreKnown` |
| server | `Server.cfg` | 3 requests, one that stores, backs up or collects and two that read; 1 token, 1 place in the backlog; 3 signals; requests, configurations and listings at and around each limit | `SlotsConserved`, `QuietClose`, `StopWaitsForBackups`, `AcceptedIsFlushed`, `EmergencyOnlyOnPurpose`, `SignalEndsProcess`, `EveryRequestEnds`; `PathsAgree`, `PagesCoverListing` |

Why the bounds are enough: the queue's hazards need one task in the replaced
channel, one in the new one and a writer that doubles (three tasks); a batch that
fills and one that does not (two); two doublings, so that a worker can hold the
oldest of three channels; two writes of one id and one of another, so that entries
of an id can be confused and a batch can hold two ids. Capacities above three add
no new case: a capacity matters only against the number of writers. In `shutdown`
the tasks have distinct ids and are interchangeable together with their ids, which
is the symmetry used (sound for `ImplementsAcceptedWrites` too, a property of single
steps); one doubling there is enough beside `growth`, and the refinement was checked
once by hand with the instance of `growth`, where two writes share an id and an entry is
refused, and a graceful shutdown. The store's hazards need two writes of one id (an old and a
new content, or two that overlap), two requests at once and a third that sees what
they left; its callers are interchangeable, and what the bounds cut off the theorems
about the store cover. 
A stale restore needs an older and a newer content of one id, one of them in a file; the
file has to survive a start (one fault, or a kill), a later process to accept or restore
the other, and one more start to look at the result: two contents, three starts, two
emergencies, so that the files of the first can be there when the second writes its own.
Checked once by hand beyond the run, without an error: four starts (5.7 million states),
and three contents, of one id or of two, with a channel of 2, two starts, one emergency
and at most one fault. In `server`, two readers beside the request that works are what the throttle
needs to be full with its backlog full (one token, one place, one refused); three
signals are one more than the channel `quit` holds. `PathsAgree` and `PagesCoverListing`
are functions of a request: a running state evaluates them over every combination of a
length below, at and above each limit and every kind of text, and over every listing of
at most two contents, with pages of every accepted limit.

Deadlock is checked in every run but `recovery`, where the bound on starts ends each
behaviour: the queue may rest only in `AtRest`, where every call has returned and the
worker is idle or has exited, the server only after it exited; with a cleanup goroutine,
which always may run, the store never does.

Four runs are expected to fail:

- *reorder*. `queue.go:279` says that the single worker guarantees the order. The
  worker keeps the channel it loaded; while `DoubleQueueCapacity` empties that
  channel into the new one, the worker may take a task from it after an earlier task
  was moved. The later write is committed first and the earlier one overwrites it.
  Without a doubling the order holds (`results`).
- *loss*. `queue.go:226` says that no data is lost in a graceful shutdown. With two
  writes of one id, the first commit removes the id from `pendingItems` while the
  second task is still queued; `simpleFlush` finds the map empty and returns, the
  worker exits without draining its channel, and `closeQueue` drops it.
- *access_limit*. `badger_CRUD.go:67` says that exactly `AccessLimit` accesses are
  allowed. Reading the count and incrementing it are two critical sections, so two Gets
  may both find it below the limit. `OverrunIsBounded` says by how much it can be exceeded.
- *stranded_entry*. `queue.go:707` says that `IsContentInQueue` tells whether a content
  is in the queue. A write committed between its send and its tracking gets its entry
  afterwards; the id stays `queued`, and each Get or Delete of it waits ten seconds and
  fails, until another write of the id is processed.

Other things met while modelling, for which the properties are stated with the
precondition under which they hold: `FlushQueue` stops the worker for good, although
`storage.go:114` calls it temporary; `WaitForContentWrite` returns nil for a failed
write, although `storage.go:111` says otherwise (so the property says *settled*); a
`Store` of another id between its two steps makes the counter zero while an
acknowledged write is queued (so `FlushSettlesAcknowledged` asks that no call is in
progress); and the counter falls behind the map when an overwrite re-inserts an
entry (`DriftIsResurrection` says exactly when). In the store, two writes of one id that
overlap may leave the second one queued without an entry, so that reads and deletes do
not wait for it (the properties about acknowledged writes except such writes,
`overlapped`); a cleanup that decides from an old snapshot, or a Delete that removes the
tracker after a new content of the id was stored and read, drops the count of that
content (`forgotten`); and a content stored under an id inherits the count of the one it
replaces, so a limit may be reached early.

In the emergency shutdown and recovery (each is recorded by one of the history
variables above, where the properties about recovery need it):

- `EmergencyStop` does not wait for the worker, and its drain receives from the channel
  beside it: the queue file may get an older write of an id while the worker commits the
  later one. The next start then requeues the older write, and its commit overwrites the
  later one and removes the entry that still held it, without a crash or a fault. This is
  recorded in `untracked`. Requests are accepted until the process exits; one accepted after
  the entries were saved is in neither file (`late`).
- The pending entries are restored before the queue file is verified
  (`recovery.go:182`); when that fails, they stay, although `recovery.go:146` promises a
  rollback, and so do the files: each later start restores them again, over contents
  written since, and a graceful flush forces them into the database (`exposed`).
- Only the latest pending-items file counts. When its queue file is missing, older
  complete sets are shadowed by it, and so they are by a file whose rename failed.
  The check for a complete set does not ask for the metadata file, reading it does.
- A restored entry without a task in the queue file is never sent to the worker: reads
  and deletes of its id wait for ten seconds and fail, until a flush forces it.
- A restored queue larger than the channel is cut: the later tasks are skipped, among
  them possibly the later one of two writes of an id, whose entry then goes with the
  commit of the earlier one (`untracked`).
- The files are archived before the restored writes are committed; a kill in between
  loses them, which `SavedTasksSurvive` counts as lost memory.
- `simpleFlush` returns at once when the counter says that no entry is pending, so a task
  whose entry went with an earlier commit of its id is lost at shutdown (run `loss`), and
  so is a tracked one, restored or not, when the counter has drifted below the map by
  an overwrite (`resurrected`).
- Two requests for one id may track their tasks in the other order than they sent them.
  The older entry then stays when both were committed; an emergency saves it, and a
  graceful flush forces it into the database over the newer content (`disordered`).
- A failed commit removes the entries of its whole batch, those of restored tasks
  included, and their file is archived by then (`untracked`).

In the server:

- A request keeps its place in the backlog while it is served, so the room to wait is
  smaller than `MaxBacklog` by the requests that came through it.
- The throttle applies to every endpoint, the health endpoints included, which
  `handlers/health.go:36` says it leaves out.
- A handler goes on after its request timed out and its token was given back, so more
  handlers may be at work than `MaxConcurrent`.
- `BackupManager.Stop` renews the contexts it cancelled, for a restart. A backup that
  waited for the lock, or one asked for later, then begins while the database is being
  closed, which `backup.go:128` means to prevent. `QuietClose` says that nothing else
  does.
- A manual collection belongs to no wait group, and `Close` does not wait for it.
- `GarbageCollector.Stop` waits for its loop with `gc.mu` held, so health reports block
  meanwhile; the loop does not take that lock, so it does end.
- Once a graceful shutdown has begun, signals are received by nobody: a second SIGTERM
  no longer makes it an emergency. The emergency path of `autotls.go` exits with 1, that
  of `main.go` with 0 or 1.

In the validator and the listing:

- The default limit of 100 is not compared with a smaller `MaxPaginationLimit`.
- A filter by type must contain a slash, while types without one may be stored: they can
  never be filtered for.
- Performance mode leaves out the pattern and the byte length of the tag, the syntax of
  JSON data and the limit of ten years; `PathsAgree` says that this is all.
- The struct tags of the request cap the configured limits, so that a larger configured
  limit has no effect (a precondition of `PathsAgree`).
- The total is counted in a transaction of its own, and each page is one: over a
  database that changes, pages may repeat or skip contents. `PagesCoverListing` is about
  one that does not.

## Fairness

`FairSpec` asks weak fairness of the worker, of `processBatch`, of each writer and
waiter that has started and of a shutdown that has begun: the Go scheduler runs
every goroutine that can run, and timers expire. The `select` statements of the
worker and of a waiting writer choose at random, so fairness is asked of the whole
statement and never of one of its cases. Nothing is assumed about whether a write is
ever made or a shutdown requested. `ContentStore` and `Recovery` state safety only and
no fairness.

`Spec` of `Server` asks weak fairness of the goroutine that answers each request (its
timers included), of the goroutine that sleeps three seconds, of the main goroutine, of
the one in `Close`, of the deadline of `Close`, and of the worker once it has been told to
stop and has no batch in hand. It asks none of handlers, of components and their stoppers,
or of BadgerDB: they may hang for ever. `EveryRequestEnds` holds all the same.
`SignalEndsProcess` is conditional: `FlushQueue` runs in `Close` without a timeout
(`badger_close.go:180`), first waiting for the worker (`queue.go:142`, 252) and then
committing itself, so a commit that hangs in BadgerDB hangs the process; the property says
that this is the only thing that can. That the emergency shutdown gets its three files
written is assumed (`Abandon` is one step); it waits neither for the worker nor for
BadgerDB.

## Proofs

`WriteQueueProofs`, for every finite set of tasks and every value of the other
constants allowed by `QueueAssumption` (positive sizes, a key for each task):

- `TypeCorrect`: the type invariant, one lemma per process. It rests on `Written`,
  `Chunks` and the receive helper returning tasks.
- `CapacityCorrect`: `CapacityInv` is inductive. `TransferNeverBlocks` is not: it
  needs that only the owner of `capacityMutex` is past the checks (`MutexHeld`), that
  the limit checked then still holds at the swap (`RoomToGrow`), that the current
  channel is the newest (`NewestIsCurrent`) and no later one was used
  (`WithinCapacity`), and that the contents of both channels together fit in the
  smaller one (`BothFit`). Every step that only takes tasks out of channels and does
  not enter or leave a doubling is covered by one lemma (`QuietKeepsCapacity`).
- `DrainLoopNeverBlocks` and `NothingLeftBehind` follow from it.
- `WorkerIsNeverStranded`: `NoStrandedWorker` is inductive given the types.

`WriteQueueResultsProofs`, under the same assumption, what callers are told:

- `PartialBatchAlwaysHasTimer` from `ShapeInv`: only one goroutine is inside
  `processBatch`, and outside of it nothing is left to fail, to settle or to remove.
- `SyncResultsAreTrue` from `ResultInv`: a result in `ResultChan` is true of its task or
  nobody looks at it any more, and a refused task of a batch has its error before the
  flush sends results to the others.
- `AcknowledgedIsTracked` from `SettleInv`: a refused task of a batch is given
  up before the flush is reached, and the entry of an id is removed only after its exclusive write
  was settled (`RefusedIsFailing`, `RemovedIsSettled`, `SoleTracked`).
- `WaitNilIsSettled` adds that a woken waiter is owed nothing by then (`WaitInv`).
- `CounterNeverOverReports` counts entries against calls: `CountInv` says that the
  counter, with the additions and subtractions under way, is at most the number of
  entries, and exactly it while no id has two writers (`SoleIsExact`).
- `FlushSettles` needs the second half, since `FlushQueue` returns at once when the
  counter is zero: `FlushInv` says that during the forced pass each acknowledged
  exclusive write is settled or still in hand.
- `EmergencySavesAcknowledged`: once the pending entries are serialized each acknowledged
  exclusive write is saved or settled, because until then it was tracked or settled.

`WriteQueueOrderProofs`, where a task is:

- `SendOrderIsKept`: with `OrderInv` no task is twice in the channels, and within a
  channel, and across a transfer, tasks of one id stand in the order they were sent. It says
  nothing of the batch, where the run `reorder` shows the order broken.
- `EveryTaskInOnePlace`: each step of the system moves at most one task from one place
  to the next, or is the forced pass (`TaskMove`); `PlaceInv` follows.
- `QueueImplementsAcceptedWrites`: until a forced pass, what is in a batch was neither
  committed nor given up before (`BatchIsFresh`), so that a flush maps to `Commit` of fresh
  writes; in the pass, which processes whatever is still tracked without asking whether it
  was taken before, it maps to `Commit` of writes that were accepted, since only those are
  ever tracked (`TrackedIsSent`). Once the worker has exited and the pass is over no batch
  is under way (`ClosedIsIdle`), which is the mode `closed`. `StageStep` says that the
  modes follow each other as `Force` and `Close` allow; every other step maps to `Accept`,
  `Fail` or nothing.
- `LastWriteWins`: `NoOlderOverwrite` for `maxMultiplier = 1` and no graceful shutdown.
  `LastInv` orders the committed writes before the batch and the batch before the
  channel. It fails as soon as a doubling is possible, which the run `reorder` shows.

`CountedSyncMapProofs`, for finite sets of goroutines and keys and any number of
calls: `Drift` (the counter, corrected by the additions under way and the entries
re-inserted, is the number of entries) and `NoOverReport`, its consequence.

`ContentStoreProofs`, for any writes, ids, limits and requests and any finite set of
callers, from `StoreAssumption`:

- `TypeCorrect`, which includes that a Get past its read holds a content.
- `StoreCorrect`: none of the properties is inductive alone. `StoreInv` adds what became
  of the writes the queue no longer holds (`QueueInv`), that contents come from committed
  writes of their id (`ContentInv`), and that a write which overlaps with no other one of
  its id is tracked from its acknowledgement until it is settled, so that a request past
  the queue check leaves no such write behind (`OrderInv`). The history variable
  `overlapped` is what makes this true, and says exactly when it is not.
- `DeletedContentStaysDeleted` and `NotFoundNeverLies` (an action property) follow.
- `LimitOverrunIsBounded` needs `LimitInv`: accesses served and callers admitted to the
  next one, counted together, stay within the limit and the number of other callers,
  and the count of a content still accounted for is at least what was served of it.

`ServerProofs`, for any finite set of requests, what they may ask for and any limits:

- `TokensAreConserved`: `SlotsConserved` is not inductive. `SlotInv` adds which deferred
  functions a request owes at each point of its way, without which giving back a token
  twice is not excluded; each step moves one token or one place.
- `EmergencyIsWanted`: `SignalInv` relates what is in `quit`, the window and the signals
  sent: with a window open, one SIGTERM was sent and received, and only after the
  window is over may `quit` hold a SIGTERM that nobody sent.
- `BackupsAreAwaited` and `CloseIsQuiet`: `JobInv`, that one job holds the lock
  (`OneHolder`), that nobody copies once the stopper of the backups is done unless the
  contexts were renewed (`BackupsStop`), that a stopped loop has exited (`LoopsStop`),
  and that `Close` in time passed each stage with its stopper done (`InOrder`).
- `AcceptedAreAccountedFor`: `FlushInv`, that each acknowledged write is queued, in the
  worker's batch or known to be committed, failed or missed; that the worker is told to stop
  before the closer waits for it, and that after the flush nothing is queued or under way
  that is not counted as missed, because by then nobody answers any more unless requests
  were cut off.
- `TypeCorrect`.

`RecoveryProofs`, for any number of contents, ids, starts, emergencies, kills and
faults, and any capacities and batch sizes:

- `TypeCorrect`.
- `SavedTasksAreSafe` and `FlushSettlesWhatWasTracked` from `RecInv`. Its parts: a process
  that has restored nothing tracks nothing, no request is under way while it starts or is
  flushed, a file has one entry for an id, and the next timestamp is unused (`EntryInv`);
  the counter and the entries put back uncounted are together the number of entries, so
  that a flush which skips a tracked task had one of those (`CountInv`); and every owed
  task, or a newer one of its id, is accounted for or in a place that the next step cannot
  empty: tracked in memory while it is in no file, accounted for when a process is about
  to exit, tracked when its file is about to be archived (`SafeInv`).
- `StuckAreRestoredOrTardy` from `StuckInv`, which adds that a task whose request is still
  on its way to track it is queued, or written or refused (`SentTasksKnown`).

`HandlersProofs`:

- `PathsAlwaysAgree`, for every request and configuration.
- `PagesAlwaysCover`, for every database, filter, limit and configuration: after any
  number of contents the page is a slice of those that matched so far (`CollectStep`,
  `ListIsSlice`), the total is their number (`CountIsLength`), and a slice goes on where
  the one before it ended (`SliceConcat`, `SlicesFlattened`). The library's induction
  theorems take an operator as a parameter, which the provers cannot instantiate, so the
  inductions go over sets of indices that contain zero and the successor of each member
  (`AlongSequence`), and recursive functions are shown to exist before they are used.

Only model-checked: the liveness properties, since fairness is out of the prover's reach,
and `NoStaleRestore`, which speaks of the database alone, which every commit may change:
an inductive invariant for it has to relate the order of tasks in the batch, the channel,
the requests under way, the entries and every file on disk. Each other safety property of
a passing run is stated by a theorem, one of them with a precondition: `NoOlderOverwrite`
without growth (with growth it is refuted) and without a graceful shutdown.

## Not modelled

Metrics, logging and debug output; `GetPendingContentIDs` and the other readers of
the queue; flush waiters (no caller registers one); marshalling; names of files (two
backups in one second are one file); the adaptive schedule of the collector and what a
health check reports; a record that cannot be parsed, which fails a whole listing;
which addresses and keys the middleware accepts; the warm-up and the optimisation of
the database, which are cancelled at shutdown and not waited for. `Restart` and the
functions that set a schedule have no caller. A `maxBatchSize` of zero, with which
`forceProcessStuckTasks` does not end, is excluded by an assumption. Configuration,
logging, certificates, the generated interface, the stress test, the management page
and the Python client stay outside (`components` in `PROJECT.json` says why).

## Plan

1. `WriteQueue`, `CountedSyncMap`, their runs and first theorems (done).
2. `ContentStore`, its runs and theorems (done).
3. `Recovery`: emergency shutdown, kills and restarts over the recovery files (done).
4. `Server` over `Components`: signals, both shutdown paths, and the components stopped
   in order with timeouts (done; `Restart` is left out).
5. `Throttle` and the order of the middleware (done).
6. `Listing` and `Validation` (done).
7. Proofs: `Throttle`, `Components`, `Server`, `Recovery`,
   `PathsAgree`, `PagesCoverListing`; results, places and order of the queue, and the
   refinement of `AcceptedWrites`, through either shutdown (done).
