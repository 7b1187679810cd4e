------------------------------ MODULE WriteQueue ------------------------------
(***************************************************************************)
(* The asynchronous write queue of pkg/storage/queue.go.                   *)
(*                                                                         *)
(* Every call of QueueWrite or QueueWriteSync is a goroutine carrying one  *)
(* WriteTask; a single worker goroutine receives tasks from a buffered     *)
(* channel, groups them in batches and commits the batches to BadgerDB.    *)
(* A writer that finds the channel full replaces it by a larger one        *)
(* (DoubleQueueCapacity) while the worker may still be blocked on the old  *)
(* one.  pendingItems (a CountedSyncMap) remembers one task per content    *)
(* id, WaitForContentWrite blocks on it, and a shutdown goroutine either   *)
(* flushes and stops the queue or runs the emergency path.                 *)
(*                                                                         *)
(* A channel is identified by its capacity: DoubleQueueCapacity only ever  *)
(* makes a channel larger than every one before it.  Channel 0 is Go's nil *)
(* channel.  Metrics and debug output are left out.                        *)
(***************************************************************************)
EXTENDS Integers, Sequences, FiniteSets, SequencesExt

CONSTANTS
  Task,              \* the WriteTasks, one per call of QueueWrite[Sync]
  SyncTask,          \* those made by QueueWriteSync
  Unstorable,        \* those whose entry WriteBatch.Set refuses
  Key,               \* content ids
  KeyOf,             \* the content id of a task
  None,              \* absence of a task or of a content id
  Waiter,            \* goroutines that call WaitForContentWrite
  InitialQueueSize,  \* capacity of the first channel
  MaxMultiplier,     \* maxMultiplier: growth limit
  MaxBatchSize,      \* maxBatchSize
  ShutdownMode,      \* the shutdowns this instance may perform
  FlushMayFail       \* whether WriteBatch.Flush may return an error

ASSUME QueueAssumption ==
  /\ IsFiniteSet(Task)
  /\ SyncTask \subseteq Task
  /\ Unstorable \subseteq Task
  /\ KeyOf \in [Task -> Key]
  /\ None \notin Task \cup Key
  /\ InitialQueueSize \in Nat \ {0}
  /\ MaxMultiplier \in Nat \ {0}
  /\ MaxBatchSize \in Nat \ {0}
  /\ ShutdownMode \subseteq {"graceful", "emergency"}
  /\ FlushMayFail \in BOOLEAN

VARIABLES
  pc,             \* program counter of each writer
  result,         \* ResultChan of each task (capacity 1)
  chan,           \* buffered contents of each channel
  writeQueue,     \* the current channel, 0 when nil
  maxQueueSize,   \* its capacity as recorded by DoubleQueueCapacity
  capacityMutex,  \* the writer holding it, or None
  draining,       \* the channel that writer is emptying
  resizeToken,    \* a token is in queueResizeCh (capacity 1)
  stopped,        \* stopChan is closed
  pendingItems,   \* CountedSyncMap: the tracked task of each content id
  count,          \* CountedSyncMap: its counter
  worker,         \* program counter of the worker
  held,           \* channel the worker and the closer last loaded
  armed,          \* batchTimer is running
  batch,          \* local batch of the goroutine inside processBatch
  phase,          \* progress of processBatch
  failing,        \* tasks handleTaskError is still to be called for
  settling,       \* content ids still to be removed and notified
  removal,        \* LoadAndDelete done, decrement and notification due
  waiters,        \* completionWaiters of each content id
  wait,           \* program counter of each waiter
  waitKey,        \* the content id it waits for
  closer,         \* program counter of the shutdown goroutine
  stuck,          \* pending tasks it still has to process by force
  saved,          \* tasks written to the emergency recovery files
  db              \* BadgerDB: the task last written for each content id

VARIABLES         \* history, read by no action
  sent,           \* tasks that entered a channel
  prior,          \* for each task, those of its id sent before it
  stored,         \* tasks written to BadgerDB
  failed,         \* tasks handed to handleTaskError
  acked,          \* tasks whose call had returned nil when a shutdown began
  quiet,          \* no call was in progress at that moment
  owed            \* for each waiter, the acknowledged tasks it began after

writerVars   == <<pc, result, sent, prior>>
queueVars    == <<chan, writeQueue, maxQueueSize, capacityMutex, draining,
                  resizeToken, stopped>>
pendingVars  == <<pendingItems, count>>
workerVars   == <<worker, armed, held>>
batchVars    == <<batch, phase, failing, settling, removal>>
dbVars       == <<db, stored, failed>>
consumerVars == <<workerVars, batchVars, dbVars>>
waiterVars   == <<waiters, wait, waitKey, owed>>
shutHist     == <<acked, quiet>>
closerVars   == <<closer, stuck, saved, shutHist>>
clientVars   == <<waiterVars, closerVars>>
vars == <<writerVars, queueVars, pendingVars, consumerVars, clientVars>>

-------------------------------------------------------------------------------
(* Shapes and helpers *)

MaxCapacity == InitialQueueSize * MaxMultiplier
Capacity    == 1 .. MaxCapacity
TaskOrNone  == Task \cup {None}
NoRemoval   == [key |-> None, counted |-> FALSE, task |-> None]

WriterPC == {"start", "double", "swap", "transfer", "wake", "retry", "lookup",
             "overwrite", "count", "waiting", "uncount",
             "ok", "rejected", "error", "timeout"}
Returned == {"ok", "rejected", "error", "timeout"}
WorkerPC == {"load", "select", "exiting", "exited"}
Phase    == {"idle", "set", "finish"}
WaitPC   == {"idle", "register", "blocked", "woken", "nil", "timeout"}
CloserPC == {"idle", "join", "drain", "collect", "force", "flushed",
             "incomplete", "stopjoin", "down",
             "serialize", "open", "extract", "serialized"}

Buffered(c) == ToSet(chan[c])
Settled     == stored \cup failed

\* Mutant: writers and worker do not take writeQueueMu
ReadUnlocked == TRUE

\* writeQueueMu is write-locked only while tasks are being transferred
ReadLockFree == \A t \in Task : pc[t] # "transfer"
HasRoom      == writeQueue # 0 /\ Len(chan[writeQueue]) < writeQueue

\* Mutant: a received task stays in the channel
ReceiveCopy(g) == UNCHANGED chan

\* The channel a goroutine holds: a receive from nil never succeeds
CanReceive(g) == held[g] # 0 /\ chan[held[g]] # <<>>
Receive(g)    == chan' = [chan EXCEPT ![held[g]] = Tail(@)]

\* Mutants: no cap at the limit, and capping at the wrong size
GrownUncapped(c)   == 2 * c
GrownFromStart(c)  == IF 2 * c > MaxCapacity THEN InitialQueueSize ELSE 2 * c

\* DoubleQueueCapacity's growth rule
Grown(c) == IF 2 * c > MaxCapacity THEN MaxCapacity ELSE 2 * c

Pending(k)   == pendingItems[k] # None
PendingTasks == {pendingItems[k] : k \in {x \in Key : Pending(x)}}

-------------------------------------------------------------------------------
(* NewQueuedWriteBatch *)

Init ==
  /\ pc = [t \in Task |-> "start"]
  /\ result = [t \in Task |-> "empty"]
  /\ chan = [c \in Capacity |-> <<>>]
  /\ writeQueue = InitialQueueSize
  /\ maxQueueSize = InitialQueueSize
  /\ capacityMutex = None
  /\ draining = 0
  /\ resizeToken = FALSE
  /\ stopped = FALSE
  /\ pendingItems = [k \in Key |-> None]
  /\ count = 0
  /\ worker = "load"
  /\ held = [g \in {"worker", "closer"} |-> 0]
  /\ armed = FALSE
  /\ batch = <<>>
  /\ phase = "idle"
  /\ failing = {}
  /\ settling = {}
  /\ removal = NoRemoval
  /\ waiters = [k \in Key |-> {}]
  /\ wait = [w \in Waiter |-> "idle"]
  /\ waitKey = [w \in Waiter |-> None]
  /\ closer = "idle"
  /\ stuck = {}
  /\ saved = {}
  /\ db = [k \in Key |-> None]
  /\ sent = {}
  /\ prior = [t \in Task |-> {}]
  /\ stored = {}
  /\ failed = {}
  /\ acked = {}
  /\ quiet = FALSE
  /\ owed = [w \in Waiter |-> {}]

-------------------------------------------------------------------------------
(* Writers: QueueWrite and QueueWriteSync *)

\* The non-blocking send into the channel loaded under the same read lock,
\* the first attempt or the one after doubling
Send(t) ==
  /\ pc[t] \in {"start", "retry"}
  /\ ReadLockFree
  /\ HasRoom
  /\ chan' = [chan EXCEPT ![writeQueue] = Append(@, t)]
  /\ pc' = [pc EXCEPT ![t] = "lookup"]
  /\ sent' = sent \cup {t}
  /\ prior' = [prior EXCEPT ![t] = {u \in sent : KeyOf[u] = KeyOf[t]}]
  /\ UNCHANGED <<result, writeQueue, maxQueueSize, capacityMutex, draining,
                 resizeToken, stopped, pendingVars, consumerVars, clientVars>>

\* The send would block: grow the queue, or give up on the second attempt
SendFull(t) ==
  /\ pc[t] \in {"start", "retry"}
  /\ ReadLockFree
  /\ ~HasRoom
  /\ pc' = [pc EXCEPT ![t] = IF @ = "start" THEN "double" ELSE "rejected"]
  /\ UNCHANGED <<result, sent, prior, queueVars, pendingVars, consumerVars,
                 clientVars>>

\* DoubleQueueCapacity refuses: shutting down, or the limit is reached
DoubleRefused(t) ==
  /\ pc[t] = "double"
  /\ capacityMutex = None
  /\ stopped \/ maxQueueSize >= MaxCapacity
  /\ pc' = [pc EXCEPT ![t] = "rejected"]
  /\ UNCHANGED <<chan, writeQueue, maxQueueSize, capacityMutex, draining,
                 resizeToken>>

\* It takes capacityMutex and passes both checks
DoubleBegin(t) ==
  /\ pc[t] = "double"
  /\ capacityMutex = None
  /\ ~stopped
  /\ maxQueueSize < MaxCapacity
  /\ capacityMutex' = t
  /\ pc' = [pc EXCEPT ![t] = "swap"]
  /\ UNCHANGED <<chan, writeQueue, maxQueueSize, draining, resizeToken>>

\* Under writeQueueMu the larger channel replaces the current one
DoubleSwap(t) ==
  /\ pc[t] = "swap"
  /\ draining' = writeQueue
  /\ writeQueue' = Grown(maxQueueSize)
  /\ maxQueueSize' = Grown(maxQueueSize)
  /\ pc' = [pc EXCEPT ![t] = "transfer"]
  /\ UNCHANGED <<chan, capacityMutex, resizeToken>>

\* One round of the drain loop; the send into the new channel may block
DoubleTransfer(t) ==
  /\ pc[t] = "transfer"
  /\ draining # 0
  /\ chan[draining] # <<>>
  /\ HasRoom
  /\ chan' = [chan EXCEPT ![draining] = Tail(@),
                          ![writeQueue] = Append(@, Head(chan[draining]))]
  /\ UNCHANGED <<pc, writeQueue, maxQueueSize, capacityMutex, draining,
                 resizeToken>>

\* Mutants: the old channel is not drained, and break leaves only the select
DoubleUnlockEarly(t) ==
  /\ pc[t] = "transfer"
  /\ pc' = [pc EXCEPT ![t] = "wake"]
  /\ UNCHANGED <<chan, writeQueue, maxQueueSize, capacityMutex, draining,
                 resizeToken>>
DoubleUnlockNever(t) ==
  /\ pc[t] = "transfer"
  /\ draining # 0 => chan[draining] = <<>>
  /\ UNCHANGED <<pc, chan, writeQueue, maxQueueSize, capacityMutex, draining,
                 resizeToken>>

\* The old channel is empty: release writeQueueMu
DoubleUnlock(t) ==
  /\ pc[t] = "transfer"
  /\ draining # 0 => chan[draining] = <<>>
  /\ pc' = [pc EXCEPT ![t] = "wake"]
  /\ UNCHANGED <<chan, writeQueue, maxQueueSize, capacityMutex, draining,
                 resizeToken>>

\* Mutant: the worker is not told
DoubleWakeSilently(t) ==
  /\ pc[t] = "wake"
  /\ capacityMutex' = None
  /\ draining' = 0
  /\ pc' = [pc EXCEPT ![t] = "retry"]
  /\ UNCHANGED <<chan, writeQueue, maxQueueSize, resizeToken>>

\* Non-blocking token for the worker, then capacityMutex is released
DoubleWake(t) ==
  /\ pc[t] = "wake"
  /\ resizeToken' = TRUE
  /\ capacityMutex' = None
  /\ draining' = 0
  /\ pc' = [pc EXCEPT ![t] = "retry"]
  /\ UNCHANGED <<chan, writeQueue, maxQueueSize>>

\* Mutant: an entry that was there is counted again
StoreLookupRecount(t) ==
  /\ pc[t] = "lookup"
  /\ pendingItems' = [pendingItems EXCEPT ![KeyOf[t]] = t]
  /\ pc' = [pc EXCEPT ![t] = "count"]
  /\ UNCHANGED count

\* CountedSyncMap.Store, first half: LoadOrStore
StoreLookup(t) ==
  LET k == KeyOf[t] IN
  /\ pc[t] = "lookup"
  /\ pendingItems' = IF Pending(k) THEN pendingItems
                                   ELSE [pendingItems EXCEPT ![k] = t]
  /\ pc' = [pc EXCEPT ![t] = IF Pending(k) THEN "overwrite" ELSE "count"]
  /\ UNCHANGED count

\* Second half: overwrite the entry that was found, or count the new one
AfterStore(t) == IF t \in SyncTask THEN "waiting" ELSE "ok"

StoreOverwrite(t) ==
  /\ pc[t] = "overwrite"
  /\ pendingItems' = [pendingItems EXCEPT ![KeyOf[t]] = t]
  /\ pc' = [pc EXCEPT ![t] = AfterStore(t)]
  /\ UNCHANGED count

StoreCount(t) ==
  /\ pc[t] = "count"
  /\ count' = count + 1
  /\ pc' = [pc EXCEPT ![t] = AfterStore(t)]
  /\ UNCHANGED pendingItems

\* QueueWriteSync: the result arrives ...
SyncResult(t) ==
  /\ pc[t] = "waiting"
  /\ result[t] # "empty"
  /\ pc' = [pc EXCEPT ![t] = IF result[t] = "nil" THEN "ok" ELSE "error"]
  /\ result' = [result EXCEPT ![t] = "empty"]
  /\ UNCHANGED <<sent, prior, queueVars, pendingVars, consumerVars, clientVars>>

\* ... or 30 seconds pass: removePendingItem, whoever's entry it is by now
SyncTimeout(t) ==
  LET k == KeyOf[t] IN
  /\ pc[t] = "waiting"
  /\ pendingItems' = [pendingItems EXCEPT ![k] = None]
  /\ pc' = [pc EXCEPT ![t] = IF Pending(k) THEN "uncount" ELSE "timeout"]
  /\ UNCHANGED count

SyncUncount(t) ==
  /\ pc[t] = "uncount"
  /\ count' = count - 1
  /\ pc' = [pc EXCEPT ![t] = "timeout"]
  /\ UNCHANGED pendingItems

Double(t) ==
  /\ \/ DoubleRefused(t) \/ DoubleBegin(t) \/ DoubleSwap(t)
     \/ DoubleTransfer(t) \/ DoubleUnlock(t) \/ DoubleWake(t)
  /\ UNCHANGED <<result, sent, prior, stopped, pendingVars, consumerVars,
                 clientVars>>

Track(t) ==
  /\ \/ StoreLookup(t) \/ StoreOverwrite(t) \/ StoreCount(t)
     \/ SyncTimeout(t) \/ SyncUncount(t)
  /\ UNCHANGED <<result, sent, prior, queueVars, consumerVars, clientVars>>

Writer(t) == Send(t) \/ SendFull(t) \/ Double(t) \/ Track(t) \/ SyncResult(t)

-------------------------------------------------------------------------------
(* processBatch, run by the worker or by the shutdown goroutine *)

InsideBatch == phase # "idle"

\* Enter processBatch with tasks b (an empty batch returns at once)
ProcessBatch(b) ==
  /\ batch' = b
  /\ phase' = IF b = <<>> THEN "idle" ELSE "set"
  /\ failing' = ToSet(b) \cap Unstorable
  /\ UNCHANGED <<settling, removal>>

\* Mutant: a full batch is processed without the task that filled it
AddToBatchLate(t) ==
  IF Len(batch) + 1 >= MaxBatchSize
  THEN ProcessBatch(batch)
  ELSE batch' = Append(batch, t) /\ UNCHANGED <<phase, failing, settling, removal>>

\* Collect one more task and enter processBatch when the batch is full
AddToBatch(t) ==
  LET b == Append(batch, t) IN
  IF Len(b) >= MaxBatchSize
  THEN ProcessBatch(b)
  ELSE batch' = b /\ UNCHANGED <<phase, failing, settling, removal>>

\* Mutant: the first write of a content id wins
WrittenFirst(s) ==
  [k \in Key |->
     LET I     == {i \in DOMAIN s : KeyOf[s[i]] = k /\ s[i] \notin Unstorable}
         first == {i \in I : \A j \in I : i <= j}
     IN  IF first = {} THEN db[k] ELSE s[CHOOSE i \in first : TRUE]]

\* BadgerDB after the storable tasks of s were written in order
Written(s) ==
  [k \in Key |->
     LET I    == {i \in DOMAIN s : KeyOf[s[i]] = k /\ s[i] \notin Unstorable}
         last == {i \in I : \A j \in I : j <= i}
     IN  IF last = {} THEN db[k] ELSE s[CHOOSE i \in last : TRUE]]

\* handleTaskError, first step: LoadAndDelete of the pending entry
RemoveFailed(t) ==
  LET k == KeyOf[t] IN
  /\ InsideBatch
  /\ removal = NoRemoval
  /\ t \in failing
  /\ failing' = failing \ {t}
  /\ failed' = failed \cup {t}
  /\ pendingItems' = [pendingItems EXCEPT ![k] = None]
  /\ removal' = [key |-> k, counted |-> Pending(k), task |-> t]
  /\ UNCHANGED <<result, count, batch, phase, settling, db, stored, waiters,
                 wait>>

\* The same for a content id of a batch that was committed
RemoveSettled(k) ==
  /\ InsideBatch
  /\ removal = NoRemoval
  /\ k \in settling
  /\ settling' = settling \ {k}
  /\ pendingItems' = [pendingItems EXCEPT ![k] = None]
  /\ removal' = [key |-> k, counted |-> Pending(k), task |-> None]
  /\ UNCHANGED <<result, count, batch, phase, failing, dbVars, waiters, wait>>

\* The rest of either: decrement, notifyCompletion, and a failed task's
\* ResultChan; checkAndNotifyFlushCompletion finds no flush waiter, since
\* registerFlushWaiter has no caller
NotifyRemoved ==
  LET k == removal.key
      t == removal.task IN
  /\ removal # NoRemoval
  /\ count' = IF removal.counted THEN count - 1 ELSE count
  /\ wait' = [w \in Waiter |-> IF w \in waiters[k] THEN "woken" ELSE wait[w]]
  /\ waiters' = [waiters EXCEPT ![k] = {}]
  /\ result' = IF t \in SyncTask /\ result[t] = "empty"
               THEN [result EXCEPT ![t] = "error"] ELSE result
  /\ removal' = NoRemoval
  /\ phase' = IF phase = "finish" /\ failing = {} /\ settling = {}
              THEN "idle" ELSE phase
  /\ UNCHANGED <<pendingItems, batch, failing, settling, dbVars>>

ReadyToFlush == phase = "set" /\ failing = {} /\ removal = NoRemoval

\* Mutant: pendingItems is cleared, not only of the batch's content ids
FlushOkClearsAll ==
  LET tasks == ToSet(batch) IN
  /\ ReadyToFlush
  /\ db' = Written(batch)
  /\ stored' = stored \cup (tasks \ Unstorable)
  /\ result' = [t \in Task |-> IF t \in tasks \cap SyncTask /\ result[t] = "empty"
                               THEN "nil" ELSE result[t]]
  /\ settling' = Key
  /\ batch' = <<>>
  /\ phase' = "finish"
  /\ UNCHANGED <<pendingVars, failing, removal, failed, waiters, wait>>

\* Flush succeeds: every task of the batch gets a nil result, and every
\* content id is to be removed from pendingItems
FlushOk ==
  LET tasks == ToSet(batch) IN
  /\ ReadyToFlush
  /\ db' = Written(batch)
  /\ stored' = stored \cup (tasks \ Unstorable)
  /\ result' = [t \in Task |-> IF t \in tasks \cap SyncTask /\ result[t] = "empty"
                               THEN "nil" ELSE result[t]]
  /\ settling' = {KeyOf[t] : t \in tasks}
  /\ batch' = <<>>
  /\ phase' = "finish"
  /\ UNCHANGED <<pendingVars, failing, removal, failed, waiters, wait>>

\* Mutant: results are sent before Flush returns
FlushErrorAfterResults ==
  /\ FlushMayFail
  /\ ReadyToFlush
  /\ result' = [t \in Task |-> IF t \in ToSet(batch) \cap SyncTask THEN "nil" ELSE result[t]]
  /\ failing' = ToSet(batch)
  /\ batch' = <<>>
  /\ phase' = "finish"
  /\ UNCHANGED <<pendingVars, settling, removal, dbVars, waiters, wait>>

\* Flush fails: some of the transactions it was split into may have been
\* committed, and handleTaskError is called for every task
FlushError ==
  /\ FlushMayFail
  /\ ReadyToFlush
  /\ \E n \in 0 .. Len(batch) - 1 :
       LET done == SubSeq(batch, 1, n) IN
       /\ db' = Written(done)
       /\ stored' = stored \cup (ToSet(done) \ Unstorable)
  /\ failing' = ToSet(batch)
  /\ batch' = <<>>
  /\ phase' = "finish"
  /\ UNCHANGED <<result, pendingVars, settling, removal, failed, waiters, wait>>

Batch ==
  /\ \/ \E t \in Task : RemoveFailed(t)
     \/ \E k \in Key : RemoveSettled(k)
     \/ NotifyRemoved \/ FlushOk \/ FlushError
  /\ UNCHANGED <<pc, sent, prior, queueVars, workerVars, waitKey, owed,
                 closerVars>>

-------------------------------------------------------------------------------
(* The worker goroutine *)

\* getWriteQueue, once per select cycle
WorkerLoad ==
  /\ worker = "load"
  /\ ~InsideBatch
  /\ ReadLockFree
  /\ held' = [held EXCEPT !["worker"] = writeQueue]
  /\ worker' = "select"
  /\ UNCHANGED <<chan, resizeToken, armed, batchVars>>

\* select: a task; the first one of a batch starts the timer, the last stops it
WorkerReceive ==
  /\ worker = "select"
  /\ CanReceive("worker")
  /\ Receive("worker")
  /\ AddToBatch(Head(chan[held["worker"]]))
  /\ armed' = (Len(batch) + 1 < MaxBatchSize /\ (armed \/ batch = <<>>))
  /\ worker' = "load"
  /\ UNCHANGED <<resizeToken, held>>

\* select: batchTimer fired
WorkerTimer ==
  /\ worker = "select"
  /\ armed
  /\ armed' = FALSE
  /\ ProcessBatch(batch)
  /\ worker' = "load"
  /\ UNCHANGED <<chan, resizeToken, held>>

\* Mutants: the token stops the timer, and the token is not consumed
WorkerResizeDisarms ==
  /\ worker = "select"
  /\ resizeToken
  /\ resizeToken' = FALSE
  /\ armed' = FALSE
  /\ worker' = "load"
  /\ UNCHANGED <<chan, held, batchVars>>
WorkerResizeRepeats ==
  /\ worker = "select"
  /\ resizeToken
  /\ worker' = "load"
  /\ UNCHANGED <<chan, resizeToken, armed, held, batchVars>>

\* select: a resize token
WorkerResize ==
  /\ worker = "select"
  /\ resizeToken
  /\ resizeToken' = FALSE
  /\ worker' = "load"
  /\ UNCHANGED <<chan, armed, held, batchVars>>

\* select: stopChan closed; the local batch is processed, the channel is not drained
WorkerStop ==
  /\ worker = "select"
  /\ stopped
  /\ ProcessBatch(batch)
  /\ armed' = FALSE
  /\ worker' = "exiting"
  /\ UNCHANGED <<chan, resizeToken, held>>

WorkerExit ==
  /\ worker = "exiting"
  /\ ~InsideBatch
  /\ worker' = "exited"
  /\ UNCHANGED <<chan, resizeToken, armed, held, batchVars>>

Worker ==
  /\ \/ WorkerLoad \/ WorkerReceive \/ WorkerTimer \/ WorkerResize
     \/ WorkerStop \/ WorkerExit
  /\ UNCHANGED <<writerVars, writeQueue, maxQueueSize, capacityMutex, draining,
                 stopped, pendingVars, dbVars, clientVars>>

-------------------------------------------------------------------------------
(* WaitForContentWrite *)

\* Tasks of k that were acknowledged and not settled when a wait begins
Owed(k) == {t \in Task : KeyOf[t] = k /\ pc[t] = "ok" /\ t \notin Settled}

\* IsContentInQueue: nothing pending means nothing to wait for
WaitCheck(w, k) ==
  /\ wait[w] = "idle"
  /\ wait' = [wait EXCEPT ![w] = IF Pending(k) THEN "register" ELSE "nil"]
  /\ waitKey' = [waitKey EXCEPT ![w] = k]
  /\ owed' = [owed EXCEPT ![w] = Owed(k)]
  /\ UNCHANGED waiters

\* registerCompletionWaiter, in a second critical section
WaitRegister(w) ==
  /\ wait[w] = "register"
  /\ wait' = [wait EXCEPT ![w] = "blocked"]
  /\ waiters' = [waiters EXCEPT ![waitKey[w]] = @ \cup {w}]
  /\ UNCHANGED <<waitKey, owed>>

\* Both ways out end with the deferred unregisterCompletionWaiter
Unregister(w) == waiters' = [waiters EXCEPT ![waitKey[w]] = @ \ {w}]

WaitNotified(w) ==
  /\ wait[w] = "woken"
  /\ wait' = [wait EXCEPT ![w] = "nil"]
  /\ Unregister(w)
  /\ UNCHANGED <<waitKey, owed>>

\* Mutant: a timeout returns nil
WaitTimeoutSilent(w) ==
  /\ wait[w] \in {"blocked", "woken"}
  /\ wait' = [wait EXCEPT ![w] = "nil"]
  /\ Unregister(w)
  /\ UNCHANGED <<waitKey, owed>>

WaitTimeout(w) ==
  /\ wait[w] \in {"blocked", "woken"}
  /\ wait' = [wait EXCEPT ![w] = "timeout"]
  /\ Unregister(w)
  /\ UNCHANGED <<waitKey, owed>>

Wait(w) ==
  /\ \/ \E k \in Key : WaitCheck(w, k)
     \/ WaitRegister(w) \/ WaitNotified(w) \/ WaitTimeout(w)
  /\ UNCHANGED <<writerVars, queueVars, pendingVars, consumerVars, closerVars>>

-------------------------------------------------------------------------------
(* Graceful shutdown: FlushQueue (simpleFlush), then stopQueueWorker *)

\* History: what had been acknowledged, and whether all calls had returned
ShutdownBegins ==
  /\ acked' = {t \in Task : pc[t] = "ok"}
  /\ quiet' = \A t \in Task : pc[t] \in Returned \cup {"start"}

\* Mutant: one entry counts as none
FlushNothingMuch ==
  /\ "graceful" \in ShutdownMode
  /\ closer = "idle"
  /\ count <= 1
  /\ ShutdownBegins
  /\ closer' = "flushed"
  /\ UNCHANGED <<chan, writeQueue, stopped, held, batchVars, stuck, saved>>

\* simpleFlush's fast path: the counter says there is nothing to flush
FlushNothing ==
  /\ "graceful" \in ShutdownMode
  /\ closer = "idle"
  /\ count = 0
  /\ ShutdownBegins
  /\ closer' = "flushed"
  /\ UNCHANGED <<chan, writeQueue, stopped, held, batchVars, stuck, saved>>

\* stopWorker closes stopChan ...
FlushStopWorker ==
  /\ "graceful" \in ShutdownMode
  /\ closer = "idle"
  /\ count # 0
  /\ stopped' = TRUE
  /\ ShutdownBegins
  /\ closer' = "join"
  /\ UNCHANGED <<chan, writeQueue, held, batchVars, stuck, saved>>

\* ... and waits for the worker; drainQueuedTasksNonBlocking loads the queue
DrainBegin ==
  /\ closer = "join"
  /\ worker = "exited"
  /\ ReadLockFree
  /\ held' = [held EXCEPT !["closer"] = writeQueue]
  /\ closer' = "drain"
  /\ UNCHANGED <<chan, writeQueue, stopped, batchVars, stuck, saved, shutHist>>

DrainReceive ==
  /\ closer = "drain"
  /\ ~InsideBatch
  /\ CanReceive("closer")
  /\ Receive("closer")
  /\ AddToBatch(Head(chan[held["closer"]]))
  /\ UNCHANGED <<writeQueue, stopped, held, closerVars>>

\* The channel is empty: process the last partial batch
DrainEnd ==
  /\ closer = "drain"
  /\ ~InsideBatch
  /\ ~CanReceive("closer")
  /\ ProcessBatch(batch)
  /\ closer' = "collect"
  /\ UNCHANGED <<chan, writeQueue, stopped, held, stuck, saved, shutHist>>

\* forceProcessStuckTasks collects what pendingItems still tracks ...
ForceCollect ==
  /\ closer = "collect"
  /\ ~InsideBatch
  /\ stuck' = PendingTasks
  /\ closer' = "force"
  /\ UNCHANGED <<chan, writeQueue, stopped, held, batchVars, saved, shutHist>>

\* ... and processes it again, in chunks and in the map's random order
Chunks ==
  LET n == IF Cardinality(stuck) < MaxBatchSize THEN Cardinality(stuck)
                                                ELSE MaxBatchSize
  IN  {s \in [1 .. n -> stuck] : \A i, j \in 1 .. n : s[i] = s[j] => i = j}

\* Mutant: the chunk is not removed from what is left to do
ForceBatchAgain ==
  /\ closer = "force"
  /\ ~InsideBatch
  /\ stuck # {}
  /\ \E s \in Chunks : ProcessBatch(s)
  /\ UNCHANGED <<chan, writeQueue, stopped, held, closer, stuck, saved, shutHist>>

ForceBatch ==
  /\ closer = "force"
  /\ ~InsideBatch
  /\ stuck # {}
  /\ \E s \in Chunks :
       /\ ProcessBatch(s)
       /\ stuck' = stuck \ ToSet(s)
  /\ UNCHANGED <<chan, writeQueue, stopped, held, closer, saved, shutHist>>

\* The final count decides between nil and "simple flush incomplete"
FlushReturn ==
  /\ closer = "force"
  /\ ~InsideBatch
  /\ stuck = {}
  /\ closer' = IF count > 0 THEN "incomplete" ELSE "flushed"
  /\ UNCHANGED <<chan, writeQueue, stopped, held, batchVars, stuck, saved,
                 shutHist>>

\* stopQueueWorker: Stop only if IsRunning; its stopWorker closes stopChan
StopQueue ==
  /\ closer \in {"flushed", "incomplete"}
  /\ closer' = IF stopped THEN "down" ELSE "stopjoin"
  /\ stopped' = TRUE
  /\ UNCHANGED <<chan, writeQueue, held, batchVars, stuck, saved, shutHist>>

\* Stop goes on once the worker has exited: closeQueue
CloseQueue ==
  /\ closer = "stopjoin"
  /\ worker = "exited"
  /\ ReadLockFree
  /\ writeQueue' = 0
  /\ closer' = "down"
  /\ UNCHANGED <<chan, stopped, held, batchVars, stuck, saved, shutHist>>

-------------------------------------------------------------------------------
(* EmergencyShutdown: EmergencyStop, then serialize what is in memory *)

EmergencyStop ==
  /\ "emergency" \in ShutdownMode
  /\ closer = "idle"
  /\ stopped' = TRUE
  /\ ShutdownBegins
  /\ closer' = "serialize"
  /\ UNCHANGED <<chan, writeQueue, held, batchVars, stuck, saved>>

SerializePendingTasks ==
  /\ closer = "serialize"
  /\ saved' = saved \cup PendingTasks
  /\ closer' = "open"
  /\ UNCHANGED <<chan, writeQueue, stopped, held, batchVars, stuck, shutHist>>

\* SerializeWriteQueue loads the queue, then drains it into a file
SerializeBegin ==
  /\ closer = "open"
  /\ ReadLockFree
  /\ held' = [held EXCEPT !["closer"] = writeQueue]
  /\ closer' = "extract"
  /\ UNCHANGED <<chan, writeQueue, stopped, batchVars, stuck, saved, shutHist>>

\* Mutant: the file is truncated each time
SerializeReceiveTruncates ==
  /\ closer = "extract"
  /\ CanReceive("closer")
  /\ Receive("closer")
  /\ saved' = {Head(chan[held["closer"]])}
  /\ UNCHANGED <<writeQueue, stopped, held, batchVars, closer, stuck, shutHist>>

SerializeReceive ==
  /\ closer = "extract"
  /\ CanReceive("closer")
  /\ Receive("closer")
  /\ saved' = saved \cup {Head(chan[held["closer"]])}
  /\ UNCHANGED <<writeQueue, stopped, held, batchVars, closer, stuck, shutHist>>

SerializeEnd ==
  /\ closer = "extract"
  /\ ~CanReceive("closer")
  /\ closer' = "serialized"
  /\ UNCHANGED <<chan, writeQueue, stopped, held, batchVars, stuck, saved,
                 shutHist>>

Closer ==
  /\ \/ FlushNothing \/ FlushStopWorker \/ DrainBegin \/ DrainReceive \/ DrainEnd
     \/ ForceCollect \/ ForceBatch \/ FlushReturn \/ StopQueue \/ CloseQueue
     \/ EmergencyStop \/ SerializePendingTasks \/ SerializeBegin
     \/ SerializeReceive \/ SerializeEnd
  /\ UNCHANGED <<writerVars, maxQueueSize, capacityMutex, draining, resizeToken,
                 pendingVars, worker, armed, dbVars, waiterVars>>

-------------------------------------------------------------------------------

\* The system may rest only here: every call has returned, and the worker has
\* exited or is blocked on the current channel with nothing to do
AtRest ==
  /\ \A t \in Task : pc[t] \in Returned
  /\ \A w \in Waiter : wait[w] \in {"nil", "timeout"}
  /\ closer \in {"idle", "down", "serialized"}
  /\ \/ worker = "exited"
     \/ /\ worker = "select"
        /\ held["worker"] = writeQueue
        /\ batch = <<>>
  /\ UNCHANGED vars

Next ==
  \/ \E t \in Task : Writer(t)
  \/ Worker
  \/ Batch
  \/ \E w \in Waiter : Wait(w)
  \/ Closer
  \/ AtRest

Spec == Init /\ [][Next]_vars

\* The Go scheduler runs every goroutine that can run, and timers expire.  The
\* select statements of the worker and of a waiting writer choose at random,
\* so that fairness is asked of the whole select, not of one of its cases.
\* Nothing says that a writer starts, that WaitForContentWrite is called, or
\* that the process is asked to shut down.
Fairness ==
  /\ WF_vars(Worker)
  /\ WF_vars(Batch)
  /\ \A t \in Task : WF_vars(pc[t] # "start" /\ Writer(t))
  /\ \A w \in Waiter : WF_vars(wait[w] # "idle" /\ Wait(w))
  /\ WF_vars(closer # "idle" /\ Closer)

FairSpec == Spec /\ Fairness

-------------------------------------------------------------------------------
(* Properties *)

TypeOK ==
  /\ pc \in [Task -> WriterPC]
  /\ result \in [Task -> {"empty", "nil", "error"}]
  /\ chan \in [Capacity -> Seq(Task)]
  /\ writeQueue \in Capacity \cup {0}
  /\ maxQueueSize \in Capacity
  /\ capacityMutex \in TaskOrNone
  /\ draining \in Capacity \cup {0}
  /\ resizeToken \in BOOLEAN
  /\ stopped \in BOOLEAN
  /\ pendingItems \in [Key -> TaskOrNone]
  /\ count \in Int
  /\ worker \in WorkerPC
  /\ held \in [{"worker", "closer"} -> Capacity \cup {0}]
  /\ armed \in BOOLEAN
  /\ batch \in Seq(Task)
  /\ phase \in Phase
  /\ failing \subseteq Task
  /\ settling \subseteq Key
  /\ removal \in [key : Key \cup {None}, counted : BOOLEAN, task : TaskOrNone]
  /\ waiters \in [Key -> SUBSET Waiter]
  /\ wait \in [Waiter -> WaitPC]
  /\ waitKey \in [Waiter -> Key \cup {None}]
  /\ closer \in CloserPC
  /\ stuck \subseteq Task
  /\ saved \subseteq Task
  /\ db \in [Key -> TaskOrNone]
  /\ sent \subseteq Task
  /\ prior \in [Task -> SUBSET Task]
  /\ stored \subseteq Task
  /\ failed \subseteq Task
  /\ acked \subseteq Task
  /\ quiet \in BOOLEAN
  /\ owed \in [Waiter -> SUBSET Task]

\* The only task of its content id: no other write overlaps with it
Exclusive(t) == \A u \in Task \ {t} : KeyOf[u] # KeyOf[t]

Positions(t) == {p \in Capacity \X (1 .. MaxCapacity) :
                   p[2] \in DOMAIN chan[p[1]] /\ chan[p[1]][p[2]] = t}
Consumed(t)  == t \in ToSet(batch) \cup failing \cup Settled
Transferring == \E t \in Task : pc[t] = "transfer"

\* No task is lost or delivered twice: until the forced pass of a shutdown, a
\* task that entered the queue sits at one position of one channel or was
\* consumed once, across any doubling; afterwards it is still somewhere
\* (queue.go:364-366, "to ensure no tasks are lost").
TaskInOnePlace ==
  \A t \in sent :
    /\ Positions(t) # {} \/ Consumed(t) \/ t \in saved
    /\ Cardinality(Positions(t)) <= 1
    /\ closer \in {"idle", "join", "drain", "collect"}
         => ~(Positions(t) # {} /\ Consumed(t))

\* The drain loop never blocks on the new channel: it would hold writeQueueMu
\* and capacityMutex forever (queue.go:414-417).
TransferNeverBlocks ==
  \A t \in Task :
    pc[t] = "transfer" /\ draining # 0 /\ chan[draining] # <<>> => HasRoom

\* A channel that was replaced holds no task, except while it is being drained:
\* nobody would ever receive it (queue.go:407-411).
ReplacedChannelsAreEmpty ==
  closer # "down" =>
    \A c \in Capacity : chan[c] # <<>> => c = writeQueue \/ (c = draining /\ Transferring)

\* A worker blocked on a replaced channel has a wake-up coming: the token, the
\* doubling writer that will send it, or the stop signal (queue.go:187-188, 421-424).
NoStrandedWorker ==
  worker = "select" /\ held["worker"] # writeQueue =>
    resizeToken \/ stopped \/ \E t \in Task : pc[t] \in {"transfer", "wake"}

\* Doubling moves tasks without reordering the writes of one content id, within
\* a channel and from the old channel to the new one (queue.go:407-417).
ChannelsKeepSendOrder ==
  /\ \A c \in Capacity : \A i, j \in DOMAIN chan[c] :
       i < j /\ KeyOf[chan[c][i]] = KeyOf[chan[c][j]] => chan[c][i] \in prior[chan[c][j]]
  /\ Transferring /\ draining # 0 =>
       \A t \in Buffered(writeQueue), u \in Buffered(draining) :
         KeyOf[t] = KeyOf[u] => t \in prior[u]

\* A running worker that holds a partial batch has its timer running, so that
\* the batch is committed even if no other task ever comes (queue.go:167-169).
PartialBatchHasTimer ==
  worker \in {"load", "select"} /\ ~InsideBatch /\ batch # <<>> => armed

\* The forced pass of a shutdown, the time after the last batch, or any time before
Stage ==
  IF closer = "force" THEN "forcing"
  ELSE IF worker = "exited" /\ closer \notin {"idle", "join", "drain", "collect"}
       THEN "closed" ELSE "open"

\* The queue implements AcceptedWrites, over growth and either shutdown: each accepted
\* write is committed at most once, and never after it was reported as failed, whatever
\* channels and batches it went through, except in the forced pass of a graceful
\* shutdown; and nothing is committed once the worker has exited and the pass is over
\* (queue.go:148-352, 443-557, 793-835).
Accepted == INSTANCE AcceptedWrites
              WITH accepted <- sent, committed <- stored, content <- db, mode <- Stage
ImplementsAcceptedWrites == Accepted!Spec

\* BadgerDB holds the last of the committed writes of each content id, in the
\* order they entered the queue (queue.go:279, 289-290, "last write wins").
NoOlderOverwrite ==
  \A k \in Key : db[k] # None => \A u \in stored : db[k] \notin prior[u]

\* QueueWriteSync returns nil only for a task that was committed, an error only
\* for one that processBatch gave up on (queue.go:549-551, 316-323, 592-598).
SyncResultIsTrue ==
  \A t \in SyncTask : /\ pc[t] = "ok" => t \in stored
                      /\ pc[t] = "error" => t \in failed

\* An acknowledged write whose id nobody else writes is tracked as pending until
\* it is settled, so that reads, deletes and a flush see it (queue.go:433-436).
TrackedUntilSettled ==
  \A t \in Task :
    Exclusive(t) /\ pc[t] \in {"ok", "waiting"} /\ t \notin Settled
      => pendingItems[KeyOf[t]] = t

\* Once increments and decrements under way are accounted for, the counter of
\* pendingItems never exceeds the entries present (CountedSyncMap.go:23-67).
CountNeverOverReports ==
  count + Cardinality({t \in Task : pc[t] = "count"})
        - Cardinality({t \in Task : pc[t] = "uncount"})
        - (IF removal.counted THEN 1 ELSE 0)
    <= Cardinality({k \in Key : Pending(k)})

\* WaitForContentWrite returns nil only when the write acknowledged before it
\* was called is settled, if nobody else writes that id (queue.go:560-580).
WaitNilMeansSettled ==
  \A w \in Waiter : wait[w] = "nil" => \A t \in owed[w] : Exclusive(t) => t \in Settled

\* A graceful shutdown that begins when no call is in progress settles every
\* acknowledged write, provided no two writes share an id (queue.go:222-226).
FlushSettlesAcknowledged ==
  closer = "down" /\ quiet /\ (\A t \in Task : Exclusive(t)) => acked \subseteq Settled

\* An emergency shutdown settles or saves every write acknowledged before it
\* began and whose id nobody else writes (queue.go:655-661, 838-847).
EmergencyKeepsAcknowledged ==
  closer = "serialized" =>
    \A t \in acked : Exclusive(t) => t \in Settled \/ t \in saved

\* Unless a shutdown begins, every task that entered the queue is eventually
\* settled, whatever doublings and partial batches lie in between (queue.go:148-209).
AcceptedEventuallySettles ==
  \A t \in Task : t \in sent ~> t \in Settled \/ closer # "idle"

\* Every call of QueueWrite and QueueWriteSync returns (queue.go:443-557).
CallsReturn == \A t \in Task : pc[t] # "start" ~> pc[t] \in Returned

\* A shutdown that began finishes: the worker can be joined and no channel
\* operation of the flush blocks (queue.go:136-145, 245-276, 627-632).
ShutdownFinishes == closer # "idle" ~> closer \in {"down", "serialized"}

-------------------------------------------------------------------------------
(* What comments of the code state, and the runs refute *)

\* queue.go:226: "No data loss occurs during graceful shutdown".
NoLossOnGracefulShutdown == closer = "down" /\ quiet => acked \subseteq Settled
=============================================================================
