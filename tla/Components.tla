------------------------------- MODULE Components -------------------------------
(***************************************************************************)
(* The background components of a BadgerStorage and how Close stops them:  *)
(* BackupManager (backup.go), GarbageCollector (gc.go) and HealthMonitor   *)
(* (health.go) of pkg/storage, with CloseWithTimeout of badger_close.go.   *)
(*                                                                         *)
(* Each component has a loop, and handlers back up and collect as well: a  *)
(* job is a loop, the worker of the queue, or a request.  Every Stop runs  *)
(* in a goroutine of its own, the stopper; the closer is the goroutine in  *)
(* Close.  Of the write queue there are the writes in the channel, the     *)
(* worker's batch and what became of each write; ids, pending entries and  *)
(* their counter are left to WriteQueue and CountedSyncMap.                *)
(***************************************************************************)
EXTENDS Naturals, FiniteSets, Requests

CONSTANTS
  Health, Backup, GC,  \* three components, and the jobs that are their loops
  Queue                \* the queue worker

Loop      == {Health, Backup, GC}
Component == Loop \cup {Queue}
Job       == Request \cup Component

ASSUME ComponentsAssumption ==
  /\ Cardinality(Component) = 4
  /\ Request \cap Component = {}

VARIABLES
  work,      \* what each job is doing
  running,   \* components whose isRunning is set
  stopper,   \* program counter of each component's stopper
  ctx,       \* backupCtx: "live", "cancelled", or "renewed" by Stop
  closer,    \* program counter of the goroutine in Close
  expired,   \* the 30 seconds that Close has are over
  queueOpen, \* the channel of the queue is not closed
  queued,    \* writes in the channel
  batch,     \* writes the worker is committing
  committed, \* writes committed
  failed,    \* history: writes refused by BadgerDB or in a flush that failed
  missed,    \* history: writes in the queue when the flush found nothing to do
  afterStop  \* history: jobs that began to copy under renewed contexts

queueVars     == <<queueOpen, queued, batch, committed, failed, missed>>
componentVars == <<work, running, stopper, ctx, closer, expired,
                   queueVars, afterStop>>

-------------------------------------------------------------------------------
(* Shapes and helpers *)

Work == {"none", "called", "ended",           \* a handler
         "storing", "accepted",               \* StoreContent
         "entered", "locked", "copying",      \* doBackup
         "collecting",                        \* RunGC
         "committing",                        \* processBatch of the worker
         "waiting", "exited"}                \* a loop: in its select, returned
Stopper == {"none", "started", "joining", "done"}
\* The order of executeSequentialShutdown and what follows it
Closer  == {"none", "health", "backup", "gc", "flush", "join", "drain",
            "queue", "closing"}

ComponentsTypeOK ==
  /\ work \in [Job -> Work]
  /\ running \subseteq Component
  /\ stopper \in [Component -> Stopper]
  /\ ctx \in {"live", "cancelled", "renewed"}
  /\ closer \in Closer
  /\ expired \in BOOLEAN
  /\ queueOpen \in BOOLEAN
  /\ queued \subseteq Request /\ batch \subseteq Request
  /\ committed \subseteq Request
  /\ failed \subseteq Request /\ missed \subseteq Request
  /\ afterStop \subseteq Job

\* Which component each stage of the closer stops, and the stage after it
Stops  == [health |-> Health, backup |-> Backup, gc |-> GC, queue |-> Queue]
Follow == [health |-> "backup", backup |-> "gc", gc |-> "flush", queue |-> "closing"]

\* The jobs that hold backupMu, each counted by bm.wg
Holding == {j \in Job : work[j] \in {"locked", "copying"}}

\* What a job does after its backup or collection, failed or not: a loop goes on,
\* a handler has its result
After(j) == IF j \in Loop THEN "waiting" ELSE "ended"

\* Started by initializeStorage of cmd/server/main.go before it serves
ComponentsInit ==
  /\ work = [j \in Job |-> IF j \in Component THEN "waiting" ELSE "none"]
  /\ running = Component
  /\ stopper = [c \in Component |-> "none"]
  /\ ctx = "live"
  /\ closer = "none"
  /\ expired = FALSE
  /\ queueOpen = TRUE
  /\ queued = {} /\ batch = {}
  /\ committed = {} /\ failed = {} /\ missed = {}
  /\ afterStop = {}

Becomes(j, state) == work' = [work EXCEPT ![j] = state]

JobKept  == UNCHANGED <<running, stopper, ctx, closer, expired, queueVars>>
StopKept == UNCHANGED <<closer, expired, queueVars, afterStop>>
QueueKept == UNCHANGED <<ctx, afterStop>>
CloseKept == UNCHANGED <<work, queueVars>> /\ QueueKept

-------------------------------------------------------------------------------
(* Backups *)

\* doBackup up to backupMu.Lock: refused when backupCtx is cancelled
BackupBegin(j) ==
  Becomes(j, IF ctx = "cancelled" THEN After(j) ELSE "entered")

\* backupLoop: the ticker fired.  The select picks it even when the stop
\* channel is closed by now.
BackupTick ==
  /\ work[Backup] = "waiting"
  /\ BackupBegin(Backup)
  /\ JobKept /\ UNCHANGED afterStop

\* backupLoop: ctx or stopChan.  ctx is renewed by Stop, the channel is not.
BackupLoopExit ==
  /\ work[Backup] = "waiting"
  /\ stopper[Backup] \in {"joining", "done"}
  /\ Becomes(Backup, "exited")
  /\ JobKept /\ UNCHANGED afterStop

\* backupMu.Lock and wg.Add
BackupLock(j) ==
  /\ work[j] = "entered"
  /\ Holding = {}
  /\ Becomes(j, "locked")
  /\ JobKept /\ UNCHANGED afterStop

\* The second look at backupCtx, and the file: it may not be created
BackupRecheck(j) ==
  /\ work[j] = "locked"
  /\ \/ /\ ctx # "cancelled"
        /\ Becomes(j, "copying")
        /\ afterStop' = IF ctx = "renewed" THEN afterStop \cup {j} ELSE afterStop
     \/ /\ Becomes(j, After(j))
        /\ UNCHANGED afterStop
  /\ JobKept

\* db.Backup returns, old backups are removed, wg.Done and Unlock
BackupFinish(j) ==
  /\ work[j] = "copying"
  /\ Becomes(j, After(j))
  /\ JobKept /\ UNCHANGED afterStop

\* BackupManager.Stop, first part: cancel, close stopChan, isRunning = false
StopBackup ==
  /\ stopper[Backup] = "started"
  /\ ctx' = "cancelled"
  /\ running' = running \ {Backup}
  /\ stopper' = [stopper EXCEPT ![Backup] = "joining"]
  /\ UNCHANGED work /\ StopKept

\* Mutant: no wg.Wait
JoinBackupAtOnce ==
  /\ stopper[Backup] = "joining"
  /\ ctx' = "renewed"
  /\ stopper' = [stopper EXCEPT ![Backup] = "done"]
  /\ UNCHANGED <<work, running>> /\ StopKept

\* BackupManager.Stop after wg.Wait: contexts for a restart
JoinBackup ==
  /\ stopper[Backup] = "joining"
  /\ Holding = {}
  /\ ctx' = "renewed"
  /\ stopper' = [stopper EXCEPT ![Backup] = "done"]
  /\ UNCHANGED <<work, running>> /\ StopKept

-------------------------------------------------------------------------------
(* Garbage collection and health *)

\* gcLoop: a tick, with shouldRunGC or without
CollectTick ==
  /\ work[GC] = "waiting"
  /\ Becomes(GC, "collecting")
  /\ JobKept /\ UNCHANGED afterStop

\* RunGC returns
CollectFinish(j) ==
  /\ work[j] = "collecting"
  /\ Becomes(j, After(j))
  /\ JobKept /\ UNCHANGED afterStop

\* GarbageCollector.stopInternal and HealthMonitor.Stop after close(stopChan):
\* the loop finds it in its select, and wg.Wait returns.  A health check only
\* writes the time.
JoinLoop(c) ==
  /\ c \in {GC, Health}
  /\ stopper[c] = "joining"
  /\ work[c] = "waiting"
  /\ Becomes(c, "exited")
  /\ running' = running \ {c}
  /\ stopper' = [stopper EXCEPT ![c] = "done"]
  /\ UNCHANGED ctx /\ StopKept

-------------------------------------------------------------------------------
(* The write queue *)

\* QueueWrite: accepted while the channel is open, even when no worker is
\* left to commit it
QueueWrite(r) ==
  /\ work[r] = "storing"
  /\ IF queueOpen
     THEN Becomes(r, "accepted") /\ queued' = queued \cup {r}
     ELSE Becomes(r, "ended") /\ UNCHANGED queued
  /\ UNCHANGED <<running, stopper, closer, expired,
                 queueOpen, batch, committed, failed, missed>> /\ QueueKept

\* processBatch: BadgerDB may refuse some of the writes, or fail after it has
\* committed some; the others are given up
Settle(writes) ==
  \E ok \in SUBSET writes :
    /\ committed' = committed \cup ok
    /\ failed' = failed \cup (writes \ ok)

\* The worker's batch is full, its timer has fired or it has been told to stop
WorkerBegins ==
  /\ work[Queue] = "waiting"
  /\ \E writes \in SUBSET queued \ {{}} :
       batch' = writes /\ queued' = queued \ writes
  /\ Becomes(Queue, "committing")
  /\ UNCHANGED <<running, stopper, closer, expired,
                 queueOpen, committed, failed, missed>> /\ QueueKept

\* BadgerDB has returned
WorkerEnds ==
  /\ work[Queue] = "committing"
  /\ Settle(batch)
  /\ batch' = {}
  /\ Becomes(Queue, "waiting")
  /\ UNCHANGED <<running, stopper, closer, expired, queueOpen, queued, missed>>
  /\ QueueKept

\* The worker finds stopChan closed, with nothing left in its batch
WorkerExits ==
  /\ work[Queue] = "waiting"
  /\ Queue \notin running
  /\ Becomes(Queue, "exited")
  /\ UNCHANGED <<running, stopper, closer, expired, queueVars>> /\ QueueKept

\* QueuedWriteBatch.Stop when the flush has not stopped the worker
StopQueue ==
  /\ stopper[Queue] = "started"
  /\ running' = running \ {Queue}
  /\ stopper' = [stopper EXCEPT ![Queue] = "joining"]
  /\ UNCHANGED <<closer, expired>> /\ CloseKept

\* ... and closeQueue after workerWg.Wait: what is still in the channel is gone
JoinQueue ==
  /\ stopper[Queue] = "joining"
  /\ work[Queue] = "exited"
  /\ stopper' = [stopper EXCEPT ![Queue] = "done"]
  /\ queueOpen' = FALSE
  /\ queued' = {}
  /\ UNCHANGED <<work, running, closer, expired, batch, committed, failed, missed>>
  /\ QueueKept

-------------------------------------------------------------------------------
(* Close *)

\* CloseWithTimeout is called
CloseBegin ==
  /\ closer = "none"
  /\ closer' = "health"
  /\ UNCHANGED <<running, stopper, expired>> /\ CloseKept

\* Its context ends
CloseExpires ==
  /\ closer \notin {"none", "closing"}
  /\ ~expired
  /\ expired' = TRUE
  /\ UNCHANGED <<running, stopper, closer>> /\ CloseKept

\* stopComponentWithTimeout starts the stopper; stopComponent looks at
\* IsRunning, which only a flush has made false.  The stop channel of a loop that
\* uses no context may as well be closed at once.
StopperBegins(c) == CASE c \notin running      -> "done"
                      [] c \in {Health, GC}    -> "joining"
                      [] c \in {Backup, Queue} -> "started"
StopComponent(c) ==
  /\ closer \in DOMAIN Stops /\ Stops[closer] = c
  /\ stopper[c] = "none"
  /\ stopper' = [stopper EXCEPT ![c] = StopperBegins(c)]
  /\ UNCHANGED <<work, running, ctx>> /\ StopKept

\* Mutant: stopComponentWithTimeout does not wait
ComponentNotAwaited(c) ==
  /\ closer \in DOMAIN Stops /\ Stops[closer] = c
  /\ stopper[c] # "none"
  /\ closer' = Follow[closer]
  /\ UNCHANGED <<work, running, stopper, ctx, expired, queueVars, afterStop>>

\* Mutant: stopComponentWithTimeout has no timeout
ComponentAwaited(c) ==
  /\ closer \in DOMAIN Stops /\ Stops[closer] = c
  /\ stopper[c] = "done"
  /\ closer' = Follow[closer]
  /\ UNCHANGED <<work, running, stopper, ctx, expired, queueVars, afterStop>>

\* ... and goes on when it is done or when the time is over
ComponentStopped(c) ==
  /\ closer \in DOMAIN Stops /\ Stops[closer] = c
  /\ stopper[c] # "none"
  /\ stopper[c] = "done" \/ expired
  /\ closer' = Follow[closer]
  /\ UNCHANGED <<work, running, stopper, ctx, expired, queueVars, afterStop>>

\* FlushQueue is called by the closer itself, without a timeout.  It has nothing to
\* do when the counter of pending entries is zero, which it may be with writes in
\* the queue: CountedSyncMap shows how.
FlushSkips ==
  /\ closer = "flush"
  /\ closer' = "queue"
  /\ missed' = missed \cup queued \cup batch
  /\ UNCHANGED <<work, running, stopper, expired,
                 queueOpen, queued, batch, committed, failed>> /\ QueueKept

\* Else the worker is stopped for good
FlushBegins ==
  /\ closer = "flush"
  /\ closer' = "join"
  /\ running' = running \ {Queue}
  /\ UNCHANGED <<stopper, expired>> /\ CloseKept

FlushJoins ==
  /\ closer = "join"
  /\ work[Queue] = "exited"
  /\ closer' = "drain"
  /\ UNCHANGED <<running, stopper, expired>> /\ CloseKept

\* drainQueuedTasksNonBlocking and forceProcessStuckTasks: the closer commits what
\* the worker has left
FlushSettles ==
  /\ closer = "drain"
  /\ Settle(queued)
  /\ queued' = {}
  /\ closer' = "queue"
  /\ UNCHANGED <<work, running, stopper, expired, queueOpen, batch, missed>>
  /\ QueueKept

-------------------------------------------------------------------------------

JobStep ==
  \/ \E j \in Job : \/ BackupLock(j) \/ BackupRecheck(j)
                    \/ BackupFinish(j) \/ CollectFinish(j)
  \/ \E r \in Request : QueueWrite(r)
  \/ BackupTick \/ BackupLoopExit \/ CollectTick

WorkerStep == WorkerBegins \/ WorkerEnds \/ WorkerExits

StopperStep ==
  \/ StopBackup \/ JoinBackup \/ StopQueue \/ JoinQueue
  \/ \E c \in {GC, Health} : JoinLoop(c)

\* The steps of the goroutine in Close that BadgerDB has no part in, without the
\* call itself
CloserStep ==
  \/ \E c \in Component : StopComponent(c) \/ ComponentStopped(c)
  \/ FlushSkips \/ FlushBegins \/ FlushJoins

\* The closer waits, without a timeout, for a commit of the worker or its own
AwaitsCommit ==
  \/ closer = "drain"
  \/ closer = "join" /\ work[Queue] = "committing"

-------------------------------------------------------------------------------
(* Properties *)

\* backup.go:128 waits for backups "to prevent BadgerDB iterator panics": when
\* the database is being closed in time, no collection loop, health loop or
\* backup is using it.  Exempt are the backups that began after Stop had renewed
\* the contexts.
QuietClose ==
  closer = "closing" /\ ~expired =>
    /\ \A c \in {Health, GC} : work[c] = "exited"
    /\ \A j \in Job : work[j] = "copying" => j \in afterStop

\* Only one backup holds the lock, and a backup that counts for wg.Wait is
\* never cut off by Stop returning before it, unless the contexts it looks at
\* are the renewed ones.
StopWaitsForBackups ==
  /\ Cardinality(Holding) <= 1
  /\ stopper[Backup] = "done" =>
       /\ ctx = "renewed"
       /\ \A j \in Job : work[j] = "copying" => j \in afterStop
===============================================================================
