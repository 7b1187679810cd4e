------------------------------- MODULE Recovery -------------------------------
(***************************************************************************)
(* Emergency shutdown, process death and restart: EmergencyShutdown of     *)
(* pkg/storage/badger_close.go writes the pending entries and the queue to *)
(* recovery files, and RecoverFromEmergencyShutdown of recovery.go puts    *)
(* them back at a later start, beside the worker that already runs.        *)
(*                                                                         *)
(* Contents are numbered in the order in which they are sent to the queue. *)
(* A request sends its task, and tracks it later, in one or two steps; the *)
(* worker receives into a batch and commits it.  What WriteQueue takes     *)
(* apart is one step here: a doubling of the channel, and the commit or    *)
(* the refusal of a batch together with the removal of its entries.  A     *)
(* request that Shutdown's timeout cuts off is left to Server.  A killed   *)
(* process loses its memory and keeps its database and its files.          *)
(***************************************************************************)
EXTENDS Integers, Sequences, FiniteSets, SequencesExt

CONSTANTS
  NumTasks,          \* contents sent during the behaviour
  Key,               \* content ids
  KeyOf,             \* the content id of a task
  None,              \* absence of a task
  InitialQueueSize,  \* capacity of the channel after a start
  MaxMultiplier,     \* growth limit of the channel
  MaxBatchSize,      \* maxBatchSize
  MaxStarts,         \* bound: starts of the process
  MaxEmergencies,    \* bound: emergency shutdowns
  MaxFaults,         \* bound: commits, file writes and renames that fail
  RecoveryOption     \* values of ENABLE_EMERGENCY_RECOVERY over the starts

Task  == 1 .. NumTasks
Stamp == 1 .. MaxEmergencies   \* the timestamp in the file names

ASSUME RecoveryAssumption ==
  /\ NumTasks \in Nat
  /\ KeyOf \in [Task -> Key]
  /\ None \notin Task
  /\ InitialQueueSize \in Nat \ {0}
  /\ MaxMultiplier \in Nat \ {0}
  /\ MaxBatchSize \in Nat \ {0}
  /\ MaxStarts \in Nat
  /\ MaxEmergencies \in Nat
  /\ MaxFaults \in Nat
  /\ RecoveryOption \subseteq BOOLEAN

VARIABLES
  main,          \* program counter of the main goroutine
  worker,        \* the queue worker: "off", "running" or "exited"
  stopped,       \* stopChan is closed
  capacity,      \* capacity of the channel
  chan,          \* contents of the channel
  batch,         \* the worker's batch
  tracking,      \* tasks sent whose request has not looked up pendingItems yet
  overwriting,   \* tasks whose request found an entry and has not replaced it yet
  pendingItems,  \* the tracked task of each content id
  count,         \* the counter of pendingItems
  tasks,         \* local: queued tasks being restored or serialized
  picked,        \* local: latestTimestamp, the stamp recovered or written
  db,            \* BadgerDB: the content of each id
  file,          \* state of the three files of each stamp
  savedPending,  \* what pending-items-{stamp}.json holds
  savedQueue,    \* what write-queue-{stamp}.json holds
  sent,          \* number of contents sent so far
  starts, emergencies, faults  \* counted against the bounds

VARIABLES        \* history, read by no action
  stored,        \* tasks ever written to BadgerDB
  owed,          \* tasks a shutdown must not lose
  late,          \* tasks not tracked when an emergency shutdown saved the entries
  restored,      \* pending entries this process took from a recovery file
  tardy,         \* entries this process made once no queued task stood behind them
  resurrected,   \* entries this process put back without counting them
  untracked,     \* tasks whose commit failed, or whose entry went with the commit
                 \* of another task or under an older task
  excused,       \* tasks lost with the memory or with a failed write of a file
  exposed,       \* ids for which a recovery file may be older than the database,
                 \* because a start left it behind and then served
  disordered     \* ids whose tasks the worker received out of order, or of which
                 \* an entry was made that is older than the database or the entry

queueVars  == <<worker, stopped, capacity, chan, batch>>
entryVars  == <<tracking, overwriting, pendingItems, count, resurrected, tardy>>
memoryVars == <<queueVars, entryVars>>
localVars  == <<tasks, picked>>
diskVars   == <<file, savedPending, savedQueue>>
boundVars  == <<starts, emergencies, faults>>
dbVars     == <<db, stored, untracked>>
histVars   == <<owed, late, restored, excused, exposed, disordered>>
vars == <<main, memoryVars, localVars, diskVars, dbVars, sent, boundVars, histVars>>

-------------------------------------------------------------------------------
(* Shapes and helpers *)

MaxCapacity == InitialQueueSize * MaxMultiplier
FileKind    == {"pending", "queue", "metadata"}
FileState   == {"absent", "torn", "whole"}

\* The file that each step of archiveRecoveredFiles renames
Renamed == [archivePending |-> "pending", archiveQueue |-> "queue",
            archiveMetadata |-> "metadata"]

Starting  == {"scan", "metadata", "pending", "queue", "requeue"} \cup DOMAIN Renamed
Emergency == {"savePending", "drainQueue", "saveQueue", "saveMetadata"}
Flushing  == {"join", "drain", "force", "stopjoin", "closed"}
MainPC    == {"down", "serving"} \cup Starting \cup Emergency \cup Flushing

PendingTasks == {pendingItems[k] : k \in {x \in Key : pendingItems[x] # None}}
Queued       == ToSet(chan) \cup ToSet(batch)
Requests     == tracking \cup overwriting
KeysOf(T)    == {KeyOf[t] : t \in T}

\* A task and those that replace it
Newer(t) == {u \in Task : KeyOf[u] = KeyOf[t] /\ t <= u}

\* A task of which a readable file still holds the entry.  A queue file whose
\* pending-items file is gone is never looked at again.
OnDisk(t) == \E s \in Stamp : file[s]["pending"] = "whole" /\ t \in savedPending[s]

\* The same of a task or a later content of its id
Settled(t)   == \E u \in Newer(t) : u \in stored
Held(t)      == \E u \in Newer(t) : u \in PendingTasks
Preserved(t) == \E u \in Newer(t) : OnDisk(u)
Dropped(t)   == \E u \in Newer(t) : u \in untracked

\* A task that is in safety, or lost in one of the ways that are recorded
Accounted(t) == Settled(t) \/ Preserved(t) \/ Dropped(t) \/ t \in excused

\* CountedSyncMap: entries that come and go are counted
Entries(e) == {k \in Key : e[k] # None}

Counted(e) ==
  /\ pendingItems' = e
  /\ count' = count + Cardinality(Entries(e)) - Cardinality(Entries(pendingItems))

\* A write or a rename fails
Fail == faults < MaxFaults /\ faults' = faults + 1

\* BadgerDB after those tasks of s that are in T were written in order: the last
\* write wins
Written(s, T) ==
  [k \in Key |->
     LET I    == {i \in DOMAIN s : KeyOf[s[i]] = k /\ s[i] \in T}
         last == {i \in I : \A j \in I : j <= i}
     IN  IF last = {} THEN db[k] ELSE s[CHOOSE i \in last : TRUE]]

\* Mutant: the batch's entries stay in pendingItems
CommitKeepsEntries(s) ==
  /\ db' = Written(s, ToSet(s))
  /\ stored' = stored \cup ToSet(s)
  /\ UNCHANGED <<pendingItems, count, untracked, faults>>

\* processBatch: write the batch and remove the entry of each id it holds, which
\* may be the entry of a later task.  A task that cannot be added and a batch
\* that cannot be flushed lose their entries as well (handleTaskError); a flush
\* that fails may have written a part.
Commit(s) ==
  \E written \in SUBSET ToSet(s) :
    /\ IF written = ToSet(s) THEN UNCHANGED faults ELSE Fail
    /\ db' = Written(s, written)
    /\ stored' = stored \cup written
    /\ Counted([k \in Key |-> IF k \in KeysOf(ToSet(s)) THEN None ELSE pendingItems[k]])
    /\ untracked' = untracked \cup
         ({t \in ToSet(s) \cup PendingTasks : KeyOf[t] \in KeysOf(ToSet(s))} \ written)

\* The process is gone: a new one starts with empty memory
MemoryGone ==
  /\ main' = "down"
  /\ worker' = "off"
  /\ stopped' = FALSE
  /\ capacity' = InitialQueueSize
  /\ chan' = <<>>
  /\ batch' = <<>>
  /\ tracking' = {} /\ overwriting' = {}
  /\ pendingItems' = [k \in Key |-> None]
  /\ count' = 0
  /\ tasks' = <<>>
  /\ picked' = 0
  /\ restored' = {} /\ tardy' = {} /\ resurrected' = 0

\* The start ends: contents sent from now on are newer than what the
\* recovery files still hold
Serve(files) ==
  /\ main' = "serving"
  /\ tasks' = <<>>
  /\ picked' = 0
  /\ exposed' = exposed \cup {k \in Key : \E s \in Stamp :
                    /\ files[s]["pending"] = "whole"
                    /\ k \in KeysOf(savedPending[s] \cup ToSet(savedQueue[s]))}

Init ==
  /\ main = "down"
  /\ worker = "off"
  /\ stopped = FALSE
  /\ capacity = InitialQueueSize
  /\ chan = <<>>
  /\ batch = <<>>
  /\ tracking = {} /\ overwriting = {}
  /\ pendingItems = [k \in Key |-> None]
  /\ count = 0
  /\ tasks = <<>>
  /\ picked = 0
  /\ db = [k \in Key |-> None]
  /\ file = [s \in Stamp |-> [f \in FileKind |-> "absent"]]
  /\ savedPending = [s \in Stamp |-> {}]
  /\ savedQueue = [s \in Stamp |-> <<>>]
  /\ sent = 0
  /\ starts = 0 /\ emergencies = 0 /\ faults = 0
  /\ stored = {} /\ owed = {} /\ late = {} /\ restored = {} /\ tardy = {}
  /\ resurrected = 0 /\ untracked = {} /\ excused = {} /\ exposed = {}
  /\ disordered = {}

-------------------------------------------------------------------------------
(* NewBadgerStorageWithRecovery *)

\* NewBadgerStorage opens the database and starts the worker before recovery
Open ==
  /\ main = "down"
  /\ starts < MaxStarts
  /\ starts' = starts + 1
  /\ worker' = "running"
  /\ \E enabled \in RecoveryOption :
       IF enabled
       THEN main' = "scan" /\ UNCHANGED <<localVars, exposed>>
       ELSE Serve(file)
  /\ UNCHANGED <<stopped, capacity, chan, batch, entryVars, diskVars, dbVars, sent,
                 emergencies, faults, owed, late, restored, excused, disordered>>

\* RecoverFromEmergencyShutdown: the latest pending-items file decides, whatever
\* it holds, and the queue file of the same timestamp has to exist
Scan ==
  LET found == {s \in Stamp : file[s]["pending"] # "absent"} IN
  /\ main = "scan"
  /\ \/ /\ \E s \in found :
             /\ \A r \in found : r <= s
             /\ file[s]["queue"] # "absent"
             /\ picked' = s
        /\ main' = "metadata"
        /\ UNCHANGED <<tasks, exposed>>
     \/ /\ \A s \in found : (\A r \in found : r <= s) => file[s]["queue"] = "absent"
        /\ Serve(file)
  /\ UNCHANGED <<memoryVars, diskVars, dbVars, sent, boundVars, owed, late,
                 restored, excused, disordered>>

\* Mutant: a failed recovery archives the files as well
RecoveryErrorArchives ==
  /\ \/ main = "metadata" /\ file[picked]["metadata"] # "whole"
     \/ main = "pending"  /\ file[picked]["pending"] # "whole"
     \/ main = "queue"    /\ file[picked]["queue"] # "whole"
  /\ main' = "archivePending"
  /\ UNCHANGED <<memoryVars, localVars, diskVars, dbVars, sent, boundVars,
                 histVars>>

\* performEmergencyRecovery: a metadata file that cannot be read or parsed, or a
\* checksum that differs, ends the recovery; the start goes on
RecoveryError ==
  /\ \/ main = "metadata" /\ file[picked]["metadata"] # "whole"
     \/ main = "pending"  /\ file[picked]["pending"] # "whole"
     \/ main = "queue"    /\ file[picked]["queue"] # "whole"
  /\ Serve(file)
  /\ UNCHANGED <<memoryVars, diskVars, dbVars, sent, boundVars, owed, late,
                 restored, excused, disordered>>

ReadMetadata ==
  /\ main = "metadata"
  /\ file[picked]["metadata"] = "whole"
  /\ main' = "pending"
  /\ UNCHANGED <<memoryVars, localVars, diskVars, dbVars, sent, boundVars,
                 histVars>>

\* Mutant: every entry gets one and the same task
EntriesOfAny(T) == [k \in Key |-> IF T = {} THEN pendingItems[k] ELSE CHOOSE t \in T : TRUE]

\* The entries after those of T were stored, each under its own id
EntriesOf(T) ==
  [k \in Key |-> LET own == {t \in T : KeyOf[t] = k}
                 IN  IF own = {} THEN pendingItems[k] ELSE CHOOSE t \in own : TRUE]

\* restorePendingItems: entries only, nothing is sent to the worker
RestorePendingItems ==
  /\ main = "pending"
  /\ file[picked]["pending"] = "whole"
  /\ Counted(EntriesOf(savedPending[picked]))
  /\ restored' = restored \cup savedPending[picked]
  /\ main' = "queue"
  /\ UNCHANGED <<queueVars, tracking, overwriting, resurrected, tardy, localVars,
                 diskVars, dbVars, sent, boundVars, owed, late, excused, exposed,
                 disordered>>

ReadQueueFile ==
  /\ main = "queue"
  /\ file[picked]["queue"] = "whole"
  /\ tasks' = savedQueue[picked]
  /\ main' = "requeue"
  /\ UNCHANGED <<memoryVars, picked, diskVars, dbVars, sent, boundVars, histVars>>

\* Mutant: restoreWriteQueue sends newest first
RestoreWriteQueueBackwards ==
  /\ main = "requeue"
  /\ tasks # <<>>
  /\ Len(chan) < capacity
  /\ chan' = Append(chan, Last(tasks))
  /\ tasks' = Front(tasks)
  /\ UNCHANGED <<main, worker, stopped, capacity, batch, entryVars, picked,
                 diskVars, dbVars, sent, boundVars, histVars>>

\* restoreWriteQueue: a task that does not fit is skipped, and nobody is told
RestoreWriteQueue ==
  /\ main = "requeue"
  /\ tasks # <<>>
  /\ \/ Len(chan) < capacity /\ chan' = Append(chan, Head(tasks))
     \/ Len(chan) >= capacity /\ UNCHANGED chan
  /\ tasks' = Tail(tasks)
  /\ UNCHANGED <<main, worker, stopped, capacity, batch, entryVars, picked,
                 diskVars, dbVars, sent, boundVars, histVars>>

Restored ==
  /\ main = "requeue"
  /\ tasks = <<>>
  /\ main' = "archivePending"
  /\ UNCHANGED <<memoryVars, localVars, diskVars, dbVars, sent, boundVars,
                 histVars>>

\* archiveRecoveredFiles: three renames whose errors are ignored
Archive ==
  /\ main \in DOMAIN Renamed
  /\ \/ file' = [file EXCEPT ![picked][Renamed[main]] = "absent"] /\ UNCHANGED faults
     \/ Fail /\ UNCHANGED file
  /\ \/ main = "archivePending" /\ main' = "archiveQueue" /\ UNCHANGED <<localVars, exposed>>
     \/ main = "archiveQueue" /\ main' = "archiveMetadata" /\ UNCHANGED <<localVars, exposed>>
     \/ main = "archiveMetadata" /\ Serve(file')
  /\ UNCHANGED <<memoryVars, savedPending, savedQueue, dbVars, sent, starts,
                 emergencies, owed, late, restored, excused, disordered>>

-------------------------------------------------------------------------------
(* The queue while the process runs *)

\* Requests run while the process serves, and go on when an emergency begins
RequestsRun == main \in {"serving"} \cup Emergency

\* QueueWrite sends the task
Send ==
  LET t == sent + 1 IN
  /\ RequestsRun
  /\ t \in Task
  /\ Len(chan) < capacity
  /\ chan' = Append(chan, t)
  /\ tracking' = tracking \cup {t}
  /\ sent' = t
  /\ late' = IF main \in {"serving", "savePending"} THEN late ELSE late \cup {t}
  /\ UNCHANGED <<main, worker, stopped, capacity, batch, overwriting, pendingItems,
                 count, resurrected, tardy, localVars, diskVars, dbVars, boundVars,
                 owed, restored, excused, exposed, disordered>>

\* DoubleQueueCapacity, before QueueWrite tries again: the tasks are transferred in
\* their order, but a worker that waits on the old channel may receive one of them,
\* ahead of those transferred before it.  A stopped queue does not grow.
Grow ==
  /\ RequestsRun
  /\ sent < NumTasks
  /\ Len(chan) >= capacity
  /\ capacity < MaxCapacity
  /\ ~stopped
  /\ capacity' = IF 2 * capacity > MaxCapacity THEN MaxCapacity ELSE 2 * capacity
  /\ \/ UNCHANGED <<chan, batch, disordered>>
     \/ /\ worker = "running"
        /\ Len(batch) < MaxBatchSize
        /\ \E i \in DOMAIN chan :
             /\ batch' = Append(batch, chan[i])
             /\ chan' = RemoveAt(chan, i)
             /\ disordered' = disordered \cup
                  (KeysOf({chan[i]}) \cap KeysOf({chan[j] : j \in 1 .. (i - 1)}))
  /\ UNCHANGED <<main, worker, stopped, entryVars, localVars, diskVars, dbVars, sent,
                 boundVars, owed, late, restored, excused, exposed>>

\* The entry of its id becomes t, whatever was there
MakeEntry(t) ==
  LET newer == Newer(t) \ {t} IN
  /\ pendingItems' = [pendingItems EXCEPT ![KeyOf[t]] = t]
  /\ tardy' = IF t \in Queued THEN tardy ELSE tardy \cup {t}
  /\ untracked' = untracked \cup (PendingTasks \cap newer)
  /\ disordered' = IF newer \cap (stored \cup PendingTasks) = {} THEN disordered
                   ELSE disordered \cup {KeyOf[t]}

\* storePendingItem, CountedSyncMap.Store: LoadOrStore makes and counts an entry,
\* or finds one
Track(t) ==
  /\ RequestsRun
  /\ t \in tracking
  /\ tracking' = tracking \ {t}
  /\ \/ /\ pendingItems[KeyOf[t]] = None
        /\ MakeEntry(t)
        /\ count' = count + 1
        /\ UNCHANGED overwriting
     \/ /\ pendingItems[KeyOf[t]] # None
        /\ overwriting' = overwriting \cup {t}
        /\ UNCHANGED <<pendingItems, count, tardy, untracked, disordered>>
  /\ UNCHANGED <<main, queueVars, resurrected, localVars, diskVars, db, stored, sent,
                 boundVars, owed, late, restored, excused, exposed>>

\* The found entry is replaced, and not counted when it has gone meanwhile
Overwrite(t) ==
  /\ RequestsRun
  /\ t \in overwriting
  /\ overwriting' = overwriting \ {t}
  /\ MakeEntry(t)
  /\ resurrected' = IF pendingItems[KeyOf[t]] = None THEN resurrected + 1
                    ELSE resurrected
  /\ UNCHANGED <<main, queueVars, tracking, count, localVars, diskVars, db, stored,
                 sent, boundVars, owed, late, restored, excused, exposed>>

Request == Send \/ Grow \/ \E t \in Task : Track(t) \/ Overwrite(t)

\* An emergency does not wait for the worker, which receives beside its drain
WorkerReceive ==
  /\ worker = "running"
  /\ chan # <<>>
  /\ Len(batch) < MaxBatchSize
  /\ batch' = Append(batch, Head(chan))
  /\ chan' = Tail(chan)
  /\ UNCHANGED <<main, worker, stopped, capacity, entryVars, localVars, diskVars,
                 dbVars, sent, boundVars, histVars>>

\* A full batch, a timeout, or the last batch before the worker exits
WorkerCommit ==
  /\ worker = "running"
  /\ batch # <<>>
  /\ Commit(batch)
  /\ batch' = <<>>
  /\ UNCHANGED <<main, worker, stopped, capacity, chan, tracking, overwriting,
                 resurrected, tardy, localVars, diskVars, sent, starts, emergencies,
                 histVars>>

WorkerExit ==
  /\ worker = "running"
  /\ stopped
  /\ batch = <<>>
  /\ worker' = "exited"
  /\ UNCHANGED <<main, stopped, capacity, chan, batch, entryVars, localVars,
                 diskVars, dbVars, sent, boundVars, histVars>>

Worker == WorkerReceive \/ WorkerCommit \/ WorkerExit

-------------------------------------------------------------------------------
(* EmergencyShutdown *)

\* EmergencyStop: the stop signal, without waiting for the worker
EmergencyBegin ==
  /\ main = "serving"
  /\ emergencies < MaxEmergencies
  /\ emergencies' = emergencies + 1
  /\ picked' = emergencies + 1
  /\ stopped' = TRUE
  /\ owed' = owed \cup PendingTasks
  /\ main' = "savePending"
  /\ UNCHANGED <<worker, capacity, chan, batch, entryVars, tasks, diskVars, dbVars,
                 sent, starts, faults, late, restored, excused, exposed, disordered>>

\* SerializePendingTasks and its file: os.WriteFile may leave nothing or a part
SavePending ==
  /\ main = "savePending"
  /\ savedPending' = [savedPending EXCEPT ![picked] = PendingTasks]
  /\ \/ file' = [file EXCEPT ![picked]["pending"] = "whole"] /\ UNCHANGED <<faults, excused>>
     \/ /\ Fail
        /\ \E st \in {"absent", "torn"} : file' = [file EXCEPT ![picked]["pending"] = st]
        /\ excused' = excused \cup {t \in owed : Held(t)}
  /\ late' = late \cup Requests
  /\ main' = "drainQueue"
  /\ UNCHANGED <<memoryVars, localVars, savedQueue, dbVars, sent, starts,
                 emergencies, owed, restored, exposed, disordered>>

\* SerializeWriteQueue receives beside the worker and the requests under way
DrainQueue ==
  /\ main = "drainQueue"
  /\ \/ /\ chan # <<>>
        /\ tasks' = Append(tasks, Head(chan))
        /\ chan' = Tail(chan)
        /\ UNCHANGED main
     \/ chan = <<>> /\ main' = "saveQueue" /\ UNCHANGED <<chan, tasks>>
  /\ UNCHANGED <<worker, stopped, capacity, batch, entryVars, picked, diskVars,
                 dbVars, sent, boundVars, histVars>>

SaveQueue ==
  /\ main = "saveQueue"
  /\ savedQueue' = [savedQueue EXCEPT ![picked] = tasks]
  /\ \/ file' = [file EXCEPT ![picked]["queue"] = "whole"] /\ UNCHANGED faults
     \/ /\ Fail
        /\ \E st \in {"absent", "torn"} : file' = [file EXCEPT ![picked]["queue"] = st]
  /\ tasks' = <<>>
  /\ main' = "saveMetadata"
  /\ UNCHANGED <<memoryVars, picked, savedPending, dbVars, sent, starts,
                 emergencies, histVars>>

\* saveEmergencyRecoveryMetadata, and the caller's os.Exit
SaveMetadata ==
  /\ main = "saveMetadata"
  /\ \/ file' = [file EXCEPT ![picked]["metadata"] = "whole"] /\ UNCHANGED faults
     \/ /\ Fail
        /\ \E st \in {"absent", "torn"} : file' = [file EXCEPT ![picked]["metadata"] = st]
  /\ MemoryGone
  /\ UNCHANGED <<savedPending, savedQueue, dbVars, sent, starts, emergencies,
                 owed, late, excused, exposed, disordered>>

-------------------------------------------------------------------------------
(* Graceful shutdown, once no request is left: simpleFlush, then Stop *)

\* The fast path looks at the counter; Stop then stops the worker
FlushBegin ==
  /\ main = "serving"
  /\ Requests = {}
  /\ owed' = owed \cup PendingTasks
  /\ IF count = 0 THEN main' = "stopjoin" ELSE main' = "join"
  /\ stopped' = TRUE
  /\ UNCHANGED <<worker, capacity, chan, batch, entryVars, localVars, diskVars, dbVars,
                 sent, boundVars, late, restored, excused, exposed, disordered>>

\* stopWorker waits for the worker: before the drain, or in Stop
FlushJoin ==
  /\ main \in {"join", "stopjoin"}
  /\ worker = "exited"
  /\ main' = IF main = "join" THEN "drain" ELSE "closed"
  /\ UNCHANGED <<memoryVars, localVars, diskVars, dbVars, sent, boundVars, histVars>>

FlushDrain ==
  /\ main = "drain"
  /\ Commit(chan)
  /\ chan' = <<>>
  /\ main' = "force"
  /\ UNCHANGED <<worker, stopped, capacity, batch, tracking, overwriting, resurrected,
                 tardy, localVars, diskVars, sent, starts, emergencies, histVars>>

\* Mutant: the tasks still pending are not forced
FlushForceNothing ==
  /\ main = "force"
  /\ main' = "closed"
  /\ UNCHANGED <<memoryVars, localVars, diskVars, dbVars, sent, boundVars, histVars>>

\* forceProcessStuckTasks; the entries have distinct ids, their order is irrelevant
FlushForce ==
  /\ main = "force"
  /\ Commit(SetToSeq(PendingTasks))
  /\ main' = "closed"
  /\ UNCHANGED <<queueVars, tracking, overwriting, resurrected, tardy, localVars,
                 diskVars, sent, starts, emergencies, histVars>>

\* Entries lost with the memory, of tasks that a shutdown must not lose
Excuse == excused' = excused \cup {t \in owed : Held(t) /\ ~Preserved(t)}

\* The database is closed and main returns
Exit ==
  /\ main = "closed"
  /\ MemoryGone
  /\ Excuse
  /\ UNCHANGED <<diskVars, dbVars, sent, boundVars, owed, late, exposed, disordered>>

-------------------------------------------------------------------------------

\* The process is killed, at any moment
Kill ==
  /\ main # "down"
  /\ MemoryGone
  /\ Excuse
  /\ UNCHANGED <<diskVars, dbVars, sent, boundVars, owed, late, exposed, disordered>>

Recover == Open \/ Scan \/ RecoveryError \/ ReadMetadata \/ RestorePendingItems
           \/ ReadQueueFile \/ RestoreWriteQueue \/ Restored \/ Archive
Save    == EmergencyBegin \/ SavePending \/ DrainQueue \/ SaveQueue \/ SaveMetadata
Flush   == FlushBegin \/ FlushJoin \/ FlushDrain \/ FlushForce \/ Exit

Next == Recover \/ Request \/ Worker \/ Save \/ Flush \/ Kill

Spec == Init /\ [][Next]_vars

-------------------------------------------------------------------------------
(* Properties *)

\* Every variable has its type; the bounds hold.
TypeOK ==
  /\ main \in MainPC
  /\ worker \in {"off", "running", "exited"}
  /\ stopped \in BOOLEAN
  /\ capacity \in 1 .. MaxCapacity
  /\ chan \in Seq(Task) /\ batch \in Seq(Task) /\ tasks \in Seq(Task)
  /\ tracking \subseteq Task /\ overwriting \subseteq Task
  /\ pendingItems \in [Key -> Task \cup {None}]
  /\ \A k \in Key : pendingItems[k] # None => KeyOf[pendingItems[k]] = k
  /\ count \in Int /\ resurrected \in Nat
  /\ picked \in Stamp \cup {0}
  /\ db \in [Key -> Task \cup {None}]
  /\ file \in [Stamp -> [FileKind -> FileState]]
  /\ savedPending \in [Stamp -> SUBSET Task]
  /\ savedQueue \in [Stamp -> Seq(Task)]
  /\ sent \in 0 .. NumTasks
  /\ starts \in 0 .. MaxStarts /\ emergencies \in 0 .. MaxEmergencies
  /\ faults \in 0 .. MaxFaults
  /\ stored \subseteq Task /\ owed \subseteq Task /\ late \subseteq Task
  /\ restored \subseteq Task /\ tardy \subseteq Task
  /\ untracked \subseteq Task /\ excused \subseteq Task
  /\ exposed \subseteq Key /\ disordered \subseteq Key

\* What an emergency or a graceful shutdown found tracked is tracked again, written,
\* or still in its files, whatever starts, kills and further shutdowns follow
\* (recovery.go:16-17, 147, "Keeps original files until successful completion").
\* Except tasks that only the memory of a process held when it was killed, or when it
\* ended after a flush that skipped them (queue.go:247, see FlushSettlesRestored);
\* tasks of a pending-items file that could not be written; tasks whose commit failed
\* (queue.go:306, 311-317); and tasks whose entry went with the commit of an earlier
\* task of their id (queue.go:340) or under an older entry (queue.go:465).
SavedTasksSurvive ==
  \A t \in owed : Accounted(t) \/ Held(t)

\* A restored content never replaces a newer one of its id, whatever starts, kills,
\* shutdowns, failed commits and skipped tasks follow (recovery.go:146, queue.go:279).
\* Except for ids that are exposed; ids whose tasks a doubling let the worker receive
\* out of order (queue.go:402), or of which a slow request made an entry older than
\* what the database or the map held (queue.go:465); contents not tracked yet when the
\* entries were saved; and contents whose entry was lost (see SavedTasksSurvive).
NoStaleRestore ==
  \A u \in stored \ late :
    KeyOf[u] \notin exposed \cup disordered => db[KeyOf[u]] \in Newer(u) \/ Dropped(u)

\* A graceful shutdown settles every task that was tracked when it began, the restored
\* ones that no channel holds included (queue.go:223, 245-276, 793-797).  Except tasks
\* whose commit failed or whose entry was lost (see SavedTasksSurvive), and entries a
\* request put back after they had been counted as removed (CountedSyncMap.go:24-28):
\* these alone can make the fast path at queue.go:247 skip a tracked task.
FlushSettlesRestored ==
  main = "closed" => \A t \in owed : Accounted(t) \/ (Held(t) /\ resurrected > 0)

\* While the worker runs, an entry that no queued task stands behind, on which a read
\* of its id waits in vain, comes from a recovery file, or from a request that tracked
\* its task after the worker had written it or had it refused (queue.go:465, 708-711):
\* no content that is not in the database hides behind an entry nobody will settle.
StuckEntriesAreKnown ==
  main \in {"serving"} \cup Starting =>
    PendingTasks \subseteq Queued \cup restored \cup (tardy \cap (stored \cup untracked))
=============================================================================
