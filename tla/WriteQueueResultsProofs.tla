------------------------ MODULE WriteQueueResultsProofs ------------------------
(***************************************************************************)
(* Proofs about what WriteQueue tells its callers: batches, results,       *)
(* tracked entries, waiters, the counter and both shutdowns; for any       *)
(* finite set of tasks, any ids, sizes and kinds of shutdown.              *)
(***************************************************************************)
EXTENDS WriteQueueProofs

-------------------------------------------------------------------------------
(* Sequences of tasks *)

LEMMA Appended ==
  ASSUME NEW s \in Seq(Task), NEW t \in Task
  PROVE  /\ Append(s, t) \in Seq(Task) /\ Append(s, t) # <<>>
         /\ Len(Append(s, t)) = Len(s) + 1 /\ Len(s) \in Nat
         /\ ToSet(Append(s, t)) = ToSet(s) \cup {t}
<1>1. /\ Append(s, t) \in Seq(Task) /\ Append(s, t) # <<>>
      /\ Len(Append(s, t)) = Len(s) + 1
      /\ DOMAIN s = 1 .. Len(s) /\ Len(s) \in Nat
      /\ DOMAIN Append(s, t) = 1 .. Len(s) + 1
      /\ Append(s, t)[Len(s) + 1] = t
      /\ \A i \in 1 .. Len(s) : Append(s, t)[i] = s[i]
  BY AppendProperties
<1> QED
  BY <1>1 DEF ToSet

-------------------------------------------------------------------------------
(* How far processBatch is, and who runs it *)

BatchShape ==
  /\ phase = "idle" => failing = {} /\ settling = {} /\ removal = NoRemoval
  /\ phase = "set" => settling = {}
  /\ phase = "finish" => batch = <<>>
  /\ removal # NoRemoval => removal.key \in Key

\* The worker is not in its select while a batch is processed, and the closer runs
\* processBatch only after the worker has exited
OneRuns ==
  /\ worker = "select" => phase = "idle"
  /\ closer \in {"drain", "collect", "force"} => worker = "exited"

ShapeInv == BatchShape /\ OneRuns /\ PartialBatchHasTimer

\* What a step may do to the local batch
BatchKept  == UNCHANGED batchVars
Enter(b)   == /\ phase = "idle" /\ ProcessBatch(b)
Collect(t) == /\ phase = "idle" /\ batch' = Append(batch, t)
              /\ UNCHANGED <<phase, failing, settling, removal>>
BatchMove  == \/ BatchKept
              \/ \E b \in Seq(Task) : Enter(b)
              \/ \E t \in Task : Collect(t)

LEMMA AddingIsMove ==
  ASSUME TypeOK, NEW t \in Task, phase = "idle", AddToBatch(t)
  PROVE  BatchMove
<1>1. Append(batch, t) \in Seq(Task)
  BY AppendProperties DEF TypeOK
<1>2. CASE Len(Append(batch, t)) >= MaxBatchSize
  BY <1>1, <1>2 DEF AddToBatch, BatchMove, Enter
<1>3. CASE ~(Len(Append(batch, t)) >= MaxBatchSize)
  BY <1>3 DEF AddToBatch, BatchMove, Collect
<1> QED
  BY <1>2, <1>3

LEMMA WorkerMoves ==
  ASSUME TypeOK, OneRuns, Worker
  PROVE  BatchMove
<1>1. CASE WorkerLoad \/ WorkerResize \/ WorkerExit
  BY <1>1 DEF WorkerLoad, WorkerResize, WorkerExit, BatchMove, BatchKept
<1>2. CASE WorkerReceive
  BY <1>2, AddingIsMove, ReceiveType DEF WorkerReceive, OneRuns
<1>3. CASE WorkerTimer \/ WorkerStop
  BY <1>3 DEF WorkerTimer, WorkerStop, OneRuns, BatchMove, Enter, TypeOK
<1> QED
  BY <1>1, <1>2, <1>3 DEF Worker

LEMMA CloserMoves ==
  ASSUME TypeOK, Closer
  PROVE  BatchMove
<1>1. CASE DrainReceive
  BY <1>1, AddingIsMove, ReceiveType DEF DrainReceive, InsideBatch
<1>2. CASE DrainEnd
  BY <1>2 DEF DrainEnd, InsideBatch, BatchMove, Enter, TypeOK
<1>3. CASE ForceBatch
  <2>1. PICK s \in Chunks : ProcessBatch(s)
    BY <1>3 DEF ForceBatch
  <2>2. s \in Seq(Task)
    BY ChunksType DEF TypeOK
  <2> QED
    BY <1>3, <2>1, <2>2 DEF ForceBatch, InsideBatch, BatchMove, Enter
<1>4. CASE ~DrainReceive /\ ~DrainEnd /\ ~ForceBatch
  BY Closer, <1>4 DEF Closer, FlushNothing, FlushStopWorker, DrainBegin, ForceCollect, FlushReturn,
     StopQueue, CloseQueue, EmergencyStop, SerializePendingTasks, SerializeBegin,
     SerializeReceive, SerializeEnd, BatchMove, BatchKept
<1> QED
  BY <1>1, <1>2, <1>3, <1>4

LEMMA OthersKeepBatch ==
  ASSUME (\E t \in Task : Writer(t)) \/ (\E w \in Waiter : Wait(w)) \/ UNCHANGED vars
  PROVE  UNCHANGED <<workerVars, batchVars, dbVars, closerVars>>
  BY DEF Writer, Send, SendFull, Double, Track, SyncResult, Wait, vars, consumerVars, clientVars,
     closerVars, shutHist

LEMMA MoveKeepsShape ==
  ASSUME BatchShape, BatchMove
  PROVE  BatchShape'
<1>1. CASE BatchKept
  BY <1>1 DEF BatchKept, batchVars, BatchShape
<1>2. ASSUME NEW b \in Seq(Task), Enter(b)
      PROVE  BatchShape'
  <2>1. b = <<>> => ToSet(b) = {}
    BY DEF ToSet
  <2> QED
    BY <1>2, <2>1 DEF Enter, ProcessBatch, BatchShape
<1>3. ASSUME NEW t \in Task, Collect(t)
      PROVE  BatchShape'
  BY <1>3 DEF Collect, BatchShape
<1> QED
  BY <1>1, <1>2, <1>3 DEF BatchMove

LEMMA BatchKeepsShape ==
  ASSUME BatchShape, Batch
  PROVE  BatchShape'
<1>1. ASSUME NEW t \in Task, RemoveFailed(t)
      PROVE  BatchShape'
  BY <1>1, QueueAssumption DEF RemoveFailed, InsideBatch, BatchShape
<1>2. ASSUME NEW k \in Key, RemoveSettled(k)
      PROVE  BatchShape'
  BY <1>2 DEF RemoveSettled, InsideBatch, BatchShape
<1>3. CASE NotifyRemoved
  BY <1>3 DEF NotifyRemoved, BatchShape
<1>4. CASE FlushOk
  BY <1>4 DEF FlushOk, ReadyToFlush, BatchShape
<1>5. CASE FlushError
  BY <1>5 DEF FlushError, ReadyToFlush, BatchShape
<1> QED
  BY <1>1, <1>2, <1>3, <1>4, <1>5 DEF Batch

LEMMA NextKeepsShape ==
  ASSUME TypeOK, ShapeInv, [Next]_vars
  PROVE  ShapeInv'
<1> USE DEF ShapeInv
<1>1. CASE (\E t \in Task : Writer(t)) \/ (\E w \in Waiter : Wait(w)) \/ UNCHANGED vars
  BY <1>1, OthersKeepBatch DEF BatchShape, OneRuns, PartialBatchHasTimer, InsideBatch,
     workerVars, batchVars, closerVars
<1>2. CASE Batch
  <2>1. BatchShape'
    BY <1>2, BatchKeepsShape
  <2>2. UNCHANGED <<worker, armed, closer>>
    BY <1>2 DEF Batch, workerVars, closerVars
  <2>3. phase # "idle"
    BY <1>2 DEF Batch, RemoveFailed, RemoveSettled, NotifyRemoved, FlushOk, FlushError, ReadyToFlush,
       InsideBatch, BatchShape
  <2>4. phase' = "idle" => batch' = <<>>
    BY <1>2, <2>3 DEF Batch, RemoveFailed, RemoveSettled, NotifyRemoved, FlushOk, FlushError,
       ReadyToFlush, BatchShape
  <2> QED
    BY <2>1, <2>2, <2>3, <2>4 DEF OneRuns, PartialBatchHasTimer, InsideBatch
<1>3. CASE Worker
  <2>1. BatchShape'
    BY <1>3, WorkerMoves, MoveKeepsShape
  <2>2. UNCHANGED closer
    BY <1>3 DEF Worker, clientVars, closerVars
  <2>3. CASE WorkerLoad
    BY <2>1, <2>2, <2>3 DEF WorkerLoad, OneRuns, PartialBatchHasTimer, InsideBatch, batchVars
  <2>4. CASE WorkerReceive
    <3>1. Head(chan[held["worker"]]) \in Task
      BY <2>4, ReceiveType DEF WorkerReceive
    <3> DEFINE h == Head(chan[held["worker"]])
    <3>0. h \in Task /\ batch \in Seq(Task)
      BY <3>1 DEF TypeOK
    <3> HIDE DEF h
    <3>2. Len(Append(batch, h)) = Len(batch) + 1 /\ Append(batch, h) # <<>>
      BY <3>0, Appended
    <3>3. phase = "idle" /\ worker' = "load" /\ AddToBatch(h)
          /\ armed' = (Len(batch) + 1 < MaxBatchSize /\ (armed \/ batch = <<>>))
      BY <2>4 DEF WorkerReceive, OneRuns, h
    <3>4. phase' = "idle" => Len(batch) + 1 < MaxBatchSize
      <4>1. Len(batch) \in Nat /\ MaxBatchSize \in Nat
        BY LenProperties, QueueAssumption DEF TypeOK
      <4> QED
        BY <3>2, <3>3, <4>1 DEF AddToBatch, ProcessBatch
    <3> QED
      BY <2>1, <2>2, <2>4, <3>3, <3>4 DEF WorkerReceive, OneRuns, PartialBatchHasTimer, InsideBatch
  <2>5. CASE WorkerTimer
    BY <2>1, <2>2, <2>5 DEF WorkerTimer, ProcessBatch, OneRuns, PartialBatchHasTimer, InsideBatch
  <2>6. CASE WorkerResize
    BY <2>1, <2>2, <2>6 DEF WorkerResize, OneRuns, PartialBatchHasTimer, InsideBatch, batchVars
  <2>7. CASE WorkerStop \/ WorkerExit
    BY <2>1, <2>2, <2>7 DEF WorkerStop, WorkerExit, OneRuns, PartialBatchHasTimer
  <2> QED
    BY <1>3, <2>3, <2>4, <2>5, <2>6, <2>7 DEF Worker
<1>4. CASE Closer
  <2>1. BatchShape'
    BY <1>4, CloserMoves, MoveKeepsShape
  <2>2. UNCHANGED <<worker, armed>>
    BY <1>4 DEF Closer
  <2>3. \/ worker = "exited"
        \/ BatchKept /\ closer' \notin {"drain", "collect", "force"}
    BY <1>4 DEF Closer, FlushNothing, FlushStopWorker, DrainBegin, DrainReceive, DrainEnd,
       ForceCollect, ForceBatch, FlushReturn, StopQueue, CloseQueue, EmergencyStop,
       SerializePendingTasks, SerializeBegin, SerializeReceive, SerializeEnd, OneRuns, BatchKept
  <2> QED
    BY <2>1, <2>2, <2>3 DEF OneRuns, PartialBatchHasTimer, InsideBatch, BatchKept, batchVars
<1> QED
  BY <1>1, <1>2, <1>3, <1>4 DEF Next, AtRest

LEMMA ShapeInit == Init => ShapeInv
  BY DEF Init, ShapeInv, BatchShape, OneRuns, PartialBatchHasTimer, InsideBatch

LEMMA ShapeCorrect == Spec => [](TypeOK /\ ShapeInv)
<1>1. TypeOK /\ ShapeInv /\ [Next]_vars => (TypeOK /\ ShapeInv)'
  BY TypeStep, NextKeepsShape
<1> QED
  BY <1>1, TypeInit, ShapeInit, PTL DEF Spec

\* A batch that a running worker leaves incomplete has its timer running, whatever
\* tasks, timers, resize tokens and shutdowns came before (queue.go:167-169).
THEOREM PartialBatchAlwaysHasTimer == Spec => []PartialBatchHasTimer
<1>1. ShapeInv => PartialBatchHasTimer
  BY DEF ShapeInv
<1> QED
  BY <1>1, ShapeCorrect, PTL

-------------------------------------------------------------------------------
(* Results of synchronous writes *)

\* A call that no longer looks at its result
Answered == {"ok", "error", "uncount", "timeout"}

\* A result on its way is true, unless nobody waits for it; and a refused task of a
\* batch under way has an error before the batch is flushed
ResultsAreTrue ==
  \A t \in SyncTask :
    /\ result[t] = "error" => t \in failed
    /\ result[t] = "nil" => t \in stored \/ pc[t] \in Answered
RefusedHasError ==
  /\ removal.task # None => removal.task \in failed
  /\ phase = "set" => \A t \in ToSet(batch) \cap Unstorable \cap SyncTask :
       t \in failing \/ removal.task = t \/ result[t] # "empty" \/ pc[t] \in Answered

ResultInv == ResultsAreTrue /\ RefusedHasError /\ SyncResultIsTrue

LEMMA EntryKeepsResults ==
  ASSUME TypeOK, BatchShape, ResultInv, BatchMove, UNCHANGED <<pc, result, stored, failed>>
  PROVE  ResultInv'
<1>1. removal' = removal
  BY DEF BatchMove, BatchKept, batchVars, Enter, ProcessBatch, Collect
<1>2. phase' = "set" => \/ phase = "set" /\ UNCHANGED <<batch, failing>>
                        \/ ToSet(batch') \cap Unstorable \subseteq failing'
  BY DEF BatchMove, BatchKept, batchVars, Enter, ProcessBatch, Collect
<1> QED
  BY <1>1, <1>2 DEF ResultInv, ResultsAreTrue, RefusedHasError, SyncResultIsTrue

LEMMA BatchKeepsResults ==
  ASSUME TypeOK, BatchShape, ResultInv, Batch
  PROVE  ResultInv'
<1>1. pc' = pc /\ None \notin Task /\ SyncTask \subseteq Task
  BY QueueAssumption DEF Batch
<1> USE <1>1 DEF ResultInv
<1>2. ASSUME NEW u \in Task, RemoveFailed(u)
      PROVE  ResultInv'
  BY <1>2 DEF RemoveFailed, ResultsAreTrue, RefusedHasError, SyncResultIsTrue, NoRemoval
<1>3. ASSUME NEW k \in Key, RemoveSettled(k)
      PROVE  ResultInv'
  BY <1>3 DEF RemoveSettled, ResultsAreTrue, RefusedHasError, SyncResultIsTrue, NoRemoval, dbVars
<1>4. CASE NotifyRemoved
  <2>1. \A t \in SyncTask : /\ result[t] # "empty" => result'[t] = result[t]
                            /\ t = removal.task => result'[t] # "empty"
                            /\ result'[t] \in {result[t], "error"}
                            /\ result'[t] # result[t] => t = removal.task
    BY <1>4 DEF NotifyRemoved, TypeOK
  <2>2. UNCHANGED <<batch, failing, stored, failed>> /\ removal'.task = None
        /\ phase' \in {phase, "idle"}
    BY <1>4 DEF NotifyRemoved, NoRemoval, dbVars
  <2> QED
    BY <2>1, <2>2 DEF ResultsAreTrue, RefusedHasError, SyncResultIsTrue
<1>5. CASE FlushOk
  <2>1. /\ failing = {} /\ removal.task = None /\ phase = "set" /\ phase' = "finish"
        /\ stored' = stored \cup (ToSet(batch) \ Unstorable) /\ failed' = failed
        /\ removal' = removal
    BY <1>5 DEF FlushOk, ReadyToFlush, NoRemoval
  <2>2. \A t \in SyncTask : \/ result'[t] = result[t]
                            \/ result'[t] = "nil" /\ t \in ToSet(batch) /\ result[t] = "empty"
    BY <1>5 DEF FlushOk
  <2>3. \A t \in SyncTask \cap ToSet(batch) : result[t] = "empty" =>
          t \in stored' \/ pc[t] \in Answered
    BY <2>1 DEF RefusedHasError
  <2> QED
    BY <2>1, <2>2, <2>3 DEF ResultsAreTrue, RefusedHasError, SyncResultIsTrue
<1>6. CASE FlushError
  <2>1. stored \subseteq stored' /\ UNCHANGED <<failed, result, removal>> /\ phase' = "finish"
    BY <1>6 DEF FlushError
  <2> QED
    BY <2>1 DEF ResultsAreTrue, RefusedHasError, SyncResultIsTrue
<1> QED
  BY <1>2, <1>3, <1>4, <1>5, <1>6 DEF Batch

LEMMA WriterKeepsResults ==
  ASSUME TypeOK, ResultInv, NEW t \in Task, Writer(t)
  PROVE  ResultInv'
<1>1. UNCHANGED <<batchVars, dbVars>> /\ SyncTask \subseteq Task
  BY OthersKeepBatch, QueueAssumption
<1>2. /\ \A u \in Task \ {t} : pc'[u] = pc[u] /\ result'[u] = result[u]
      /\ pc[t] \in Answered => pc'[t] \in Answered
  BY DEF Writer, Send, SendFull, Double, DoubleRefused, DoubleBegin, DoubleSwap, DoubleTransfer,
     DoubleUnlock, DoubleWake, Track, StoreLookup, StoreOverwrite, StoreCount, SyncTimeout,
     SyncUncount, SyncResult, AfterStore, Answered, TypeOK
<1>3. CASE SyncResult(t)
  <2>1. /\ pc[t] = "waiting" /\ result[t] # "empty" /\ result'[t] = "empty"
        /\ pc'[t] = IF result[t] = "nil" THEN "ok" ELSE "error"
    BY <1>3 DEF SyncResult, TypeOK
  <2>2. t \in SyncTask => /\ result[t] = "nil" => t \in stored
                          /\ result[t] # "nil" => t \in failed
    BY <2>1 DEF ResultInv, ResultsAreTrue, TypeOK, Answered
  <2> QED
    BY <1>1, <1>2, <2>1, <2>2 DEF ResultInv, ResultsAreTrue, RefusedHasError, SyncResultIsTrue,
       batchVars, dbVars, Answered
<1>4. CASE ~SyncResult(t)
  <2>1. result' = result
    BY <1>4 DEF Writer, Send, SendFull, Double, Track
  <2>2. t \in SyncTask /\ pc'[t] \in {"ok", "error"} => pc'[t] = pc[t]
    BY <1>4 DEF Writer, Send, SendFull, Double, DoubleRefused, DoubleBegin, DoubleSwap,
       DoubleTransfer, DoubleUnlock, DoubleWake, Track, StoreLookup, StoreOverwrite, StoreCount,
       SyncTimeout, SyncUncount, AfterStore, TypeOK
  <2> QED
    BY <1>1, <1>2, <2>1, <2>2 DEF ResultInv, ResultsAreTrue, RefusedHasError, SyncResultIsTrue,
       batchVars, dbVars
<1> QED
  BY <1>3, <1>4

LEMMA NextKeepsResults ==
  ASSUME TypeOK, ShapeInv, ResultInv, [Next]_vars
  PROVE  ResultInv'
<1>1. CASE Worker
  BY <1>1, WorkerMoves, EntryKeepsResults DEF Worker, writerVars, dbVars, ShapeInv
<1>2. CASE Closer
  BY <1>2, CloserMoves, EntryKeepsResults DEF Closer, writerVars, dbVars, ShapeInv
<1>3. CASE (\E w \in Waiter : Wait(w)) \/ UNCHANGED vars
  <2>1. UNCHANGED <<pc, result, stored, failed>> /\ BatchKept
    BY <1>3 DEF Wait, vars, writerVars, consumerVars, dbVars, BatchKept
  <2> QED
    BY <2>1, EntryKeepsResults DEF BatchMove, ShapeInv
<1> QED
  BY <1>1, <1>2, <1>3, WriterKeepsResults, BatchKeepsResults DEF Next, AtRest, ShapeInv

\* QueueWriteSync tells the truth, whatever fails, times out or is processed
\* again by a flush (queue.go:316-323, 549-551, 592-598).
THEOREM SyncResultsAreTrue == Spec => []SyncResultIsTrue
<1>1. Init => ResultInv
  <2>1. SyncTask \subseteq Task
    BY QueueAssumption
  <2> QED
    BY <2>1 DEF Init, ResultInv, ResultsAreTrue, RefusedHasError, SyncResultIsTrue, NoRemoval
<1>2. (TypeOK /\ ShapeInv) /\ ResultInv /\ [Next]_vars => ResultInv'
  BY NextKeepsResults
<1>3. ResultInv => SyncResultIsTrue
  BY DEF ResultInv
<1> QED
  BY <1>1, <1>2, <1>3, ShapeCorrect, PTL DEF Spec

-------------------------------------------------------------------------------
(* Writes that nobody else makes are tracked until they are settled *)

RefusedIsFailing == phase = "set" => ToSet(batch) \cap Unstorable \subseteq failing \cup failed

\* The entry of an id is removed only once its exclusive write is settled
RemovedIsSettled ==
  \A t \in Task : Exclusive(t) /\ KeyOf[t] \in settling \cup {removal.key} => t \in Settled

\* From the moment QueueWrite has stored the entry
Stored == {"count", "waiting", "ok"}
SoleTracked ==
  \A t \in Task : Exclusive(t) /\ pc[t] \in Stored /\ t \notin Settled
                    => pendingItems[KeyOf[t]] = t

SettleInv == RefusedIsFailing /\ RemovedIsSettled /\ SoleTracked

LEMMA Sole ==
  ASSUME NEW t \in Task, NEW u \in Task, Exclusive(t), KeyOf[u] = KeyOf[t]
  PROVE  u = t
  BY DEF Exclusive

LEMMA EntryKeepsSettled ==
  ASSUME SettleInv, BatchMove, UNCHANGED <<pc, pendingItems, stored, failed>>
  PROVE  SettleInv'
<1>1. UNCHANGED <<removal, settling>>
  BY DEF BatchMove, BatchKept, batchVars, Enter, ProcessBatch, Collect
<1>2. phase' = "set" => \/ phase = "set" /\ UNCHANGED <<batch, failing>>
                        \/ ToSet(batch') \cap Unstorable \subseteq failing'
  BY DEF BatchMove, BatchKept, batchVars, Enter, ProcessBatch, Collect
<1>3. Settled' = Settled /\ \A t : Exclusive(t)' <=> Exclusive(t)
  BY DEF Settled, Exclusive
<1>4. RefusedIsFailing' /\ SoleTracked'
  BY <1>2, <1>3 DEF SettleInv, RefusedIsFailing, SoleTracked
<1>5. RemovedIsSettled'
  BY <1>1, <1>3 DEF SettleInv, RemovedIsSettled
<1> QED
  BY <1>4, <1>5 DEF SettleInv

LEMMA BatchKeepsSettled ==
  ASSUME TypeOK, SettleInv, Batch
  PROVE  SettleInv'
<1>0. /\ pc' = pc /\ KeyOf \in [Task -> Key] /\ None \notin Key
      /\ pendingItems \in [Key -> TaskOrNone]
  BY QueueAssumption DEF Batch, TypeOK
<1> USE DEF SettleInv
<1>1. ASSUME NEW u \in Task, RemoveFailed(u)
      PROVE  SettleInv'
  <2>1. /\ failing' = failing \ {u} /\ failed' = failed \cup {u} /\ removal'.key = KeyOf[u]
        /\ pendingItems' = [pendingItems EXCEPT ![KeyOf[u]] = None]
        /\ UNCHANGED <<batch, phase, settling, stored>> /\ Settled' = Settled \cup {u}
    BY <1>1 DEF RemoveFailed, Settled
  <2>2. \A t \in Task : Exclusive(t) /\ t \notin Settled' => KeyOf[t] # KeyOf[u]
    BY <2>1, Sole
  <2>3. RefusedIsFailing' /\ RemovedIsSettled'
    BY <2>1, <2>2 DEF RefusedIsFailing, RemovedIsSettled, Exclusive
  <2>4. SoleTracked'
    BY <1>0, <2>1, <2>2 DEF SoleTracked, Exclusive
  <2> QED
    BY <2>3, <2>4
<1>2. ASSUME NEW k \in Key, RemoveSettled(k)
      PROVE  SettleInv'
  <2>1. /\ k \in settling /\ settling' = settling \ {k} /\ removal'.key = k
        /\ pendingItems' = [pendingItems EXCEPT ![k] = None]
        /\ UNCHANGED <<batch, phase, failing, stored, failed>> /\ Settled' = Settled
    BY <1>2 DEF RemoveSettled, Settled, dbVars
  <2>2. RefusedIsFailing' /\ RemovedIsSettled'
    BY <2>1 DEF RefusedIsFailing, RemovedIsSettled, Exclusive
  <2>3. SoleTracked'
    BY <1>0, <2>1 DEF SoleTracked, RemovedIsSettled, Exclusive
  <2> QED
    BY <2>2, <2>3
<1>3. CASE NotifyRemoved
  <2>1. /\ removal'.key = None /\ phase' \in {phase, "idle"}
        /\ UNCHANGED <<pendingItems, batch, failing, settling, stored, failed>>
        /\ Settled' = Settled
    BY <1>3 DEF NotifyRemoved, NoRemoval, dbVars, Settled
  <2> QED
    BY <1>0, <2>1 DEF RefusedIsFailing, RemovedIsSettled, SoleTracked, Exclusive
<1>4. CASE FlushOk
  <2>1. /\ phase = "set" /\ failing = {} /\ phase' = "finish"
        /\ settling' = {KeyOf[t] : t \in ToSet(batch)} /\ ToSet(batch) \subseteq Task
        /\ stored' = stored \cup (ToSet(batch) \ Unstorable)
        /\ UNCHANGED <<pendingItems, removal, failed>>
    BY <1>4, ToSetType DEF FlushOk, ReadyToFlush, pendingVars, TypeOK
  <2>2. Settled \cup ToSet(batch) \subseteq Settled'
    BY <2>1 DEF Settled, RefusedIsFailing
  <2>3. \A t \in Task : Exclusive(t) /\ KeyOf[t] \in settling' => t \in ToSet(batch)
    BY <2>1, Sole
  <2>4. RefusedIsFailing' /\ SoleTracked'
    BY <1>0, <2>1, <2>2 DEF RefusedIsFailing, SoleTracked, Exclusive
  <2>5. RemovedIsSettled'
    BY <2>1, <2>2, <2>3 DEF RemovedIsSettled, Exclusive
  <2> QED
    BY <2>4, <2>5
<1>5. CASE FlushError
  <2>1. /\ phase' = "finish" /\ UNCHANGED <<pendingItems, settling, removal, failed>>
        /\ Settled \subseteq Settled'
    BY <1>5 DEF FlushError, pendingVars, Settled
  <2> QED
    BY <1>0, <2>1 DEF RefusedIsFailing, RemovedIsSettled, SoleTracked, Exclusive
<1> QED
  BY <1>1, <1>2, <1>3, <1>4, <1>5 DEF Batch

LEMMA WriterKeepsSettled ==
  ASSUME TypeOK, SettleInv, NEW t \in Task, Writer(t)
  PROVE  SettleInv'
<1>0. /\ KeyOf \in [Task -> Key] /\ pendingItems \in [Key -> TaskOrNone]
      /\ pc \in [Task -> WriterPC] /\ None \notin Task
  BY QueueAssumption DEF TypeOK
<1>1. UNCHANGED <<batchVars, dbVars>> /\ Settled' = Settled
  BY OthersKeepBatch DEF dbVars, Settled
<1>2. RefusedIsFailing' /\ RemovedIsSettled'
  BY <1>1 DEF SettleInv, RefusedIsFailing, RemovedIsSettled, Exclusive, batchVars, dbVars
<1>3. ASSUME UNCHANGED pendingItems, \A u \in Task : pc'[u] \in Stored => pc[u] \in Stored
      PROVE  SoleTracked'
  BY <1>1, <1>3 DEF SettleInv, SoleTracked, Exclusive
<1>4. ASSUME \A u \in Task \ {t} : pc'[u] = pc[u],
             \A k \in Key \ {KeyOf[t]} : pendingItems'[k] = pendingItems[k],
             pc'[t] \in Stored => pendingItems'[KeyOf[t]] = t
      PROVE  SoleTracked'
  <2>1. SUFFICES ASSUME NEW u \in Task, Exclusive(u), pc'[u] \in Stored, u \notin Settled
                 PROVE  pendingItems'[KeyOf[u]] = u
    BY <1>1 DEF SoleTracked, Exclusive
  <2>2. CASE u = t
    BY <1>4, <2>1, <2>2
  <2>3. CASE u # t
    BY <1>0, <1>4, <2>1, <2>3, Sole DEF SettleInv, SoleTracked
  <2> QED
    BY <2>2, <2>3
<1>5. CASE Send(t) \/ SendFull(t) \/ Double(t) \/ SyncResult(t)
  <2>1. UNCHANGED pendingItems
    BY <1>5 DEF Send, SendFull, Double, SyncResult, pendingVars
  <2>2. \A u \in Task : pc'[u] \in Stored => pc[u] \in Stored
    BY <1>0, <1>5 DEF Send, SendFull, Double, DoubleRefused, DoubleBegin, DoubleSwap,
       DoubleTransfer, DoubleUnlock, DoubleWake, SyncResult, Stored
  <2> QED
    BY <1>2, <1>3, <2>1, <2>2 DEF SettleInv
<1>6. CASE StoreLookup(t) \/ StoreOverwrite(t) \/ SyncTimeout(t)
  BY <1>0, <1>2, <1>4, <1>6 DEF StoreLookup, StoreOverwrite, SyncTimeout, Pending, Stored, SettleInv
<1>7. CASE StoreCount(t) \/ SyncUncount(t)
  BY <1>0, <1>2, <1>3, <1>7 DEF StoreCount, SyncUncount, Stored, SettleInv
<1> QED
  BY <1>5, <1>6, <1>7 DEF Writer, Track

LEMMA NextKeepsSettled ==
  ASSUME TypeOK, ShapeInv, SettleInv, [Next]_vars
  PROVE  SettleInv'
<1>1. CASE Worker
  BY <1>1, WorkerMoves, EntryKeepsSettled DEF Worker, writerVars, dbVars, pendingVars, ShapeInv
<1>2. CASE Closer
  BY <1>2, CloserMoves, EntryKeepsSettled DEF Closer, writerVars, dbVars, pendingVars
<1>3. CASE (\E w \in Waiter : Wait(w)) \/ UNCHANGED vars
  <2>1. UNCHANGED <<pc, pendingItems, stored, failed>> /\ BatchKept
    BY <1>3 DEF Wait, vars, writerVars, consumerVars, dbVars, pendingVars, BatchKept
  <2> QED
    BY <2>1, EntryKeepsSettled DEF BatchMove
<1> QED
  BY <1>1, <1>2, <1>3, WriterKeepsSettled, BatchKeepsSettled DEF Next, AtRest

LEMMA SettleInit == Init => SettleInv
<1> SUFFICES ASSUME Init PROVE SettleInv
  OBVIOUS
<1>1. KeyOf \in [Task -> Key] /\ None \notin Key
  BY QueueAssumption
<1> QED
  BY <1>1 DEF Init, SettleInv, RefusedIsFailing, RemovedIsSettled, SoleTracked, Stored, NoRemoval

LEMMA SettledCorrect == Spec => [](TypeOK /\ ShapeInv /\ SettleInv)
<1>1. (TypeOK /\ ShapeInv) /\ SettleInv /\ [Next]_vars => SettleInv'
  BY NextKeepsSettled
<1> QED
  BY <1>1, SettleInit, ShapeCorrect, PTL DEF Spec

\* An acknowledged write of an id that nobody else writes can be found in
\* pendingItems until it is settled: by reads, deletes and a flush
\* (queue.go:433-436, 340-350).
THEOREM AcknowledgedIsTracked == Spec => []TrackedUntilSettled
<1>1. SettleInv => TrackedUntilSettled
  BY DEF SettleInv, SoleTracked, Stored, TrackedUntilSettled
<1> QED
  BY <1>1, SettledCorrect, PTL

-------------------------------------------------------------------------------
(* Waiters *)

RegisteredAtKey == \A k \in Key : \A w \in waiters[k] : waitKey[w] = k /\ wait[w] # "idle"
OwedAtKey == \A w \in Waiter : \A t \in owed[w] : KeyOf[t] = waitKey[w]

\* Who is woken, or need not wait, is owed nothing
WokenIsSettled ==
  \A w \in Waiter : wait[w] \in {"woken", "nil"} =>
    \A t \in owed[w] : Exclusive(t) => t \in Settled

WaitInv == RegisteredAtKey /\ OwedAtKey /\ WokenIsSettled

LEMMA SettledGrows ==
  ASSUME TypeOK, [Next]_vars
  PROVE  Settled \subseteq Settled'
<1>1. CASE (\E t \in Task : Writer(t)) \/ (\E w \in Waiter : Wait(w)) \/ UNCHANGED vars
  BY <1>1, OthersKeepBatch DEF Settled, dbVars
<1>2. CASE Worker \/ Closer
  BY <1>2 DEF Worker, Closer, dbVars, Settled
<1>3. CASE Batch
  BY <1>3 DEF Batch, RemoveFailed, RemoveSettled, NotifyRemoved, FlushOk, FlushError, dbVars, Settled
<1> QED
  BY <1>1, <1>2, <1>3 DEF Next, AtRest

LEMMA WaitersKept ==
  ASSUME WaitInv, UNCHANGED waiterVars, Settled \subseteq Settled'
  PROVE  WaitInv'
  BY DEF WaitInv, RegisteredAtKey, OwedAtKey, WokenIsSettled, waiterVars, Exclusive

LEMMA WaitKeepsWaiters ==
  ASSUME TypeOK, SettleInv, WaitInv, NEW w \in Waiter, Wait(w)
  PROVE  WaitInv'
<1>0. /\ wait \in [Waiter -> WaitPC] /\ waitKey \in [Waiter -> Key \cup {None}]
      /\ waiters \in [Key -> SUBSET Waiter] /\ owed \in [Waiter -> SUBSET Task]
      /\ None \notin Task
  BY QueueAssumption DEF TypeOK
<1>1. Settled' = Settled
  BY DEF Wait, consumerVars, dbVars, Settled
<1> USE <1>0, <1>1 DEF WaitInv
<1>2. ASSUME NEW k \in Key, WaitCheck(w, k)
      PROVE  WaitInv'
  <2>1. /\ wait[w] = "idle" /\ wait' = [wait EXCEPT ![w] = IF Pending(k) THEN "register" ELSE "nil"]
        /\ waitKey' = [waitKey EXCEPT ![w] = k] /\ owed' = [owed EXCEPT ![w] = Owed(k)]
        /\ waiters' = waiters
    BY <1>2 DEF WaitCheck
  <2>2. RegisteredAtKey'
    BY <2>1 DEF RegisteredAtKey
  <2>3. OwedAtKey'
    BY <2>1 DEF OwedAtKey, Owed
  <2>4. ~Pending(k) => \A t \in Owed(k) : ~Exclusive(t)
    BY DEF SettleInv, SoleTracked, Stored, Owed, Pending
  <2>5. WokenIsSettled'
    BY <2>1, <2>4 DEF WokenIsSettled, Exclusive
  <2> QED
    BY <2>2, <2>3, <2>5
<1>3. CASE WaitRegister(w)
  BY <1>3 DEF WaitRegister, RegisteredAtKey, OwedAtKey, WokenIsSettled, Exclusive
<1>4. CASE WaitNotified(w)
  BY <1>4 DEF WaitNotified, Unregister, RegisteredAtKey, OwedAtKey, WokenIsSettled, Exclusive
<1>5. CASE WaitTimeout(w)
  BY <1>5 DEF WaitTimeout, Unregister, RegisteredAtKey, OwedAtKey, WokenIsSettled, Exclusive
<1> QED
  BY <1>2, <1>3, <1>4, <1>5 DEF Wait

LEMMA NotifyKeepsWaiters ==
  ASSUME TypeOK, BatchShape, SettleInv, WaitInv, NotifyRemoved, UNCHANGED <<waitKey, owed>>
  PROVE  WaitInv'
<1> DEFINE k == removal.key
<1>1. /\ wait' = [w \in Waiter |-> IF w \in waiters[k] THEN "woken" ELSE wait[w]]
      /\ waiters' = [waiters EXCEPT ![k] = {}] /\ k \in Key
      /\ Settled' = Settled /\ waiters \in [Key -> SUBSET Waiter]
      /\ owed \in [Waiter -> SUBSET Task]
  BY DEF NotifyRemoved, BatchShape, dbVars, Settled, TypeOK
<1>2. \A t \in Task : Exclusive(t) /\ KeyOf[t] = k => t \in Settled
  BY DEF SettleInv, RemovedIsSettled
<1> HIDE DEF k
<1>3. RegisteredAtKey' /\ OwedAtKey'
  BY <1>1 DEF WaitInv, RegisteredAtKey, OwedAtKey
<1>4. WokenIsSettled'
  <2> SUFFICES ASSUME NEW w \in Waiter, wait'[w] \in {"woken", "nil"}, NEW t \in owed[w], Exclusive(t)
               PROVE  t \in Settled
    BY <1>1 DEF WokenIsSettled, Exclusive
  <2>1. CASE w \in waiters[k]
    BY <1>1, <1>2, <2>1 DEF WaitInv, RegisteredAtKey, OwedAtKey
  <2>2. CASE w \notin waiters[k]
    BY <1>1, <2>2 DEF WaitInv, WokenIsSettled
  <2> QED
    BY <2>1, <2>2
<1> QED
  BY <1>3, <1>4 DEF WaitInv

LEMMA NextKeepsWaiters ==
  ASSUME TypeOK, ShapeInv, SettleInv, WaitInv, [Next]_vars
  PROVE  WaitInv'
<1>1. CASE NotifyRemoved /\ Batch
  BY <1>1, NotifyKeepsWaiters DEF Batch, ShapeInv
<1>2. ASSUME NEW w \in Waiter, Wait(w)
      PROVE  WaitInv'
  BY <1>2, WaitKeepsWaiters
<1>3. CASE Batch /\ ~NotifyRemoved
  <2>1. UNCHANGED waiterVars
    BY <1>3 DEF Batch, RemoveFailed, RemoveSettled, FlushOk, FlushError, waiterVars
  <2> QED
    BY <2>1, SettledGrows, WaitersKept
<1>4. CASE (\E t \in Task : Writer(t)) \/ Worker \/ Closer \/ UNCHANGED vars
  <2>1. UNCHANGED waiterVars
    BY <1>4 DEF Writer, Send, SendFull, Double, Track, SyncResult, Worker, Closer, vars, clientVars
  <2> QED
    BY <2>1, SettledGrows, WaitersKept
<1> QED
  BY <1>1, <1>2, <1>3, <1>4 DEF Next, AtRest

\* A nil answer of WaitForContentWrite means that the write is settled, although
\* the check and the registration are two critical sections (queue.go:560-580).
THEOREM WaitNilIsSettled == Spec => []WaitNilMeansSettled
<1>1. Init => WaitInv
  BY DEF Init, WaitInv, RegisteredAtKey, OwedAtKey, WokenIsSettled
<1>2. (TypeOK /\ ShapeInv /\ SettleInv) /\ WaitInv /\ [Next]_vars => WaitInv'
  BY NextKeepsWaiters
<1>3. WaitInv => WaitNilMeansSettled
  BY DEF WaitInv, WokenIsSettled, WaitNilMeansSettled
<1> QED
  BY <1>1, <1>2, <1>3, SettledCorrect, PTL DEF Spec

-------------------------------------------------------------------------------
(* What a shutdown leaves of the writes acknowledged before it *)

AckedReturned == \A t \in acked : pc[t] = "ok"

\* Once the pending tasks are serialized
SavedOrSettled ==
  closer \in {"open", "extract", "serialized"} =>
    \A t \in acked : Exclusive(t) => t \in Settled \/ t \in saved

EmergencyInv == AckedReturned /\ SavedOrSettled

LEMMA ReturnedStay ==
  ASSUME TypeOK, [Next]_vars, NEW t \in Task, pc[t] = "ok"
  PROVE  pc'[t] = "ok"
<1>1. ASSUME NEW u \in Task, Writer(u)
      PROVE  pc'[t] = "ok"
  BY <1>1 DEF Writer, Send, SendFull, Double, DoubleRefused, DoubleBegin, DoubleSwap, DoubleTransfer,
     DoubleUnlock, DoubleWake, Track, StoreLookup, StoreOverwrite, StoreCount, SyncTimeout,
     SyncUncount, SyncResult, TypeOK
<1>2. CASE Worker \/ Batch \/ Closer \/ (\E w \in Waiter : Wait(w)) \/ UNCHANGED vars
  BY <1>2 DEF Worker, Batch, Closer, Wait, vars, writerVars
<1> QED
  BY <1>1, <1>2 DEF Next, AtRest

\* The closer's variables change in the closer's steps only
LEMMA CloserAlone ==
  ASSUME [Next]_vars, ~Closer
  PROVE  UNCHANGED closerVars
<1>1. CASE Worker \/ Batch
  BY <1>1 DEF Worker, Batch, clientVars
<1> QED
  BY <1>1, OthersKeepBatch DEF Next, AtRest

LEMMA NextKeepsSaved ==
  ASSUME TypeOK, SettleInv, EmergencyInv, [Next]_vars
  PROVE  EmergencyInv'
<1>0. acked \subseteq Task /\ Settled \subseteq Settled' /\ \A t : Exclusive(t)' <=> Exclusive(t)
  BY SettledGrows DEF TypeOK, Exclusive
<1> USE <1>0 DEF EmergencyInv
<1>1. ASSUME UNCHANGED closerVars
      PROVE  EmergencyInv'
  BY <1>1, ReturnedStay DEF AckedReturned, SavedOrSettled, closerVars, shutHist
<1>2. CASE Closer
  <2>1. UNCHANGED <<pc, stored, failed>>
    BY <1>2 DEF Closer, writerVars, dbVars
  <2>2. CASE FlushNothing \/ FlushStopWorker \/ EmergencyStop
    BY <2>1, <2>2 DEF FlushNothing, FlushStopWorker, EmergencyStop, ShutdownBegins, AckedReturned,
       SavedOrSettled
  <2>3. CASE SerializePendingTasks
    <3>1. acked' = acked /\ saved' = saved \cup PendingTasks
      BY <2>3 DEF SerializePendingTasks, shutHist
    <3>2. \A t \in acked : Exclusive(t) /\ t \notin Settled => t \in PendingTasks
      <4> SUFFICES ASSUME NEW t \in acked, Exclusive(t), t \notin Settled
                   PROVE  t \in PendingTasks
        OBVIOUS
      <4>1. t \in Task /\ KeyOf[t] \in Key /\ t # None
        BY QueueAssumption
      <4>2. pendingItems[KeyOf[t]] = t
        BY <4>1 DEF SettleInv, SoleTracked, Stored, AckedReturned
      <4> QED
        BY <4>1, <4>2 DEF PendingTasks, Pending
    <3> QED
      BY <2>1, <3>1, <3>2 DEF AckedReturned, SavedOrSettled
  <2>4. CASE SerializeBegin \/ SerializeReceive \/ SerializeEnd
    BY <2>1, <2>4 DEF SerializeBegin, SerializeReceive, SerializeEnd, AckedReturned,
       SavedOrSettled, closerVars, shutHist
  <2>5. CASE DrainBegin \/ DrainReceive \/ DrainEnd \/ ForceCollect \/ ForceBatch \/ FlushReturn
             \/ StopQueue \/ CloseQueue
    BY <2>1, <2>5 DEF DrainBegin, DrainReceive, DrainEnd, ForceCollect, ForceBatch, FlushReturn,
       StopQueue, CloseQueue, AckedReturned, SavedOrSettled, closerVars, shutHist
  <2> QED
    BY <1>2, <2>2, <2>3, <2>4, <2>5 DEF Closer
<1> QED
  BY <1>1, <1>2, CloserAlone

LEMMA EmergencyCorrect == Spec => []EmergencyInv
<1>1. Init => EmergencyInv
  BY DEF Init, EmergencyInv, AckedReturned, SavedOrSettled
<1>2. (TypeOK /\ ShapeInv /\ SettleInv) /\ EmergencyInv /\ [Next]_vars => EmergencyInv'
  BY NextKeepsSaved
<1> QED
  BY <1>1, <1>2, SettledCorrect, PTL DEF Spec

\* What was acknowledged before an emergency began is settled or in its files,
\* although the worker goes on and the drain races with it (queue.go:655-661, 838-847).
THEOREM EmergencySavesAcknowledged == Spec => []EmergencyKeepsAcknowledged
<1>1. EmergencyInv => EmergencyKeepsAcknowledged
  BY DEF EmergencyInv, SavedOrSettled, EmergencyKeepsAcknowledged
<1> QED
  BY <1>1, EmergencyCorrect, PTL

-------------------------------------------------------------------------------
(* The counter of pendingItems *)

AtStep(s) == {t \in Task : pc[t] = s}
Entries   == {k \in Key : Pending(k)}
Due       == IF removal.counted THEN 1 ELSE 0
Owing     == count + Cardinality(AtStep("count")) - Cardinality(AtStep("uncount"))
Tallied   == Owing - Due

\* A call that has not stored its entry yet
Unstored == {"start", "double", "swap", "transfer", "wake", "retry", "lookup"}
EntriesAreStored ==
  \A k \in Entries : KeyOf[pendingItems[k]] = k /\ pc[pendingItems[k]] \notin Unstored

\* Two writes of one id are what makes the counter drift
AllSole == \A t \in Task : Exclusive(t)
SoleIsExact == AllSole => /\ Tallied = Cardinality(Entries)
                          /\ \A t \in Task : pc[t] # "overwrite"

CountInv == EntriesAreStored /\ Tallied <= Cardinality(Entries) /\ SoleIsExact

LEMMA EntriesFinite == ASSUME TypeOK, EntriesAreStored PROVE IsFiniteSet(Entries)
<1> DEFINE f == [k \in Entries |-> pendingItems[k]]
<1>1. f \in Injection(Entries, Task)
  BY DEF Injection, IsInjective, Entries, EntriesAreStored, Pending, TypeOK, TaskOrNone
<1> QED
  BY <1>1, FS_Injection, QueueAssumption

\* How many calls are at a step after one of them moved
LEMMA StepCounts ==
  ASSUME TypeOK, NEW t \in Task, NEW n \in WriterPC, NEW s \in WriterPC,
         pc' = [pc EXCEPT ![t] = n]
  PROVE  /\ Cardinality(AtStep(s)) \in Nat
         /\ Cardinality(AtStep(s))' =
              IF n = s THEN (IF pc[t] = s THEN Cardinality(AtStep(s))
                                          ELSE Cardinality(AtStep(s)) + 1)
                       ELSE (IF pc[t] = s THEN Cardinality(AtStep(s)) - 1
                                          ELSE Cardinality(AtStep(s)))
<1>1. IsFiniteSet(AtStep(s))
  BY FS_Subset, QueueAssumption DEF AtStep
<1>2. AtStep(s)' = IF n = s THEN AtStep(s) \cup {t} ELSE AtStep(s) \ {t}
  BY DEF AtStep, TypeOK
<1>3. t \in AtStep(s) <=> pc[t] = s
  BY DEF AtStep
<1>4. /\ Cardinality(AtStep(s)) \in Nat
      /\ Cardinality(AtStep(s) \cup {t}) = IF t \in AtStep(s) THEN Cardinality(AtStep(s))
                                                              ELSE Cardinality(AtStep(s)) + 1
      /\ Cardinality(AtStep(s) \ {t}) = IF t \in AtStep(s) THEN Cardinality(AtStep(s)) - 1
                                                           ELSE Cardinality(AtStep(s))
  BY <1>1, FS_CardinalityType, FS_AddElement, FS_RemoveElement
<1>5. CASE n = s
  <2>1. Cardinality(AtStep(s))' = Cardinality(AtStep(s) \cup {t})
    BY <1>2, <1>5
  <2> QED
    BY <1>3, <1>4, <1>5, <2>1
<1>6. CASE n # s
  <2>1. Cardinality(AtStep(s))' = Cardinality(AtStep(s) \ {t})
    BY <1>2, <1>6
  <2> QED
    BY <1>3, <1>4, <1>6, <2>1
<1> QED
  BY <1>5, <1>6

\* How many entries there are after one was set or removed
LEMMA EntryCounts ==
  ASSUME TypeOK, EntriesAreStored, NEW k \in Key, NEW v \in TaskOrNone,
         pendingItems' = [pendingItems EXCEPT ![k] = v]
  PROVE  /\ Cardinality(Entries) \in Nat
         /\ Cardinality(Entries') =
              IF v = None THEN (IF Pending(k) THEN Cardinality(Entries) - 1
                                              ELSE Cardinality(Entries))
                          ELSE (IF Pending(k) THEN Cardinality(Entries)
                                              ELSE Cardinality(Entries) + 1)
<1>1. IsFiniteSet(Entries)
  BY EntriesFinite
<1>2. Entries' = IF v = None THEN Entries \ {k} ELSE Entries \cup {k}
  BY DEF Entries, Pending, TypeOK
<1>3. k \in Entries <=> Pending(k)
  BY DEF Entries
<1>4. /\ Cardinality(Entries) \in Nat
      /\ Cardinality(Entries \cup {k}) = IF k \in Entries THEN Cardinality(Entries)
                                                          ELSE Cardinality(Entries) + 1
      /\ Cardinality(Entries \ {k}) = IF k \in Entries THEN Cardinality(Entries) - 1
                                                       ELSE Cardinality(Entries)
  BY <1>1, FS_CardinalityType, FS_AddElement, FS_RemoveElement
<1> QED
  BY <1>2, <1>3, <1>4

\* A step that touches neither the map nor a call that counts
LEMMA CountKept ==
  ASSUME CountInv, UNCHANGED <<pc, pendingItems, count>>, removal'.counted = removal.counted
  PROVE  CountInv'
  BY DEF CountInv, EntriesAreStored, SoleIsExact, AllSole, Exclusive, Entries, Pending, Tallied,
     Owing, AtStep, Due

\* The entry of k is removed by processBatch, which will decrement the counter
LEMMA CountRemoved ==
  ASSUME TypeOK, CountInv, NEW k \in Key, UNCHANGED <<pc, count>>, removal = NoRemoval,
         pendingItems' = [pendingItems EXCEPT ![k] = None], removal'.counted = Pending(k)
  PROVE  CountInv'
<1>1. EntriesAreStored'
  BY DEF CountInv, EntriesAreStored, Entries, Pending, TypeOK
<1>2. /\ Cardinality(Entries) \in Nat
      /\ Cardinality(Entries') = IF Pending(k) THEN Cardinality(Entries) - 1 ELSE Cardinality(Entries)
  BY EntryCounts DEF CountInv, TaskOrNone
<1>3. Due = 0 /\ Due' = IF Pending(k) THEN 1 ELSE 0
  BY DEF Due, NoRemoval
<1>4. Owing \in Int /\ Owing' = Owing
  <2>1. /\ IsFiniteSet(AtStep("count")) /\ IsFiniteSet(AtStep("uncount"))
        /\ UNCHANGED <<AtStep("count"), AtStep("uncount")>>
    BY FS_Subset, QueueAssumption DEF AtStep
  <2>2. Cardinality(AtStep("count")) \in Nat /\ Cardinality(AtStep("uncount")) \in Nat
    BY <2>1, FS_CardinalityType
  <2>3. count \in Int /\ count' = count
    BY DEF TypeOK
  <2> QED
    BY <2>1, <2>2, <2>3 DEF Owing
<1>5. /\ Tallied' - Cardinality(Entries') = Tallied - Cardinality(Entries)
      /\ Tallied \in Int /\ Tallied' \in Int
  BY <1>2, <1>3, <1>4 DEF Tallied
<1> QED
  BY <1>1, <1>2, <1>5 DEF CountInv, SoleIsExact, AllSole, Exclusive

LEMMA NotifyKeepsCount ==
  ASSUME TypeOK, CountInv, NotifyRemoved, UNCHANGED pc
  PROVE  CountInv'
<1>1. /\ count' = count - Due /\ Due' = 0 /\ pendingItems' = pendingItems /\ Due \in Nat
  BY DEF NotifyRemoved, NoRemoval, Due, TypeOK
<1>2. Tallied' = Tallied
  <2>1. /\ IsFiniteSet(AtStep("count")) /\ IsFiniteSet(AtStep("uncount"))
        /\ UNCHANGED <<AtStep("count"), AtStep("uncount")>>
    BY FS_Subset, QueueAssumption DEF AtStep
  <2> QED
    BY <1>1, <2>1, FS_CardinalityType DEF Tallied, Owing, TypeOK
<1>3. Entries' = Entries /\ EntriesAreStored'
  BY <1>1 DEF Entries, EntriesAreStored, Pending, CountInv
<1> QED
  BY <1>2, <1>3 DEF CountInv, SoleIsExact, AllSole, Exclusive

LEMMA BatchKeepsCount ==
  ASSUME TypeOK, CountInv, Batch
  PROVE  CountInv'
<1>1. UNCHANGED pc /\ KeyOf \in [Task -> Key]
  BY QueueAssumption DEF Batch
<1>2. ASSUME NEW t \in Task, RemoveFailed(t)
      PROVE  CountInv'
  BY <1>1, <1>2, CountRemoved DEF RemoveFailed
<1>3. ASSUME NEW k \in Key, RemoveSettled(k)
      PROVE  CountInv'
  BY <1>1, <1>3, CountRemoved DEF RemoveSettled
<1>4. CASE FlushOk \/ FlushError
  BY <1>1, <1>4, CountKept DEF FlushOk, FlushError, pendingVars
<1> QED
  BY <1>1, <1>2, <1>3, <1>4, NotifyKeepsCount DEF Batch

\* What a call at a step adds to the counter before it returns
Weight(s) == IF s = "count" THEN 1 ELSE IF s = "uncount" THEN 0 - 1 ELSE 0

LEMMA TallyMoves ==
  ASSUME TypeOK, NEW t \in Task, NEW n \in WriterPC, count' \in Int,
         pc' = [pc EXCEPT ![t] = n], removal' = removal
  PROVE  Tallied \in Int /\ Tallied' = Tallied + (count' - count) + Weight(n) - Weight(pc[t])
<1>0. "count" \in WriterPC /\ "uncount" \in WriterPC
  BY DEF WriterPC
<1> DEFINE a == Cardinality(AtStep("count"))
           b == Cardinality(AtStep("uncount"))
<1>1. /\ a \in Nat /\ b \in Nat
      /\ a' = IF n = "count" THEN (IF pc[t] = "count" THEN a ELSE a + 1)
                             ELSE (IF pc[t] = "count" THEN a - 1 ELSE a)
      /\ b' = IF n = "uncount" THEN (IF pc[t] = "uncount" THEN b ELSE b + 1)
                               ELSE (IF pc[t] = "uncount" THEN b - 1 ELSE b)
  BY <1>0, StepCounts
<1>2. Owing = count + a - b /\ Owing' = count' + a' - b' /\ count \in Int
  BY DEF Owing, TypeOK
<1>3. Due' = Due /\ Due \in Int
  BY DEF Due
<1> HIDE DEF a, b
<1> QED
  BY <1>1, <1>2, <1>3 DEF Tallied, Weight

LEMMA WriterKeepsCount ==
  ASSUME TypeOK, CountInv, NEW t \in Task, Writer(t)
  PROVE  CountInv'
<1>0. /\ KeyOf \in [Task -> Key] /\ pendingItems \in [Key -> TaskOrNone] /\ None \notin Task
      /\ pc \in [Task -> WriterPC] /\ removal' = removal /\ count \in Int
  BY OthersKeepBatch, QueueAssumption DEF TypeOK, batchVars
<1>1. ASSUME NEW n \in WriterPC, pc' = [pc EXCEPT ![t] = n], pc[t] \notin Unstored => n \notin Unstored,
             \/ pendingItems' = pendingItems
             \/ pendingItems' = [pendingItems EXCEPT ![KeyOf[t]] = None]
             \/ pendingItems' = [pendingItems EXCEPT ![KeyOf[t]] = t] /\ n \notin Unstored
      PROVE  EntriesAreStored'
  BY <1>0, <1>1 DEF CountInv, EntriesAreStored, Entries, Pending
<1>2. (AllSole' <=> AllSole) /\ Cardinality(Entries) \in Nat
  BY EntriesFinite, FS_CardinalityType DEF AllSole, Exclusive, CountInv
<1>t. ASSUME NEW n \in WriterPC, pc' = [pc EXCEPT ![t] = n], count' \in Int
      PROVE  Tallied \in Int /\ Tallied' = Tallied + (count' - count) + Weight(n) - Weight(pc[t])
  BY <1>0, <1>t, TallyMoves
<1>3. CASE Send(t) \/ SendFull(t) \/ Double(t) \/ SyncResult(t)
  <2>1. PICK n \in WriterPC \ {"count", "uncount", "overwrite"} :
          pc' = [pc EXCEPT ![t] = n] /\ (pc[t] \notin Unstored => n \notin Unstored)
    BY <1>0, <1>3 DEF Send, SendFull, Double, DoubleRefused, DoubleBegin, DoubleSwap, DoubleTransfer,
       DoubleUnlock, DoubleWake, SyncResult, WriterPC, Unstored
  <2>2. Weight(pc[t]) = 0 /\ Weight(n) = 0
    BY <1>3, <2>1 DEF Send, SendFull, Double, DoubleRefused, DoubleBegin, DoubleSwap, DoubleTransfer,
       DoubleUnlock, DoubleWake, SyncResult, Weight
  <2>3. count' = count /\ pendingItems' = pendingItems
    BY <1>0, <1>3 DEF Send, SendFull, Double, SyncResult, pendingVars
  <2>4. Tallied \in Int /\ Tallied' = Tallied + (count' - count) + Weight(n) - Weight(pc[t])
    BY <1>0, <2>1, <2>3, <1>t
  <2>5. Tallied' = Tallied
    BY <1>0, <2>2, <2>3, <2>4
  <2>6. Entries' = Entries
    BY <2>3 DEF Entries, Pending
  <2> QED
    BY <1>0, <1>1, <1>2, <2>1, <2>3, <2>5, <2>6 DEF CountInv, SoleIsExact
<1>4. CASE StoreLookup(t)
  <2> DEFINE n == IF Pending(KeyOf[t]) THEN "overwrite" ELSE "count"
  <2>1. /\ pc[t] = "lookup" /\ pc' = [pc EXCEPT ![t] = n] /\ count' = count
        /\ pendingItems' = IF Pending(KeyOf[t]) THEN pendingItems
                                                ELSE [pendingItems EXCEPT ![KeyOf[t]] = t]
        /\ n \in WriterPC /\ n \notin Unstored /\ Weight(pc[t]) = 0
    BY <1>0, <1>4 DEF StoreLookup, WriterPC, Unstored, Weight
  <2>2. EntriesAreStored'
    BY <1>1, <2>1
  <2>3. AllSole => ~Pending(KeyOf[t])
    <3>1. SUFFICES ASSUME AllSole, Pending(KeyOf[t])
                   PROVE  FALSE
      OBVIOUS
    <3>2. /\ KeyOf[pendingItems[KeyOf[t]]] = KeyOf[t] /\ pendingItems[KeyOf[t]] \in Task
          /\ pc[pendingItems[KeyOf[t]]] \notin Unstored
      BY <1>0, <3>1 DEF CountInv, EntriesAreStored, Entries, Pending, TaskOrNone
    <3>3. pendingItems[KeyOf[t]] = t
      BY <3>1, <3>2, Sole DEF AllSole
    <3> QED
      BY <2>1, <3>2, <3>3 DEF Unstored
  <2>6. Tallied \in Int /\ Tallied' = Tallied + (count' - count) + Weight(n) - Weight(pc[t])
    BY <1>0, <2>1, <1>t
  <2>4. CASE Pending(KeyOf[t])
    <3>2. Weight(n) = 0
      BY <2>4 DEF Weight
    <3>3. Tallied' = Tallied
      BY <1>0, <2>1, <2>6, <3>2
    <3>1. Tallied' = Tallied /\ Entries' = Entries
      BY <2>1, <2>4, <3>3 DEF Entries, Pending
    <3> QED
      BY <1>2, <2>2, <2>3, <2>4, <3>1 DEF CountInv, SoleIsExact
  <2>5. CASE ~Pending(KeyOf[t])
    <3>0. Weight(n) = 1
      BY <2>5 DEF Weight
    <3>1. Tallied \in Int /\ Tallied' = Tallied + 1
      BY <1>0, <2>1, <2>6, <3>0
    <3>2. Cardinality(Entries') = Cardinality(Entries) + 1
      BY <1>0, <2>1, <2>5, EntryCounts DEF TaskOrNone, CountInv
    <3>3. \A u \in Task : pc'[u] = "overwrite" => pc[u] = "overwrite"
      BY <1>0, <2>1, <2>5
    <3> QED
      BY <1>2, <2>2, <3>1, <3>2, <3>3 DEF CountInv, SoleIsExact
  <2> QED
    BY <2>4, <2>5
<1>5. CASE StoreOverwrite(t)
  <2>1. /\ pc[t] = "overwrite" /\ pc' = [pc EXCEPT ![t] = AfterStore(t)] /\ count' = count
        /\ pendingItems' = [pendingItems EXCEPT ![KeyOf[t]] = t]
        /\ AfterStore(t) \in WriterPC \ Unstored
        /\ Weight(pc[t]) = 0 /\ Weight(AfterStore(t)) = 0
    BY <1>0, <1>5 DEF StoreOverwrite, AfterStore, WriterPC, Unstored, Weight
  <2>5. Tallied \in Int /\ Tallied' = Tallied + (count' - count) + Weight(AfterStore(t)) - Weight(pc[t])
    BY <1>0, <2>1, <1>t
  <2>2. Tallied' = Tallied
    BY <1>0, <2>1, <2>5
  <2>3. Cardinality(Entries') \in {Cardinality(Entries), Cardinality(Entries) + 1}
    BY <1>0, <2>1, EntryCounts DEF TaskOrNone, CountInv
  <2>4. ~AllSole
    BY <2>1 DEF CountInv, SoleIsExact
  <2>6. EntriesAreStored'
    BY <1>1, <2>1
  <2> QED
    BY <1>2, <2>2, <2>3, <2>4, <2>5, <2>6 DEF CountInv, SoleIsExact
<1>6. CASE StoreCount(t)
  <2>1. /\ pc[t] = "count" /\ pc' = [pc EXCEPT ![t] = AfterStore(t)] /\ count' = count + 1 /\ count' \in Int
        /\ pendingItems' = pendingItems /\ AfterStore(t) \in WriterPC \ Unstored
        /\ Weight(pc[t]) = 1 /\ Weight(AfterStore(t)) = 0 /\ AfterStore(t) # "overwrite"
    BY <1>0, <1>6 DEF StoreCount, AfterStore, WriterPC, Unstored, Weight
  <2>4. Tallied \in Int /\ Tallied' = Tallied + (count' - count) + Weight(AfterStore(t)) - Weight(pc[t])
    BY <1>0, <2>1, <1>t
  <2>5. Tallied' = Tallied
    BY <1>0, <2>1, <2>4
  <2>2. Tallied' = Tallied /\ Entries' = Entries
    BY <2>1, <2>5 DEF Entries, Pending
  <2>3. \A u \in Task : pc'[u] = "overwrite" => pc[u] = "overwrite"
    BY <1>0, <2>1
  <2> QED
    BY <1>1, <1>2, <2>1, <2>2, <2>3 DEF CountInv, SoleIsExact
<1>7. CASE SyncTimeout(t)
  <2> DEFINE n == IF Pending(KeyOf[t]) THEN "uncount" ELSE "timeout"
  <2>1. /\ pc[t] = "waiting" /\ pc' = [pc EXCEPT ![t] = n] /\ count' = count
        /\ pendingItems' = [pendingItems EXCEPT ![KeyOf[t]] = None]
        /\ n \in WriterPC \ Unstored /\ n # "overwrite" /\ Weight(pc[t]) = 0
        /\ Weight(n) = IF Pending(KeyOf[t]) THEN 0 - 1 ELSE 0
    BY <1>0, <1>7 DEF SyncTimeout, WriterPC, Unstored, Weight
  <2>6. Tallied \in Int /\ Tallied' = Tallied + (count' - count) + Weight(n) - Weight(pc[t])
    BY <1>0, <2>1, <1>t
  <2>2. /\ Tallied \in Int
        /\ Tallied' = IF Pending(KeyOf[t]) THEN Tallied - 1 ELSE Tallied
    BY <1>0, <2>1, <2>6
  <2>3. Cardinality(Entries') = IF Pending(KeyOf[t]) THEN Cardinality(Entries) - 1
                                                     ELSE Cardinality(Entries)
    BY <1>0, <2>1, EntryCounts DEF TaskOrNone, CountInv
  <2>4. \A u \in Task : pc'[u] = "overwrite" => pc[u] = "overwrite"
    BY <1>0, <2>1
  <2>5. EntriesAreStored'
    BY <1>1, <2>1
  <2> QED
    BY <1>2, <2>2, <2>3, <2>4, <2>5 DEF CountInv, SoleIsExact
<1>8. CASE SyncUncount(t)
  <2>1. /\ pc[t] = "uncount" /\ pc' = [pc EXCEPT ![t] = "timeout"] /\ count' = count - 1 /\ count' \in Int
        /\ pendingItems' = pendingItems /\ "timeout" \in WriterPC \ Unstored
        /\ Weight(pc[t]) = 0 - 1 /\ Weight("timeout") = 0
    BY <1>0, <1>8 DEF SyncUncount, WriterPC, Unstored, Weight
  <2>4. Tallied \in Int /\ Tallied' = Tallied + (count' - count) + Weight("timeout") - Weight(pc[t])
    BY <1>0, <2>1, <1>t
  <2>5. Tallied' = Tallied
    BY <1>0, <2>1, <2>4
  <2>2. Tallied' = Tallied /\ Entries' = Entries
    BY <2>1, <2>5 DEF Entries, Pending
  <2>3. \A u \in Task : pc'[u] = "overwrite" => pc[u] = "overwrite"
    BY <1>0, <2>1
  <2> QED
    BY <1>1, <1>2, <2>1, <2>2, <2>3 DEF CountInv, SoleIsExact
<1> QED
  BY <1>3, <1>4, <1>5, <1>6, <1>7, <1>8 DEF Writer, Track

LEMMA MovesKeepCount ==
  ASSUME CountInv, BatchMove, UNCHANGED <<pc, pendingItems, count>>
  PROVE  CountInv'
<1>1. removal' = removal
  BY DEF BatchMove, BatchKept, batchVars, Enter, ProcessBatch, Collect
<1> QED
  BY <1>1, CountKept

LEMMA NextKeepsCount ==
  ASSUME TypeOK, ShapeInv, CountInv, [Next]_vars
  PROVE  CountInv'
<1>1. CASE Worker
  BY <1>1, WorkerMoves, MovesKeepCount DEF Worker, writerVars, pendingVars, ShapeInv
<1>2. CASE Closer
  BY <1>2, CloserMoves, MovesKeepCount DEF Closer, writerVars, pendingVars
<1>3. CASE (\E w \in Waiter : Wait(w)) \/ UNCHANGED vars
  <2>1. UNCHANGED <<pc, pendingItems, count>> /\ BatchKept
    BY <1>3 DEF Wait, vars, writerVars, consumerVars, pendingVars, BatchKept
  <2> QED
    BY <2>1, MovesKeepCount DEF BatchMove
<1> QED
  BY <1>1, <1>2, <1>3, WriterKeepsCount, BatchKeepsCount DEF Next, AtRest

LEMMA CountInit == Init => CountInv
<1> SUFFICES ASSUME Init PROVE CountInv
  OBVIOUS
<1>1. Entries = {} /\ AtStep("count") = {} /\ AtStep("uncount") = {} /\ count = 0
  BY DEF Init, Entries, Pending, AtStep
<1>2. Due = 0
  BY DEF Init, Due, NoRemoval
<1>3. Tallied = 0 /\ Cardinality(Entries) = 0
  BY <1>1, <1>2, FS_EmptySet DEF Tallied, Owing
<1>4. \A t \in Task : pc[t] # "overwrite"
  BY DEF Init
<1> QED
  BY <1>1, <1>3, <1>4 DEF CountInv, EntriesAreStored, SoleIsExact

LEMMA CountCorrect == Spec => [](TypeOK /\ ShapeInv /\ SettleInv /\ CountInv)
<1>1. (TypeOK /\ ShapeInv /\ SettleInv) /\ CountInv /\ [Next]_vars => CountInv'
  BY NextKeepsCount
<1> QED
  BY <1>1, CountInit, SettledCorrect, PTL DEF Spec

\* With any number of writers, timeouts and removals racing on one id, the counter
\* that a flush trusts never claims an entry that is not there
\* (CountedSyncMap.go:23-67, queue.go:340-350, 555-557).
THEOREM CounterNeverOverReports == Spec => []CountNeverOverReports
<1> DEFINE a == Cardinality({t \in Task : pc[t] = "count"})
           b == Cardinality({t \in Task : pc[t] = "uncount"})
           c == IF removal.counted THEN 1 ELSE 0
           e == Cardinality({k \in Key : Pending(k)})
<1>1. TypeOK => count \in Int /\ a \in Nat /\ b \in Nat /\ c \in Nat
  BY FS_Subset, FS_CardinalityType, QueueAssumption DEF TypeOK
<1>2. Tallied = (count + (a - b)) - c /\ Cardinality(Entries) = e
  BY DEF Tallied, Owing, Due, AtStep, Entries
<1>3. CountNeverOverReports <=> count + ((a - b) - c) <= e
  BY DEF CountNeverOverReports
<1> HIDE DEF a, b, c, e
<1>4. TypeOK /\ CountInv => CountNeverOverReports
  BY <1>1, <1>2, <1>3 DEF CountInv
<1> QED
  BY <1>4, CountCorrect, PTL

-------------------------------------------------------------------------------
(* Graceful shutdown *)

\* The forced pass still has in hand what it has not settled
InHand(t) == t \in stuck \/ t \in failing \/ (phase = "set" /\ t \in ToSet(batch))
ForcedOrSettled ==
  closer = "force" => \A t \in acked : Exclusive(t) => t \in Settled \/ InHand(t)

AfterFlush == {"flushed", "incomplete", "stopjoin", "down"}
FlushedSettled == closer \in AfterFlush /\ quiet /\ AllSole => acked \subseteq Settled

FlushInv == ForcedOrSettled /\ FlushedSettled

\* What pendingItems does not track is settled
LEMMA UntrackedIsSettled ==
  ASSUME TypeOK, SettleInv, NEW t \in Task, Exclusive(t), pc[t] = "ok"
  PROVE  t \in Settled \/ (Pending(KeyOf[t]) /\ t \in PendingTasks)
<1>1. KeyOf[t] \in Key /\ t # None
  BY QueueAssumption
<1> QED
  BY <1>1 DEF SettleInv, SoleTracked, Stored, Pending, PendingTasks

\* A counter of zero is exact when no call is under way and no id is shared
LEMMA ZeroMeansEmpty ==
  ASSUME TypeOK, CountInv, AllSole, count = 0,
         \A t \in Task : pc[t] \in Returned \cup {"start"}
  PROVE  Entries = {}
<1>1. AtStep("count") = {} /\ AtStep("uncount") = {}
  BY DEF AtStep, Returned
<1>2. Tallied = 0 - Due
  BY <1>1, FS_EmptySet DEF Tallied, Owing, Due
<1>3. IsFiniteSet(Entries) /\ Cardinality(Entries) \in Nat
  BY EntriesFinite, FS_CardinalityType DEF CountInv
<1>4. Cardinality(Entries) = 0 - Due /\ Due \in {0, 1}
  BY <1>2 DEF CountInv, SoleIsExact, Due
<1> QED
  BY <1>3, <1>4, FS_EmptySet

LEMMA BatchKeepsForced ==
  ASSUME TypeOK, SettleInv, ForcedOrSettled, Batch
  PROVE  ForcedOrSettled'
<1>0. UNCHANGED <<closer, acked, stuck>> /\ \A t : Exclusive(t)' <=> Exclusive(t)
  BY DEF Batch, closerVars, shutHist, Exclusive
<1>1. ASSUME NEW u \in Task, RemoveFailed(u)
      PROVE  ForcedOrSettled'
  BY <1>0, <1>1 DEF RemoveFailed, ForcedOrSettled, InHand, Settled
<1>2. ASSUME NEW k \in Key, RemoveSettled(k)
      PROVE  ForcedOrSettled'
  BY <1>0, <1>2 DEF RemoveSettled, dbVars, ForcedOrSettled, InHand, Settled
<1>3. CASE NotifyRemoved
  <2>1. UNCHANGED <<batch, failing, stored, failed>> /\ (phase = "set" => phase' = "set")
    BY <1>3 DEF NotifyRemoved, dbVars
  <2> QED
    BY <1>0, <2>1 DEF ForcedOrSettled, InHand, Settled
<1>4. CASE FlushOk
  <2>1. /\ failing = {} /\ phase = "set" /\ failed' = failed
        /\ stored' = stored \cup (ToSet(batch) \ Unstorable)
    BY <1>4 DEF FlushOk, ReadyToFlush
  <2>2. Settled \cup ToSet(batch) \subseteq Settled'
    BY <2>1 DEF Settled, SettleInv, RefusedIsFailing
  <2> QED
    BY <1>0, <2>1, <2>2 DEF ForcedOrSettled, InHand
<1>5. CASE FlushError
  <2>1. failing = {} /\ failing' = ToSet(batch) /\ Settled \subseteq Settled'
    BY <1>5 DEF FlushError, ReadyToFlush, Settled
  <2> QED
    BY <1>0, <2>1 DEF ForcedOrSettled, InHand
<1> QED
  BY <1>1, <1>2, <1>3, <1>4, <1>5 DEF Batch

LEMMA CloserKeepsFlush ==
  ASSUME TypeOK, BatchShape, SettleInv, CountInv, AckedReturned, FlushInv, Closer
  PROVE  FlushInv'
<1>0. UNCHANGED <<pc, stored, failed>> /\ Settled' = Settled /\ (AllSole' <=> AllSole)
      /\ \A t : Exclusive(t)' <=> Exclusive(t)
  BY DEF Closer, writerVars, dbVars, Settled, AllSole, Exclusive
<1>1. CASE FlushNothing
  <2>1. /\ count = 0 /\ closer' = "flushed" /\ acked' = {t \in Task : pc[t] = "ok"}
        /\ quiet' = \A t \in Task : pc[t] \in Returned \cup {"start"}
    BY <1>1 DEF FlushNothing, ShutdownBegins
  <2>2. SUFFICES ASSUME quiet', AllSole, NEW t \in acked'
                 PROVE  t \in Settled
    BY <1>0, <2>1 DEF FlushInv, ForcedOrSettled, FlushedSettled
  <2>3. t \in Task /\ Exclusive(t) /\ pc[t] = "ok" /\ KeyOf[t] \in Key
    BY <2>1, <2>2, QueueAssumption DEF AllSole
  <2>4. ~Pending(KeyOf[t])
    BY <2>1, <2>2, <2>3, ZeroMeansEmpty DEF Entries
  <2> QED
    BY <2>3, <2>4, UntrackedIsSettled
<1>2. CASE ForceCollect
  <2>1. stuck' = PendingTasks /\ closer' = "force" /\ acked' = acked
    BY <1>2 DEF ForceCollect, shutHist
  <2>2. \A t \in acked : Exclusive(t) => t \in Settled \/ t \in PendingTasks
    BY UntrackedIsSettled DEF AckedReturned, TypeOK
  <2> QED
    BY <1>0, <2>1, <2>2 DEF FlushInv, ForcedOrSettled, FlushedSettled, InHand, AfterFlush
<1>3. CASE ForceBatch
  <2>1. PICK s \in Chunks : ProcessBatch(s) /\ stuck' = stuck \ ToSet(s)
    BY <1>3 DEF ForceBatch
  <2>2. /\ phase = "idle" /\ failing = {} /\ batch' = s /\ closer = "force"
        /\ UNCHANGED <<closer, acked>> /\ phase' = IF s = <<>> THEN "idle" ELSE "set"
    BY <1>3, <2>1 DEF ForceBatch, InsideBatch, BatchShape, ProcessBatch, shutHist
  <2>3. s = <<>> => ToSet(s) = {}
    BY DEF ToSet
  <2> QED
    BY <1>0, <2>1, <2>2, <2>3 DEF FlushInv, ForcedOrSettled, FlushedSettled, InHand, AfterFlush
<1>4. CASE FlushReturn
  <2>1. /\ phase = "idle" /\ failing = {} /\ stuck = {} /\ closer = "force" /\ acked' = acked
        /\ closer' # "force"
    BY <1>4 DEF FlushReturn, InsideBatch, BatchShape, shutHist
  <2>2. \A t \in acked : Exclusive(t) => t \in Settled
    BY <2>1 DEF FlushInv, ForcedOrSettled, InHand
  <2> QED
    BY <1>0, <2>1, <2>2 DEF FlushInv, ForcedOrSettled, FlushedSettled, AllSole, TypeOK
<1>5. CASE StopQueue \/ CloseQueue
  <2>1. closer \in AfterFlush /\ closer' # "force" /\ UNCHANGED <<acked, quiet>>
    BY <1>5 DEF StopQueue, CloseQueue, AfterFlush, shutHist
  <2> QED
    BY <1>0, <2>1 DEF FlushInv, ForcedOrSettled, FlushedSettled
<1>6. CASE FlushStopWorker \/ DrainBegin \/ DrainReceive \/ DrainEnd \/ EmergencyStop
           \/ SerializePendingTasks \/ SerializeBegin \/ SerializeReceive \/ SerializeEnd
  <2>1. closer' \notin AfterFlush \cup {"force"}
    BY <1>6 DEF FlushStopWorker, DrainBegin, DrainReceive, DrainEnd, EmergencyStop, closerVars,
       SerializePendingTasks, SerializeBegin, SerializeReceive, SerializeEnd, AfterFlush
  <2> QED
    BY <2>1 DEF FlushInv, ForcedOrSettled, FlushedSettled
<1> QED
  BY <1>1, <1>2, <1>3, <1>4, <1>5, <1>6 DEF Closer

LEMMA NextKeepsFlush ==
  ASSUME TypeOK, ShapeInv, SettleInv, CountInv, AckedReturned, FlushInv, [Next]_vars
  PROVE  FlushInv'
<1>1. ASSUME UNCHANGED closerVars
      PROVE  FlushedSettled'
  BY <1>1, SettledGrows DEF FlushInv, FlushedSettled, closerVars, shutHist, AllSole, Exclusive
<1>2. CASE Closer
  BY <1>2, CloserKeepsFlush DEF ShapeInv
<1>3. CASE Batch
  BY <1>1, <1>3, BatchKeepsForced DEF Batch, FlushInv
<1>4. CASE Worker
  <2>1. UNCHANGED closerVars /\ worker # "exited"
    BY <1>4 DEF Worker, clientVars, WorkerLoad, WorkerReceive, WorkerTimer, WorkerResize,
       WorkerStop, WorkerExit
  <2>2. ForcedOrSettled'
    BY <2>1 DEF ForcedOrSettled, ShapeInv, OneRuns, closerVars
  <2> QED
    BY <1>1, <2>1, <2>2 DEF FlushInv
<1>5. CASE (\E t \in Task : Writer(t)) \/ (\E w \in Waiter : Wait(w)) \/ UNCHANGED vars
  <2>1. UNCHANGED <<batchVars, dbVars, closerVars>>
    BY <1>5, OthersKeepBatch
  <2>2. ForcedOrSettled'
    BY <2>1 DEF FlushInv, ForcedOrSettled, InHand, Settled, Exclusive, batchVars, dbVars,
       closerVars, shutHist
  <2> QED
    BY <1>1, <2>1, <2>2 DEF FlushInv
<1> QED
  BY <1>2, <1>3, <1>4, <1>5 DEF Next, AtRest

\* A graceful shutdown loses no acknowledged write when none is under way and no id
\* has two writers: neither on the path that trusts the counter nor on the one that
\* drains the queue and forces what is left (queue.go:222-276, 783-836).
THEOREM FlushSettles == Spec => []FlushSettlesAcknowledged
<1>1. Init => FlushInv
  BY DEF Init, FlushInv, ForcedOrSettled, FlushedSettled, AfterFlush
<1>2. EmergencyInv => AckedReturned
  BY DEF EmergencyInv
<1>3. /\ TypeOK /\ ShapeInv /\ SettleInv /\ CountInv
      /\ AckedReturned /\ FlushInv /\ [Next]_vars
      => FlushInv'
  BY NextKeepsFlush
<1>4. FlushInv => FlushSettlesAcknowledged
  BY DEF FlushInv, FlushedSettled, AfterFlush, FlushSettlesAcknowledged, AllSole
<1> QED
  BY <1>1, <1>2, <1>3, <1>4, CountCorrect, EmergencyCorrect, PTL DEF Spec

===============================================================================
