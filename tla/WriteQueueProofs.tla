--------------------------- MODULE WriteQueueProofs ---------------------------
(***************************************************************************)
(* Proofs about WriteQueue, for any finite set of tasks, any content ids,  *)
(* any queue sizes and batch sizes, and every kind of shutdown.            *)
(***************************************************************************)
EXTENDS WriteQueue, SequenceTheorems, FiniteSetTheorems, TLAPS

-------------------------------------------------------------------------------
(* Helpers *)

\* The capacities that occur
LEMMA CapacityFacts ==
  /\ MaxCapacity \in Nat \ {0}
  /\ Capacity \subseteq Nat \ {0}
  /\ InitialQueueSize \in Capacity
  /\ \A c \in Capacity : Grown(c) \in Capacity
  /\ \A c \in Capacity : c < MaxCapacity => c < Grown(c)
<1>1. MaxCapacity \in Nat /\ InitialQueueSize <= MaxCapacity
  BY QueueAssumption DEF MaxCapacity
<1>2. QED
  BY <1>1, QueueAssumption DEF Capacity, Grown

\* Two lengths that only shrink keep fitting together
LEMMA StillFit ==
  ASSUME NEW a \in Nat, NEW b \in Nat, NEW x \in Nat, NEW y \in Nat, NEW d \in Nat,
         x <= a, y <= b, a + b <= d
  PROVE  x + y <= d
  OBVIOUS

\* One task moves from a channel that holds f of them to one that holds g
LEMMA OneMoves ==
  ASSUME NEW f \in Nat, NEW g \in Nat, NEW d \in Nat, NEW w \in Nat,
         f # 0, f + g <= d, d < w
  PROVE  (f - 1) + (g + 1) <= d /\ f - 1 <= d /\ g + 1 <= w
  OBVIOUS

\* Go's Set loop and Flush leave a task or nothing for each content id
LEMMA WrittenType ==
  ASSUME db \in [Key -> TaskOrNone], NEW s \in Seq(Task)
  PROVE  Written(s) \in [Key -> TaskOrNone]
<1>1. ASSUME NEW k \in Key, NEW L, L \subseteq DOMAIN s
      PROVE  (IF L = {} THEN db[k] ELSE s[CHOOSE i \in L : TRUE]) \in TaskOrNone
  <2>1. L # {} => (CHOOSE i \in L : TRUE) \in DOMAIN s
    BY <1>1
  <2>2. \A i \in DOMAIN s : s[i] \in Task
    BY LenProperties, ElementOfSeq
  <2>3. QED
    BY <2>1, <2>2 DEF TaskOrNone
<1>2. QED
  BY <1>1 DEF Written

LEMMA ToSetType ==
  ASSUME NEW s \in Seq(Task)
  PROVE  ToSet(s) \subseteq Task
  BY LenProperties, ElementOfSeq DEF ToSet

\* The chunks of forceProcessStuckTasks are sequences of tasks
LEMMA ChunksType ==
  ASSUME stuck \subseteq Task
  PROVE  Chunks \subseteq Seq(Task)
<1>1. IsFiniteSet(stuck)
  BY FS_Subset, QueueAssumption
<1>2. Cardinality(stuck) \in Nat
  BY <1>1, FS_CardinalityType
<1>3. \A n \in Nat : [1 .. n -> stuck] \subseteq Seq(Task)
  BY SMT
<1>4. (IF Cardinality(stuck) < MaxBatchSize THEN Cardinality(stuck)
                                           ELSE MaxBatchSize) \in Nat
  BY <1>2, QueueAssumption
<1>5. QED
  BY <1>3, <1>4 DEF Chunks

\* Receiving from the channel a goroutine holds
LEMMA ReceiveType ==
  ASSUME TypeOK, NEW g \in {"worker", "closer"}, CanReceive(g)
  PROVE  /\ held[g] \in Capacity
         /\ Head(chan[held[g]]) \in Task
         /\ [chan EXCEPT ![held[g]] = Tail(@)] \in [Capacity -> Seq(Task)]
<1>1. held[g] \in Capacity /\ chan[held[g]] \in Seq(Task) /\ chan[held[g]] # <<>>
  BY DEF TypeOK, CanReceive
<1>2. Head(chan[held[g]]) \in Task /\ Tail(chan[held[g]]) \in Seq(Task)
  BY <1>1, HeadTailProperties
<1>3. QED
  BY <1>1, <1>2 DEF TypeOK

\* Entering processBatch with a sequence of tasks keeps the types of its state
BatchType ==
  /\ batch \in Seq(Task)
  /\ phase \in Phase
  /\ failing \subseteq Task
  /\ settling \subseteq Key
  /\ removal \in [key : Key \cup {None}, counted : BOOLEAN, task : TaskOrNone]

LEMMA ProcessBatchType ==
  ASSUME BatchType, NEW b \in Seq(Task), ProcessBatch(b)
  PROVE  BatchType'
  BY ToSetType DEF BatchType, ProcessBatch, Phase

LEMMA AddToBatchType ==
  ASSUME BatchType, NEW t \in Task, AddToBatch(t)
  PROVE  BatchType'
<1>1. Append(batch, t) \in Seq(Task)
  BY AppendProperties DEF BatchType
<1>2. CASE Len(Append(batch, t)) >= MaxBatchSize
  BY <1>1, <1>2, ProcessBatchType DEF AddToBatch
<1>3. CASE ~(Len(Append(batch, t)) >= MaxBatchSize)
  BY <1>1, <1>3 DEF AddToBatch, BatchType
<1>4. QED
  BY <1>2, <1>3

-------------------------------------------------------------------------------
(* Type correctness *)

LEMMA WriterType ==
  ASSUME TypeOK, NEW t \in Task, Writer(t)
  PROVE  TypeOK'
<1> USE DEF TypeOK, queueVars, pendingVars, workerVars, batchVars, dbVars,
            consumerVars, waiterVars, shutHist, closerVars, clientVars
<1>1. CASE Send(t)
  <2>1. writeQueue \in Capacity /\ Append(chan[writeQueue], t) \in Seq(Task)
    BY <1>1, AppendProperties DEF Send, HasRoom
  <2>2. chan' \in [Capacity -> Seq(Task)]
    BY <1>1, <2>1 DEF Send
  <2>3. QED
    BY <1>1, <2>2 DEF Send, WriterPC
<1>2. CASE SendFull(t)
  BY <1>2 DEF SendFull, WriterPC
<1>3. CASE Double(t)
  <2> USE <1>3, CapacityFacts DEF Double
  <2>1. CASE DoubleRefused(t)
    BY <2>1 DEF DoubleRefused, WriterPC
  <2>2. CASE DoubleBegin(t)
    BY <2>2 DEF DoubleBegin, WriterPC, TaskOrNone
  <2>3. CASE DoubleSwap(t)
    BY <2>3 DEF DoubleSwap, WriterPC
  <2>4. CASE DoubleTransfer(t)
    <3>1. /\ draining \in Capacity /\ writeQueue \in Capacity
          /\ chan[draining] # <<>>
      BY <2>4 DEF DoubleTransfer, HasRoom
    <3>2. /\ Tail(chan[draining]) \in Seq(Task)
          /\ \A s \in Seq(Task) : Append(s, Head(chan[draining])) \in Seq(Task)
      BY <3>1, HeadTailProperties, AppendProperties
    <3>3. chan' \in [Capacity -> Seq(Task)]
      BY <2>4, <3>1, <3>2 DEF DoubleTransfer
    <3>4. QED
      BY <2>4, <3>3 DEF DoubleTransfer
  <2>5. CASE DoubleUnlock(t)
    BY <2>5 DEF DoubleUnlock, WriterPC
  <2>6. CASE DoubleWake(t)
    BY <2>6 DEF DoubleWake, WriterPC, TaskOrNone
  <2>7. QED
    BY <2>1, <2>2, <2>3, <2>4, <2>5, <2>6
<1>4. CASE Track(t)
  <2>1. KeyOf[t] \in Key /\ t \in TaskOrNone /\ None \in TaskOrNone
    BY QueueAssumption DEF TaskOrNone
  <2> USE <1>4, <2>1 DEF Track, WriterPC, AfterStore
  <2>2. CASE StoreLookup(t)
    BY <2>2 DEF StoreLookup
  <2>3. CASE StoreOverwrite(t)
    BY <2>3 DEF StoreOverwrite
  <2>4. CASE StoreCount(t)
    BY <2>4 DEF StoreCount
  <2>5. CASE SyncTimeout(t)
    BY <2>5 DEF SyncTimeout
  <2>6. CASE SyncUncount(t)
    BY <2>6 DEF SyncUncount
  <2>7. QED
    BY <2>2, <2>3, <2>4, <2>5, <2>6
<1>5. CASE SyncResult(t)
  BY <1>5 DEF SyncResult, WriterPC
<1>6. QED
  BY <1>1, <1>2, <1>3, <1>4, <1>5 DEF Writer

LEMMA BatchKeepsType ==
  ASSUME TypeOK, Batch
  PROVE  TypeOK'
<1> USE DEF TypeOK, queueVars, pendingVars, workerVars, batchVars, dbVars,
            waiterVars, shutHist, closerVars
<1>1. KeyOf \in [Task -> Key] /\ None \in TaskOrNone /\ Task \subseteq TaskOrNone
  BY QueueAssumption DEF TaskOrNone
<1>2. ASSUME NEW t \in Task, RemoveFailed(t)
      PROVE  TypeOK'
  BY Batch, <1>1, <1>2 DEF Batch, RemoveFailed, Pending
<1>3. ASSUME NEW k \in Key, RemoveSettled(k)
      PROVE  TypeOK'
  BY Batch, <1>1, <1>3 DEF Batch, RemoveSettled, Pending
<1>4. CASE NotifyRemoved
  <2>1. result' \in [Task -> {"empty", "nil", "error"}]
    BY <1>4 DEF NotifyRemoved
  <2>2. count' \in Int /\ removal' = NoRemoval /\ phase' \in Phase
    BY <1>4 DEF NotifyRemoved, Phase
  <2>3. /\ wait' \in [Waiter -> WaitPC]
        /\ waiters' \in [Key -> SUBSET Waiter]
    BY <1>4 DEF NotifyRemoved, WaitPC
  <2>4. QED
    BY Batch, <1>4, <1>1, <2>1, <2>2, <2>3 DEF Batch, NotifyRemoved, NoRemoval
<1>5. CASE FlushOk
  <2>1. Written(batch) \in [Key -> TaskOrNone] /\ ToSet(batch) \subseteq Task
    BY WrittenType, ToSetType
  <2>2. result' \in [Task -> {"empty", "nil", "error"}]
    BY <1>5 DEF FlushOk
  <2>3. QED
    BY Batch, <1>1, <1>5, <2>1, <2>2, EmptySeq DEF Batch, FlushOk, Phase
<1>6. CASE FlushError
  <2>1. PICK n \in 0 .. Len(batch) - 1 :
               /\ db' = Written(SubSeq(batch, 1, n))
               /\ stored' = stored \cup (ToSet(SubSeq(batch, 1, n)) \ Unstorable)
    BY <1>6 DEF FlushError
  <2>2. SubSeq(batch, 1, n) \in Seq(Task)
    BY SubSeqProperties, LenProperties, ElementOfSeq
  <2>3. /\ db' \in [Key -> TaskOrNone]
        /\ stored' \subseteq Task
        /\ ToSet(batch) \subseteq Task
    BY <2>1, <2>2, WrittenType, ToSetType
  <2>4. QED
    BY Batch, <1>6, <2>3, EmptySeq DEF Batch, FlushError, Phase
<1>7. QED
  BY Batch, <1>2, <1>3, <1>4, <1>5, <1>6 DEF Batch

LEMMA WorkerType ==
  ASSUME TypeOK, Worker
  PROVE  TypeOK'
<1>1. TypeOK => BatchType
  BY DEF TypeOK, BatchType
<1>2. ASSUME BatchType',
             chan' \in [Capacity -> Seq(Task)],
             held' \in [{"worker", "closer"} -> Capacity \cup {0}],
             worker' \in WorkerPC, armed' \in BOOLEAN, resizeToken' \in BOOLEAN
      PROVE  TypeOK'
  BY Worker, <1>2 DEF Worker, TypeOK, BatchType, writerVars, pendingVars, dbVars,
                clientVars, waiterVars, closerVars, shutHist
<1> USE DEF TypeOK, WorkerPC
<1>3. CASE WorkerLoad
  BY <1>1, <1>2, <1>3 DEF WorkerLoad, batchVars, BatchType
<1>4. CASE WorkerReceive
  <2>1. /\ Head(chan[held["worker"]]) \in Task
        /\ chan' \in [Capacity -> Seq(Task)]
    BY <1>4, ReceiveType DEF WorkerReceive, Receive
  <2>2. BatchType'
    BY <1>1, <1>4, <2>1, AddToBatchType DEF WorkerReceive
  <2>3. QED
    BY <1>2, <1>4, <2>1, <2>2 DEF WorkerReceive
<1>5. CASE WorkerTimer
  <2>1. BatchType'
    BY <1>1, <1>5, ProcessBatchType DEF WorkerTimer
  <2>2. QED
    BY <1>2, <1>5, <2>1 DEF WorkerTimer
<1>6. CASE WorkerResize
  BY <1>1, <1>2, <1>6 DEF WorkerResize, batchVars, BatchType
<1>7. CASE WorkerStop
  <2>1. BatchType'
    BY <1>1, <1>7, ProcessBatchType DEF WorkerStop
  <2>2. QED
    BY <1>2, <1>7, <2>1 DEF WorkerStop
<1>8. CASE WorkerExit
  BY <1>1, <1>2, <1>8 DEF WorkerExit, batchVars, BatchType
<1>9. QED
  BY Worker, <1>3, <1>4, <1>5, <1>6, <1>7, <1>8 DEF Worker

LEMMA WaitType ==
  ASSUME TypeOK, NEW w \in Waiter, Wait(w)
  PROVE  TypeOK'
<1> USE DEF TypeOK, WaitPC, Unregister, Wait, writerVars, queueVars,
            pendingVars, consumerVars, workerVars, batchVars, dbVars,
            closerVars, shutHist
<1>1. ASSUME NEW k \in Key, WaitCheck(w, k)
      PROVE  TypeOK'
  BY Wait(w), <1>1 DEF WaitCheck, Owed
<1>2. CASE WaitRegister(w)
  BY Wait(w), <1>2 DEF WaitRegister
<1>3. CASE WaitNotified(w)
  BY Wait(w), <1>3 DEF WaitNotified
<1>4. CASE WaitTimeout(w)
  BY Wait(w), <1>4 DEF WaitTimeout
<1>5. QED
  BY Wait(w), <1>1, <1>2, <1>3, <1>4
LEMMA CloserType ==
  ASSUME TypeOK, Closer
  PROVE  TypeOK'
<1>1. BatchType
  BY DEF TypeOK, BatchType
<1>2. ASSUME BatchType',
             chan' \in [Capacity -> Seq(Task)],
             writeQueue' \in Capacity \cup {0},
             stopped' \in BOOLEAN,
             held' \in [{"worker", "closer"} -> Capacity \cup {0}],
             closer' \in CloserPC,
             stuck' \subseteq Task, saved' \subseteq Task,
             acked' \subseteq Task, quiet' \in BOOLEAN
      PROVE  TypeOK'
  <2>1. UNCHANGED <<writerVars, maxQueueSize, capacityMutex, draining, resizeToken,
                    pendingVars, worker, armed, dbVars, waiterVars>>
    BY Closer DEF Closer
  <2>2. /\ UNCHANGED <<pc, result, sent, prior>>
        /\ UNCHANGED <<maxQueueSize, capacityMutex, draining, resizeToken>>
        /\ UNCHANGED <<pendingItems, count, worker, armed, db, stored, failed>>
        /\ UNCHANGED <<waiters, wait, waitKey, owed>>
    BY <2>1 DEF writerVars, pendingVars, dbVars, waiterVars
  <2>3. QED
    BY <1>2, <2>2 DEF TypeOK, BatchType
<1>3. batchVars' = batchVars => BatchType'
  BY <1>1 DEF batchVars, BatchType
<1>4. PendingTasks \subseteq Task
  BY DEF TypeOK, PendingTasks, Pending, TaskOrNone
<1>5. ShutdownBegins => acked' \subseteq Task /\ quiet' \in BOOLEAN
  BY DEF ShutdownBegins
<1> USE DEF CloserPC, closerVars, shutHist
<1>6. CASE FlushNothing
  BY <1>2, <1>3, <1>5, <1>6 DEF FlushNothing, TypeOK
<1>7. CASE FlushStopWorker
  BY <1>2, <1>3, <1>5, <1>7 DEF FlushStopWorker, TypeOK
<1>8. CASE DrainBegin
  BY <1>2, <1>3, <1>8 DEF DrainBegin, TypeOK
<1>9. CASE DrainReceive
  <2>1. /\ Head(chan[held["closer"]]) \in Task
        /\ chan' \in [Capacity -> Seq(Task)]
    BY <1>9, ReceiveType DEF DrainReceive, Receive
  <2>2. BatchType'
    BY <1>1, <1>9, <2>1, AddToBatchType DEF DrainReceive
  <2>3. QED
    BY <1>2, <1>9, <2>1, <2>2 DEF DrainReceive, TypeOK
<1>10. CASE DrainEnd
  <2>1. BatchType'
    BY <1>1, <1>10, ProcessBatchType DEF DrainEnd, BatchType
  <2>2. QED
    BY <1>2, <1>10, <2>1 DEF DrainEnd, TypeOK
<1>11. CASE ForceCollect
  BY <1>2, <1>3, <1>4, <1>11 DEF ForceCollect, TypeOK
<1>12. CASE ForceBatch
  <2>1. PICK s \in Chunks : ProcessBatch(s) /\ stuck' = stuck \ ToSet(s)
    BY <1>12 DEF ForceBatch
  <2>2. s \in Seq(Task)
    BY ChunksType DEF TypeOK
  <2>3. BatchType'
    BY <1>1, <2>1, <2>2, ProcessBatchType
  <2>4. stuck' \subseteq Task
    BY <2>1 DEF TypeOK
  <2>5. QED
    BY <1>2, <1>12, <2>3, <2>4 DEF ForceBatch, TypeOK
<1>13. CASE FlushReturn
  BY <1>2, <1>3, <1>13 DEF FlushReturn, TypeOK
<1>14. CASE StopQueue
  BY <1>2, <1>3, <1>14 DEF StopQueue, TypeOK
<1>15. CASE CloseQueue
  BY <1>2, <1>3, <1>15 DEF CloseQueue, TypeOK
<1>16. CASE EmergencyStop
  BY <1>2, <1>3, <1>5, <1>16 DEF EmergencyStop, TypeOK
<1>17. CASE SerializePendingTasks
  BY <1>2, <1>3, <1>4, <1>17 DEF SerializePendingTasks, TypeOK
<1>18. CASE SerializeBegin
  BY <1>2, <1>3, <1>18 DEF SerializeBegin, TypeOK
<1>19. CASE SerializeReceive
  <2>1. /\ Head(chan[held["closer"]]) \in Task
        /\ chan' \in [Capacity -> Seq(Task)]
    BY <1>19, ReceiveType DEF SerializeReceive, Receive
  <2>2. QED
    BY <1>2, <1>3, <1>19, <2>1 DEF SerializeReceive, TypeOK
<1>20. CASE SerializeEnd
  BY <1>2, <1>3, <1>20 DEF SerializeEnd, TypeOK
<1>21. QED
  BY Closer, <1>6, <1>7, <1>8, <1>9, <1>10, <1>11, <1>12, <1>13, <1>14, <1>15,
     <1>16, <1>17, <1>18, <1>19, <1>20 DEF Closer

LEMMA TypeStutter == ASSUME TypeOK, UNCHANGED vars PROVE TypeOK'
  BY DEF TypeOK, vars, writerVars, queueVars, pendingVars, workerVars, batchVars,
         dbVars, consumerVars, waiterVars, shutHist, closerVars, clientVars

LEMMA TypeInit == Init => TypeOK
<1> SUFFICES ASSUME Init PROVE TypeOK
  OBVIOUS
<1>1. chan \in [Capacity -> Seq(Task)] /\ batch \in Seq(Task)
  BY EmptySeq DEF Init
<1>2. writeQueue \in Capacity \cup {0} /\ maxQueueSize \in Capacity
  BY CapacityFacts DEF Init
<1>3. removal \in [key : Key \cup {None}, counted : BOOLEAN, task : TaskOrNone]
  BY DEF Init, NoRemoval, TaskOrNone
<1>4. /\ pc \in [Task -> WriterPC]
      /\ result \in [Task -> {"empty", "nil", "error"}]
      /\ prior \in [Task -> SUBSET Task]
  BY DEF Init, WriterPC
<1>5. /\ wait \in [Waiter -> WaitPC]
      /\ waitKey \in [Waiter -> Key \cup {None}]
      /\ owed \in [Waiter -> SUBSET Task]
      /\ waiters \in [Key -> SUBSET Waiter]
  BY DEF Init, WaitPC
<1>6. /\ capacityMutex \in TaskOrNone
      /\ pendingItems \in [Key -> TaskOrNone] /\ db \in [Key -> TaskOrNone]
  BY DEF Init, TaskOrNone
<1>7. held \in [{"worker", "closer"} -> Capacity \cup {0}]
  BY DEF Init
<1>8. /\ resizeToken \in BOOLEAN /\ stopped \in BOOLEAN /\ armed \in BOOLEAN
      /\ quiet \in BOOLEAN
  BY DEF Init
<1>9. /\ draining \in Capacity \cup {0} /\ count \in Int
      /\ worker \in WorkerPC /\ phase \in Phase /\ closer \in CloserPC
      /\ failing \subseteq Task /\ settling \subseteq Key
      /\ stuck \subseteq Task /\ saved \subseteq Task
      /\ sent \subseteq Task /\ stored \subseteq Task /\ failed \subseteq Task
      /\ acked \subseteq Task
  BY DEF Init, WorkerPC, Phase, CloserPC
<1>10. QED
  BY <1>1, <1>2, <1>3, <1>4, <1>5, <1>6, <1>7, <1>8, <1>9, Zenon DEF TypeOK

LEMMA TypeStep == ASSUME TypeOK, [Next]_vars PROVE TypeOK'
  BY WriterType, WorkerType, BatchKeepsType, WaitType, CloserType, TypeStutter
     DEF Next, AtRest

\* Every variable keeps its type, whatever the interleaving of writers, worker,
\* waiters and shutdown (all of queue.go).
THEOREM TypeCorrect == Spec => []TypeOK
<1>1. TypeOK /\ [Next]_vars => TypeOK'
  BY TypeStep
<1>2. QED
  BY <1>1, TypeInit, PTL DEF Spec
-------------------------------------------------------------------------------
(* Capacity: why the drain loop of DoubleQueueCapacity cannot block *)

Doubling == {"swap", "transfer", "wake"}

\* Only the writer that owns capacityMutex is past its checks
MutexHeld == \A t \in Task : pc[t] \in Doubling => capacityMutex = t

\* The current channel is the newest one, or nil after closeQueue
NewestIsCurrent == /\ writeQueue \in {0, maxQueueSize}
                   /\ writeQueue = 0 => closer = "down"

\* The limit checked before the swap still holds at the swap
RoomToGrow == \A t \in Task : pc[t] = "swap" => maxQueueSize < MaxCapacity

\* While tasks are transferred, both channels together fit in the smaller one
BothFit ==
  \A t \in Task : pc[t] = "transfer" =>
    /\ writeQueue = maxQueueSize
    /\ draining < writeQueue
    /\ draining # 0 => Len(chan[draining]) + Len(chan[writeQueue]) <= draining

\* No channel exceeds its capacity, and none to come holds a task
WithinCapacity ==
  \A c \in Capacity : /\ Len(chan[c]) <= c
                      /\ c > maxQueueSize => Len(chan[c]) = 0

CapacityInv ==
  /\ MutexHeld
  /\ NewestIsCurrent
  /\ RoomToGrow
  /\ BothFit
  /\ WithinCapacity
  /\ ReplacedChannelsAreEmpty

LEMMA Lengths ==
  ASSUME TypeOK
  PROVE  \A c \in Capacity : /\ Len(chan[c]) \in Nat
                             /\ chan[c] = <<>> <=> Len(chan[c]) = 0
<1> TAKE c \in Capacity
<1>1. chan[c] \in Seq(Task)
  BY DEF TypeOK
<1>2. QED
  BY <1>1, LenProperties, EmptySeq

\* A step that only takes tasks out of channels, and neither enters nor leaves
\* a doubling, keeps the invariant; it may also set the channel to nil
QuietStep ==
  /\ \A t \in Task : pc'[t] = pc[t] \/ (pc[t] \notin Doubling /\ pc'[t] \notin Doubling)
  /\ UNCHANGED <<maxQueueSize, capacityMutex, draining>>
  /\ \A c \in Capacity : \/ chan'[c] = chan[c]
                         \/ chan[c] # <<>> /\ Len(chan'[c]) = Len(chan[c]) - 1
  /\ \/ writeQueue' = writeQueue
     \/ writeQueue' = 0 /\ ReadLockFree /\ closer' = "down"
  /\ closer = "down" => closer' = "down"

LEMMA QuietKeepsCapacity ==
  ASSUME TypeOK, TypeOK', CapacityInv, QuietStep
  PROVE  CapacityInv'
<1>1. \A t \in Task : pc[t] \in Doubling \/ pc'[t] \in Doubling => pc'[t] = pc[t]
  BY DEF QuietStep
<1>2. \A c \in Capacity : /\ Len(chan[c]) \in Nat /\ Len(chan'[c]) \in Nat
                          /\ Len(chan'[c]) <= Len(chan[c])
                          /\ chan[c] = <<>> <=> Len(chan[c]) = 0
                          /\ chan'[c] = <<>> <=> Len(chan'[c]) = 0
  <2> TAKE c \in Capacity
  <2>1. chan[c] \in Seq(Task) /\ chan'[c] \in Seq(Task)
    BY DEF TypeOK
  <2>2. /\ Len(chan[c]) \in Nat /\ Len(chan'[c]) \in Nat
        /\ chan[c] = <<>> <=> Len(chan[c]) = 0
        /\ chan'[c] = <<>> <=> Len(chan'[c]) = 0
    BY <2>1, LenProperties, EmptySeq
  <2>3. chan'[c] = chan[c] \/ Len(chan'[c]) = Len(chan[c]) - 1
    BY DEF QuietStep
  <2>4. QED
    BY <2>2, <2>3
<1>3. Transferring' = Transferring
  BY <1>1 DEF Transferring, Doubling
<1>4. MutexHeld' /\ RoomToGrow'
  BY <1>1 DEF CapacityInv, MutexHeld, RoomToGrow, QuietStep, Doubling
<1>5. NewestIsCurrent'
  BY DEF CapacityInv, NewestIsCurrent, QuietStep
<1>6. BothFit'
  <2> SUFFICES ASSUME NEW t \in Task, pc'[t] = "transfer"
               PROVE  /\ writeQueue' = maxQueueSize'
                      /\ draining' < writeQueue'
                      /\ draining' # 0 => Len(chan'[draining']) + Len(chan'[writeQueue'])
                                            <= draining'
    BY DEF BothFit
  <2>1. pc[t] = "transfer"
    BY <1>1 DEF Doubling
  <2>2. UNCHANGED <<writeQueue, maxQueueSize, draining>>
    BY <2>1 DEF QuietStep, ReadLockFree
  <2>3. /\ writeQueue = maxQueueSize /\ draining < writeQueue
        /\ draining # 0 => Len(chan[draining]) + Len(chan[writeQueue]) <= draining
    BY <2>1 DEF CapacityInv, BothFit
  <2>4. draining \in Capacity \cup {0} /\ writeQueue \in Capacity
    BY <2>3 DEF TypeOK
  <2>5. ASSUME draining # 0
        PROVE  Len(chan'[draining]) + Len(chan'[writeQueue]) <= draining
    <3>1. draining \in Capacity
      BY <2>4, <2>5
    <3>2. /\ Len(chan[draining]) \in Nat /\ Len(chan'[draining]) \in Nat
          /\ Len(chan'[draining]) <= Len(chan[draining])
          /\ Len(chan[writeQueue]) \in Nat /\ Len(chan'[writeQueue]) \in Nat
          /\ Len(chan'[writeQueue]) <= Len(chan[writeQueue])
      BY <1>2, <2>4, <3>1
    <3>3. Len(chan[draining]) + Len(chan[writeQueue]) <= draining /\ draining \in Nat
      BY <2>3, <2>5, <3>1, CapacityFacts
    <3>4. QED
      BY <3>2, <3>3, StillFit
  <2>6. QED
    BY <2>2, <2>3, <2>5
<1>7. WithinCapacity'
  BY <1>2 DEF CapacityInv, WithinCapacity, QuietStep, Capacity, TypeOK
<1>8. ReplacedChannelsAreEmpty'
  BY <1>2, <1>3 DEF CapacityInv, ReplacedChannelsAreEmpty, QuietStep
<1>9. QED
  BY <1>4, <1>5, <1>6, <1>7, <1>8 DEF CapacityInv
\* A receive takes one task out of one channel
LEMMA ReceiveShrinks ==
  ASSUME TypeOK, NEW g \in {"worker", "closer"}, CanReceive(g), Receive(g)
  PROVE  \A c \in Capacity : \/ chan'[c] = chan[c]
                             \/ chan[c] # <<>> /\ Len(chan'[c]) = Len(chan[c]) - 1
<1>1. held[g] \in Capacity /\ chan[held[g]] \in Seq(Task) /\ chan[held[g]] # <<>>
  BY DEF TypeOK, CanReceive
<1>2. Len(Tail(chan[held[g]])) = Len(chan[held[g]]) - 1
  BY <1>1, HeadTailProperties
<1>3. chan' = [chan EXCEPT ![held[g]] = Tail(chan[held[g]])]
  BY DEF Receive
<1>4. QED
  BY <1>1, <1>2, <1>3 DEF TypeOK

LEMMA SendKeepsCapacity ==
  ASSUME TypeOK, CapacityInv, NEW t \in Task, Send(t)
  PROVE  CapacityInv'
<1>1. /\ writeQueue \in Capacity
      /\ Len(chan[writeQueue]) < writeQueue
      /\ chan' = [chan EXCEPT ![writeQueue] = Append(chan[writeQueue], t)]
      /\ \A u \in Task : pc[u] # "transfer"
      /\ UNCHANGED <<writeQueue, maxQueueSize, capacityMutex, draining, closer>>
      /\ pc[t] \in {"start", "retry"} /\ pc' = [pc EXCEPT ![t] = "lookup"]
  BY DEF Send, HasRoom, ReadLockFree, TypeOK, clientVars, closerVars
<1>2. \A u \in Task : pc'[u] # "transfer" /\ (pc'[u] \in Doubling => pc'[u] = pc[u])
  BY <1>1 DEF TypeOK, Doubling
<1>3. MutexHeld' /\ RoomToGrow'
  BY <1>1, <1>2 DEF CapacityInv, MutexHeld, RoomToGrow, Doubling
<1>4. NewestIsCurrent'
  BY <1>1 DEF CapacityInv, NewestIsCurrent
<1>5. BothFit'
  BY <1>2 DEF BothFit
<1>6. Len(Append(chan[writeQueue], t)) = Len(chan[writeQueue]) + 1
  BY <1>1, AppendProperties DEF TypeOK
<1>7. maxQueueSize = writeQueue
  BY <1>1 DEF CapacityInv, NewestIsCurrent, Capacity
<1>8. WithinCapacity'
  <2>1. \A c \in Capacity : IF c = writeQueue THEN Len(chan'[c]) = Len(chan[c]) + 1
                                              ELSE chan'[c] = chan[c]
    BY <1>1, <1>6 DEF TypeOK
  <2>2. QED
    BY <1>1, <1>7, <2>1, Lengths DEF CapacityInv, WithinCapacity, Capacity
<1>9. ReplacedChannelsAreEmpty'
  <2>1. \A c \in Capacity \ {writeQueue} : chan'[c] = chan[c]
    BY <1>1 DEF TypeOK
  <2>2. ~Transferring /\ ~Transferring'
    BY <1>1, <1>2 DEF Transferring
  <2>3. QED
    BY <1>1, <2>1, <2>2 DEF CapacityInv, ReplacedChannelsAreEmpty
<1>10. QED
  BY <1>3, <1>4, <1>5, <1>8, <1>9 DEF CapacityInv

LEMMA DoubleKeepsCapacity ==
  ASSUME TypeOK, TypeOK', CapacityInv, NEW t \in Task, Double(t)
  PROVE  CapacityInv'
<1>1. UNCHANGED closer
  BY DEF Double, clientVars, closerVars
<1>2. t # None
  BY QueueAssumption
<1>3. \A u \in Task : pc[u] \in Doubling => capacityMutex = u
  BY DEF CapacityInv, MutexHeld
<1>4. CASE DoubleRefused(t)
  <2>1. QuietStep
    BY <1>1, <1>4 DEF DoubleRefused, QuietStep, Doubling, TypeOK
  <2>2. QED
    BY <2>1, QuietKeepsCapacity
<1>5. CASE DoubleBegin(t)
  <2>1. \A u \in Task \ {t} : pc[u] \notin Doubling /\ pc'[u] \notin Doubling
    BY <1>2, <1>3, <1>5, QueueAssumption DEF DoubleBegin, TypeOK
  <2>2. /\ pc'[t] = "swap" /\ capacityMutex' = t /\ maxQueueSize < MaxCapacity
        /\ UNCHANGED <<chan, writeQueue, maxQueueSize, draining>>
    BY <1>5 DEF DoubleBegin, TypeOK
  <2>3. ~Transferring /\ ~Transferring'
    BY <1>5, <2>1, <2>2 DEF Transferring, Doubling, DoubleBegin
  <2>4. MutexHeld' /\ RoomToGrow' /\ BothFit'
    BY <2>1, <2>2 DEF MutexHeld, RoomToGrow, BothFit, Doubling
  <2>5. QED
    BY <1>1, <2>2, <2>3, <2>4
       DEF CapacityInv, NewestIsCurrent, WithinCapacity, ReplacedChannelsAreEmpty
<1>6. CASE DoubleSwap(t)
  <2>1. \A u \in Task \ {t} : pc[u] \notin Doubling /\ pc'[u] \notin Doubling
    BY <1>3, <1>6 DEF DoubleSwap, Doubling, TypeOK
  <2>2. /\ pc[t] = "swap" /\ pc'[t] = "transfer" /\ capacityMutex' = t
        /\ draining' = writeQueue /\ writeQueue' = Grown(maxQueueSize)
        /\ maxQueueSize' = Grown(maxQueueSize) /\ UNCHANGED chan
    BY <1>3, <1>6 DEF DoubleSwap, Doubling, TypeOK
  <2>3. /\ maxQueueSize \in Capacity /\ Grown(maxQueueSize) \in Capacity
        /\ maxQueueSize < Grown(maxQueueSize)
        /\ writeQueue \in {0, maxQueueSize}
    BY <2>2, CapacityFacts DEF CapacityInv, RoomToGrow, NewestIsCurrent, TypeOK
  <2>4. /\ Len(chan[Grown(maxQueueSize)]) = 0
        /\ writeQueue # 0 => Len(chan[writeQueue]) <= writeQueue /\ Len(chan[writeQueue]) \in Nat
    BY <2>3, Lengths DEF CapacityInv, WithinCapacity, Capacity
  <2>5. BothFit'
    <3>1. writeQueue < Grown(maxQueueSize)
      BY <2>3 DEF Capacity
    <3>2. writeQueue # 0 => Len(chan[writeQueue]) + Len(chan[Grown(maxQueueSize)]) <= writeQueue
      BY <2>3, <2>4 DEF Capacity
    <3>3. \A u \in Task : pc'[u] = "transfer" => u = t
      BY <2>1 DEF Doubling
    <3>4. QED
      BY <2>2, <3>1, <3>2, <3>3 DEF BothFit
  <2>6. MutexHeld' /\ RoomToGrow'
    BY <2>1, <2>2 DEF MutexHeld, RoomToGrow, Doubling
  <2>7. NewestIsCurrent'
    BY <2>2, <2>3 DEF NewestIsCurrent, Capacity
  <2>8. WithinCapacity'
    BY <2>2, <2>3 DEF CapacityInv, WithinCapacity, Capacity
  <2>9. ReplacedChannelsAreEmpty'
    <3>1. Transferring' /\ ~Transferring
      BY <2>1, <2>2 DEF Transferring, Doubling
    <3>2. QED
      BY <1>1, <2>2, <3>1 DEF CapacityInv, ReplacedChannelsAreEmpty
  <2>10. QED
    BY <2>5, <2>6, <2>7, <2>8, <2>9 DEF CapacityInv
<1>7. CASE DoubleTransfer(t)
  <2>1. /\ draining \in Capacity /\ writeQueue \in Capacity
        /\ writeQueue = maxQueueSize /\ draining < writeQueue
        /\ Len(chan[draining]) + Len(chan[writeQueue]) <= draining
        /\ chan[draining] # <<>>
        /\ pc[t] = "transfer"
        /\ UNCHANGED <<pc, writeQueue, maxQueueSize, capacityMutex, draining>>
    BY <1>7 DEF DoubleTransfer, HasRoom, CapacityInv, BothFit, TypeOK
  <2>2. draining \in Nat /\ writeQueue \in Nat /\ draining # writeQueue
    BY <2>1, CapacityFacts
  <2>3. /\ Len(Tail(chan[draining])) = Len(chan[draining]) - 1
        /\ Len(Append(chan[writeQueue], Head(chan[draining]))) = Len(chan[writeQueue]) + 1
    BY <2>1, HeadTailProperties, AppendProperties DEF TypeOK
  <2>4. chan' = [chan EXCEPT ![draining] = Tail(chan[draining]),
                             ![writeQueue] = Append(chan[writeQueue], Head(chan[draining]))]
    BY <1>7, <2>1, <2>2 DEF DoubleTransfer, TypeOK
  <2>5. /\ chan'[draining] = Tail(chan[draining])
        /\ chan'[writeQueue] = Append(chan[writeQueue], Head(chan[draining]))
        /\ \A c \in Capacity \ {draining, writeQueue} : chan'[c] = chan[c]
    BY <2>1, <2>2, <2>4 DEF TypeOK
  <2>6. /\ Len(chan'[draining]) = Len(chan[draining]) - 1
        /\ Len(chan'[writeQueue]) = Len(chan[writeQueue]) + 1
    BY <2>3, <2>5
  <2>7. /\ Len(chan[draining]) \in Nat /\ Len(chan[draining]) # 0
        /\ Len(chan[writeQueue]) \in Nat
    BY <2>1, Lengths
  <2>8. /\ Len(chan'[draining]) + Len(chan'[writeQueue]) <= draining
        /\ Len(chan'[draining]) <= draining
        /\ Len(chan'[writeQueue]) <= writeQueue
    <3>1. /\ Len(chan[draining]) + Len(chan[writeQueue]) <= draining
          /\ draining < writeQueue
      BY <2>1
    <3>2. /\ (Len(chan[draining]) - 1) + (Len(chan[writeQueue]) + 1) <= draining
          /\ Len(chan[draining]) - 1 <= draining
          /\ Len(chan[writeQueue]) + 1 <= writeQueue
      BY <2>2, <2>7, <3>1, OneMoves
    <3>3. QED
      BY <2>6, <3>2
  <2>9. BothFit'
    BY <2>1, <2>8 DEF CapacityInv, BothFit
  <2>10. WithinCapacity'
    <3>1. \A c \in Capacity \ {draining, writeQueue} :
            /\ Len(chan'[c]) <= c
            /\ c > maxQueueSize => Len(chan'[c]) = 0
      BY <2>5 DEF CapacityInv, WithinCapacity
    <3>2. ~(draining > maxQueueSize) /\ ~(writeQueue > maxQueueSize)
      BY <2>1, <2>2
    <3>3. QED
      BY <2>1, <2>8, <3>1, <3>2 DEF WithinCapacity
  <2>11. ReplacedChannelsAreEmpty'
    <3>1. Transferring'
      BY <2>1 DEF Transferring
    <3>2. QED
      BY <1>1, <2>1, <2>5, <3>1 DEF CapacityInv, ReplacedChannelsAreEmpty
  <2>12. MutexHeld' /\ RoomToGrow' /\ NewestIsCurrent'
    BY <1>1, <2>1 DEF CapacityInv, MutexHeld, RoomToGrow, NewestIsCurrent
  <2>13. QED
    BY <2>9, <2>10, <2>11, <2>12 DEF CapacityInv
<1>8. CASE DoubleUnlock(t)
  <2>1. \A u \in Task \ {t} : pc[u] \notin Doubling /\ pc'[u] \notin Doubling
    BY <1>3, <1>8 DEF DoubleUnlock, Doubling, TypeOK
  <2>2. /\ pc[t] = "transfer" /\ pc'[t] = "wake" /\ capacityMutex = t
        /\ draining # 0 => chan[draining] = <<>>
        /\ UNCHANGED <<chan, writeQueue, maxQueueSize, capacityMutex, draining>>
    BY <1>3, <1>8 DEF DoubleUnlock, Doubling, TypeOK
  <2>3. MutexHeld' /\ RoomToGrow' /\ BothFit'
    BY <2>1, <2>2 DEF MutexHeld, RoomToGrow, BothFit, Doubling
  <2>4. ReplacedChannelsAreEmpty'
    BY <1>1, <2>2 DEF CapacityInv, ReplacedChannelsAreEmpty, Capacity
  <2>5. QED
    BY <1>1, <2>2, <2>3, <2>4 DEF CapacityInv, NewestIsCurrent, WithinCapacity
<1>9. CASE DoubleWake(t)
  <2>1. \A u \in Task \ {t} : pc[u] \notin Doubling /\ pc'[u] \notin Doubling
    BY <1>3, <1>9 DEF DoubleWake, Doubling, TypeOK
  <2>2. /\ pc[t] = "wake" /\ pc'[t] = "retry"
        /\ UNCHANGED <<chan, writeQueue, maxQueueSize>>
    BY <1>9 DEF DoubleWake, TypeOK
  <2>3. ~Transferring
    BY <2>1, <2>2 DEF Transferring, Doubling
  <2>4. MutexHeld' /\ RoomToGrow' /\ BothFit'
    BY <2>1, <2>2 DEF MutexHeld, RoomToGrow, BothFit, Doubling
  <2>5. ReplacedChannelsAreEmpty'
    BY <1>1, <2>2, <2>3 DEF CapacityInv, ReplacedChannelsAreEmpty
  <2>6. QED
    BY <1>1, <2>2, <2>4, <2>5 DEF CapacityInv, NewestIsCurrent, WithinCapacity
<1>10. QED
  BY <1>4, <1>5, <1>6, <1>7, <1>8, <1>9 DEF Double
\* Every other step of a writer, and every step of the other goroutines, is quiet
LEMMA OtherStepsAreQuiet ==
  ASSUME TypeOK,
         \/ \E t \in Task : SendFull(t) \/ Track(t) \/ SyncResult(t)
         \/ Worker
         \/ Batch
         \/ \E w \in Waiter : Wait(w)
         \/ Closer
         \/ UNCHANGED vars
  PROVE  QuietStep
<1>1. ASSUME UNCHANGED <<pc, chan, writeQueue, maxQueueSize, capacityMutex, draining>>,
             closer = "down" => closer' = "down"
      PROVE  QuietStep
  BY <1>1 DEF QuietStep
<1>2. ASSUME NEW t \in Task, SendFull(t) \/ Track(t) \/ SyncResult(t)
      PROVE  QuietStep
  <2>1. UNCHANGED <<chan, writeQueue, maxQueueSize, capacityMutex, draining, closer>>
    BY <1>2 DEF SendFull, Track, SyncResult, queueVars, clientVars, closerVars
  <2>2. \E a \in WriterPC \ Doubling, b \in WriterPC \ Doubling :
          pc[t] = a /\ pc' = [pc EXCEPT ![t] = b]
    <3> USE DEF WriterPC, Doubling, AfterStore
    <3>1. CASE SendFull(t)
      BY <3>1 DEF SendFull
    <3>2. CASE Track(t)
      BY <3>2 DEF Track, StoreLookup, StoreOverwrite, StoreCount, SyncTimeout, SyncUncount
    <3>3. CASE SyncResult(t)
      BY <3>3 DEF SyncResult
    <3>4. QED
      BY <1>2, <3>1, <3>2, <3>3
  <2>3. \A u \in Task : pc'[u] = pc[u] \/ (pc[u] \notin Doubling /\ pc'[u] \notin Doubling)
    BY <2>2 DEF TypeOK
  <2>4. QED
    BY <2>1, <2>3 DEF QuietStep
<1>3. CASE Worker
  <2>1. UNCHANGED <<pc, writeQueue, maxQueueSize, capacityMutex, draining, closer>>
    BY <1>3 DEF Worker, writerVars, clientVars, closerVars
  <2>2. CASE WorkerReceive
    <3>1. \A c \in Capacity : \/ chan'[c] = chan[c]
                              \/ chan[c] # <<>> /\ Len(chan'[c]) = Len(chan[c]) - 1
      BY <2>2, ReceiveShrinks DEF WorkerReceive
    <3>2. QED
      BY <2>1, <3>1 DEF QuietStep
  <2>3. CASE UNCHANGED chan
    BY <1>1, <2>1, <2>3
  <2>4. QED
    BY <1>3, <2>2, <2>3
       DEF Worker, WorkerLoad, WorkerTimer, WorkerResize, WorkerStop, WorkerExit
<1>4. CASE Batch
  BY <1>1, <1>4 DEF Batch, queueVars, closerVars
<1>5. ASSUME NEW w \in Waiter, Wait(w)
      PROVE  QuietStep
  BY <1>1, <1>5 DEF Wait, writerVars, queueVars, closerVars
<1>6. CASE Closer
  <2>1. UNCHANGED <<pc, maxQueueSize, capacityMutex, draining>>
    BY <1>6 DEF Closer, writerVars
  <2>2. CASE DrainReceive \/ SerializeReceive
    <3>1. UNCHANGED <<writeQueue, closer>>
      BY <2>2 DEF DrainReceive, SerializeReceive, closerVars
    <3>2. \A c \in Capacity : \/ chan'[c] = chan[c]
                              \/ chan[c] # <<>> /\ Len(chan'[c]) = Len(chan[c]) - 1
      BY <2>2, ReceiveShrinks DEF DrainReceive, SerializeReceive
    <3>3. QED
      BY <2>1, <3>1, <3>2 DEF QuietStep
  <2>3. CASE CloseQueue
    BY <2>1, <2>3 DEF CloseQueue, QuietStep
  <2>4. CASE UNCHANGED <<chan, writeQueue>> /\ closer # "down"
    BY <1>1, <2>1, <2>4
  <2>5. CASE \/ FlushNothing \/ FlushStopWorker \/ DrainBegin \/ DrainEnd
             \/ ForceCollect \/ ForceBatch \/ FlushReturn
    BY <2>4, <2>5 DEF FlushNothing, FlushStopWorker, DrainBegin, DrainEnd,
                      ForceCollect, ForceBatch, FlushReturn
  <2>6. CASE \/ StopQueue \/ EmergencyStop \/ SerializePendingTasks
             \/ SerializeBegin \/ SerializeEnd
    BY <2>4, <2>6 DEF StopQueue, EmergencyStop, SerializePendingTasks,
                      SerializeBegin, SerializeEnd
  <2>7. QED
    BY <1>6, <2>2, <2>3, <2>5, <2>6 DEF Closer
<1>7. CASE UNCHANGED vars
  BY <1>1, <1>7 DEF vars, writerVars, queueVars, clientVars, closerVars
<1>8. QED
  BY <1>2, <1>3, <1>4, <1>5, <1>6, <1>7

LEMMA CapacityInit == Init => CapacityInv
<1> SUFFICES ASSUME Init PROVE CapacityInv
  OBVIOUS
<1>1. \A c \in Capacity : chan[c] = <<>> /\ Len(chan[c]) = 0
  BY EmptySeq DEF Init
<1>2. \A t \in Task : pc[t] = "start"
  BY DEF Init
<1>3. WithinCapacity /\ ReplacedChannelsAreEmpty
  BY <1>1, CapacityFacts DEF WithinCapacity, ReplacedChannelsAreEmpty
<1>4. MutexHeld /\ RoomToGrow /\ BothFit
  BY <1>2 DEF MutexHeld, RoomToGrow, BothFit, Doubling
<1>5. NewestIsCurrent
  BY QueueAssumption DEF Init, NewestIsCurrent
<1>6. QED
  BY <1>3, <1>4, <1>5 DEF CapacityInv

LEMMA CapacityStep ==
  ASSUME TypeOK, TypeOK', CapacityInv, [Next]_vars
  PROVE  CapacityInv'
<1>1. ASSUME NEW t \in Task, Send(t) PROVE CapacityInv'
  BY <1>1, SendKeepsCapacity
<1>2. ASSUME NEW t \in Task, Double(t) PROVE CapacityInv'
  BY <1>2, DoubleKeepsCapacity
<1>3. CASE \/ \E t \in Task : SendFull(t) \/ Track(t) \/ SyncResult(t)
           \/ Worker
           \/ Batch
           \/ \E w \in Waiter : Wait(w)
           \/ Closer
           \/ UNCHANGED vars
  BY <1>3, OtherStepsAreQuiet, QuietKeepsCapacity
<1>4. QED
  BY <1>1, <1>2, <1>3 DEF Next, Writer, AtRest

THEOREM CapacityCorrect == Spec => [](TypeOK /\ CapacityInv)
<1>1. TypeOK /\ CapacityInv /\ [Next]_vars => CapacityInv'
  BY CapacityStep, TypeStep
<1>2. TypeOK /\ [Next]_vars => TypeOK'
  BY TypeStep
<1>3. QED
  BY <1>1, <1>2, TypeInit, CapacityInit, PTL DEF Spec

\* The writer that doubles the queue never blocks while it holds writeQueueMu:
\* what the old channel held always fits in the new one (queue.go:400-417).
THEOREM DrainLoopNeverBlocks == Spec => []TransferNeverBlocks
<1>1. ASSUME TypeOK, CapacityInv PROVE TransferNeverBlocks
  <2> SUFFICES ASSUME NEW t \in Task, pc[t] = "transfer", draining # 0,
                      chan[draining] # <<>>
               PROVE  HasRoom
    BY DEF TransferNeverBlocks
  <2>1. /\ draining < writeQueue /\ draining \in Capacity
        /\ writeQueue = maxQueueSize /\ maxQueueSize \in Capacity
        /\ Len(chan[draining]) + Len(chan[writeQueue]) <= draining
    BY <1>1 DEF CapacityInv, BothFit, TypeOK
  <2>2. /\ Len(chan[draining]) \in Nat /\ Len(chan[draining]) # 0
        /\ Len(chan[writeQueue]) \in Nat
    BY <1>1, <2>1, Lengths
  <2>3. draining \in Nat /\ writeQueue \in Nat /\ writeQueue # 0
    BY <2>1, CapacityFacts
  <2>4. Len(chan[writeQueue]) + 1 <= writeQueue
    <3>1. /\ Len(chan[draining]) + Len(chan[writeQueue]) <= draining
          /\ draining < writeQueue
      BY <2>1
    <3>2. QED
      BY <2>2, <2>3, <3>1, OneMoves
  <2>5. QED
    BY <2>2, <2>3, <2>4 DEF HasRoom
<1>2. QED
  BY <1>1, CapacityCorrect, PTL

\* No task is left behind in a channel that was replaced, for any sequence of
\* doublings (queue.go:407-417).
THEOREM NothingLeftBehind == Spec => []ReplacedChannelsAreEmpty
<1>1. CapacityInv => ReplacedChannelsAreEmpty
  BY DEF CapacityInv
<1>2. QED
  BY <1>1, CapacityCorrect, PTL

-------------------------------------------------------------------------------
(* The worker and the channel it holds *)

LEMMA StrandedStep ==
  ASSUME TypeOK, TypeOK', NoStrandedWorker, [Next]_vars
  PROVE  NoStrandedWorker'
<1>1. ASSUME worker' = worker \/ worker' # "select",
             held'["worker"] = held["worker"], UNCHANGED writeQueue,
             resizeToken => resizeToken', stopped => stopped',
             \A t \in Task : pc[t] \in {"transfer", "wake"} => pc'[t] = pc[t]
      PROVE  NoStrandedWorker'
  BY <1>1 DEF NoStrandedWorker
<1>2. ASSUME NEW t \in Task, Send(t) \/ SendFull(t) \/ Track(t) \/ SyncResult(t)
      PROVE  NoStrandedWorker'
  <2>1. UNCHANGED <<worker, held, writeQueue, resizeToken, stopped>>
    BY <1>2 DEF Send, SendFull, Track, SyncResult, queueVars, consumerVars, workerVars
  <2>2. pc[t] \notin {"transfer", "wake"} /\ \A u \in Task \ {t} : pc'[u] = pc[u]
    BY <1>2 DEF Send, SendFull, Track, StoreLookup, StoreOverwrite, StoreCount,
                SyncTimeout, SyncUncount, SyncResult, TypeOK
  <2>3. QED
    BY <1>1, <2>1, <2>2
<1>3. ASSUME NEW t \in Task, Double(t)
      PROVE  NoStrandedWorker'
  <2>1. UNCHANGED <<worker, held, stopped>>
    BY <1>3 DEF Double, consumerVars, workerVars
  <2>2. CASE DoubleRefused(t) \/ DoubleBegin(t) \/ DoubleTransfer(t)
    BY <1>1, <2>1, <2>2 DEF DoubleRefused, DoubleBegin, DoubleTransfer, TypeOK
  <2>3. CASE DoubleSwap(t) \/ DoubleUnlock(t)
    <3>1. pc'[t] \in {"transfer", "wake"}
      BY <2>3 DEF DoubleSwap, DoubleUnlock, TypeOK
    <3>2. QED
      BY <3>1 DEF NoStrandedWorker
  <2>4. CASE DoubleWake(t)
    BY <2>4 DEF DoubleWake, NoStrandedWorker
  <2>5. QED
    BY <1>3, <2>2, <2>3, <2>4 DEF Double
<1>4. CASE Worker
  <2>1. UNCHANGED <<pc, writeQueue, stopped>>
    BY <1>4 DEF Worker, writerVars
  <2>2. CASE WorkerLoad
    BY <2>1, <2>2 DEF WorkerLoad, NoStrandedWorker, TypeOK
  <2>3. CASE ~WorkerLoad
    <3>1. worker' # "select"
      BY <1>4, <2>3 DEF Worker, WorkerReceive, WorkerTimer, WorkerResize,
                        WorkerStop, WorkerExit
    <3>2. QED
      BY <3>1 DEF NoStrandedWorker
  <2>4. QED
    BY <2>2, <2>3
<1>5. CASE Batch \/ (\E w \in Waiter : Wait(w)) \/ UNCHANGED vars
  <2>1. UNCHANGED <<pc, worker, held, writeQueue, resizeToken, stopped>>
    BY <1>5 DEF Batch, Wait, vars, writerVars, queueVars, consumerVars, workerVars
  <2>2. QED
    BY <1>1, <2>1
<1>6. CASE Closer
  <2>1. UNCHANGED <<pc, worker, resizeToken>>
    BY <1>6 DEF Closer, writerVars
  <2>2. held'["worker"] = held["worker"]
    BY <1>6 DEF Closer, FlushNothing, FlushStopWorker, DrainBegin, DrainReceive,
                DrainEnd, ForceCollect, ForceBatch, FlushReturn, StopQueue,
                CloseQueue, EmergencyStop, SerializePendingTasks, SerializeBegin,
                SerializeReceive, SerializeEnd, TypeOK
  <2>3. stopped => stopped'
    BY <1>6 DEF Closer, FlushNothing, FlushStopWorker, DrainBegin, DrainReceive,
                DrainEnd, ForceCollect, ForceBatch, FlushReturn, StopQueue,
                CloseQueue, EmergencyStop, SerializePendingTasks, SerializeBegin,
                SerializeReceive, SerializeEnd
  <2>4. CASE CloseQueue
    BY <2>1, <2>4 DEF CloseQueue, NoStrandedWorker
  <2>5. CASE ~CloseQueue
    <3>1. UNCHANGED writeQueue
      BY <1>6, <2>5
         DEF Closer, FlushNothing, FlushStopWorker, DrainBegin, DrainReceive,
             DrainEnd, ForceCollect, ForceBatch, FlushReturn, StopQueue,
             EmergencyStop, SerializePendingTasks, SerializeBegin,
             SerializeReceive, SerializeEnd
    <3>2. QED
      BY <1>1, <2>1, <2>2, <2>3, <3>1
  <2>6. QED
    BY <2>4, <2>5
<1>7. QED
  BY <1>2, <1>3, <1>4, <1>5, <1>6 DEF Next, Writer, AtRest

\* Whatever the order of doublings and select cycles, a worker blocked on a
\* replaced channel is going to be woken (queue.go:187-188, 421-424).
THEOREM WorkerIsNeverStranded == Spec => []NoStrandedWorker
<1>1. Init => NoStrandedWorker
  BY DEF Init, NoStrandedWorker
<1>2. TypeOK /\ NoStrandedWorker /\ [Next]_vars => NoStrandedWorker'
  BY TypeStep, StrandedStep
<1>3. QED
  BY <1>1, <1>2, TypeCorrect, PTL DEF Spec
=============================================================================
