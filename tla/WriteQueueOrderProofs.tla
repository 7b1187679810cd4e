------------------------- MODULE WriteQueueOrderProofs -------------------------
(***************************************************************************)
(* Proofs about where the tasks of WriteQueue are and in which order: no   *)
(* task is lost or duplicated, doublings keep the send order, and the      *)
(* queue implements AcceptedWrites, over growth and either shutdown; for   *)
(* any finite set of tasks, any ids and sizes.                             *)
(***************************************************************************)
EXTENDS WriteQueueResultsProofs, WellFoundedInduction

-------------------------------------------------------------------------------
(* Sequences of tasks *)

LEMMA LastIndex ==
  ASSUME NEW n \in Nat, NEW I \in SUBSET (1 .. n), I # {}
  PROVE  \E i \in I : \A j \in I : j <= i
<1> DEFINE T == {n - i : i \in I}
           R == OpToRel(<, Nat)
<1>1. T \subseteq Nat /\ T # {}
  <2>1. \A i \in I : n - i \in Nat
    OBVIOUS
  <2>2. PICK i \in I : TRUE
    OBVIOUS
  <2>3. n - i \in T
    BY <2>2
  <2> QED
    BY <2>1, <2>3
<1>2. IsWellFoundedOn(R, Nat)
  BY NatLessThanWellFounded
<1>3. PICK x \in T : \A y \in T : ~ (<<y, x>> \in R)
  <2> HIDE DEF T, R
  <2> QED
    BY <1>1, <1>2, WFMin
<1>4. \A y \in T : ~ (y < x)
  BY <1>1, <1>3 DEF OpToRel
<1>5. PICK i \in I : x = n - i
  OBVIOUS
<1>6. \A j \in I : ~ (n - j < n - i)
  BY <1>4, <1>5
<1> QED
  BY <1>6

LEMMA Added ==
  ASSUME NEW s \in Seq(Task), NEW t \in Task
  PROVE  /\ DOMAIN s = 1 .. Len(s) /\ Len(s) \in Nat
         /\ DOMAIN Append(s, t) = 1 .. Len(s) + 1
         /\ Append(s, t)[Len(s) + 1] = t
         /\ \A i \in 1 .. Len(s) : Append(s, t)[i] = s[i]
  BY AppendProperties

LEMMA Removed ==
  ASSUME NEW s \in Seq(Task), s # <<>>
  PROVE  /\ Len(s) \in Nat \ {0} /\ DOMAIN s = 1 .. Len(s) /\ Head(s) = s[1] /\ Head(s) \in Task
         /\ Tail(s) \in Seq(Task) /\ DOMAIN Tail(s) = 1 .. Len(s) - 1
         /\ \A i \in 1 .. Len(s) - 1 : Tail(s)[i] = s[i + 1]
         /\ ToSet(s) = {Head(s)} \cup ToSet(Tail(s))
<1>1. /\ Len(s) \in Nat \ {0} /\ DOMAIN s = 1 .. Len(s) /\ Head(s) = s[1]
      /\ s \in [1 .. Len(s) -> Task]
  BY HeadTailProperties, EmptySeq, LenProperties
<1>2. /\ Tail(s) \in Seq(Task) /\ Len(Tail(s)) = Len(s) - 1
      /\ \A i \in 1 .. Len(s) - 1 : Tail(s)[i] = s[i + 1]
  BY HeadTailProperties
<1>3. DOMAIN Tail(s) = 1 .. Len(s) - 1
  BY <1>2, LenProperties
<1>4. ToSet(s) = {Head(s)} \cup ToSet(Tail(s))
  <2>1. ASSUME NEW i \in 1 .. Len(s) PROVE s[i] \in {Head(s)} \cup ToSet(Tail(s))
    <3>1. CASE i = 1
      BY <1>1, <3>1
    <3>2. CASE i # 1
      <4>1. i - 1 \in 1 .. Len(s) - 1
        BY <1>1, <2>1, <3>2
      <4>2. Tail(s)[i - 1] = s[i]
        BY <1>1, <1>2, <4>1
      <4> QED
        BY <1>3, <4>1, <4>2 DEF ToSet
    <3> QED
      BY <3>1, <3>2
  <2>2. ASSUME NEW i \in 1 .. Len(s) - 1 PROVE Tail(s)[i] \in ToSet(s)
    BY <1>1, <1>2, <2>2 DEF ToSet
  <2>3. Head(s) \in ToSet(s)
    BY <1>1 DEF ToSet
  <2> QED
    BY <1>1, <1>3, <2>1, <2>2, <2>3 DEF ToSet
<1> QED
  BY <1>1, <1>2, <1>3, <1>4

-------------------------------------------------------------------------------
(* Channels keep the order in which tasks were sent *)

\* A call whose task is in no channel yet, or never will be
Unsent == {"start", "double", "swap", "transfer", "wake", "retry", "rejected"}
SentIsPast == \A t \in sent : pc[t] \notin Unsent
BufferedIsSent == \A c \in Capacity : Buffered(c) \subseteq sent

\* No task is twice in the channels
PositionsDiffer ==
  \A c, d \in Capacity : \A i \in DOMAIN chan[c], j \in DOMAIN chan[d] :
    chan[c][i] = chan[d][j] => c = d /\ i = j

OrderInv == SentIsPast /\ BufferedIsSent /\ PositionsDiffer /\ ChannelsKeepSendOrder

\* A step that only takes first tasks out of channels and begins no transfer
ShrinkStep ==
  /\ \A c \in Capacity : \/ chan'[c] = chan[c]
                         \/ chan[c] # <<>> /\ chan'[c] = Tail(chan[c])
  /\ UNCHANGED <<sent, prior>>
  /\ \A t \in Task : pc[t] \notin Unsent => pc'[t] \notin Unsent
  /\ Transferring' => Transferring /\ UNCHANGED <<writeQueue, draining>>

\* Where a task of a shrunk channel was before
LEMMA ShrunkFrom ==
  ASSUME TypeOK, ShrinkStep, NEW c \in Capacity
  PROVE  \E n \in {0, 1} : \A i \in DOMAIN chan'[c] :
           i + n \in DOMAIN chan[c] /\ chan'[c][i] = chan[c][i + n] /\ i \in Nat
<1>0. chan[c] \in Seq(Task)
  BY DEF TypeOK
<1>1. CASE chan'[c] = chan[c]
  <2>1. DOMAIN chan[c] \subseteq Nat
    BY <1>0, LenProperties
  <2>2. \A i \in DOMAIN chan'[c] : i + 0 = i /\ i \in Nat
    BY <1>1, <2>1
  <2> QED
    BY <1>1, <2>2
<1>2. CASE chan[c] # <<>> /\ chan'[c] = Tail(chan[c])
  <2>1. \A i \in DOMAIN chan'[c] : /\ i + 1 \in DOMAIN chan[c] /\ i \in Nat
                                   /\ chan'[c][i] = chan[c][i + 1]
    BY <1>0, <1>2, Removed
  <2> QED
    BY <2>1
<1> QED
  BY <1>1, <1>2 DEF ShrinkStep

LEMMA ShrunkBuffer ==
  ASSUME TypeOK, ShrinkStep, NEW c \in Capacity
  PROVE  Buffered(c)' \subseteq Buffered(c)
  BY ShrunkFrom DEF Buffered, ToSet

LEMMA TransferringChannels ==
  ASSUME TypeOK, CapacityInv, Transferring
  PROVE  /\ writeQueue \in Capacity
         /\ draining # 0 => draining \in Capacity /\ draining # writeQueue
<1>1. PICK t \in Task : pc[t] = "transfer"
  BY DEF Transferring
<1>2. writeQueue = maxQueueSize /\ draining < writeQueue
  BY <1>1 DEF CapacityInv, BothFit
<1>3. draining \in Nat /\ writeQueue \in Capacity /\ writeQueue \in Nat
  BY <1>2, CapacityFacts DEF TypeOK
<1> QED
  BY <1>2, <1>3 DEF TypeOK

LEMMA ShrinkKeepsOrder ==
  ASSUME TypeOK, CapacityInv, OrderInv, ShrinkStep
  PROVE  OrderInv'
<1>1. SentIsPast' /\ BufferedIsSent'
  BY ShrunkBuffer DEF OrderInv, SentIsPast, BufferedIsSent, ShrinkStep, TypeOK
<1>2. PositionsDiffer'
  <2> SUFFICES ASSUME NEW c \in Capacity, NEW d \in Capacity,
                      NEW i \in DOMAIN chan'[c], NEW j \in DOMAIN chan'[d], chan'[c][i] = chan'[d][j]
               PROVE  c = d /\ i = j
    BY DEF PositionsDiffer
  <2>1. PICK n \in {0, 1} : \A x \in DOMAIN chan'[c] :
               x + n \in DOMAIN chan[c] /\ chan'[c][x] = chan[c][x + n] /\ x \in Nat
    BY ShrunkFrom
  <2>2. PICK m \in {0, 1} : \A x \in DOMAIN chan'[d] :
               x + m \in DOMAIN chan[d] /\ chan'[d][x] = chan[d][x + m] /\ x \in Nat
    BY ShrunkFrom
  <2>3. c = d /\ i + n = j + m
    BY <2>1, <2>2 DEF OrderInv, PositionsDiffer
  <2>4. c = d => i + m \in DOMAIN chan[d] /\ chan'[c][i] = chan[d][i + m] /\ i \in Nat /\ j \in Nat
    BY <2>2
  <2>5. i + n = i + m
    BY <2>1, <2>3, <2>4 DEF OrderInv, PositionsDiffer
  <2> QED
    BY <2>1, <2>3, <2>4, <2>5
<1>3. ASSUME NEW c \in Capacity, NEW i \in DOMAIN chan'[c], NEW j \in DOMAIN chan'[c],
             i < j, KeyOf[chan'[c][i]] = KeyOf[chan'[c][j]]
      PROVE  chan'[c][i] \in prior'[chan'[c][j]]
  <2>1. PICK n \in {0, 1} : \A x \in DOMAIN chan'[c] :
               x + n \in DOMAIN chan[c] /\ chan'[c][x] = chan[c][x + n] /\ x \in Nat
    BY ShrunkFrom
  <2>2. i + n < j + n
    BY <1>3, <2>1
  <2> QED
    BY <1>3, <2>1, <2>2 DEF OrderInv, ChannelsKeepSendOrder, ShrinkStep
<1>4. ASSUME Transferring', draining' # 0, NEW t \in Buffered(writeQueue)',
             NEW u \in Buffered(draining)', KeyOf[t] = KeyOf[u]
      PROVE  t \in prior'[u]
  <2>1. Transferring /\ writeQueue' = writeQueue /\ draining' = draining /\ prior' = prior
    BY <1>4 DEF ShrinkStep
  <2>2. writeQueue \in Capacity /\ draining \in Capacity
    BY <1>4, <2>1, TransferringChannels
  <2>3. Buffered(writeQueue)' \subseteq Buffered(writeQueue) /\ Buffered(draining)' \subseteq Buffered(draining)
    BY <2>1, <2>2, ShrunkBuffer DEF Buffered
  <2> QED
    BY <1>4, <2>1, <2>3 DEF OrderInv, ChannelsKeepSendOrder
<1>5. ChannelsKeepSendOrder'
  BY <1>3, <1>4 DEF ChannelsKeepSendOrder
<1> QED
  BY <1>1, <1>2, <1>5 DEF OrderInv

LEMMA SendKeepsOrder ==
  ASSUME TypeOK, OrderInv, NEW t \in Task, Send(t)
  PROVE  OrderInv'
<1> DEFINE q == writeQueue
           n == Len(chan[q]) + 1
<1>0. /\ pc[t] \in {"start", "retry"} /\ ~Transferring /\ q \in Capacity
      /\ chan' = [chan EXCEPT ![q] = Append(@, t)] /\ pc' = [pc EXCEPT ![t] = "lookup"]
      /\ sent' = sent \cup {t} /\ prior' = [prior EXCEPT ![t] = {u \in sent : KeyOf[u] = KeyOf[t]}]
  BY DEF Send, HasRoom, ReadLockFree, Transferring, TypeOK
<1>1. t \notin sent /\ sent \subseteq Task /\ pc \in [Task -> WriterPC]
      /\ chan \in [Capacity -> Seq(Task)] /\ prior \in [Task -> SUBSET Task]
  BY <1>0 DEF OrderInv, SentIsPast, Unsent, TypeOK
<1>2. /\ DOMAIN chan[q] = 1 .. n - 1 /\ n - 1 \in Nat /\ n \in Nat
      /\ DOMAIN chan'[q] = 1 .. n /\ chan'[q][n] = t
      /\ \A i \in 1 .. n - 1 : chan'[q][i] = chan[q][i]
  <2>1. chan[q] \in Seq(Task) /\ chan'[q] = Append(chan[q], t)
    BY <1>0, <1>1
  <2>2. Len(chan[q]) = n - 1 /\ n \in Nat
    BY <2>1, Added
  <2> QED
    BY <2>1, <2>2, Added
<1>3. \A c \in Capacity \ {q} : chan'[c] = chan[c]
  BY <1>0, <1>1
<1> HIDE DEF q, n
<1>4. \A c \in Capacity : \A i \in DOMAIN chan'[c] :
        \/ i \in DOMAIN chan[c] /\ chan'[c][i] = chan[c][i] /\ chan[c][i] \in sent
        \/ c = q /\ i = n /\ chan'[c][i] = t
  <2>1. \A c \in Capacity : \A i \in DOMAIN chan[c] : chan[c][i] \in sent
    BY DEF OrderInv, BufferedIsSent, Buffered, ToSet
  <2> QED
    BY <1>2, <1>3, <2>1
<1>5. SentIsPast'
  BY <1>0, <1>1 DEF OrderInv, SentIsPast, Unsent
<1>6. BufferedIsSent'
  BY <1>0, <1>4 DEF BufferedIsSent, Buffered, ToSet
<1>7. PositionsDiffer'
  <2> SUFFICES ASSUME NEW c \in Capacity, NEW d \in Capacity,
                      NEW i \in DOMAIN chan'[c], NEW j \in DOMAIN chan'[d], chan'[c][i] = chan'[d][j]
               PROVE  c = d /\ i = j
    BY DEF PositionsDiffer
  <2>1. CASE chan'[c][i] = t
    BY <1>1, <1>4, <2>1
  <2>2. CASE chan'[c][i] # t
    <3>1. /\ i \in DOMAIN chan[c] /\ chan'[c][i] = chan[c][i]
          /\ j \in DOMAIN chan[d] /\ chan'[d][j] = chan[d][j]
      BY <1>4, <2>2
    <3>2. chan[c][i] = chan[d][j]
      BY <3>1
    <3>3. PositionsDiffer
      BY DEF OrderInv
    <3> QED
      BY <3>1, <3>2, <3>3 DEF PositionsDiffer
  <2> QED
    BY <2>1, <2>2
<1>8. ASSUME NEW c \in Capacity, NEW i \in DOMAIN chan'[c], NEW j \in DOMAIN chan'[c],
             i < j, KeyOf[chan'[c][i]] = KeyOf[chan'[c][j]]
      PROVE  chan'[c][i] \in prior'[chan'[c][j]]
  <2>1. CASE j \in DOMAIN chan[c] /\ chan'[c][j] = chan[c][j] /\ chan[c][j] \in sent
    <3>1. i \in DOMAIN chan[c] /\ chan'[c][i] = chan[c][i]
      BY <1>2, <1>4, <1>8, <2>1
    <3>2. prior'[chan[c][j]] = prior[chan[c][j]]
      BY <1>0, <1>1, <2>1
    <3> QED
      BY <1>8, <2>1, <3>1, <3>2 DEF OrderInv, ChannelsKeepSendOrder
  <2>2. CASE c = q /\ j = n /\ chan'[c][j] = t
    <3>1. i # n
      BY <1>2, <1>8, <2>2
    <3>2. chan'[c][i] \in sent
      BY <1>4, <3>1
    <3> QED
      BY <1>0, <1>1, <1>8, <2>2, <3>2
  <2> QED
    BY <1>4, <2>1, <2>2
<1>9. ~Transferring'
  BY <1>0, <1>1 DEF Transferring
<1> QED
  BY <1>5, <1>6, <1>7, <1>8, <1>9 DEF OrderInv, ChannelsKeepSendOrder

LEMMA SwapKeepsOrder ==
  ASSUME TypeOK, CapacityInv, OrderInv, NEW t \in Task, DoubleSwap(t), UNCHANGED <<sent, prior>>
  PROVE  OrderInv'
<1>1. /\ pc[t] = "swap" /\ pc' = [pc EXCEPT ![t] = "transfer"] /\ chan' = chan
      /\ writeQueue' = Grown(maxQueueSize)
  BY DEF DoubleSwap
<1>2. SentIsPast' /\ BufferedIsSent' /\ PositionsDiffer'
  BY <1>1 DEF OrderInv, SentIsPast, BufferedIsSent, PositionsDiffer, Unsent, Buffered, TypeOK
<1>3. maxQueueSize \in Capacity /\ maxQueueSize < MaxCapacity
  BY <1>1 DEF CapacityInv, RoomToGrow, TypeOK
<1>4. writeQueue' \in Capacity /\ writeQueue' > maxQueueSize
  BY <1>1, <1>3, CapacityFacts
<1>5. chan[writeQueue'] = <<>>
  BY <1>4, Lengths DEF CapacityInv, WithinCapacity
<1>6. Buffered(writeQueue)' = {}
  BY <1>1, <1>5 DEF Buffered, ToSet
<1> QED
  BY <1>1, <1>2, <1>6 DEF OrderInv, ChannelsKeepSendOrder

LEMMA TransferKeepsOrder ==
  ASSUME TypeOK, CapacityInv, OrderInv, NEW t \in Task, DoubleTransfer(t), UNCHANGED <<sent, prior>>
  PROVE  OrderInv'
<1> DEFINE q == writeQueue
           d == draining
           u == Head(chan[d])
           n == Len(chan[q]) + 1
<1>0. /\ Transferring /\ chan[d] # <<>> /\ draining # 0
      /\ chan' = [chan EXCEPT ![d] = Tail(@), ![q] = Append(@, u)]
      /\ UNCHANGED <<pc, writeQueue, draining>>
  BY DEF DoubleTransfer, Transferring
<1>1. q \in Capacity /\ d \in Capacity /\ d # q /\ chan \in [Capacity -> Seq(Task)]
  BY <1>0, TransferringChannels DEF TypeOK
<1>2. /\ u = chan[d][1] /\ u \in Task /\ 1 \in DOMAIN chan[d]
      /\ \A i \in DOMAIN chan'[d] : /\ i \in Nat \ {0} /\ i + 1 \in DOMAIN chan[d]
                                    /\ chan'[d][i] = chan[d][i + 1]
  <2>1. chan'[d] = Tail(chan[d]) /\ chan[d] \in Seq(Task)
    BY <1>0, <1>1
  <2>2. /\ Len(chan[d]) \in Nat \ {0} /\ DOMAIN chan[d] = 1 .. Len(chan[d])
        /\ u = chan[d][1] /\ u \in Task /\ DOMAIN chan'[d] = 1 .. Len(chan[d]) - 1
        /\ \A i \in 1 .. Len(chan[d]) - 1 : chan'[d][i] = chan[d][i + 1]
    BY <1>0, <2>1, Removed
  <2> HIDE DEF u, d
  <2> QED
    BY <2>2
<1>3. /\ DOMAIN chan[q] = 1 .. n - 1 /\ n - 1 \in Nat /\ n \in Nat
      /\ DOMAIN chan'[q] = 1 .. n /\ chan'[q][n] = u
      /\ \A i \in 1 .. n - 1 : chan'[q][i] = chan[q][i]
  <2>1. chan[q] \in Seq(Task) /\ chan'[q] = Append(chan[q], u)
    BY <1>0, <1>1
  <2>2. Len(chan[q]) = n - 1 /\ n \in Nat
    BY <2>1, <1>2, Added
  <2> QED
    BY <1>2, <2>1, <2>2, Added
<1>4. \A c \in Capacity \ {d, q} : chan'[c] = chan[c]
  BY <1>0, <1>1
<1> HIDE DEF q, d, u, n
\* Every task was at one position before, and no two came from the same
<1> DEFINE From(c, i) == IF c = d THEN <<d, i + 1>>
                         ELSE IF c = q /\ i = n THEN <<d, 1>> ELSE <<c, i>>
<1>5. ASSUME NEW c \in Capacity, NEW i \in DOMAIN chan'[c]
      PROVE  /\ From(c, i)[1] \in Capacity /\ From(c, i)[2] \in DOMAIN chan[From(c, i)[1]]
             /\ chan'[c][i] = chan[From(c, i)[1]][From(c, i)[2]]
  BY <1>1, <1>2, <1>3, <1>4, <1>5
<1>6. ASSUME NEW c \in Capacity, NEW i \in DOMAIN chan'[c],
             NEW e \in Capacity, NEW j \in DOMAIN chan'[e], From(c, i) = From(e, j)
      PROVE  c = e /\ i = j
  <2>1. CASE c = d /\ e = d
    BY <1>2, <1>6, <2>1
  <2>2. CASE c = d /\ e # d
    BY <1>1, <1>2, <1>6, <2>2
  <2>3. CASE c # d /\ e = d
    BY <1>1, <1>2, <1>6, <2>3
  <2>4. CASE c # d /\ e # d
    BY <1>1, <1>6, <2>4
  <2> QED
    BY <2>1, <2>2, <2>3, <2>4
<1>7. PositionsDiffer'
  <2> SUFFICES ASSUME NEW c \in Capacity, NEW e \in Capacity, NEW i \in DOMAIN chan'[c],
                      NEW j \in DOMAIN chan'[e], chan'[c][i] = chan'[e][j]
               PROVE  c = e /\ i = j
    BY DEF PositionsDiffer
  <2>1. From(c, i)[1] = From(e, j)[1] /\ From(c, i)[2] = From(e, j)[2]
    <3> HIDE DEF From
    <3> QED
      BY <1>5 DEF OrderInv, PositionsDiffer
  <2>2. From(c, i) = From(e, j)
    BY <2>1
  <2> QED
    BY <1>6, <2>2
<1>8. SentIsPast' /\ BufferedIsSent'
  <2>1. ASSUME NEW c \in Capacity, NEW i \in DOMAIN chan'[c] PROVE chan'[c][i] \in sent
    <3> HIDE DEF From
    <3> QED
      BY <1>5, <2>1 DEF OrderInv, BufferedIsSent, Buffered, ToSet
  <2> QED
    BY <1>0, <2>1 DEF OrderInv, SentIsPast, BufferedIsSent, Buffered, ToSet
\* What is in the new channel was sent before what is left in the old one
<1>9. ASSUME NEW i \in DOMAIN chan[q], NEW j \in DOMAIN chan[d], KeyOf[chan[q][i]] = KeyOf[chan[d][j]]
      PROVE  chan[q][i] \in prior[chan[d][j]]
  BY <1>0, <1>9 DEF OrderInv, ChannelsKeepSendOrder, Buffered, ToSet, q, d
<1>10. ASSUME NEW c \in Capacity, NEW i \in DOMAIN chan[c], NEW j \in DOMAIN chan[c],
              i < j, KeyOf[chan[c][i]] = KeyOf[chan[c][j]]
       PROVE  chan[c][i] \in prior[chan[c][j]]
  BY <1>10 DEF OrderInv, ChannelsKeepSendOrder
<1>11. ASSUME NEW c \in Capacity, NEW i \in DOMAIN chan'[c], NEW j \in DOMAIN chan'[c],
              i < j, KeyOf[chan'[c][i]] = KeyOf[chan'[c][j]]
       PROVE  chan'[c][i] \in prior[chan'[c][j]]
  <2>1. CASE c = d
    <3>1. i + 1 < j + 1
      BY <1>2, <1>11, <2>1
    <3> QED
      BY <1>1, <1>2, <1>10, <1>11, <2>1, <3>1
  <2>2. CASE c = q /\ j # n
    <3>1. i \in 1 .. n - 1 /\ j \in 1 .. n - 1
      BY <1>3, <1>11, <2>2
    <3> QED
      BY <1>1, <1>3, <1>10, <1>11, <2>2, <3>1
  <2>3. CASE c = q /\ j = n
    <3>1. i \in 1 .. n - 1
      BY <1>3, <1>11, <2>3
    <3> QED
      BY <1>2, <1>3, <1>9, <1>11, <2>3, <3>1
  <2>4. CASE c \notin {d, q}
    BY <1>4, <1>10, <1>11, <2>4
  <2> QED
    BY <2>1, <2>2, <2>3, <2>4
<1>12. ASSUME NEW i \in DOMAIN chan'[q], NEW j \in DOMAIN chan'[d],
              KeyOf[chan'[q][i]] = KeyOf[chan'[d][j]]
       PROVE  chan'[q][i] \in prior[chan'[d][j]]
  <2>1. CASE i # n
    <3>1. i \in 1 .. n - 1
      BY <1>3, <1>12, <2>1
    <3>2. /\ i \in DOMAIN chan[q] /\ chan'[q][i] = chan[q][i]
          /\ j + 1 \in DOMAIN chan[d] /\ chan'[d][j] = chan[d][j + 1]
      BY <1>2, <1>3, <3>1
    <3> QED
      BY <1>9, <1>12, <3>2
  <2>2. CASE i = n
    <3>1. 1 < j + 1 /\ j + 1 \in DOMAIN chan[d]
      BY <1>2
    <3> QED
      BY <1>1, <1>2, <1>3, <1>10, <1>12, <2>2, <3>1
  <2> QED
    BY <2>1, <2>2
<1>13. ChannelsKeepSendOrder'
  <2>1. writeQueue' = q /\ draining' = d /\ prior' = prior
    BY <1>0 DEF q, d
  <2>2. ASSUME NEW x \in Buffered(writeQueue)', NEW y \in Buffered(draining)', KeyOf[x] = KeyOf[y]
        PROVE  x \in prior[y]
    <3>1. PICK i \in DOMAIN chan'[q] : x = chan'[q][i]
      BY <2>1, <2>2 DEF Buffered, ToSet
    <3>2. PICK j \in DOMAIN chan'[d] : y = chan'[d][j]
      BY <2>1, <2>2 DEF Buffered, ToSet
    <3> QED
      BY <1>12, <2>2, <3>1, <3>2
  <2> QED
    BY <1>11, <2>1, <2>2 DEF ChannelsKeepSendOrder
<1> QED
  BY <1>7, <1>8, <1>13 DEF OrderInv

\* A receive is the only way a task leaves a channel
LEMMA ReceiveIsShrink ==
  ASSUME TypeOK, NEW g \in {"worker", "closer"}, CanReceive(g), Receive(g)
  PROVE  \A c \in Capacity : \/ chan'[c] = chan[c]
                             \/ chan[c] # <<>> /\ chan'[c] = Tail(chan[c])
  BY DEF CanReceive, Receive, TypeOK

LEMMA OthersShrink ==
  ASSUME TypeOK, CapacityInv,
         \/ \E t \in Task : \/ SendFull(t) \/ Track(t) \/ SyncResult(t)
                            \/ /\ DoubleRefused(t) \/ DoubleBegin(t) \/ DoubleUnlock(t) \/ DoubleWake(t)
                               /\ UNCHANGED <<sent, prior>>
         \/ Worker \/ Batch \/ Closer \/ (\E w \in Waiter : Wait(w)) \/ UNCHANGED vars
  PROVE  ShrinkStep
<1>0. pc \in [Task -> WriterPC]
  BY DEF TypeOK
<1>1. ASSUME NEW t \in Task,
             \/ SendFull(t) \/ Track(t) \/ SyncResult(t)
             \/ /\ DoubleRefused(t) \/ DoubleBegin(t) \/ DoubleUnlock(t)
                /\ UNCHANGED <<sent, prior>>
      PROVE  ShrinkStep
  <2>1. UNCHANGED <<chan, sent, prior, writeQueue, draining>>
    BY <1>1 DEF SendFull, Track, SyncResult, DoubleRefused, DoubleBegin, DoubleUnlock, queueVars
  <2>2. \A u \in Task : /\ pc[u] \notin Unsent => pc'[u] \notin Unsent
                        /\ pc'[u] = "transfer" => pc[u] = "transfer"
    BY <1>0, <1>1 DEF SendFull, Track, StoreLookup, StoreOverwrite, StoreCount, SyncTimeout,
       SyncUncount, AfterStore, SyncResult, DoubleRefused, DoubleBegin, DoubleUnlock, Unsent
  <2> QED
    BY <2>1, <2>2 DEF ShrinkStep, Transferring
<1>2. ASSUME NEW t \in Task, DoubleWake(t), UNCHANGED <<sent, prior>>
      PROVE  ShrinkStep
  <2>1. UNCHANGED chan /\ pc[t] = "wake" /\ pc' = [pc EXCEPT ![t] = "retry"]
    BY <1>2 DEF DoubleWake
  <2>2. ~Transferring
    BY <2>1 DEF CapacityInv, MutexHeld, Doubling, Transferring
  <2> QED
    BY <1>0, <1>2, <2>1, <2>2 DEF ShrinkStep, Transferring, Unsent
<1>3. ASSUME UNCHANGED <<pc, sent, prior, draining>>,
             writeQueue' = writeQueue \/ ReadLockFree,
             \A c \in Capacity : \/ chan'[c] = chan[c]
                                 \/ chan[c] # <<>> /\ chan'[c] = Tail(chan[c])
      PROVE  ShrinkStep
  BY <1>3 DEF ShrinkStep, Transferring, ReadLockFree
<1>4. CASE Batch \/ (\E w \in Waiter : Wait(w)) \/ UNCHANGED vars
  BY <1>3, <1>4 DEF Batch, Wait, vars, writerVars, queueVars
<1>5. CASE Worker
  <2>1. UNCHANGED <<pc, sent, prior, draining, writeQueue>>
    BY <1>5 DEF Worker, writerVars
  <2>2. chan' = chan \/ (CanReceive("worker") /\ Receive("worker"))
    BY <1>5 DEF Worker, WorkerLoad, WorkerReceive, WorkerTimer, WorkerResize, WorkerStop, WorkerExit
  <2> QED
    BY <1>3, <2>1, <2>2, ReceiveIsShrink
<1>6. CASE Closer
  <2>1. UNCHANGED <<pc, sent, prior, draining>>
    BY <1>6 DEF Closer, writerVars
  <2>2. /\ chan' = chan \/ (CanReceive("closer") /\ Receive("closer"))
        /\ writeQueue' = writeQueue \/ ReadLockFree
    BY <1>6 DEF Closer, FlushNothing, FlushStopWorker, DrainBegin, DrainReceive, DrainEnd,
       ForceCollect, ForceBatch, FlushReturn, StopQueue, CloseQueue, EmergencyStop,
       SerializePendingTasks, SerializeBegin, SerializeReceive, SerializeEnd
  <2> QED
    BY <1>3, <2>1, <2>2, ReceiveIsShrink
<1> QED
  BY <1>1, <1>2, <1>4, <1>5, <1>6

LEMMA NextKeepsOrder ==
  ASSUME TypeOK, CapacityInv, OrderInv, [Next]_vars
  PROVE  OrderInv'
<1>1. ASSUME NEW t \in Task, Double(t)
      PROVE  OrderInv'
  BY <1>1, SwapKeepsOrder, TransferKeepsOrder, OthersShrink, ShrinkKeepsOrder DEF Double
<1>2. CASE \/ \E t \in Task : SendFull(t) \/ Track(t) \/ SyncResult(t)
           \/ Worker \/ Batch \/ Closer \/ (\E w \in Waiter : Wait(w)) \/ UNCHANGED vars
  BY <1>2, OthersShrink, ShrinkKeepsOrder
<1> QED
  BY <1>1, <1>2, SendKeepsOrder DEF Next, Writer, AtRest

LEMMA OrderCorrect == Spec => [](TypeOK /\ CapacityInv /\ OrderInv)
<1>1. Init => OrderInv
  BY DEF Init, OrderInv, SentIsPast, BufferedIsSent, PositionsDiffer, ChannelsKeepSendOrder,
     Buffered, ToSet, Transferring
<1>2. (TypeOK /\ CapacityInv) /\ OrderInv /\ [Next]_vars => OrderInv'
  BY NextKeepsOrder
<1> QED
  BY <1>1, <1>2, CapacityCorrect, PTL DEF Spec

\* The writes of one id stay in the order they entered the queue, inside a channel
\* and across its replacement, while the worker receives from both
\* (queue.go:400-417).
THEOREM SendOrderIsKept == Spec => []ChannelsKeepSendOrder
<1>1. OrderInv => ChannelsKeepSendOrder
  BY DEF OrderInv
<1> QED
  BY <1>1, OrderCorrect, PTL

-------------------------------------------------------------------------------
(* Every task is in one place *)

InChannels == UNION {Buffered(c) : c \in Capacity}
Taken      == ToSet(batch) \cup failing \cup Settled

\* No forced pass was made: a shutdown with nothing to flush leaves the worker running
Unforced == closer \in AfterFlush \cup {"force"} => worker # "exited"

\* Nothing accepted disappears
Somewhere == sent \subseteq InChannels \cup Taken \cup saved
\* What was taken out of a channel is in none, before it is forced
TakenOnce == Taken \subseteq sent /\ (Unforced => Taken \cap InChannels = {})
\* The forced pass begins with an empty batch
PassBeginsEmpty == closer \in {"collect", "force"} /\ phase = "idle" => batch = <<>>

\* What is tracked as pending, or is to be forced, entered the queue
TrackedIsSent ==
  /\ PendingTasks \cup stuck \subseteq sent
  /\ \A t \in Task : pc[t] \in {"lookup", "overwrite"} => t \in sent
\* processBatch has returned for good once the worker has exited and no flush is on
ClosedIsIdle ==
  worker = "exited" /\ closer \notin {"drain", "collect", "force"} => phase = "idle"

PlaceInv == Somewhere /\ TakenOnce /\ PassBeginsEmpty /\ TrackedIsSent /\ ClosedIsIdle

\* What a step may do with tasks
TaskSent    == \E t \in Task \ sent : /\ sent' = sent \cup {t} /\ InChannels' = InChannels \cup {t}
                                      /\ Taken' = Taken /\ saved' = saved
TaskTaken   == \E t \in InChannels : /\ InChannels' = InChannels \ {t} /\ Taken' = Taken \cup {t}
                                     /\ UNCHANGED <<sent, saved>>
TaskSaved   == \E t \in InChannels : /\ InChannels' = InChannels \ {t} /\ saved' = saved \cup {t}
                                     /\ Taken' = Taken /\ sent' = sent
TasksStay   == InChannels' = InChannels /\ Taken' = Taken /\ sent' = sent /\ saved \subseteq saved'
TasksForced == /\ closer = "force" /\ worker = "exited" /\ InChannels' = InChannels
               /\ Taken \subseteq Taken' /\ Taken' \subseteq Taken \cup stuck
               /\ UNCHANGED <<sent, saved>>
TaskMove == TaskSent \/ TaskTaken \/ TaskSaved \/ TasksStay \/ TasksForced

LEMMA MoveKeepsPlace ==
  ASSUME OrderInv, Somewhere, TakenOnce, TrackedIsSent, TaskMove, Unforced' => Unforced
  PROVE  Somewhere' /\ TakenOnce'
<1>1. CASE TaskSent
  BY <1>1 DEF TaskSent, Somewhere, TakenOnce
<1>2. CASE TaskTaken
  <2>1. InChannels \subseteq sent
    BY DEF InChannels, OrderInv, BufferedIsSent
  <2> QED
    BY <1>2, <2>1 DEF TaskTaken, Somewhere, TakenOnce
<1>3. CASE TaskSaved
  BY <1>3 DEF TaskSaved, Somewhere, TakenOnce
<1>4. CASE TasksStay
  BY <1>4 DEF TasksStay, Somewhere, TakenOnce
<1>5. CASE TasksForced
  BY <1>5 DEF TasksForced, Somewhere, TakenOnce, TrackedIsSent, Unforced
<1> QED
  BY <1>1, <1>2, <1>3, <1>4, <1>5 DEF TaskMove

LEMMA ReceivePlace ==
  ASSUME TypeOK, OrderInv, NEW g \in {"worker", "closer"}, CanReceive(g), Receive(g)
  PROVE  /\ Head(chan[held[g]]) \in InChannels
         /\ InChannels' = InChannels \ {Head(chan[held[g]])}
<1> DEFINE d == held[g]
           h == Head(chan[d])
<1>1. d \in Capacity /\ chan[d] \in Seq(Task) /\ chan[d] # <<>> /\ chan' = [chan EXCEPT ![d] = Tail(@)]
  BY DEF CanReceive, Receive, TypeOK
<1>2. /\ h = chan[d][1] /\ 1 \in DOMAIN chan[d] /\ Buffered(d) = {h} \cup ToSet(Tail(chan[d]))
      /\ \A i \in DOMAIN Tail(chan[d]) : i + 1 \in DOMAIN chan[d] /\ Tail(chan[d])[i] = chan[d][i + 1]
                                         /\ i + 1 # 1
  <2> HIDE DEF d
  <2>1. /\ Len(chan[d]) \in Nat \ {0} /\ DOMAIN chan[d] = 1 .. Len(chan[d])
        /\ Head(chan[d]) = chan[d][1] /\ DOMAIN Tail(chan[d]) = 1 .. Len(chan[d]) - 1
        /\ \A i \in 1 .. Len(chan[d]) - 1 : Tail(chan[d])[i] = chan[d][i + 1]
        /\ ToSet(chan[d]) = {Head(chan[d])} \cup ToSet(Tail(chan[d]))
    BY <1>1, Removed
  <2> QED
    BY <2>1 DEF Buffered
<1>3. ToSet(chan'[d]) = ToSet(Tail(chan[d])) /\ \A c \in Capacity \ {d} : ToSet(chan'[c]) = Buffered(c)
  BY <1>1 DEF Buffered, TypeOK
<1> HIDE DEF d, h
<1>4. h \notin ToSet(Tail(chan[d]))
  BY <1>1, <1>2 DEF ToSet, OrderInv, PositionsDiffer
<1>5. \A c \in Capacity \ {d} : h \notin Buffered(c)
  BY <1>1, <1>2 DEF Buffered, ToSet, OrderInv, PositionsDiffer
<1>6. InChannels' = UNION {ToSet(chan'[c]) : c \in Capacity}
  BY DEF InChannels, Buffered
<1>7. h \in InChannels /\ InChannels' = InChannels \ {h}
  BY <1>1, <1>2, <1>3, <1>4, <1>5, <1>6 DEF InChannels
<1> QED
  BY <1>7 DEF d, h

LEMMA EntryTakes ==
  ASSUME BatchShape, phase = "idle", ProcessBatch(batch), UNCHANGED <<stored, failed>>
  PROVE  Taken' = Taken
  BY DEF BatchShape, ProcessBatch, Taken, Settled

LEMMA AddingTakes ==
  ASSUME TypeOK, BatchShape, phase = "idle", NEW t \in Task, AddToBatch(t), UNCHANGED <<stored, failed>>
  PROVE  Taken' = Taken \cup {t}
<1>1. failing = {} /\ ToSet(Append(batch, t)) = ToSet(batch) \cup {t}
  BY Appended DEF BatchShape, TypeOK
<1>2. batch' = Append(batch, t) /\ (failing' = failing \/ failing' = ToSet(batch') \cap Unstorable)
  BY DEF AddToBatch, ProcessBatch
<1> QED
  BY <1>1, <1>2 DEF Taken, Settled

LEMMA ReceiveMoves ==
  ASSUME TypeOK, BatchShape, OrderInv, NEW g \in {"worker", "closer"}, phase = "idle",
         CanReceive(g), Receive(g), AddToBatch(Head(chan[held[g]])),
         UNCHANGED <<sent, stored, failed, saved>>
  PROVE  TaskTaken
<1> DEFINE h == Head(chan[held[g]])
<1>1. h \in Task
  BY ReceiveType
<1>2. Taken' = Taken \cup {h}
  <2> HIDE DEF h
  <2>1. AddToBatch(h)
    BY DEF h
  <2> QED
    BY <1>1, <2>1, AddingTakes
<1> QED
  BY <1>2, ReceivePlace DEF TaskTaken

LEMMA BatchMoves ==
  ASSUME TypeOK, BatchShape, SettleInv, Batch
  PROVE  TasksStay
<1>0. UNCHANGED <<sent, saved, chan>>
  BY DEF Batch, queueVars, closerVars
<1>1. InChannels' = InChannels
  BY <1>0 DEF InChannels, Buffered
<1>2. ASSUME NEW u \in Task, RemoveFailed(u)
      PROVE  Taken' = Taken
  BY <1>2 DEF RemoveFailed, Taken, Settled
<1>3. ASSUME NEW k \in Key, RemoveSettled(k)
      PROVE  Taken' = Taken
  BY <1>3 DEF RemoveSettled, dbVars, Taken, Settled
<1>4. ASSUME NotifyRemoved PROVE Taken' = Taken
  BY <1>4 DEF NotifyRemoved, dbVars, Taken, Settled
<1>5. ASSUME FlushOk PROVE Taken' = Taken
  <2>1. /\ failing = {} /\ phase = "set" /\ failed' = failed /\ failing' = {} /\ batch' = <<>>
        /\ stored' = stored \cup (ToSet(batch) \ Unstorable)
    BY <1>5 DEF FlushOk, ReadyToFlush
  <2>2. ToSet(batch') = {}
    BY <2>1 DEF ToSet
  <2> QED
    BY <2>1, <2>2 DEF Taken, Settled, SettleInv, RefusedIsFailing
<1>6. ASSUME FlushError PROVE Taken' = Taken
  <2>1. /\ failing = {} /\ failed' = failed /\ failing' = ToSet(batch) /\ batch' = <<>>
    BY <1>6 DEF FlushError, ReadyToFlush
  <2>2. ToSet(batch') = {}
    BY <2>1 DEF ToSet
  <2>3. stored \subseteq stored' /\ stored' \subseteq stored \cup ToSet(batch)
    <3>1. PICK n \in 0 .. Len(batch) - 1 :
                 stored' = stored \cup (ToSet(SubSeq(batch, 1, n)) \ Unstorable)
      BY <1>6 DEF FlushError
    <3>2. ToSet(SubSeq(batch, 1, n)) \subseteq ToSet(batch)
      BY SubSeqProperties, LenProperties DEF TypeOK, ToSet
    <3> QED
      BY <3>1, <3>2
  <2> QED
    BY <2>1, <2>2, <2>3 DEF Taken, Settled
<1> QED
  BY <1>0, <1>1, <1>2, <1>3, <1>4, <1>5, <1>6 DEF Batch, TasksStay

LEMMA WorkerMovesTasks ==
  ASSUME TypeOK, ShapeInv, OrderInv, Worker
  PROVE  TaskMove
<1>0. UNCHANGED <<sent, saved, stored, failed>>
  BY DEF Worker, writerVars, dbVars, clientVars, closerVars
<1>1. CASE WorkerReceive
  BY <1>0, <1>1, ReceiveMoves DEF WorkerReceive, ShapeInv, OneRuns, TaskMove
<1>2. CASE ~WorkerReceive
  <2>1. UNCHANGED chan
    BY <1>2 DEF Worker, WorkerLoad, WorkerTimer, WorkerResize, WorkerStop, WorkerExit
  <2>2. Taken' = Taken
    <3>1. CASE UNCHANGED batchVars
      BY <1>0, <3>1 DEF batchVars, Taken, Settled
    <3>2. CASE WorkerTimer \/ WorkerStop
      BY <1>0, <3>2, EntryTakes DEF WorkerTimer, WorkerStop, ShapeInv, OneRuns
    <3> QED
      BY <1>2, <3>1, <3>2 DEF Worker, WorkerLoad, WorkerResize, WorkerExit
  <2> QED
    BY <1>0, <2>1, <2>2 DEF TaskMove, TasksStay, InChannels, Buffered
<1> QED
  BY <1>1, <1>2

LEMMA CloserMovesTasks ==
  ASSUME TypeOK, ShapeInv, OrderInv, PassBeginsEmpty, Closer
  PROVE  TaskMove
<1>0. UNCHANGED <<sent, stored, failed>>
  BY DEF Closer, writerVars, dbVars
<1>1. CASE DrainReceive
  BY <1>0, <1>1, ReceiveMoves DEF DrainReceive, InsideBatch, ShapeInv, TaskMove, closerVars
<1>2. CASE SerializeReceive
  <2>1. Taken' = Taken
    BY <1>0, <1>2 DEF SerializeReceive, batchVars, Taken, Settled
  <2> QED
    BY <1>0, <1>2, <2>1, ReceivePlace DEF SerializeReceive, TaskMove, TaskSaved
<1>3. CASE ForceBatch
  <2>1. closer = "force" /\ worker = "exited" /\ phase = "idle" /\ UNCHANGED <<chan, saved>>
    BY <1>3 DEF ForceBatch, InsideBatch, ShapeInv, OneRuns
  <2>2. failing = {} /\ batch = <<>>
    BY <2>1 DEF PassBeginsEmpty, ShapeInv, BatchShape
  <2>3. Taken \subseteq Taken' /\ Taken' \subseteq Taken \cup stuck
    <3>1. PICK s \in Chunks : ProcessBatch(s)
      BY <1>3 DEF ForceBatch
    <3>2. ToSet(s) \subseteq stuck
      BY DEF Chunks, ToSet
    <3>3. ToSet(batch') \cup failing' \subseteq stuck
      BY <3>1, <3>2 DEF ProcessBatch
    <3> QED
      BY <1>0, <2>2, <3>3 DEF Taken, Settled, ToSet
  <2> QED
    BY <1>0, <2>1, <2>3 DEF TaskMove, TasksForced, InChannels, Buffered
<1>4. CASE ~DrainReceive /\ ~SerializeReceive /\ ~ForceBatch
  <2>1. UNCHANGED chan /\ saved \subseteq saved'
    BY Closer, <1>4 DEF Closer, FlushNothing, FlushStopWorker, DrainBegin, DrainEnd,
       ForceCollect, FlushReturn, StopQueue, CloseQueue, EmergencyStop, SerializePendingTasks,
       SerializeBegin, SerializeEnd
  <2>2. Taken' = Taken
    <3>1. CASE UNCHANGED batchVars
      BY <1>0, <3>1 DEF batchVars, Taken, Settled
    <3>2. CASE DrainEnd
      BY <1>0, <3>2, EntryTakes DEF DrainEnd, InsideBatch, ShapeInv
    <3> QED
      BY Closer, <1>4, <3>1, <3>2 DEF Closer, FlushNothing, FlushStopWorker, DrainBegin,
         ForceCollect, FlushReturn, StopQueue, CloseQueue, EmergencyStop, SerializePendingTasks,
         SerializeBegin, SerializeEnd
  <2> QED
    BY <1>0, <2>1, <2>2 DEF TaskMove, TasksStay, InChannels, Buffered
<1> QED
  BY <1>1, <1>2, <1>3, <1>4

LEMMA SendMovesTask ==
  ASSUME TypeOK, OrderInv, NEW t \in Task, Send(t)
  PROVE  TaskSent
<1>1. /\ writeQueue \in Capacity /\ chan' = [chan EXCEPT ![writeQueue] = Append(@, t)]
      /\ sent' = sent \cup {t} /\ t \notin sent
  BY DEF Send, HasRoom, TypeOK, OrderInv, SentIsPast, Unsent
<1>2. /\ ToSet(chan'[writeQueue]) = Buffered(writeQueue) \cup {t}
      /\ \A c \in Capacity \ {writeQueue} : ToSet(chan'[c]) = Buffered(c)
  BY <1>1, Appended DEF TypeOK, Buffered
<1>3. InChannels' = UNION {ToSet(chan'[c]) : c \in Capacity}
  BY DEF InChannels, Buffered
<1>4. InChannels' = InChannels \cup {t}
  BY <1>1, <1>2, <1>3 DEF InChannels
<1>5. Taken' = Taken /\ saved' = saved
  BY DEF Send, consumerVars, batchVars, dbVars, clientVars, closerVars, Taken, Settled
<1> QED
  BY <1>1, <1>4, <1>5 DEF TaskSent

LEMMA DoubleMovesTasks ==
  ASSUME TypeOK, CapacityInv, NEW t \in Task, Double(t)
  PROVE  TasksStay
<1>1. sent' = sent /\ saved' = saved /\ Taken' = Taken
  BY DEF Double, consumerVars, batchVars, dbVars, clientVars, closerVars, Taken, Settled
<1>2. CASE chan' = chan
  BY <1>1, <1>2 DEF TasksStay, InChannels, Buffered
<1>3. CASE DoubleTransfer(t)
  <2> DEFINE q == writeQueue
             d == draining
             u == Head(chan[d])
  <2>1. /\ Transferring /\ draining # 0 /\ chan[d] # <<>>
        /\ chan' = [chan EXCEPT ![d] = Tail(@), ![q] = Append(@, u)]
    BY <1>3 DEF DoubleTransfer, Transferring
  <2>2. q \in Capacity /\ d \in Capacity /\ d # q /\ chan \in [Capacity -> Seq(Task)]
    BY <2>1, TransferringChannels DEF TypeOK
  <2>3. chan'[d] = Tail(chan[d]) /\ chan'[q] = Append(chan[q], u)
        /\ \A c \in Capacity \ {d, q} : chan'[c] = chan[c]
    BY <2>1, <2>2
  <2>4. u \in Task /\ ToSet(chan[d]) = {u} \cup ToSet(chan'[d])
    BY <2>1, <2>2, <2>3, Removed
  <2>5. ToSet(chan'[q]) = ToSet(chan[q]) \cup {u}
    <3> HIDE DEF q, d, u
    <3> QED
      BY <2>2, <2>3, <2>4, Appended
  <2>6. /\ InChannels = UNION {ToSet(chan[c]) : c \in Capacity}
        /\ InChannels' = UNION {ToSet(chan'[c]) : c \in Capacity}
    BY DEF InChannels, Buffered
  <2> HIDE DEF q, d, u
  <2>7. \A x : (\E c \in Capacity : x \in ToSet(chan'[c])) <=> (\E c \in Capacity : x \in ToSet(chan[c]))
    BY <2>2, <2>3, <2>4, <2>5
  <2>8. InChannels' = InChannels
    BY <2>6, <2>7
  <2> QED
    BY <1>1, <2>8 DEF TasksStay
<1> QED
  BY <1>2, <1>3 DEF Double, DoubleRefused, DoubleBegin, DoubleSwap, DoubleUnlock, DoubleWake

LEMMA NextMovesTasks ==
  ASSUME TypeOK, CapacityInv, ShapeInv, SettleInv, OrderInv, PassBeginsEmpty, [Next]_vars
  PROVE  TaskMove
<1>1. ASSUME UNCHANGED <<chan, sent, saved, batchVars, stored, failed>>
      PROVE  TaskMove
  BY <1>1 DEF TaskMove, TasksStay, InChannels, Buffered, Taken, Settled, batchVars
<1>2. ASSUME NEW t \in Task, SendFull(t) \/ Track(t) \/ SyncResult(t)
      PROVE  TaskMove
  BY <1>1, <1>2 DEF SendFull, Track, SyncResult, queueVars, consumerVars, dbVars, clientVars, closerVars
<1>3. CASE (\E w \in Waiter : Wait(w)) \/ UNCHANGED vars
  BY <1>1, <1>3 DEF Wait, vars, writerVars, queueVars, consumerVars, dbVars, clientVars, closerVars
<1> QED
  BY <1>2, <1>3, SendMovesTask, DoubleMovesTasks, BatchMoves, WorkerMovesTasks, CloserMovesTasks
     DEF Next, AtRest, Writer, TaskMove, ShapeInv

\* A worker that has exited stays so
LEMMA ExitIsFinal ==
  ASSUME [Next]_vars, worker = "exited"
  PROVE  worker' = "exited" /\ ~Worker
<1>1. ~Worker
  BY DEF Worker, WorkerLoad, WorkerReceive, WorkerTimer, WorkerResize, WorkerStop, WorkerExit
<1>2. CASE Batch \/ Closer
  BY <1>1, <1>2 DEF Batch, Closer, workerVars
<1> QED
  BY <1>1, <1>2, OthersKeepBatch DEF Next, AtRest, workerVars

\* Nothing returns to the time before the forced pass
LEMMA ForcingIsFinal ==
  ASSUME [Next]_vars, Unforced'
  PROVE  Unforced
<1>1. closer \in AfterFlush \cup {"force"} => closer' \in AfterFlush \cup {"force"}
  <2>1. CASE Closer
    BY <2>1 DEF Closer, FlushNothing, FlushStopWorker, DrainBegin, DrainReceive, DrainEnd,
       ForceCollect, ForceBatch, FlushReturn, StopQueue, CloseQueue, EmergencyStop, closerVars,
       SerializePendingTasks, SerializeBegin, SerializeReceive, SerializeEnd, AfterFlush
  <2> QED
    BY <2>1, CloserAlone DEF closerVars
<1> QED
  BY <1>1, ExitIsFinal DEF Unforced

LEMMA NextKeepsPassEmpty ==
  ASSUME TypeOK, ShapeInv, PassBeginsEmpty, [Next]_vars
  PROVE  PassBeginsEmpty'
<1>1. CASE Batch
  <2>1. UNCHANGED closer
    BY <1>1 DEF Batch, closerVars
  <2>2. phase' = "idle" => batch' = <<>>
    BY <1>1 DEF Batch, RemoveFailed, RemoveSettled, NotifyRemoved, FlushOk, FlushError,
       ReadyToFlush, InsideBatch, ShapeInv, BatchShape
  <2> QED
    BY <2>1, <2>2 DEF PassBeginsEmpty
<1>2. CASE Worker
  BY <1>2 DEF Worker, clientVars, closerVars, WorkerLoad, WorkerReceive, WorkerTimer, WorkerResize,
     WorkerStop, WorkerExit, ShapeInv, OneRuns, PassBeginsEmpty
<1>3. CASE Closer
  <2>1. CASE DrainEnd \/ ForceBatch
    BY <2>1 DEF DrainEnd, ForceBatch, ProcessBatch, PassBeginsEmpty
  <2>2. CASE ~DrainEnd /\ ~ForceBatch
    BY <1>3, <2>2 DEF Closer, FlushNothing, FlushStopWorker, DrainBegin, DrainReceive,
       ForceCollect, FlushReturn, StopQueue, CloseQueue, EmergencyStop, closerVars, batchVars,
       SerializePendingTasks, SerializeBegin, SerializeReceive, SerializeEnd, PassBeginsEmpty
  <2> QED
    BY <2>1, <2>2
<1>4. CASE (\E t \in Task : Writer(t)) \/ (\E w \in Waiter : Wait(w)) \/ UNCHANGED vars
  BY <1>4, OthersKeepBatch DEF batchVars, closerVars, PassBeginsEmpty
<1> QED
  BY <1>1, <1>2, <1>3, <1>4 DEF Next, AtRest

LEMMA NextKeepsTracked ==
  ASSUME TypeOK, TrackedIsSent, [Next]_vars
  PROVE  TrackedIsSent'
<1>0. /\ pendingItems \in [Key -> TaskOrNone] /\ KeyOf \in [Task -> Key] /\ pc \in [Task -> WriterPC]
      /\ None \notin Task
  BY QueueAssumption DEF TypeOK
<1>1. ASSUME \A k \in Key : pendingItems'[k] \in sent' \cup {None, pendingItems[k]},
             \A t \in Task : pc'[t] \in {"lookup", "overwrite"} => t \in sent',
             stuck' \subseteq stuck \cup PendingTasks, sent \subseteq sent'
      PROVE  TrackedIsSent'
  BY <1>1 DEF TrackedIsSent, PendingTasks, Pending
<1>2. ASSUME UNCHANGED <<pendingItems, stuck>>, sent \subseteq sent',
             \A t \in Task : pc'[t] \in {"lookup", "overwrite"} => pc'[t] = pc[t] \/ t \in sent'
      PROVE  TrackedIsSent'
  BY <1>1, <1>2 DEF TrackedIsSent
<1>3. ASSUME NEW t \in Task, Track(t)
      PROVE  TrackedIsSent'
  <2>1. UNCHANGED <<stuck, sent>>
    BY <1>3 DEF Track, clientVars, closerVars
  <2>2. CASE StoreLookup(t) \/ StoreOverwrite(t)
    <3>1. pc[t] \in {"lookup", "overwrite"}
      BY <2>2 DEF StoreLookup, StoreOverwrite
    <3>2. t \in sent
      BY <3>1 DEF TrackedIsSent
    <3>3. \A k \in Key : pendingItems'[k] \in {t, pendingItems[k]}
      BY <1>0, <2>2 DEF StoreLookup, StoreOverwrite
    <3>4. \A u \in Task \ {t} : pc'[u] = pc[u]
      BY <1>0, <2>2 DEF StoreLookup, StoreOverwrite
    <3> QED
      BY <1>1, <2>1, <3>2, <3>3, <3>4 DEF TrackedIsSent
  <2>3. CASE StoreCount(t) \/ SyncTimeout(t) \/ SyncUncount(t)
    <3>1. \A k \in Key : pendingItems'[k] \in {None, pendingItems[k]}
      BY <1>0, <2>3 DEF StoreCount, SyncTimeout, SyncUncount
    <3>2. \A u \in Task : pc'[u] \in {"lookup", "overwrite"} => pc'[u] = pc[u]
      BY <1>0, <2>3 DEF StoreCount, AfterStore, SyncTimeout, SyncUncount
    <3> QED
      BY <1>1, <2>1, <3>1, <3>2 DEF TrackedIsSent
  <2> QED
    BY <1>3, <2>2, <2>3 DEF Track
<1>4. ASSUME NEW t \in Task, Send(t) \/ SendFull(t) \/ Double(t) \/ SyncResult(t)
      PROVE  TrackedIsSent'
  <2>1. UNCHANGED <<pendingItems, stuck>>
    BY <1>4 DEF Send, SendFull, Double, SyncResult, pendingVars, clientVars, closerVars
  <2>2. /\ sent \subseteq sent'
        /\ \A u \in Task : pc'[u] \in {"lookup", "overwrite"} => pc'[u] = pc[u] \/ u \in sent'
    BY <1>0, <1>4 DEF Send, SendFull, Double, DoubleRefused, DoubleBegin, DoubleSwap, DoubleTransfer,
       DoubleUnlock, DoubleWake, SyncResult
  <2> QED
    BY <1>2, <2>1, <2>2
<1>5. CASE Batch
  <2>1. UNCHANGED <<stuck, sent, pc>>
    BY <1>5 DEF Batch, closerVars
  <2>2. \A k \in Key : pendingItems'[k] \in {None, pendingItems[k]}
    BY <1>0, <1>5 DEF Batch, RemoveFailed, RemoveSettled, NotifyRemoved, FlushOk, FlushError, pendingVars
  <2> QED
    BY <1>1, <2>1, <2>2 DEF TrackedIsSent
<1>6. CASE Closer
  <2>1. UNCHANGED <<pendingItems, sent, pc>>
    BY <1>6 DEF Closer, pendingVars, writerVars
  <2>2. stuck' \subseteq stuck \cup PendingTasks
    BY <1>6 DEF Closer, FlushNothing, FlushStopWorker, DrainBegin, DrainReceive, DrainEnd,
       ForceCollect, ForceBatch, FlushReturn, StopQueue, CloseQueue, EmergencyStop, closerVars,
       SerializePendingTasks, SerializeBegin, SerializeReceive, SerializeEnd
  <2> QED
    BY <1>1, <2>1, <2>2 DEF TrackedIsSent
<1>7. CASE Worker \/ (\E w \in Waiter : Wait(w)) \/ UNCHANGED vars
  BY <1>2, <1>7 DEF Worker, Wait, vars, pendingVars, writerVars, clientVars, closerVars
<1> QED
  BY <1>3, <1>4, <1>5, <1>6, <1>7 DEF Next, AtRest, Writer

LEMMA NextKeepsClosedIdle ==
  ASSUME ShapeInv, ClosedIsIdle, [Next]_vars
  PROVE  ClosedIsIdle'
<1>1. CASE Batch
  <2>1. UNCHANGED <<worker, closer>> /\ phase # "idle"
    BY <1>1 DEF Batch, workerVars, closerVars, RemoveFailed, RemoveSettled, NotifyRemoved, FlushOk,
       FlushError, ReadyToFlush, InsideBatch, ShapeInv, BatchShape
  <2> QED
    BY <2>1 DEF ClosedIsIdle
<1>2. CASE Worker
  <2>1. UNCHANGED closer
    BY <1>2 DEF Worker, clientVars, closerVars
  <2>2. worker' = "exited" => phase' = "idle"
    BY <1>2 DEF Worker, WorkerLoad, WorkerReceive, WorkerTimer, WorkerResize, WorkerStop, WorkerExit,
       InsideBatch, batchVars
  <2> QED
    BY <2>1, <2>2 DEF ClosedIsIdle
<1>3. CASE Closer
  <2>1. UNCHANGED worker
    BY <1>3 DEF Closer
  <2>2. CASE DrainReceive \/ DrainEnd \/ ForceBatch
    BY <2>2 DEF DrainReceive, DrainEnd, ForceBatch, closerVars, ClosedIsIdle
  <2>3. CASE ~DrainReceive /\ ~DrainEnd /\ ~ForceBatch
    BY <1>3, <2>1, <2>3 DEF Closer, FlushNothing, FlushStopWorker, DrainBegin, ForceCollect,
       FlushReturn, StopQueue, CloseQueue, EmergencyStop, SerializePendingTasks, SerializeBegin,
       SerializeReceive, SerializeEnd, batchVars, InsideBatch, ClosedIsIdle
  <2> QED
    BY <2>2, <2>3
<1> QED
  BY <1>1, <1>2, <1>3, OthersKeepBatch DEF Next, AtRest, workerVars, batchVars, closerVars, ClosedIsIdle

LEMMA PlaceCorrect == Spec => [](TypeOK /\ CapacityInv /\ ShapeInv /\ SettleInv /\ OrderInv /\ PlaceInv)
<1>1. Init => PlaceInv
  <2>1. Init => Somewhere /\ TakenOnce /\ PassBeginsEmpty
    BY DEF Init, Somewhere, TakenOnce, PassBeginsEmpty, Taken, Settled, InChannels, Buffered, ToSet
  <2>2. Init => TrackedIsSent /\ ClosedIsIdle
    BY DEF Init, TrackedIsSent, ClosedIsIdle, PendingTasks, Pending
  <2> QED
    BY <2>1, <2>2 DEF PlaceInv
<1>2. ASSUME TypeOK, CapacityInv, ShapeInv, SettleInv, OrderInv, PlaceInv, [Next]_vars
      PROVE  PlaceInv'
  BY <1>2, NextMovesTasks, ForcingIsFinal, MoveKeepsPlace, NextKeepsPassEmpty, NextKeepsTracked,
     NextKeepsClosedIdle DEF PlaceInv
<1> QED
  BY <1>1, <1>2, SettledCorrect, OrderCorrect, PTL DEF Spec

\* No doubling, batch, failed flush or shutdown loses an accepted task or takes one
\* twice out of the channels (queue.go:364-417).
THEOREM EveryTaskInOnePlace == Spec => []TaskInOnePlace
<1>1. ASSUME TypeOK, CapacityInv, OrderInv, PlaceInv
      PROVE  TaskInOnePlace
  <2> SUFFICES ASSUME NEW t \in sent
               PROVE  /\ Positions(t) # {} \/ Consumed(t) \/ t \in saved
                      /\ Cardinality(Positions(t)) <= 1
                      /\ closer \in {"idle", "join", "drain", "collect"}
                           => ~(Positions(t) # {} /\ Consumed(t))
    BY DEF TaskInOnePlace
  <2>1. ASSUME NEW c \in Capacity, NEW i \in DOMAIN chan[c]
        PROVE  i \in 1 .. MaxCapacity
    <3>1. /\ chan[c] \in Seq(Task) /\ Len(chan[c]) <= c /\ c \in 1 .. MaxCapacity
          /\ MaxCapacity \in Nat
      BY <1>1, CapacityFacts DEF TypeOK, CapacityInv, WithinCapacity, Capacity
    <3>2. Len(chan[c]) \in Nat /\ i \in 1 .. Len(chan[c])
      BY <3>1, LenProperties
    <3> QED
      BY <3>1, <3>2
  <2>2. Positions(t) # {} <=> t \in InChannels
    <3>1. t \in InChannels <=> \E c \in Capacity : \E i \in DOMAIN chan[c] : chan[c][i] = t
      BY DEF InChannels, Buffered, ToSet
    <3>2. \A p : p \in Positions(t) => p[1] \in Capacity /\ p[2] \in DOMAIN chan[p[1]] /\ chan[p[1]][p[2]] = t
      BY DEF Positions
    <3>3. ASSUME NEW c \in Capacity, NEW i \in DOMAIN chan[c], chan[c][i] = t
          PROVE  <<c, i>> \in Positions(t)
      BY <2>1, <3>3 DEF Positions
    <3> QED
      BY <3>1, <3>2, <3>3
  <2>3. Consumed(t) <=> t \in Taken
    BY DEF Consumed, Taken
  <2>4. \A p, q \in Positions(t) : p = q
    BY <1>1 DEF Positions, OrderInv, PositionsDiffer
  <2>5. Cardinality(Positions(t)) <= 1
    <3>1. CASE Positions(t) = {}
      BY <3>1, FS_EmptySet
    <3>2. CASE Positions(t) # {}
      <4>1. PICK p : Positions(t) = {p}
        BY <2>4, <3>2
      <4> QED
        BY <4>1, FS_Singleton
    <3> QED
      BY <3>1, <3>2
  <2> QED
    BY <1>1, <2>2, <2>3, <2>5 DEF PlaceInv, Somewhere, TakenOnce, Unforced, AfterFlush
<1> QED
  BY <1>1, PlaceCorrect, PTL

-------------------------------------------------------------------------------
(* The queue implements AcceptedWrites *)

\* A task of the batch under way was neither committed nor given up, unless refused
BatchIsFresh ==
  Unforced =>
    /\ phase = "idle" => ToSet(batch) \cap Settled = {}
    /\ phase = "set"  => /\ failing \subseteq Unstorable
                         /\ ToSet(batch) \cap stored = {}
                         /\ ToSet(batch) \cap failed \subseteq Unstorable

LEMMA BatchKeepsFresh ==
  ASSUME BatchShape, BatchIsFresh, Batch
  PROVE  BatchIsFresh'
<1>0. Unforced' <=> Unforced
  BY DEF Batch, closerVars, workerVars, Unforced
<1>1. ASSUME NEW u \in Task, RemoveFailed(u)
      PROVE  BatchIsFresh'
  BY <1>0, <1>1 DEF RemoveFailed, InsideBatch, BatchIsFresh
<1>2. ASSUME NEW k \in Key, RemoveSettled(k)
      PROVE  BatchIsFresh'
  BY <1>0, <1>2 DEF RemoveSettled, InsideBatch, dbVars, BatchIsFresh
<1>3. CASE NotifyRemoved
  <2>1. /\ UNCHANGED <<batch, failing, stored, failed>> /\ phase # "idle"
        /\ phase' = phase \/ (phase' = "idle" /\ batch = <<>>)
    BY <1>3 DEF NotifyRemoved, dbVars, BatchShape
  <2>2. batch = <<>> => ToSet(batch) = {}
    BY DEF ToSet
  <2> QED
    BY <1>0, <2>1, <2>2 DEF BatchIsFresh
<1>4. CASE FlushOk \/ FlushError
  BY <1>4 DEF FlushOk, FlushError, BatchIsFresh
<1> QED
  BY <1>1, <1>2, <1>3, <1>4 DEF Batch

LEMMA ReceiveKeepsFresh ==
  ASSUME TypeOK, BatchShape, OrderInv, TakenOnce, BatchIsFresh, NEW g \in {"worker", "closer"},
         phase = "idle", CanReceive(g), Receive(g), AddToBatch(Head(chan[held[g]])),
         UNCHANGED <<stored, failed>>, Unforced' => Unforced
  PROVE  BatchIsFresh'
<1> DEFINE h == Head(chan[held[g]])
<1>1. h \in Task /\ h \in InChannels
  BY ReceiveType, ReceivePlace
<1>2. AddToBatch(h)
  OBVIOUS
<1> HIDE DEF h
<1>3. /\ batch' = Append(batch, h) /\ ToSet(batch') = ToSet(batch) \cup {h}
      /\ phase' = "set" => failing' \subseteq Unstorable
      /\ phase' \in {"idle", "set"} /\ Settled' = Settled
  BY <1>1, <1>2, Appended DEF AddToBatch, ProcessBatch, TypeOK, Settled
<1>4. Unforced => h \notin Settled
  BY <1>1 DEF TakenOnce, Taken
<1> QED
  BY <1>3, <1>4 DEF BatchIsFresh, Settled

LEMMA EntryKeepsFresh ==
  ASSUME BatchIsFresh, phase = "idle", ProcessBatch(batch), UNCHANGED <<stored, failed>>,
         Unforced' => Unforced
  PROVE  BatchIsFresh'
  BY DEF BatchIsFresh, ProcessBatch, Settled

LEMMA NextKeepsFresh ==
  ASSUME TypeOK, ShapeInv, OrderInv, TakenOnce, BatchIsFresh, [Next]_vars
  PROVE  BatchIsFresh'
<1>0. Unforced' => Unforced
  BY ForcingIsFinal
<1>1. ASSUME UNCHANGED <<batchVars, stored, failed>>
      PROVE  BatchIsFresh'
  BY <1>0, <1>1 DEF BatchIsFresh, batchVars, Settled
<1>2. CASE Worker
  <2>1. UNCHANGED <<stored, failed>>
    BY <1>2 DEF Worker, dbVars
  <2>2. CASE WorkerReceive
    BY <1>0, <2>1, <2>2, ReceiveKeepsFresh DEF WorkerReceive, ShapeInv, OneRuns
  <2>3. CASE WorkerTimer \/ WorkerStop
    BY <1>0, <2>1, <2>3, EntryKeepsFresh DEF WorkerTimer, WorkerStop, ShapeInv, OneRuns
  <2>4. CASE WorkerLoad \/ WorkerResize \/ WorkerExit
    BY <1>1, <2>1, <2>4 DEF WorkerLoad, WorkerResize, WorkerExit
  <2> QED
    BY <1>2, <2>2, <2>3, <2>4 DEF Worker
<1>3. CASE Closer
  <2>1. UNCHANGED <<stored, failed>>
    BY <1>3 DEF Closer, dbVars
  <2>2. CASE DrainReceive
    BY <1>0, <2>1, <2>2, ReceiveKeepsFresh DEF DrainReceive, InsideBatch, ShapeInv
  <2>3. CASE DrainEnd
    BY <1>0, <2>1, <2>3, EntryKeepsFresh DEF DrainEnd, InsideBatch
  <2>4. CASE ForceBatch
    BY <1>3, <2>4 DEF ForceBatch, Closer, ShapeInv, OneRuns, Unforced, BatchIsFresh
  <2>5. CASE ~DrainReceive /\ ~DrainEnd /\ ~ForceBatch
    <3>1. UNCHANGED batchVars
      BY <1>3, <2>5 DEF Closer, FlushNothing, FlushStopWorker, DrainBegin,
         ForceCollect, FlushReturn, StopQueue, CloseQueue, EmergencyStop, SerializePendingTasks,
         SerializeBegin, SerializeReceive, SerializeEnd
    <3> QED
      BY <1>1, <2>1, <3>1
  <2> QED
    BY <2>2, <2>3, <2>4, <2>5
<1>4. CASE (\E t \in Task : Writer(t)) \/ (\E w \in Waiter : Wait(w)) \/ UNCHANGED vars
  BY <1>1, <1>4, OthersKeepBatch DEF dbVars
<1> QED
  BY <1>2, <1>3, <1>4, BatchKeepsFresh DEF Next, AtRest, ShapeInv

\* What the database holds after a sequence of tasks was written
LEMMA WrittenContent ==
  ASSUME TypeOK, NEW s \in Seq(Task), NEW k \in Key,
         NEW new, new = {t \in ToSet(s) \ Unstorable : KeyOf[t] = k}
  PROVE  IF new = {} THEN Written(s)[k] = db[k] ELSE Written(s)[k] \in new
<1> DEFINE I    == {i \in DOMAIN s : KeyOf[s[i]] = k /\ s[i] \notin Unstorable}
           last == {i \in I : \A j \in I : j <= i}
<1>1. Written(s)[k] = IF last = {} THEN db[k] ELSE s[CHOOSE i \in last : TRUE]
  BY DEF Written
<1>2. \A i \in I : s[i] \in new
  BY DEF ToSet
<1>3. new # {} => I # {}
  BY DEF ToSet
<1>4. I \in SUBSET (1 .. Len(s)) /\ Len(s) \in Nat
  BY LenProperties
<1> HIDE DEF I
<1>5. I # {} => last # {}
  BY <1>4, LastIndex
<1>6. last # {} => (CHOOSE i \in last : TRUE) \in I
  OBVIOUS
<1>7. new = {} => last = {}
  BY <1>2
<1> HIDE DEF last
<1> QED
  BY <1>1, <1>2, <1>3, <1>5, <1>6, <1>7

\* What was not forced is fresh, and what the last batch left is final
LEMMA StageFacts ==
  ASSUME ClosedIsIdle
  PROVE  /\ Stage = "open" => Unforced
         /\ Stage = "closed" => phase = "idle"
         /\ Stage \in {"open", "forcing", "closed"}
  BY DEF Stage, Unforced, AfterFlush, ClosedIsIdle

LEMMA StageStep ==
  ASSUME OneRuns, [Next]_vars
  PROVE  \/ Stage' = Stage
         \/ Stage = "open" /\ Stage' = "forcing"
         \/ Stage # "closed" /\ Stage' = "closed"
<1>1. CASE Worker
  <2>1. worker # "exited" /\ closer' = closer
    BY <1>1, ExitIsFinal DEF Worker, clientVars, closerVars
  <2> QED
    BY <2>1 DEF Stage
<1>2. CASE Closer
  <2>1. worker' = worker
    BY <1>2 DEF Closer
  <2>2. CASE ForceCollect
    BY <2>2 DEF ForceCollect, Stage
  <2>3. CASE FlushReturn
    BY <2>1, <2>3 DEF FlushReturn, OneRuns, Stage
  <2>4. CASE ~ForceCollect /\ ~FlushReturn
    <3>1. /\ closer' = "force" <=> closer = "force"
          /\ closer' \in {"idle", "join", "drain", "collect"}
               => closer \in {"idle", "join", "drain", "collect"}
      BY <1>2, <2>4 DEF Closer, FlushNothing, FlushStopWorker, DrainBegin, DrainReceive, DrainEnd,
         ForceBatch, StopQueue, CloseQueue, EmergencyStop, SerializePendingTasks, SerializeBegin,
         SerializeReceive, SerializeEnd, closerVars
    <3> QED
      BY <2>1, <3>1 DEF Stage
  <2> QED
    BY <2>2, <2>3, <2>4
<1>3. CASE ~Worker /\ ~Closer
  <2>1. worker' = worker /\ closer' = closer
    BY <1>3, OthersKeepBatch DEF Next, AtRest, Batch, workerVars, closerVars
  <2> QED
    BY <2>1 DEF Stage
<1> QED
  BY <1>1, <1>2, <1>3

\* A commit of a prefix of the batch commits fresh tasks, forced ones, or none
LEMMA CommitMaps ==
  ASSUME TypeOK, TakenOnce, BatchIsFresh, RefusedIsFailing, ReadyToFlush, ClosedIsIdle,
         Stage' = Stage,
         NEW s \in Seq(Task), ToSet(s) \subseteq ToSet(batch),
         db' = Written(s), stored' = stored \cup (ToSet(s) \ Unstorable), UNCHANGED <<sent, failed>>
  PROVE  [Accepted!Next]_Accepted!vars
<1> DEFINE S == ToSet(s) \ Unstorable
<1>1. /\ db \in [Key -> TaskOrNone] /\ Written(s) \in [Key -> TaskOrNone]
      /\ \A k \in Key : LET new == {t \in S : KeyOf[t] = k} IN
           IF new = {} THEN db'[k] = db[k] ELSE db'[k] \in new
  BY WrittenContent, WrittenType DEF TypeOK
<1>2. \/ Stage = "open" /\ S \subseteq Accepted!InFlight
      \/ Stage = "forcing" /\ S \subseteq sent
  <2>1. S \subseteq sent
    BY DEF TakenOnce, Taken
  <2>2. Unforced => S \subseteq Accepted!InFlight
    BY <2>1 DEF ReadyToFlush, BatchIsFresh, Accepted!InFlight
  <2>3. Stage # "closed"
    BY StageFacts DEF ReadyToFlush
  <2> HIDE DEF S
  <2> QED
    BY <2>1, <2>2, <2>3, StageFacts
<1>3. S \in SUBSET sent
  BY DEF TakenOnce, Taken
<1> HIDE DEF S
<1>4. CASE S = {}
  <2>1. \A k \in Key : db'[k] = db[k]
    BY <1>1, <1>4
  <2>2. db' = db
    BY <1>1, <2>1
  <2>3. stored' = stored
    BY <1>4 DEF S
  <2> QED
    BY <2>2, <2>3 DEF Accepted!vars
<1>5. CASE S # {}
  <2>1. stored' = stored \cup S
    BY DEF S
  <2>2. Accepted!Commit(S)
    BY <1>1, <1>2, <1>5, <2>1 DEF Accepted!Commit, TaskOrNone
  <2> QED
    BY <1>3, <2>2 DEF Accepted!Next
<1> QED
  BY <1>4, <1>5

LEMMA BatchMaps ==
  ASSUME TypeOK, BatchShape, SettleInv, TakenOnce, BatchIsFresh, ClosedIsIdle, Batch
  PROVE  [Accepted!Next]_Accepted!vars
<1>0. sent' = sent /\ batch \in Seq(Task) /\ Stage' = Stage
  BY DEF Batch, TypeOK, workerVars, closerVars, Stage
<1>1. ASSUME NEW t \in Task, RemoveFailed(t)
      PROVE  [Accepted!Next]_Accepted!vars
  <2>1. failed' = failed \cup {t} /\ UNCHANGED <<stored, db>> /\ t \in sent
    BY <1>1 DEF RemoveFailed, TakenOnce, Taken
  <2>2. Stage # "closed"
    BY <1>1, StageFacts DEF RemoveFailed, InsideBatch
  <2>3. CASE t \in failed
    BY <1>0, <2>1, <2>3 DEF Accepted!vars
  <2>4. CASE t \notin failed
    BY <1>0, <1>1, <2>1, <2>2, <2>4 DEF Accepted!Next, Accepted!Fail
  <2> QED
    BY <2>3, <2>4
<1>2. CASE (\E k \in Key : RemoveSettled(k)) \/ NotifyRemoved
  BY <1>0, <1>2 DEF RemoveSettled, NotifyRemoved, dbVars, Accepted!vars
<1>3. CASE FlushOk
  BY <1>0, <1>3, CommitMaps DEF FlushOk, SettleInv
<1>4. CASE FlushError
  <2>1. PICK n \in 0 .. Len(batch) - 1 :
               /\ db' = Written(SubSeq(batch, 1, n))
               /\ stored' = stored \cup (ToSet(SubSeq(batch, 1, n)) \ Unstorable)
    BY <1>4 DEF FlushError
  <2>2. SubSeq(batch, 1, n) \in Seq(Task) /\ ToSet(SubSeq(batch, 1, n)) \subseteq ToSet(batch)
    BY <1>0, SubSeqProperties, LenProperties DEF ToSet
  <2> QED
    BY <1>0, <1>4, <2>1, <2>2, CommitMaps DEF FlushError, SettleInv
<1> QED
  BY <1>1, <1>2, <1>3, <1>4 DEF Batch

LEMMA NextMaps ==
  ASSUME TypeOK, ShapeInv, SettleInv, OrderInv, PlaceInv, BatchIsFresh, [Next]_vars
  PROVE  [Accepted!Next]_Accepted!vars
<1>1. ASSUME UNCHANGED <<sent, stored, failed, db>>
      PROVE  [Accepted!Next]_Accepted!vars
  BY <1>1, StageStep DEF ShapeInv, Accepted!Next, Accepted!Force, Accepted!Close, Accepted!vars
<1>2. ASSUME NEW t \in Task, Send(t)
      PROVE  [Accepted!Next]_Accepted!vars
  <2>1. t \notin sent /\ sent' = sent \cup {t} /\ UNCHANGED <<stored, failed, db>>
    BY <1>2 DEF Send, OrderInv, SentIsPast, Unsent, consumerVars, dbVars
  <2>2. Stage' = Stage
    BY <1>2 DEF Send, consumerVars, workerVars, clientVars, closerVars, Stage
  <2> QED
    BY <2>1, <2>2 DEF Accepted!Next, Accepted!Accept
<1>3. ASSUME NEW t \in Task, SendFull(t) \/ Double(t) \/ Track(t) \/ SyncResult(t)
      PROVE  UNCHANGED <<sent, stored, failed, db>>
  BY <1>3 DEF SendFull, Double, Track, SyncResult, consumerVars, dbVars
<1>4. CASE Worker \/ Closer \/ (\E w \in Waiter : Wait(w)) \/ UNCHANGED vars
  BY <1>1, <1>4 DEF Worker, Closer, Wait, vars, writerVars, consumerVars, dbVars
<1> QED
  BY <1>1, <1>2, <1>3, <1>4, BatchMaps DEF Next, AtRest, Writer, ShapeInv, PlaceInv

\* Through growth, batching, refused entries, failed flushes and either shutdown, the
\* queue does what AcceptedWrites promises: an accepted write is committed at most once
\* and not after it was reported as failed, but by the forced pass of a graceful
\* shutdown, and nothing is committed after the last batch
\* (queue.go:148-352, 371-431, 443-557, 793-835).
THEOREM QueueImplementsAcceptedWrites == Spec => ImplementsAcceptedWrites
<1>1. Init => Accepted!Init
  BY DEF Init, Accepted!Init, Stage
<1>2. Init => BatchIsFresh
  BY DEF Init, BatchIsFresh, ToSet
<1>3. ASSUME TypeOK, ShapeInv, OrderInv, PlaceInv, BatchIsFresh, [Next]_vars
      PROVE  BatchIsFresh'
  BY <1>3, NextKeepsFresh DEF PlaceInv
<1>4. ASSUME TypeOK, ShapeInv, SettleInv, OrderInv, PlaceInv, BatchIsFresh, [Next]_vars
      PROVE  [Accepted!Next]_Accepted!vars
  BY <1>4, NextMaps
<1> QED
  BY <1>1, <1>2, <1>3, <1>4, PlaceCorrect, PTL DEF Spec, ImplementsAcceptedWrites, Accepted!Spec

-------------------------------------------------------------------------------
(* Without growth the last write wins *)

PriorIsBefore ==
  \A t, u \in Task : t \in prior[u] =>
    t \in sent /\ u \in sent /\ KeyOf[t] = KeyOf[u] /\ u \notin prior[t]

\* What left the channel was sent before what is still in it, what was committed
\* before what is in the batch, and the batch keeps the send order
TakenAreOlder ==
  \A u \in stored \cup ToSet(batch), t \in InChannels : KeyOf[u] = KeyOf[t] => u \in prior[t]
StoredAreOlder ==
  \A u \in stored, t \in ToSet(batch) : KeyOf[u] = KeyOf[t] => u \in prior[t]
BatchInOrder ==
  \A i, j \in DOMAIN batch :
    i < j /\ KeyOf[batch[i]] = KeyOf[batch[j]] => batch[i] \in prior[batch[j]]
NewestStays ==
  \A k \in Key : db[k] # None =>
    db[k] \in stored /\ KeyOf[db[k]] = k /\ \A u \in stored : db[k] \notin prior[u]

LastInv == PriorIsBefore /\ TakenAreOlder /\ StoredAreOlder /\ BatchInOrder /\ NewestStays

\* With a multiplier of one the first channel stays the only one
OneChannel ==
  /\ maxQueueSize = InitialQueueSize /\ writeQueue \in {0, InitialQueueSize}
  /\ \A t \in Task : pc[t] \notin {"swap", "transfer"}
  /\ \A c \in Capacity \ {InitialQueueSize} : chan[c] = <<>>

LEMMA NextKeepsOneChannel ==
  ASSUME MaxMultiplier = 1, TypeOK, OneChannel, [Next]_vars
  PROVE  OneChannel'
<1>0. MaxCapacity = InitialQueueSize
  BY QueueAssumption DEF MaxCapacity
<1>1. ASSUME UNCHANGED <<maxQueueSize, writeQueue, pc>>,
             \A c \in Capacity : chan[c] = <<>> => chan'[c] = <<>>
      PROVE  OneChannel'
  BY <1>1 DEF OneChannel
<1>2. ASSUME NEW g \in {"worker", "closer"}, CanReceive(g), Receive(g)
      PROVE  \A c \in Capacity : chan[c] = <<>> => chan'[c] = <<>>
  BY <1>2 DEF CanReceive, Receive, TypeOK
<1>3. ASSUME NEW t \in Task, Send(t)
      PROVE  OneChannel'
  BY <1>3 DEF Send, HasRoom, OneChannel, TypeOK
<1>4. ASSUME NEW t \in Task, Double(t)
      PROVE  OneChannel'
  <2>1. /\ pc[t] \notin {"swap", "transfer"} /\ InitialQueueSize \in Nat
        /\ maxQueueSize = InitialQueueSize
    BY QueueAssumption DEF OneChannel
  <2>2. ~ DoubleBegin(t) /\ ~ DoubleSwap(t) /\ ~ DoubleTransfer(t) /\ ~ DoubleUnlock(t)
    BY <1>0, <2>1 DEF DoubleBegin, DoubleSwap, DoubleTransfer, DoubleUnlock
  <2>3. DoubleRefused(t) \/ DoubleWake(t)
    BY <1>4, <2>2 DEF Double
  <2> QED
    BY <2>3 DEF DoubleRefused, DoubleWake, OneChannel, TypeOK
<1>5. ASSUME NEW t \in Task, SendFull(t) \/ Track(t) \/ SyncResult(t)
      PROVE  OneChannel'
  <2>1. UNCHANGED <<maxQueueSize, writeQueue, chan>>
    BY <1>5 DEF SendFull, Track, SyncResult, queueVars
  <2>2. /\ \A u \in Task \ {t} : pc'[u] = pc[u]
        /\ pc'[t] \notin {"swap", "transfer"}
    <3>1. CASE SendFull(t)
      BY <3>1 DEF SendFull, TypeOK
    <3>2. CASE Track(t)
      BY <3>2 DEF Track, StoreLookup, StoreOverwrite, StoreCount, AfterStore, SyncTimeout,
         SyncUncount, TypeOK
    <3>3. CASE SyncResult(t)
      BY <3>3 DEF SyncResult, TypeOK
    <3> QED
      BY <1>5, <3>1, <3>2, <3>3
  <2>3. \A u \in Task : pc'[u] \notin {"swap", "transfer"}
    BY <2>2 DEF OneChannel
  <2> QED
    BY <2>1, <2>3 DEF OneChannel
<1>6. CASE Worker
  BY <1>1, <1>2, <1>6 DEF Worker, WorkerLoad, WorkerReceive, WorkerTimer, WorkerResize,
     WorkerStop, WorkerExit, writerVars
<1>7. CASE Closer
  <2>1. CASE CloseQueue
    BY <1>7, <2>1 DEF Closer, CloseQueue, writerVars, OneChannel
  <2> QED
    BY <1>1, <1>2, <1>7, <2>1 DEF Closer, FlushNothing, FlushStopWorker, DrainBegin, DrainReceive,
       DrainEnd, ForceCollect, ForceBatch, FlushReturn, StopQueue, EmergencyStop,
       SerializePendingTasks, SerializeBegin, SerializeReceive, SerializeEnd, writerVars
<1>8. CASE Batch \/ (\E w \in Waiter : Wait(w)) \/ UNCHANGED vars
  BY <1>1, <1>8 DEF Batch, Wait, vars, writerVars, queueVars
<1> QED
  BY <1>3, <1>4, <1>5, <1>6, <1>7, <1>8 DEF Next, AtRest, Writer

LEMMA LeavingKeepsLast ==
  ASSUME LastInv, InChannels' \subseteq InChannels, UNCHANGED <<sent, prior, batch, stored, db>>
  PROVE  LastInv'
  BY DEF LastInv, PriorIsBefore, TakenAreOlder, StoredAreOlder, BatchInOrder, NewestStays

LEMMA SendKeepsLast ==
  ASSUME TypeOK, OrderInv, TakenOnce, Unforced, LastInv, NEW t \in Task, Send(t)
  PROVE  LastInv'
<1>1. /\ t \notin sent /\ sent' = sent \cup {t} /\ InChannels' = InChannels \cup {t}
      /\ UNCHANGED <<batch, stored, db>>
  <2>1. sent' = sent \cup {t} /\ t \notin sent /\ UNCHANGED <<batch, stored, db>>
    BY DEF Send, consumerVars, batchVars, dbVars, OrderInv, SentIsPast, Unsent
  <2> QED
    BY <2>1, SendMovesTask DEF TaskSent
<1>2. /\ prior' = [prior EXCEPT ![t] = {u \in sent : KeyOf[u] = KeyOf[t]}]
      /\ prior \in [Task -> SUBSET Task] /\ sent \subseteq Task /\ batch \in Seq(Task)
  BY DEF Send, TypeOK
<1>3. /\ \A u \in Task \ {t} : prior'[u] = prior[u]
      /\ prior'[t] = {u \in sent : KeyOf[u] = KeyOf[t]}
  BY <1>2
<1>4. stored \cup ToSet(batch) \cup InChannels \subseteq sent
  BY DEF TakenOnce, Taken, Settled, OrderInv, BufferedIsSent, InChannels
<1>5. PriorIsBefore'
  <2> SUFFICES ASSUME NEW x \in Task, NEW y \in Task, x \in prior'[y]
               PROVE  x \in sent' /\ y \in sent' /\ KeyOf[x] = KeyOf[y] /\ y \notin prior'[x]
    BY DEF PriorIsBefore
  <2>1. CASE y = t
    BY <1>1, <1>3, <2>1 DEF LastInv, PriorIsBefore
  <2>2. CASE y # t
    BY <1>1, <1>3, <2>2 DEF LastInv, PriorIsBefore
  <2> QED
    BY <2>1, <2>2
<1>6. TakenAreOlder'
  BY <1>1, <1>2, <1>3, <1>4 DEF LastInv, TakenAreOlder
<1>7. StoredAreOlder'
  BY <1>1, <1>2, <1>3, <1>4 DEF LastInv, StoredAreOlder
<1>8. BatchInOrder'
  <2>1. \A i \in DOMAIN batch : batch[i] \in sent
    BY <1>4 DEF ToSet
  <2> QED
    BY <1>1, <1>2, <1>3, <2>1 DEF LastInv, BatchInOrder
<1>9. NewestStays'
  BY <1>1, <1>2, <1>3, <1>4 DEF LastInv, NewestStays
<1> QED
  BY <1>5, <1>6, <1>7, <1>8, <1>9 DEF LastInv

LEMMA ReceiveKeepsLast ==
  ASSUME TypeOK, OrderInv, OneChannel, LastInv, NEW g \in {"worker", "closer"},
         CanReceive(g), Receive(g), AddToBatch(Head(chan[held[g]])),
         UNCHANGED <<sent, prior, stored, db>>
  PROVE  LastInv'
<1> DEFINE h == Head(chan[held[g]])
<1>1. h \in InChannels /\ InChannels' = InChannels \ {h}
  BY ReceivePlace
<1>2. h \in Task
  BY ReceiveType
<1>3. ASSUME NEW t \in InChannels, t # h, KeyOf[h] = KeyOf[t]
      PROVE  h \in prior[t]
  <2> DEFINE c == held[g]
  <2>1. c \in Capacity /\ chan[c] \in Seq(Task) /\ chan[c] # <<>> /\ c = InitialQueueSize
    BY DEF CanReceive, TypeOK, OneChannel
  <2>2. \A d \in Capacity \ {c} : Buffered(d) = {}
    BY <2>1 DEF OneChannel, Buffered, ToSet
  <2>3. t \in Buffered(c)
    BY <2>2 DEF InChannels
  <2> HIDE DEF c
  <2>4. PICK j \in DOMAIN chan[c] : chan[c][j] = t
    BY <2>3 DEF Buffered, ToSet
  <2>5. /\ Len(chan[c]) \in Nat \ {0} /\ DOMAIN chan[c] = 1 .. Len(chan[c])
        /\ Head(chan[c]) = chan[c][1]
    BY <2>1, Removed
  <2>6. h = chan[c][1]
    BY <2>5 DEF c
  <2>7. 1 \in DOMAIN chan[c] /\ 1 < j
    BY <1>3, <2>4, <2>5, <2>6
  <2> QED
    BY <1>3, <2>1, <2>4, <2>6, <2>7 DEF OrderInv, ChannelsKeepSendOrder
<1>4. AddToBatch(h)
  OBVIOUS
<1> HIDE DEF h
<1> DEFINE n == Len(batch) + 1
<1>5. batch' = Append(batch, h)
  BY <1>4 DEF AddToBatch, ProcessBatch
<1>6. /\ DOMAIN batch = 1 .. n - 1 /\ n \in Nat /\ DOMAIN batch' = 1 .. n /\ batch'[n] = h
      /\ \A i \in 1 .. n - 1 : batch'[i] = batch[i]
      /\ ToSet(batch') = ToSet(batch) \cup {h}
  <2>1. batch \in Seq(Task)
    BY DEF TypeOK
  <2> QED
    BY <1>2, <1>5, <2>1, Added, Appended
<1>7. PriorIsBefore' /\ NewestStays'
  BY DEF LastInv, PriorIsBefore, NewestStays
<1>8. TakenAreOlder'
  BY <1>1, <1>3, <1>6 DEF LastInv, TakenAreOlder
<1>9. StoredAreOlder'
  BY <1>1, <1>6 DEF LastInv, TakenAreOlder, StoredAreOlder
<1>10. BatchInOrder'
  <2> SUFFICES ASSUME NEW i \in DOMAIN batch', NEW j \in DOMAIN batch', i < j,
                      KeyOf[batch'[i]] = KeyOf[batch'[j]]
               PROVE  batch'[i] \in prior[batch'[j]]
    BY DEF BatchInOrder
  <2>1. i \in DOMAIN batch /\ batch'[i] = batch[i]
    BY <1>6
  <2>2. CASE j = n
    <3>1. batch[i] \in ToSet(batch)
      BY <2>1 DEF ToSet
    <3> QED
      BY <1>1, <1>6, <2>1, <2>2, <3>1 DEF LastInv, TakenAreOlder
  <2>3. CASE j # n
    <3>1. j \in DOMAIN batch /\ batch'[j] = batch[j]
      BY <1>6, <2>3
    <3> QED
      BY <2>1, <3>1 DEF LastInv, BatchInOrder
  <2> QED
    BY <2>2, <2>3
<1> QED
  BY <1>7, <1>8, <1>9, <1>10 DEF LastInv

\* The last storable task of an id is the one a sequence of writes leaves
LEMMA WrittenIsLast ==
  ASSUME NEW s \in Seq(Task), NEW k \in Key
  PROVE  \/ /\ \A t \in ToSet(s) \ Unstorable : KeyOf[t] # k
            /\ Written(s)[k] = db[k]
         \/ \E i \in DOMAIN s : /\ Written(s)[k] = s[i] /\ KeyOf[s[i]] = k /\ s[i] \notin Unstorable
                                /\ \A j \in DOMAIN s :
                                     KeyOf[s[j]] = k /\ s[j] \notin Unstorable => j <= i
<1> DEFINE I    == {i \in DOMAIN s : KeyOf[s[i]] = k /\ s[i] \notin Unstorable}
           last == {i \in I : \A j \in I : j <= i}
<1>1. Written(s)[k] = IF last = {} THEN db[k] ELSE s[CHOOSE i \in last : TRUE]
  BY DEF Written
<1>2. CASE I = {}
  BY <1>1, <1>2 DEF ToSet
<1>3. CASE I # {}
  <2>1. I \in SUBSET (1 .. Len(s)) /\ Len(s) \in Nat
    BY LenProperties
  <2>2. last # {}
    <3> HIDE DEF I
    <3> QED
      BY <1>3, <2>1, LastIndex
  <2>3. PICK i \in last : Written(s)[k] = s[i]
    <3> HIDE DEF last
    <3> QED
      BY <1>1, <2>2
  <2> QED
    BY <2>3
<1> QED
  BY <1>2, <1>3

PrefixOfBatch(s) ==
  DOMAIN s \subseteq DOMAIN batch /\ \A i \in DOMAIN s : s[i] = batch[i] /\ i \in Nat

LEMMA CommitKeepsLast ==
  ASSUME TypeOK, LastInv, ToSet(batch) \cap stored = {}, NEW s \in Seq(Task), PrefixOfBatch(s),
         db' = Written(s), stored' = stored \cup (ToSet(s) \ Unstorable), batch' = <<>>,
         UNCHANGED <<chan, sent, prior>>
  PROVE  LastInv'
<1>1. s \in Seq(Task) /\ DOMAIN s \subseteq DOMAIN batch /\ \A i \in DOMAIN s : s[i] = batch[i] /\ i \in Nat
  BY DEF PrefixOfBatch
<1>2. ToSet(s) \subseteq ToSet(batch)
  BY <1>1 DEF ToSet
<1>3. InChannels' = InChannels /\ ToSet(batch') = {} /\ DOMAIN batch' = {}
  BY DEF InChannels, Buffered, ToSet
<1>4. PriorIsBefore' /\ TakenAreOlder' /\ StoredAreOlder' /\ BatchInOrder'
  BY <1>2, <1>3 DEF LastInv, PriorIsBefore, TakenAreOlder, StoredAreOlder, BatchInOrder
<1>5. ASSUME NEW k \in Key, db'[k] # None
      PROVE  db'[k] \in stored' /\ KeyOf[db'[k]] = k /\ \A u \in stored' : db'[k] \notin prior[u]
  <2>1. CASE db'[k] = db[k] /\ \A t \in ToSet(s) \ Unstorable : KeyOf[t] # k
    <3>1. db[k] \in stored /\ KeyOf[db[k]] = k /\ \A u \in stored : db[k] \notin prior[u]
      BY <1>5, <2>1 DEF LastInv, NewestStays
    <3>2. stored \subseteq Task /\ ToSet(s) \subseteq Task
      BY <1>1, ToSetType DEF TypeOK
    <3>3. \A u \in ToSet(s) \ Unstorable : db[k] \notin prior[u]
      BY <2>1, <3>1, <3>2 DEF LastInv, PriorIsBefore
    <3> QED
      BY <2>1, <3>1, <3>3
  <2>2. ASSUME NEW i \in DOMAIN s, db'[k] = s[i], KeyOf[s[i]] = k, s[i] \notin Unstorable,
               \A j \in DOMAIN s : KeyOf[s[j]] = k /\ s[j] \notin Unstorable => j <= i
        PROVE  db'[k] \in stored' /\ KeyOf[db'[k]] = k /\ \A u \in stored' : db'[k] \notin prior[u]
    <3>1. s[i] \in ToSet(s) /\ s[i] \in Task /\ stored \subseteq Task /\ ToSet(s) \subseteq Task
      BY <1>1, ToSetType DEF TypeOK, ToSet
    <3>2. ASSUME NEW u \in stored
          PROVE  s[i] \notin prior[u]
      <4>1. KeyOf[u] = KeyOf[s[i]] => u \in prior[s[i]]
        BY <1>2, <3>1 DEF LastInv, StoredAreOlder
      <4> QED
        BY <3>1, <4>1 DEF LastInv, PriorIsBefore
    <3>3. ASSUME NEW j \in DOMAIN s, s[j] \notin Unstorable
          PROVE  s[i] \notin prior[s[j]]
      <4>1. s[j] \in Task
        BY <1>1, <3>1 DEF ToSet
      <4>2. CASE KeyOf[s[j]] # k
        BY <2>2, <3>1, <4>1, <4>2 DEF LastInv, PriorIsBefore
      <4>3. CASE KeyOf[s[j]] = k /\ j = i
        BY <3>1, <4>3 DEF LastInv, PriorIsBefore
      <4>4. CASE KeyOf[s[j]] = k /\ j # i
        <5>1. j < i
          BY <1>1, <2>2, <3>3, <4>4
        <5>2. s[j] \in prior[s[i]]
          BY <1>1, <2>2, <4>4, <5>1 DEF LastInv, BatchInOrder
        <5> QED
          BY <3>1, <4>1, <5>2 DEF LastInv, PriorIsBefore
      <4> QED
        BY <4>2, <4>3, <4>4
    <3>4. \A u \in ToSet(s) \ Unstorable : s[i] \notin prior[u]
      BY <3>3 DEF ToSet
    <3> QED
      BY <2>2, <3>1, <3>2, <3>4
  <2>3. \/ /\ \A t \in ToSet(s) \ Unstorable : KeyOf[t] # k
           /\ Written(s)[k] = db[k]
        \/ \E i \in DOMAIN s : /\ Written(s)[k] = s[i] /\ KeyOf[s[i]] = k /\ s[i] \notin Unstorable
                               /\ \A j \in DOMAIN s :
                                    KeyOf[s[j]] = k /\ s[j] \notin Unstorable => j <= i
    BY WrittenIsLast
  <2>4. db'[k] = Written(s)[k]
    OBVIOUS
  <2> QED
    BY <2>1, <2>2, <2>3, <2>4
<1>6. NewestStays'
  BY <1>5 DEF NewestStays
<1> QED
  BY <1>4, <1>6 DEF LastInv

LEMMA BatchKeepsLast ==
  ASSUME TypeOK, BatchIsFresh, Unforced, LastInv, Batch
  PROVE  LastInv'
<1>0. UNCHANGED <<chan, sent, prior>> /\ InChannels' = InChannels
  BY DEF Batch, queueVars, InChannels, Buffered
<1>1. CASE (\E t \in Task : RemoveFailed(t)) \/ (\E k \in Key : RemoveSettled(k)) \/ NotifyRemoved
  BY <1>0, <1>1, LeavingKeepsLast DEF RemoveFailed, RemoveSettled, NotifyRemoved, dbVars
<1>2. ToSet(batch) \cap stored = {} \/ phase # "set"
  BY DEF BatchIsFresh
<1>3. batch \in Seq(Task) /\ Len(batch) \in Nat
  BY LenProperties DEF TypeOK
<1>4. CASE FlushOk
  <2>1. PrefixOfBatch(batch)
    BY <1>3, LenProperties DEF PrefixOfBatch
  <2> QED
    BY <1>0, <1>2, <1>3, <1>4, <2>1, CommitKeepsLast DEF FlushOk, ReadyToFlush
<1>5. CASE FlushError
  <2>1. PICK n \in 0 .. Len(batch) - 1 :
          /\ db' = Written(SubSeq(batch, 1, n))
          /\ stored' = stored \cup (ToSet(SubSeq(batch, 1, n)) \ Unstorable)
    BY <1>5 DEF FlushError
  <2>2. SubSeq(batch, 1, n) \in Seq(Task) /\ PrefixOfBatch(SubSeq(batch, 1, n))
    BY <1>3, SubSeqProperties, LenProperties DEF PrefixOfBatch
  <2> QED
    BY <1>0, <1>2, <1>5, <2>1, <2>2, CommitKeepsLast DEF FlushError, ReadyToFlush
<1> QED
  BY <1>1, <1>4, <1>5 DEF Batch

\* Without a graceful shutdown the closer never reaches the forced pass
NeverForced == closer \in {"idle", "serialize", "open", "extract", "serialized"}

LEMMA NextKeepsUnforced ==
  ASSUME "graceful" \notin ShutdownMode, NeverForced, [Next]_vars
  PROVE  NeverForced'
<1>1. CASE Closer
  BY <1>1 DEF Closer, FlushNothing, FlushStopWorker, DrainBegin, DrainReceive, DrainEnd,
     ForceCollect, ForceBatch, FlushReturn, StopQueue, CloseQueue, EmergencyStop,
     SerializePendingTasks, SerializeBegin, SerializeReceive, SerializeEnd, NeverForced
<1> QED
  BY <1>1, CloserAlone DEF NeverForced, closerVars

LEMMA NextKeepsLast ==
  ASSUME TypeOK, CapacityInv, OrderInv, TakenOnce, BatchIsFresh, NeverForced, OneChannel, LastInv,
         [Next]_vars
  PROVE  LastInv'
<1>0. Unforced
  BY DEF NeverForced, Unforced, AfterFlush
<1>1. ASSUME UNCHANGED <<chan, sent, prior, batch, stored, db>>
      PROVE  LastInv'
  BY <1>1, LeavingKeepsLast DEF InChannels, Buffered
<1>2. ASSUME NEW t \in Task, Writer(t)
      PROVE  LastInv'
  <2>1. CASE Double(t)
    BY <2>1, DoubleMovesTasks, LeavingKeepsLast DEF TasksStay, Double, consumerVars, batchVars, dbVars
  <2>2. CASE SendFull(t) \/ Track(t) \/ SyncResult(t)
    BY <1>1, <2>2 DEF SendFull, Track, SyncResult, queueVars, consumerVars, batchVars, dbVars
  <2> QED
    BY <1>0, <1>2, <2>1, <2>2, SendKeepsLast DEF Writer
<1>3. CASE Worker
  <2>1. UNCHANGED <<sent, prior, stored, db>>
    BY <1>3 DEF Worker, writerVars, dbVars
  <2>2. CASE WorkerReceive
    BY <2>1, <2>2, ReceiveKeepsLast DEF WorkerReceive
  <2>3. CASE ~WorkerReceive
    BY <1>1, <1>3, <2>1, <2>3 DEF Worker, WorkerLoad, WorkerTimer, WorkerResize, WorkerStop,
       WorkerExit, ProcessBatch, batchVars
  <2> QED
    BY <2>2, <2>3
<1>4. CASE Closer
  <2>1. UNCHANGED <<sent, prior, stored, db>>
    BY <1>4 DEF Closer, writerVars, dbVars
  <2>2. CASE SerializeReceive
    BY <2>1, <2>2, ReceivePlace, LeavingKeepsLast DEF SerializeReceive, batchVars
  <2>3. CASE ~SerializeReceive
    BY <1>1, <1>4, <2>1, <2>3 DEF Closer, FlushNothing, FlushStopWorker, DrainBegin, DrainReceive,
       DrainEnd, ForceCollect, ForceBatch, FlushReturn, StopQueue, CloseQueue, EmergencyStop,
       SerializePendingTasks, SerializeBegin, SerializeEnd, batchVars, NeverForced
  <2> QED
    BY <2>2, <2>3
<1>5. CASE (\E w \in Waiter : Wait(w)) \/ UNCHANGED vars
  BY <1>1, <1>5 DEF Wait, vars, writerVars, queueVars, consumerVars, batchVars, dbVars
<1> QED
  BY <1>0, <1>2, <1>3, <1>4, <1>5, BatchKeepsLast DEF Next, AtRest

\* As long as the queue cannot grow and no graceful shutdown makes its forced pass,
\* no committed write is overwritten by one sent before it: apart from that pass,
\* doubling is the only source of reordering (queue.go:279-290, 407-417).
THEOREM LastWriteWins ==
  ASSUME MaxMultiplier = 1, "graceful" \notin ShutdownMode
  PROVE  Spec => []NoOlderOverwrite
<1>1. Init => OneChannel /\ BatchIsFresh /\ NeverForced
  BY DEF Init, OneChannel, BatchIsFresh, NeverForced, ToSet
<1>2. Init => LastInv
  BY DEF Init, LastInv, PriorIsBefore, TakenAreOlder, StoredAreOlder, BatchInOrder, NewestStays,
     InChannels, Buffered, ToSet
<1>3. ASSUME TypeOK, CapacityInv, ShapeInv, OrderInv, PlaceInv, OneChannel, BatchIsFresh, NeverForced,
             LastInv, [Next]_vars
      PROVE  (OneChannel /\ BatchIsFresh /\ NeverForced /\ LastInv)'
  BY <1>3, NextKeepsOneChannel, NextKeepsFresh, NextKeepsUnforced, NextKeepsLast DEF PlaceInv
<1>4. LastInv => NoOlderOverwrite
  BY DEF LastInv, NewestStays, NoOlderOverwrite
<1> QED
  BY <1>1, <1>2, <1>3, <1>4, PlaceCorrect, PTL DEF Spec

===============================================================================
