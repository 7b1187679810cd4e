-------------------------- MODULE ContentStoreProofs --------------------------
(***************************************************************************)
(* Proofs about ContentStore, for any writes, content ids, access limits   *)
(* and requests, and any finite set of goroutines that serve them.         *)
(***************************************************************************)
EXTENDS ContentStore, FiniteSetTheorems, TLAPS

Accepted == {"track", "ok"}

\* What the queue holds, and what became of the writes it does not hold
QueueInv ==
  /\ \A i, j \in DOMAIN writeQueue : writeQueue[i] = writeQueue[j] => i = j
  /\ \A t \in Task : Queued(t) => store[t] \in Accepted /\ t \notin stored
  /\ \A t \in Task : store[t] \in Accepted => Queued(t) \/ t \in stored \cup failed
  /\ \A t \in stored : store[t] \in Accepted
  /\ settling # None =>
       \E u \in Task : store[u] \in Accepted /\ ~Queued(u) /\ KeyOf[u] = settling

\* Where contents come from
ContentInv ==
  /\ \A k \in Key : Exists(k) => db[k] \in stored /\ KeyOf[db[k]] = k
  /\ \A c \in Caller : call[c] \in {"limit", "count"} =>
       content[c] \in stored /\ KeyOf[content[c]] = id[c]
  /\ \A t \in Task : served[t] > 0 => t \in stored

\* A write that overlaps with no other one of its id is tracked while it is
\* queued, so a request that passed the queue check leaves none behind
PastQueue == CallPC \ {"idle", "check", "register", "blocked"}
OrderInv ==
  /\ \A t \in Task \ overlapped : Queued(t) =>
       /\ settling # KeyOf[t]
       /\ store[t] = "ok" => Pending(KeyOf[t])
       /\ \A u \in Task : u # t /\ KeyOf[u] = KeyOf[t] => ~Queued(u)
  /\ \A c \in Caller : \A t \in due[c] : store[t] = "ok" /\ KeyOf[t] = id[c]
  /\ \A c \in Caller : call[c] \in PastQueue =>
       \A t \in due[c] \ overlapped : ~Queued(t)
  /\ \A t \in erased : store[t] \in Accepted
  /\ \A t \in erased \ overlapped : ~Queued(t) /\ db[KeyOf[t]] # t
  /\ \A t \in stored \ erased : Exists(KeyOf[t])

StoreInv == TypeOK /\ QueueInv /\ ContentInv /\ OrderInv

\* Callers about to count an access to t, and the most that were admitted
Holders(t) == {c \in Caller : call[c] = "count" /\ content[c] = t}
Allowed(t) == IF Limit[t] = 0 THEN 0 ELSE Limit[t] + Cardinality(Caller) - 1
LimitOf(t) ==
  db[KeyOf[t]] = t /\ t \notin forgotten =>
    /\ served[t] <= accessCount[KeyOf[t]]
    /\ t \in Limited => served[t] + Cardinality(Holders(t)) <= Allowed(t)
LimitInv == \A t \in Task : LimitOf(t)

-------------------------------------------------------------------------------
(* Type correctness *)

LEMMA QueueTypes ==
  ASSUME TypeOK
  PROVE  /\ \A t \in Task : Append(writeQueue, t) \in Seq(Task)
         /\ writeQueue # <<>> => Head(writeQueue) \in Task
                                 /\ Tail(writeQueue) \in Seq(Task)
BY DEF TypeOK

LEMMA CountUpType ==
  ASSUME NEW S, NEW f \in [S -> Nat], NEW x \in S
  PROVE  [f EXCEPT ![x] = f[x] + 1] \in [S -> Nat]
OBVIOUS

LEMMA ReturnType ==
  ASSUME TypeOK, NEW c \in Caller, NEW r \in Result, Return(c, r)
  PROVE  /\ call' \in [Caller -> CallPC]
         /\ op' \in [Caller -> {"none", "get", "status", "delete"}]
         /\ id' \in [Caller -> Key \cup {None}]
         /\ content' \in [Caller -> Task \cup {None}]
         /\ result' \in [Caller -> Result]
         /\ due' \in [Caller -> SUBSET Task]
         /\ \A d \in Caller : call'[d] # "idle" => id'[d] # None
         /\ \A d \in Caller : call'[d] \in {"limit", "count"} => content'[d] # None
BY DEF TypeOK, Return, CallPC

LEMMA GotoType ==
  ASSUME TypeOK, NEW c \in Caller, NEW pc \in CallPC, NEW t \in Task \cup {None},
         call[c] # "idle", pc \in {"limit", "count"} => t # None,
         GotoWith(c, pc, t)
  PROVE  /\ call' \in [Caller -> CallPC]
         /\ op' \in [Caller -> {"none", "get", "status", "delete"}]
         /\ id' \in [Caller -> Key \cup {None}]
         /\ content' \in [Caller -> Task \cup {None}]
         /\ result' \in [Caller -> Result]
         /\ due' \in [Caller -> SUBSET Task]
         /\ \A d \in Caller : call'[d] # "idle" => id'[d] # None
         /\ \A d \in Caller : call'[d] \in {"limit", "count"} => content'[d] # None
BY DEF TypeOK, GotoWith

LEMMA StoreType == ASSUME TypeOK, NEW t \in Task, Store(t) PROVE TypeOK'
<1> USE StoreAssumption DEF TypeOK, Store, callVars, cleanVars, queueVars, StorePC
<1>1. CASE StoreSend(t)
  <2>1. overlapped' \subseteq Task
    BY <1>1 DEF StoreSend, InProgress
  <2>2. writeQueue' \in Seq(Task) /\ store' \in [Task -> StorePC]
    BY <1>1, QueueTypes DEF StoreSend
  <2>3. QED
    BY <1>1, <2>1, <2>2 DEF StoreSend
<1>2. CASE StoreRefused(t)
  BY <1>2 DEF StoreRefused
<1>3. CASE StoreTrack(t)
  BY <1>3 DEF StoreTrack
<1>4. QED
  BY <1>1, <1>2, <1>3

LEMMA WorkerType == ASSUME TypeOK, Worker PROVE TypeOK'
<1> USE StoreAssumption DEF TypeOK, Worker, callVars, cleanVars, storeVars
<1>1. CASE Commit
  <2>1. Head(writeQueue) \in Task /\ Tail(writeQueue) \in Seq(Task)
    BY <1>1, QueueTypes DEF Commit
  <2>2. KeyOf[Head(writeQueue)] \in Key
    BY <2>1
  <2>3. QED
    BY <1>1, <2>1, <2>2 DEF Commit
<1>2. CASE Settle
  <2>1. /\ settling' = None /\ call' \in [Caller -> CallPC]
        /\ \A c \in Caller : /\ call'[c] # "idle" => call[c] # "idle"
                             /\ call'[c] \in {"limit", "count"} => call'[c] = call[c]
    BY <1>2 DEF Settle, CallPC
  <2>2. pendingItems' \in [Key -> Task \cup {None}]
    BY <1>2 DEF Settle
  <2>3. QED
    BY <1>2, <2>1, <2>2 DEF Settle
<1>3. QED
  BY <1>1, <1>2

LEMMA CleanType == ASSUME TypeOK, NEW g \in Cleaner, Clean(g) PROVE TypeOK'
<1> USE DEF TypeOK, Clean, callVars, storeVars, queueVars, CleanerPC
<1>1. CASE ListIDs(g)
  BY <1>1 DEF ListIDs
<1>2. CASE CleanupExpiredTrackers(g)
  <2>1. Losing(Key \ existing[g]) \subseteq Task
    BY DEF Losing, Exists
  <2>2. accessCount' \in [Key -> Nat]
    BY <1>2 DEF CleanupExpiredTrackers
  <2>3. QED
    BY <1>2, <2>1, <2>2 DEF CleanupExpiredTrackers
<1>3. QED
  BY <1>1, <1>2

LEMMA RequestType == ASSUME TypeOK, NEW c \in Caller, Arrive(c) \/ Request(c) PROVE TypeOK'
<1> DEFINE others == /\ UNCHANGED <<storeVars, queueVars, pendingItems, expired, cleanVars>>
<1>o. ASSUME others, calls' \in Nat, db' \in [Key -> Task \cup {None}],
             accessCount' \in [Key -> Nat], served' \in [Task -> Nat],
             erased' \subseteq Task, forgotten' \subseteq Task,
             \/ \E r \in Result : Return(c, r)
             \/ \E pc \in CallPC, t \in Task \cup {None} :
                  /\ call[c] # "idle"
                  /\ pc \in {"limit", "count"} => t # None
                  /\ GotoWith(c, pc, t)
      PROVE  TypeOK'
  <2>1. /\ call' \in [Caller -> CallPC]
        /\ op' \in [Caller -> {"none", "get", "status", "delete"}]
        /\ id' \in [Caller -> Key \cup {None}]
        /\ content' \in [Caller -> Task \cup {None}]
        /\ result' \in [Caller -> Result]
        /\ due' \in [Caller -> SUBSET Task]
        /\ \A d \in Caller : call'[d] # "idle" => id'[d] # None
        /\ \A d \in Caller : call'[d] \in {"limit", "count"} => content'[d] # None
    BY <1>o, ReturnType, GotoType
  <2>2. QED
    BY <1>o, <2>1 DEF TypeOK, storeVars, queueVars, cleanVars
<1>r. "error" \in Result /\ "notfound" \in Result /\ "stored" \in Result
      /\ "gone" \in Result /\ "expired" \in Result /\ "ok" \in Result
      /\ "deleted" \in Result /\ "queued" \in Result
  BY DEF Result
<1>p. Access(c) \in CallPC \ {"limit", "count"} /\ "register" \in CallPC /\ "blocked" \in CallPC
      /\ "limit" \in CallPC /\ "count" \in CallPC /\ "delete" \in CallPC /\ "untrack" \in CallPC
  BY DEF CallPC, Access
<1>c. content[c] \in Task \cup {None}
  BY DEF TypeOK
<1>k. ASSUME call[c] # "idle" PROVE id[c] \in Key
  BY <1>k DEF TypeOK
<1>q. ASSUME UNCHANGED <<calls, db, accessCount, served, erased, forgotten>>
      PROVE  /\ calls' \in Nat /\ db' \in [Key -> Task \cup {None}]
             /\ accessCount' \in [Key -> Nat] /\ served' \in [Task -> Nat]
             /\ erased' \subseteq Task /\ forgotten' \subseteq Task
  BY <1>q DEF TypeOK
<1>1. CASE Arrive(c)
  <2>1. PICK o \in Op, k \in Key : Begin(c, o, k)
    BY <1>1 DEF Arrive
  <2>2. others /\ calls' \in Nat /\ UNCHANGED <<db, accessCount, served, erased, forgotten>>
    BY <1>1, <2>1 DEF Arrive, Begin, TypeOK
  <2>3. CASE Return(c, "queued")
    BY <2>2, <2>3, <1>o, <1>r DEF TypeOK
  <2>4. CASE ~(o = "status" /\ Pending(k))
    <3>1. /\ call' = [call EXCEPT ![c] = "check"] /\ op' = [op EXCEPT ![c] = o]
          /\ id' = [id EXCEPT ![c] = k] /\ result' = [result EXCEPT ![c] = "none"]
          /\ due' = [due EXCEPT ![c] = {t \in Acknowledged : KeyOf[t] = k}]
          /\ UNCHANGED content
      BY <2>1, <2>4 DEF Begin
    <3>2. /\ o \in {"none", "get", "status", "delete"} /\ k # None
          /\ {t \in Acknowledged : KeyOf[t] = k} \subseteq Task
      BY StoreAssumption DEF Acknowledged
    <3>3. QED
      <4>1. /\ call' \in [Caller -> CallPC] /\ id' \in [Caller -> Key \cup {None}]
            /\ op' \in [Caller -> {"none", "get", "status", "delete"}]
            /\ result' \in [Caller -> Result] /\ due' \in [Caller -> SUBSET Task]
        BY <3>1, <3>2 DEF TypeOK, CallPC, Result
      <4>2. /\ \A d \in Caller : call'[d] # "idle" => id'[d] # None
            /\ \A d \in Caller : call'[d] \in {"limit", "count"} => content'[d] # None
        BY <3>1, <3>2 DEF TypeOK
      <4>3. QED
        BY <2>2, <3>1, <4>1, <4>2 DEF TypeOK, storeVars, queueVars, cleanVars
  <2>5. QED
    BY <2>1, <2>3, <2>4 DEF Begin
<1>2. CASE Request(c)
  <2> USE <1>c DEF Goto
  <2>0. others
    BY <1>2 DEF Request
  <2>1. CASE CheckQueue(c)
    BY <2>0, <2>1, <1>o, <1>p, <1>q DEF CheckQueue
  <2>2. CASE WaitRegister(c)
    BY <2>0, <2>2, <1>o, <1>p, <1>q DEF WaitRegister
  <2>3. CASE WaitNotified(c)
    BY <2>0, <2>3, <1>o, <1>p, <1>q DEF WaitNotified
  <2>4. CASE WaitTimeout(c)
    BY <2>0, <2>4, <1>o, <1>r, <1>q DEF WaitTimeout
  <2>5. CASE DatabaseError(c)
    BY <2>0, <2>5, <1>o, <1>r, <1>q DEF DatabaseError
  <2>6. CASE Read(c)
    <3>1. Exists(id[c]) => db[id[c]] \in Task /\ db[id[c]] # None
      BY <2>6, <1>k DEF Read, TypeOK, Exists
    <3>2. QED
      BY <2>0, <2>6, <3>1, <1>o, <1>p, <1>r, <1>q DEF Read
  <2>7. CASE CheckLimit(c)
    <3>1. content[c] # None
      BY <2>7 DEF CheckLimit, TypeOK
    <3>2. QED
      BY <2>0, <2>7, <3>1, <1>o, <1>p, <1>r, <1>q DEF CheckLimit
  <2>8. CASE CountAccess(c)
    <3>a. accessCount' = [accessCount EXCEPT ![id[c]] = accessCount[id[c]] + 1]
          /\ (served' = served \/ served' = [served EXCEPT ![content[c]] = served[content[c]] + 1])
      BY <2>8 DEF CountAccess
    <3>b. accessCount[id[c]] \in Nat /\ content[c] \in Task /\ served[content[c]] \in Nat
      BY <2>8, <1>k DEF CountAccess, TypeOK
    <3>1. accessCount' \in [Key -> Nat] /\ served' \in [Task -> Nat]
      <4>1. accessCount \in [Key -> Nat] /\ served \in [Task -> Nat] /\ id[c] \in Key
        BY <2>8, <1>k DEF CountAccess, TypeOK
      <4>2. QED
        BY <3>a, <3>b, <4>1, CountUpType
    <3>2. UNCHANGED <<calls, db, erased, forgotten>>
          /\ (Return(c, "expired") \/ Return(c, "ok"))
      BY <2>8 DEF CountAccess
    <3>3. QED
      BY <2>0, <3>1, <3>2, <1>o, <1>r DEF TypeOK
  <2>9. CASE CheckExists(c)
    BY <2>0, <2>9, <1>o, <1>p, <1>r, <1>q DEF CheckExists
  <2>10. CASE DeleteKey(c)
    <3>1. db' \in [Key -> Task \cup {None}] /\ erased' \subseteq Task
      BY <2>10, <1>k DEF DeleteKey, TypeOK
    <3>2. UNCHANGED <<calls, accessCount, served, forgotten>>
          /\ call[c] # "idle" /\ GotoWith(c, "untrack", content[c])
      BY <2>10 DEF DeleteKey
    <3>3. QED
      BY <2>0, <3>1, <3>2, <1>o, <1>p DEF TypeOK
  <2>11. CASE RemoveAccess(c)
    <3>1. accessCount' \in [Key -> Nat] /\ forgotten' \subseteq Task
      BY <2>11, <1>k DEF RemoveAccess, TypeOK, Losing, Exists
    <3>2. UNCHANGED <<calls, db, served, erased>> /\ Return(c, "deleted")
      BY <2>11 DEF RemoveAccess
    <3>3. QED
      BY <2>0, <3>1, <3>2, <1>o, <1>r DEF TypeOK
  <2>12. QED
    BY <1>2, <2>1, <2>2, <2>3, <2>4, <2>5, <2>6, <2>7, <2>8, <2>9, <2>10, <2>11 DEF Request
<1>3. QED
  BY <1>1, <1>2

LEMMA TypeInit == Init => TypeOK
BY DEF Init, TypeOK, StorePC, CallPC, Result, CleanerPC

LEMMA TypeStep == ASSUME TypeOK, [Next]_vars PROVE TypeOK'
<1>1. ASSUME NEW t \in Task, Expire(t) PROVE TypeOK'
  BY <1>1, StoreAssumption DEF Expire, TypeOK, callVars, cleanVars, storeVars, queueVars
<1>2. CASE UNCHANGED vars
  BY <1>2 DEF vars, TypeOK, callVars, cleanVars, storeVars, queueVars
<1>3. QED
  BY <1>1, <1>2, StoreType, WorkerType, CleanType, RequestType DEF Next, AtRest

\* Every variable keeps its type, and a Get past its read holds a content: a
\* missing key never reaches the access count.
THEOREM TypeCorrect == Spec => []TypeOK
BY TypeInit, TypeStep, PTL DEF Spec

-------------------------------------------------------------------------------
(* The queue *)

Distinct == \A i, j \in DOMAIN writeQueue : writeQueue[i] = writeQueue[j] => i = j

LEMMA AppendQueues ==
  ASSUME TypeOK, NEW t \in Task, writeQueue' = Append(writeQueue, t)
  PROVE  /\ \A u \in Task : Queued(u)' <=> Queued(u) \/ u = t
         /\ Distinct /\ ~Queued(t) => Distinct'
<1>1. writeQueue \in Seq(Task)
  BY DEF TypeOK
<1>2. /\ DOMAIN writeQueue = 1..Len(writeQueue) /\ Len(writeQueue) \in Nat
      /\ DOMAIN writeQueue' = 1..(Len(writeQueue) + 1)
      /\ \A i \in DOMAIN writeQueue : writeQueue'[i] = writeQueue[i]
      /\ writeQueue'[Len(writeQueue) + 1] = t
  BY <1>1
<1>3. \A i \in DOMAIN writeQueue' : i \in DOMAIN writeQueue \/ i = Len(writeQueue) + 1
  BY <1>2
<1>4. \A i \in DOMAIN writeQueue : i \in DOMAIN writeQueue'
  BY <1>2
<1>5. Len(writeQueue) + 1 \in DOMAIN writeQueue'
  BY <1>2
<1>6. QED
  BY <1>2, <1>3, <1>4, <1>5 DEF Queued, Distinct

LEMMA TailQueues ==
  ASSUME TypeOK, Distinct, writeQueue # <<>>, writeQueue' = Tail(writeQueue)
  PROVE  /\ Head(writeQueue) \in Task
         /\ Queued(Head(writeQueue))
         /\ \A u \in Task : Queued(u)' <=> Queued(u) /\ u # Head(writeQueue)
         /\ Distinct'
<1>1. writeQueue \in Seq(Task)
  BY DEF TypeOK
<1>2. /\ DOMAIN writeQueue = 1..Len(writeQueue) /\ Len(writeQueue) \in Nat
      /\ Len(writeQueue) # 0 /\ Head(writeQueue) = writeQueue[1]
      /\ DOMAIN writeQueue' = 1..(Len(writeQueue) - 1)
      /\ \A i \in DOMAIN writeQueue' : writeQueue'[i] = writeQueue[i + 1]
  BY <1>1
<1>3. 1 \in DOMAIN writeQueue
  BY <1>2
<1>4. \A i \in DOMAIN writeQueue' : i + 1 \in DOMAIN writeQueue /\ i + 1 # 1
  BY <1>2
<1>5. \A i \in DOMAIN writeQueue : i # 1 => i - 1 \in DOMAIN writeQueue' /\ (i - 1) + 1 = i
  BY <1>2
<1>6. \A i, j \in DOMAIN writeQueue' : i + 1 = j + 1 => i = j
  BY <1>2
<1>7. Head(writeQueue) \in Task /\ Queued(Head(writeQueue))
  BY <1>1, <1>2, <1>3 DEF Queued
<1>8. Distinct'
  BY <1>2, <1>4, <1>6 DEF Distinct
<1>9. ASSUME NEW u \in Task PROVE Queued(u)' <=> Queued(u) /\ u # Head(writeQueue)
  <2>1. ASSUME NEW i \in DOMAIN writeQueue', writeQueue'[i] = u
        PROVE  Queued(u) /\ u # Head(writeQueue)
    BY <1>2, <1>3, <1>4, <2>1 DEF Queued, Distinct
  <2>2. ASSUME NEW i \in DOMAIN writeQueue, writeQueue[i] = u, u # Head(writeQueue)
        PROVE  Queued(u)'
    BY <1>2, <1>5, <2>2 DEF Queued
  <2>3. QED
    BY <2>1, <2>2 DEF Queued
<1>10. QED
  BY <1>7, <1>8, <1>9

LEMMA QueueKept ==
  ASSUME QueueInv, UNCHANGED <<store, writeQueue, settling, stored, failed>>
  PROVE  QueueInv'
BY DEF QueueInv, Queued

LEMMA QueueStep == ASSUME TypeOK, QueueInv, [Next]_vars PROVE QueueInv'
<1>t. /\ store \in [Task -> StorePC] /\ stored \subseteq Task
      /\ "idle" \notin Accepted /\ "track" \in Accepted /\ "ok" \in Accepted
      /\ KeyOf \in [Task -> Key] /\ None \notin Key
  BY StoreAssumption DEF TypeOK, Accepted
<1>d. Distinct
  BY DEF QueueInv, Distinct
<1>1. ASSUME NEW t \in Task, StoreSend(t) PROVE QueueInv'
  <2>1. /\ store[t] = "idle" /\ store' = [store EXCEPT ![t] = "track"]
        /\ writeQueue' = Append(writeQueue, t) /\ UNCHANGED <<settling, stored, failed>>
    BY <1>1 DEF StoreSend
  <2>2. ~Queued(t) /\ t \notin stored
    BY <2>1, <1>t DEF QueueInv
  <2>3. /\ \A u \in Task : Queued(u)' <=> Queued(u) \/ u = t
        /\ Distinct'
    BY <2>1, <2>2, <1>d, AppendQueues
  <2>4. \A u \in Task : store'[u] \in Accepted <=> store[u] \in Accepted \/ u = t
    BY <2>1, <1>t
  <2>5. QED
    BY <2>1, <2>2, <2>3, <2>4, <1>t DEF QueueInv, Distinct
<1>2. ASSUME NEW t \in Task, StoreRefused(t) \/ StoreTrack(t) PROVE QueueInv'
  <2>1. /\ UNCHANGED <<writeQueue, settling, stored, failed>>
        /\ \A u \in Task : store'[u] \in Accepted <=> store[u] \in Accepted
    BY <1>2, <1>t DEF StoreRefused, StoreTrack, queueVars, Accepted
  <2>2. \A u \in Task : Queued(u)' <=> Queued(u)
    BY <2>1 DEF Queued
  <2>3. QED
    BY <2>1, <2>2, <1>t DEF QueueInv
<1>3. ASSUME Commit, UNCHANGED store PROVE QueueInv'
  <2> DEFINE h == Head(writeQueue)
  <2>1. /\ h \in Task /\ Queued(h) /\ Distinct'
        /\ \A u \in Task : Queued(u)' <=> Queued(u) /\ u # h
    BY <1>3, <1>d, TailQueues DEF Commit
  <2>2. /\ settling' = KeyOf[h]
        /\ stored' \subseteq stored \cup {h} /\ stored \subseteq stored'
        /\ stored' \cup failed' = stored \cup failed \cup {h}
    BY <1>3 DEF Commit
  <2>3. store[h] \in Accepted
    BY <2>1 DEF QueueInv
  <2>4. /\ \A u \in Task : Queued(u)' => store'[u] \in Accepted /\ u \notin stored'
        /\ \A u \in stored' : store'[u] \in Accepted
    BY <1>3, <2>1, <2>2, <2>3 DEF QueueInv
  <2>5. \A u \in Task : store'[u] \in Accepted => Queued(u)' \/ u \in stored' \cup failed'
    BY <1>3, <2>1, <2>2 DEF QueueInv
  <2>6. \E u \in Task : store'[u] \in Accepted /\ ~Queued(u)' /\ KeyOf[u] = settling'
    BY <1>3, <2>1, <2>2, <2>3
  <2>7. QED
    BY <2>1, <2>4, <2>5, <2>6 DEF QueueInv, Distinct
<1>4. ASSUME Settle, UNCHANGED store PROVE QueueInv'
  BY <1>4 DEF Settle, QueueInv, Queued
<1>5. QED
  <2>1. ASSUME NEW t \in Task, Store(t) PROVE QueueInv'
    BY <2>1, <1>1, <1>2 DEF Store
  <2>2. CASE Worker
    BY <2>2, <1>3, <1>4 DEF Worker, storeVars
  <2>3. ASSUME NEW t \in Task, Expire(t) PROVE QueueInv'
    BY <2>3, QueueKept DEF Expire, storeVars, queueVars
  <2>4. ASSUME NEW c \in Caller, Arrive(c) \/ Request(c) PROVE QueueInv'
    BY <2>4, QueueKept DEF Arrive, Request, storeVars, queueVars
  <2>5. ASSUME NEW g \in Cleaner, Clean(g) PROVE QueueInv'
    BY <2>5, QueueKept DEF Clean, storeVars, queueVars
  <2>6. CASE UNCHANGED vars
    BY <2>6, QueueKept DEF vars, storeVars, queueVars
  <2>7. QED
    BY <2>1, <2>2, <2>3, <2>4, <2>5, <2>6 DEF Next, AtRest

-------------------------------------------------------------------------------
(* Requests move one caller *)

\* c goes to pc, or is answered and idle again; the other callers stay
Moves(c) ==
  /\ \A d \in Caller \ {c} : /\ call'[d] = call[d] /\ id'[d] = id[d]
                             /\ content'[d] = content[d] /\ due'[d] = due[d]
                             /\ result'[d] = result[d]
  /\ \/ call'[c] = "idle" /\ due'[c] = {} /\ call' \in [Caller -> CallPC]
     \/ call'[c] = "check" /\ due'[c] = {t \in Acknowledged : KeyOf[t] = id'[c]}
     \/ id'[c] = id[c] /\ due'[c] = due[c] /\ call[c] # "idle"

LEMMA ReturnMoves ==
  ASSUME TypeOK, NEW c \in Caller, NEW r, Return(c, r)
  PROVE  /\ Moves(c) /\ call'[c] = "idle" /\ due'[c] = {} /\ result'[c] = r
         /\ call' = [call EXCEPT ![c] = "idle"]
BY DEF TypeOK, Return, Moves, CallPC

LEMMA GotoMoves ==
  ASSUME TypeOK, NEW c \in Caller, NEW pc, NEW t, call[c] # "idle", GotoWith(c, pc, t)
  PROVE  /\ Moves(c) /\ call'[c] = pc /\ content'[c] = t
         /\ id'[c] = id[c] /\ due'[c] = due[c] /\ result'[c] = result[c]
         /\ call' = [call EXCEPT ![c] = pc]
BY DEF TypeOK, GotoWith, Moves

LEMMA BeginMoves ==
  ASSUME TypeOK, NEW c \in Caller, NEW o, NEW k, Begin(c, o, k)
  PROVE  /\ Moves(c) /\ call'[c] \in {"idle", "check"} /\ call[c] = "idle"
         /\ result'[c] # "notfound"
         /\ UNCHANGED <<db, accessCount, served, erased, forgotten>>
<1>1. CASE Return(c, "queued")
  BY <1>1, ReturnMoves DEF Begin
<1>2. CASE ~Return(c, "queued")
  BY <1>2 DEF Begin, Moves, TypeOK
<1>3. QED
  BY <1>1, <1>2

-------------------------------------------------------------------------------
(* Where contents come from *)

LEMMA ContentKept ==
  ASSUME ContentInv, UNCHANGED <<db, stored, call, id, content, served>>
  PROVE  ContentInv'
BY DEF ContentInv, Exists

LEMMA RequestKeepsContent ==
  ASSUME TypeOK, ContentInv, NEW c \in Caller, Request(c)
  PROVE  ContentInv'
<1>s. UNCHANGED stored
  BY DEF Request, queueVars
<1>a. Access(c) \notin {"limit", "count"}
  BY DEF Access
<1>m. ASSUME Moves(c), UNCHANGED <<db, served>>,
             call'[c] \in {"limit", "count"} =>
               content'[c] \in stored /\ KeyOf[content'[c]] = id'[c]
      PROVE  ContentInv'
  BY <1>m, <1>s DEF ContentInv, Exists, Moves
<1>r. ASSUME NEW r, Return(c, r), UNCHANGED <<db, served>> PROVE ContentInv'
  BY <1>m, <1>r, ReturnMoves
<1>g. ASSUME NEW pc, NEW t, pc \notin {"limit", "count"}, call[c] # "idle",
             GotoWith(c, pc, t), UNCHANGED <<db, served>>
      PROVE  ContentInv'
  BY <1>m, <1>g, GotoMoves
<1>1. CASE CheckQueue(c)
  BY <1>1, <1>a, <1>g DEF CheckQueue, Goto
<1>2. CASE WaitRegister(c)
  BY <1>2, <1>g DEF WaitRegister, Goto
<1>3. CASE WaitNotified(c)
  BY <1>3, <1>a, <1>g DEF WaitNotified, Goto
<1>4. CASE WaitTimeout(c) \/ DatabaseError(c)
  BY <1>4, <1>r DEF WaitTimeout, DatabaseError
<1>5. CASE Read(c)
  <2>1. CASE Return(c, "notfound") \/ Return(c, "stored")
    BY <1>5, <2>1, <1>r DEF Read
  <2>2. CASE Exists(id[c]) /\ GotoWith(c, "limit", db[id[c]])
    <3>1. db[id[c]] \in stored /\ KeyOf[db[id[c]]] = id[c]
      BY <1>5, <2>2 DEF Read, ContentInv, TypeOK
    <3>2. QED
      BY <1>5, <2>2, <3>1, <1>m, GotoMoves DEF Read
  <2>3. QED
    BY <1>5, <2>1, <2>2 DEF Read
<1>6. CASE CheckLimit(c)
  <2>1. CASE Return(c, "gone")
    BY <1>6, <2>1, <1>r DEF CheckLimit
  <2>2. CASE Goto(c, "count")
    BY <1>6, <2>2, <1>m, GotoMoves DEF CheckLimit, Goto, ContentInv
  <2>3. QED
    BY <1>6, <2>1, <2>2 DEF CheckLimit
<1>7. CASE CountAccess(c)
  <2>1. \E r : Return(c, r)
    BY <1>7 DEF CountAccess
  <2>2. Moves(c) /\ call'[c] = "idle"
    BY <2>1, ReturnMoves
  <2>3. content[c] \in stored
    BY <1>7 DEF CountAccess, ContentInv
  <2>4. \A t \in Task : t # content[c] => served'[t] = served[t]
    BY <1>7 DEF CountAccess, TypeOK
  <2>5. \A t \in Task : served'[t] > 0 => t \in stored
    BY <2>3, <2>4 DEF ContentInv
  <2>6. UNCHANGED db
    BY <1>7 DEF CountAccess
  <2>7. QED
    BY <1>s, <2>2, <2>5, <2>6 DEF ContentInv, Exists, Moves
<1>8. CASE CheckExists(c)
  BY <1>8, <1>g, <1>r DEF CheckExists, Goto
<1>9. CASE DeleteKey(c)
  <2>1. GotoWith(c, "untrack", content[c]) /\ call[c] # "idle"
        /\ db' = [db EXCEPT ![id[c]] = None] /\ UNCHANGED served
    BY <1>9 DEF DeleteKey, Goto
  <2>2. Moves(c) /\ call'[c] = "untrack"
    BY <2>1, GotoMoves
  <2>3. \A k \in Key : db'[k] # None => db'[k] = db[k]
    BY <2>1 DEF TypeOK
  <2>4. QED
    BY <1>s, <2>1, <2>2, <2>3 DEF ContentInv, Exists, Moves
<1>10. CASE RemoveAccess(c)
  BY <1>10, <1>r DEF RemoveAccess
<1>11. QED
  BY <1>1, <1>2, <1>3, <1>4, <1>5, <1>6, <1>7, <1>8, <1>9, <1>10 DEF Request

LEMMA ContentStep ==
  ASSUME TypeOK, QueueInv, ContentInv, [Next]_vars
  PROVE  ContentInv'
<1>1. ASSUME NEW t \in Task, Store(t) \/ Expire(t) PROVE ContentInv'
  <2>1. UNCHANGED <<db, call, id, content, served, stored>>
    BY <1>1 DEF Store, StoreSend, StoreRefused, StoreTrack, Expire, queueVars, callVars
  <2>2. QED
    BY <2>1, ContentKept
<1>2. CASE Worker
  <2>0. UNCHANGED <<id, content, served>>
    BY <1>2 DEF Worker, callVars
  <2>1. CASE Commit
    <3> DEFINE h == Head(writeQueue)
    <3>1. h \in Task /\ UNCHANGED call
      BY <2>1, TailQueues DEF Commit, QueueInv, Distinct
    <3>2. \/ db' = [db EXCEPT ![KeyOf[h]] = h] /\ stored' = stored \cup {h}
          \/ UNCHANGED <<db, stored>>
      BY <2>1 DEF Commit
    <3>3. \A k \in Key : db'[k] # None => db'[k] \in stored' /\ KeyOf[db'[k]] = k
      BY <3>1, <3>2 DEF ContentInv, Exists, TypeOK
    <3>4. stored \subseteq stored'
      BY <3>2
    <3>5. QED
      BY <2>0, <3>1, <3>3, <3>4 DEF ContentInv, Exists
  <2>2. CASE Settle
    <3>1. /\ UNCHANGED <<db, stored>>
          /\ \A c \in Caller : call'[c] \in {"limit", "count"} => call'[c] = call[c]
      BY <2>2 DEF Settle
    <3>2. QED
      BY <2>0, <3>1 DEF ContentInv, Exists
  <2>3. QED
    BY <1>2, <2>1, <2>2 DEF Worker
<1>3. ASSUME NEW c \in Caller, Arrive(c) PROVE ContentInv'
  <2>1. PICK o \in Op, k \in Key : Begin(c, o, k)
    BY <1>3 DEF Arrive
  <2>2. Moves(c) /\ call'[c] \in {"idle", "check"} /\ UNCHANGED <<db, served, stored>>
    BY <1>3, <2>1, BeginMoves DEF Arrive, queueVars
  <2>3. QED
    BY <2>2 DEF ContentInv, Exists, Moves
<1>4. ASSUME NEW g \in Cleaner, Clean(g) PROVE ContentInv'
  BY <1>4, ContentKept DEF Clean, callVars, queueVars
<1>5. CASE UNCHANGED vars
  BY <1>5, ContentKept DEF vars, callVars, queueVars
<1>6. QED
  BY <1>1, <1>2, <1>3, <1>4, <1>5, RequestKeepsContent DEF Next, AtRest

-------------------------------------------------------------------------------
(* Acknowledged writes *)

LEMMA OrderKept ==
  ASSUME OrderInv,
         UNCHANGED <<store, overlapped, writeQueue, settling, pendingItems, db, call,
                     id, due, erased, stored>>
  PROVE  OrderInv'
BY DEF OrderInv, Queued, Pending, Exists

LEMMA StoreKeepsOrder ==
  ASSUME TypeOK, QueueInv, OrderInv, NEW t \in Task, Store(t)
  PROVE  OrderInv'
<1>0. /\ UNCHANGED <<db, call, id, due, erased, stored, settling>>
      /\ store \in [Task -> StorePC] /\ KeyOf \in [Task -> Key] /\ None \notin Task
      /\ erased \subseteq Task /\ due \in [Caller -> SUBSET Task]
      /\ "idle" \notin Accepted /\ "track" \in Accepted /\ "ok" \in Accepted
  BY StoreAssumption
     DEF Store, StoreSend, StoreRefused, StoreTrack, queueVars, callVars, TypeOK, Accepted
<1>1. CASE StoreSend(t)
  <2>1. /\ store[t] = "idle" /\ store' = [store EXCEPT ![t] = "track"]
        /\ writeQueue' = Append(writeQueue, t) /\ UNCHANGED pendingItems
        /\ overlapped \subseteq overlapped'
        /\ InProgress(t) # {} => t \in overlapped' /\ InProgress(t) \subseteq overlapped'
    BY <1>1 DEF StoreSend
  <2>2. \A u \in Task : Queued(u)' <=> Queued(u) \/ u = t
    BY <2>1, AppendQueues
  <2>3. \A u \in Task \ {t} : store'[u] = store[u]
    BY <2>1, <1>0
  <2>4. /\ t \notin erased /\ \A c \in Caller : t \notin due[c]
        /\ ~Queued(t) /\ store'[t] = "track"
    BY <2>1, <1>0 DEF OrderInv, QueueInv
  <2>5. ASSUME t \notin overlapped' PROVE settling # KeyOf[t]
    <3>1. SUFFICES ASSUME settling = KeyOf[t] PROVE FALSE
      OBVIOUS
    <3>2. PICK u \in Task : store[u] \in Accepted /\ KeyOf[u] = settling
      BY <3>1, <1>0, StoreAssumption DEF QueueInv
    <3>3. u \in InProgress(t)
      BY <2>1, <3>1, <3>2, <1>0 DEF InProgress
    <3>4. QED
      BY <2>1, <2>5, <3>3
  <2>6. ASSUME NEW u \in Task, u # t, KeyOf[u] = KeyOf[t], Queued(u)
        PROVE  t \in overlapped' /\ u \in overlapped'
    <3>1. u \in InProgress(t)
      BY <2>6 DEF InProgress
    <3>2. QED
      BY <2>1, <3>1
  <2>7. ASSUME NEW u \in Task \ overlapped', Queued(u)'
        PROVE  /\ settling' # KeyOf[u]
               /\ store'[u] = "ok" => Pending(KeyOf[u])'
               /\ \A v \in Task : v # u /\ KeyOf[v] = KeyOf[u] => ~Queued(v)'
    <3>1. CASE u = t
      BY <3>1, <2>2, <2>4, <2>5, <2>6, <2>7, <1>0
    <3>2. CASE u # t
      <4>1. /\ settling # KeyOf[u]
            /\ store[u] = "ok" => Pending(KeyOf[u])
            /\ \A v \in Task : v # u /\ KeyOf[v] = KeyOf[u] => ~Queued(v)
        BY <3>2, <2>1, <2>2, <2>7 DEF OrderInv
      <4>2. QED
        BY <3>2, <4>1, <2>1, <2>2, <2>3, <2>6, <2>7, <1>0 DEF Pending
    <3>3. QED
      BY <3>1, <3>2
  <2>8. /\ \A c \in Caller : \A u \in due'[c] : store'[u] = "ok" /\ KeyOf[u] = id'[c]
        /\ \A c \in Caller : call'[c] \in PastQueue =>
             \A u \in due'[c] \ overlapped' : ~Queued(u)'
    <3>1. ASSUME NEW c \in Caller, NEW u \in due[c]
          PROVE  /\ u \in Task /\ u # t /\ store'[u] = "ok" /\ KeyOf[u] = id[c]
                 /\ Queued(u)' <=> Queued(u)
      BY <2>2, <2>3, <2>4, <1>0 DEF OrderInv
    <3>2. ASSUME NEW c \in Caller, call[c] \in PastQueue, NEW u \in due[c] \ overlapped
          PROVE  ~Queued(u)
      BY <3>2 DEF OrderInv
    <3>3. QED
      BY <3>1, <3>2, <2>1, <1>0
  <2>9. /\ \A u \in erased' : store'[u] \in Accepted
        /\ \A u \in erased' \ overlapped' : ~Queued(u)' /\ db'[KeyOf[u]] # u
    BY <1>0, <2>1, <2>2, <2>3, <2>4 DEF OrderInv
  <2>10. \A u \in stored' \ erased' : Exists(KeyOf[u])'
    BY <1>0 DEF OrderInv, Exists
  <2>11. QED
    BY <2>7, <2>8, <2>9, <2>10 DEF OrderInv
<1>2. CASE StoreRefused(t) \/ StoreTrack(t)
  <2>1. /\ UNCHANGED <<writeQueue, overlapped>>
        /\ \A u \in Task : store'[u] \in Accepted <=> store[u] \in Accepted
        /\ \A u \in Task : store[u] = "ok" => store'[u] = "ok"
        /\ \A u \in Task : u # t => store'[u] = store[u]
        /\ \A k \in Key : Pending(k) => Pending(k)'
        /\ store'[t] = "ok" => Pending(KeyOf[t])'
    BY <1>0, <1>2 DEF StoreRefused, StoreTrack, queueVars, Accepted, Pending, TypeOK
  <2>2. \A u \in Task : Queued(u)' <=> Queued(u)
    BY <2>1 DEF Queued
  <2>3. ASSUME NEW u \in Task \ overlapped', Queued(u)'
        PROVE  /\ settling' # KeyOf[u]
               /\ store'[u] = "ok" => Pending(KeyOf[u])'
               /\ \A v \in Task : v # u /\ KeyOf[v] = KeyOf[u] => ~Queued(v)'
    BY <1>0, <2>1, <2>2, <2>3 DEF OrderInv
  <2>4. QED
    BY <1>0, <2>1, <2>2, <2>3 DEF OrderInv, Exists
<1>3. QED
  BY <1>1, <1>2 DEF Store

LEMMA WorkerKeepsOrder ==
  ASSUME TypeOK, QueueInv, OrderInv, Worker
  PROVE  OrderInv'
<1>0. /\ UNCHANGED <<store, overlapped, id, due, erased>>
      /\ KeyOf \in [Task -> Key] /\ None \notin Task \cup Key
      /\ erased \subseteq Task /\ due \in [Caller -> SUBSET Task] /\ stored \subseteq Task
  BY StoreAssumption DEF Worker, storeVars, callVars, TypeOK
<1>1. CASE Commit
  <2> DEFINE h == Head(writeQueue)
  <2>1. /\ h \in Task /\ Queued(h)
        /\ \A u \in Task : Queued(u)' <=> Queued(u) /\ u # h
    BY <1>1, TailQueues DEF Commit, QueueInv, Distinct
  <2>2. /\ settling' = KeyOf[h] /\ UNCHANGED <<pendingItems, call>>
        /\ \/ db' = [db EXCEPT ![KeyOf[h]] = h] /\ stored' = stored \cup {h}
           \/ UNCHANGED <<db, stored>>
    BY <1>1 DEF Commit
  <2>3. \A u \in Task \ overlapped : Queued(u)' =>
          /\ settling' # KeyOf[u]
          /\ store'[u] = "ok" => Pending(KeyOf[u])'
          /\ \A v \in Task : v # u /\ KeyOf[v] = KeyOf[u] => ~Queued(v)'
    BY <1>0, <2>1, <2>2 DEF OrderInv, Pending
  <2>4. \A u \in erased \ overlapped : db'[KeyOf[u]] # u
    <3>1. \A u \in erased \ overlapped : u # h /\ db[KeyOf[u]] # u
      BY <2>1 DEF OrderInv
    <3>2. QED
      BY <1>0, <2>1, <2>2, <3>1 DEF TypeOK
  <2>5. \A u \in stored' \ erased : db'[KeyOf[u]] # None
    BY <1>0, <2>1, <2>2 DEF OrderInv, Exists, TypeOK
  <2>6. QED
    BY <1>0, <2>1, <2>2, <2>3, <2>4, <2>5 DEF OrderInv, Exists
<1>2. CASE Settle
  <2>1. /\ settling # None /\ settling' = None /\ UNCHANGED <<writeQueue, stored, db>>
        /\ \A k \in Key : k # settling => pendingItems'[k] = pendingItems[k]
        /\ \A c \in Caller : call'[c] = call[c] \/ id[c] = settling
    BY <1>2 DEF Settle, TypeOK
  <2>2. \A u \in Task : Queued(u)' <=> Queued(u)
    BY <2>1 DEF Queued
  <2>3. \A u \in Task \ overlapped : Queued(u)' =>
          /\ settling' # KeyOf[u]
          /\ store'[u] = "ok" => Pending(KeyOf[u])'
          /\ \A v \in Task : v # u /\ KeyOf[v] = KeyOf[u] => ~Queued(v)'
    BY <1>0, <2>1, <2>2 DEF OrderInv, Pending
  <2>4. ASSUME NEW c \in Caller, call'[c] \in PastQueue, NEW u \in due[c] \ overlapped
        PROVE  ~Queued(u)
    <3>1. u \in Task /\ KeyOf[u] = id[c]
      BY <1>0, <2>4 DEF OrderInv
    <3>2. CASE id[c] = settling
      BY <3>1, <3>2, <2>4 DEF OrderInv
    <3>3. CASE call'[c] = call[c]
      BY <3>3, <2>4 DEF OrderInv
    <3>4. QED
      BY <2>1, <3>2, <3>3
  <2>5. QED
    BY <1>0, <2>1, <2>2, <2>3, <2>4 DEF OrderInv, Exists
<1>3. QED
  BY <1>1, <1>2 DEF Worker

LEMMA RequestKeepsOrder ==
  ASSUME TypeOK, QueueInv, OrderInv, NEW c \in Caller, Arrive(c) \/ Request(c)
  PROVE  OrderInv'
<1>0. /\ UNCHANGED <<store, overlapped, writeQueue, settling, pendingItems, stored>>
      /\ KeyOf \in [Task -> Key] /\ None \notin Task \cup Key
      /\ due \in [Caller -> SUBSET Task] /\ stored \subseteq Task
  BY StoreAssumption DEF Arrive, Request, storeVars, queueVars, TypeOK
<1>q. \A u \in Task : Queued(u)' <=> Queued(u)
  BY <1>0 DEF Queued
\* A caller that enters PastQueue leaves no queued write behind
<1>m. ASSUME Moves(c), UNCHANGED <<db, erased>>,
             call'[c] \in PastQueue => \A u \in due'[c] \ overlapped : ~Queued(u)
      PROVE  OrderInv'
  <2>1. \A u \in Task \ overlapped : Queued(u)' =>
          /\ settling' # KeyOf[u]
          /\ store'[u] = "ok" => Pending(KeyOf[u])'
          /\ \A v \in Task : v # u /\ KeyOf[v] = KeyOf[u] => ~Queued(v)'
    BY <1>0, <1>q DEF OrderInv, Pending
  <2>2. \A d \in Caller : \A u \in due'[d] : u \in Task /\ store[u] = "ok" /\ KeyOf[u] = id'[d]
    BY <1>0, <1>m DEF OrderInv, Moves, Acknowledged
  <2>3. \A d \in Caller : call'[d] \in PastQueue => \A u \in due'[d] \ overlapped : ~Queued(u)
    BY <1>m DEF OrderInv, Moves
  <2>4. /\ \A u \in erased' : store'[u] \in Accepted
        /\ \A u \in erased' \ overlapped' : ~Queued(u)' /\ db'[KeyOf[u]] # u
        /\ \A u \in stored' \ erased' : Exists(KeyOf[u])'
    <3>1. erased \subseteq Task
      BY DEF TypeOK
    <3>2. QED
      BY <1>0, <1>q, <1>m, <3>1 DEF OrderInv, Exists
  <2>5. /\ \A d \in Caller : \A u \in due'[d] : store'[u] = "ok" /\ KeyOf[u] = id'[d]
        /\ \A d \in Caller : call'[d] \in PastQueue =>
             \A u \in due'[d] \ overlapped' : ~Queued(u)'
    BY <1>0, <1>q, <2>2, <2>3
  <2>6. QED
    BY <1>0, <2>1, <2>4, <2>5 DEF OrderInv
<1>r. ASSUME NEW r, Return(c, r), UNCHANGED <<db, erased>> PROVE OrderInv'
  BY <1>m, <1>r, ReturnMoves
<1>g. ASSUME NEW pc, NEW t, call[c] # "idle", GotoWith(c, pc, t), UNCHANGED <<db, erased>>,
             \/ pc \notin PastQueue
             \/ call[c] \in PastQueue
             \/ \A u \in due[c] \ overlapped : ~Queued(u)
      PROVE  OrderInv'
  <2>1. Moves(c) /\ call'[c] = pc /\ due'[c] = due[c]
    BY <1>g, GotoMoves
  <2>2. QED
    BY <2>1, <1>m, <1>g DEF OrderInv
<1>p. \A pc \in {"woken", "read", "limit", "count", "exists", "delete", "untrack"} :
        pc \in PastQueue
  BY DEF PastQueue, CallPC
<1>n. "register" \notin PastQueue /\ "blocked" \notin PastQueue
  BY DEF PastQueue
<1>1. CASE Arrive(c)
  <2>1. PICK o \in Op, k \in Key : Begin(c, o, k)
    BY <1>1 DEF Arrive
  <2>2. QED
    BY <2>1, <1>m, BeginMoves DEF PastQueue
<1>2. CASE CheckQueue(c)
  <2>1. ~Pending(id[c]) => \A u \in due[c] \ overlapped : ~Queued(u)
    BY <1>0 DEF OrderInv
  <2>2. QED
    BY <1>2, <2>1, <1>g, <1>n DEF CheckQueue, Goto
<1>3. CASE WaitRegister(c)
  BY <1>3, <1>g, <1>n DEF WaitRegister, Goto
<1>4. CASE WaitNotified(c)
  BY <1>4, <1>g, <1>p DEF WaitNotified, Goto
<1>5. CASE WaitTimeout(c) \/ DatabaseError(c)
  BY <1>5, <1>r DEF WaitTimeout, DatabaseError
<1>6. CASE Read(c)
  BY <1>6, <1>r, <1>g, <1>p DEF Read
<1>7. CASE CheckLimit(c)
  BY <1>7, <1>r, <1>g, <1>p DEF CheckLimit, Goto
<1>8. CASE CountAccess(c)
  BY <1>8, <1>r DEF CountAccess
<1>9. CASE CheckExists(c)
  BY <1>9, <1>r, <1>g, <1>p DEF CheckExists, Goto
<1>10. CASE DeleteKey(c)
  <2>1. /\ db' = [db EXCEPT ![id[c]] = None] /\ call[c] = "delete"
        /\ erased' = erased \cup due[c] \cup {t \in stored : KeyOf[t] = id[c]}
        /\ GotoWith(c, "untrack", content[c])
    BY <1>10 DEF DeleteKey, Goto
  <2>2. Moves(c) /\ due'[c] = due[c] /\ id'[c] = id[c]
    BY <2>1, GotoMoves
  <2>3. id[c] \in Key /\ db'[id[c]] = None /\ \A k \in Key : k # id[c] => db'[k] = db[k]
    BY <2>1 DEF TypeOK
  <2>4. \A u \in due[c] : u \in Task /\ store[u] = "ok" /\ KeyOf[u] = id[c]
    BY <1>0 DEF OrderInv
  <2>5. \A u \in due[c] \ overlapped : ~Queued(u)
    BY <2>1, <1>p DEF OrderInv
  <2>6. \A u \in erased' : u \in Task /\ store[u] \in Accepted
    BY <1>0, <2>1, <2>4 DEF OrderInv, QueueInv, Accepted, TypeOK
  <2>7. ASSUME NEW u \in erased' \ overlapped PROVE ~Queued(u) /\ db'[KeyOf[u]] # u
    <3>1. CASE u \in erased
      BY <1>0, <2>3, <2>6, <3>1 DEF OrderInv
    <3>2. CASE u \in due[c] \/ (u \in stored /\ KeyOf[u] = id[c])
      BY <1>0, <2>3, <2>4, <2>5, <2>6, <3>2 DEF QueueInv
    <3>3. QED
      BY <2>1, <3>1, <3>2
  <2>8. \A u \in stored \ erased' : db'[KeyOf[u]] # None
    BY <1>0, <2>1, <2>3 DEF OrderInv, Exists
  <2>9. \A u \in Task \ overlapped : Queued(u)' =>
          /\ settling' # KeyOf[u]
          /\ store'[u] = "ok" => Pending(KeyOf[u])'
          /\ \A v \in Task : v # u /\ KeyOf[v] = KeyOf[u] => ~Queued(v)'
    BY <1>0, <1>q DEF OrderInv, Pending
  <2>10. /\ \A d \in Caller : due'[d] = due[d] /\ id'[d] = id[d]
         /\ \A d \in Caller : call'[d] \in PastQueue => call[d] \in PastQueue
    BY <2>1, <2>2, <1>p DEF Moves
  <2>11. QED
    BY <1>0, <1>q, <2>6, <2>7, <2>8, <2>9, <2>10 DEF OrderInv, Exists
<1>11. CASE RemoveAccess(c)
  BY <1>11, <1>r DEF RemoveAccess
<1>12. QED
  BY <1>1, <1>2, <1>3, <1>4, <1>5, <1>6, <1>7, <1>8, <1>9, <1>10, <1>11 DEF Request

LEMMA OrderStep == ASSUME TypeOK, QueueInv, OrderInv, [Next]_vars PROVE OrderInv'
<1>1. ASSUME NEW t \in Task, Expire(t) PROVE OrderInv'
  BY <1>1, OrderKept DEF Expire, storeVars, queueVars, callVars
<1>2. ASSUME NEW g \in Cleaner, Clean(g) PROVE OrderInv'
  BY <1>2, OrderKept DEF Clean, storeVars, queueVars, callVars
<1>3. CASE UNCHANGED vars
  BY <1>3, OrderKept DEF vars, storeVars, queueVars, callVars
<1>4. QED
  BY <1>1, <1>2, <1>3, StoreKeepsOrder, WorkerKeepsOrder, RequestKeepsOrder
     DEF Next, AtRest

LEMMA StoreInit == ASSUME Init PROVE QueueInv /\ ContentInv /\ OrderInv
<1>1. \A t \in Task : ~Queued(t)
  BY DEF Init, Queued
<1>2. QueueInv
  BY <1>1 DEF Init, QueueInv, Accepted
<1>3. ContentInv
  BY DEF Init, ContentInv, Exists
<1>4. OrderInv
  BY <1>1 DEF Init, OrderInv, PastQueue
<1>5. QED
  BY <1>2, <1>3, <1>4

\* The inductive invariant of the store: what the queue holds is tracked, contents
\* come from committed writes, and requests past the queue check leave none behind.
THEOREM StoreCorrect == Spec => []StoreInv
<1>1. Init => StoreInv
  BY TypeInit, StoreInit DEF StoreInv
<1>2. StoreInv /\ [Next]_vars => StoreInv'
  BY TypeStep, QueueStep, ContentStep, OrderStep DEF StoreInv
<1>3. QED
  BY <1>1, <1>2, PTL DEF Spec

\* A write acknowledged before a successful Delete of its id, and overlapping with
\* no other write of the id, never comes back (badger_CRUD.go:125-134), for any
\* number of writes, ids and callers.
THEOREM DeletedContentStaysDeleted == Spec => []DeletedStaysDeleted
<1>1. StoreInv => DeletedStaysDeleted
  BY DEF StoreInv, OrderInv, DeletedStaysDeleted
<1>2. QED
  BY <1>1, StoreCorrect, PTL

LEMMA NotFoundStep ==
  ASSUME StoreInv, [Next]_vars, NEW c \in Caller,
         result[c] # "notfound", result'[c] = "notfound"
  PROVE  \A t \in due[c] \ overlapped : t \in failed \cup erased
<1>0. TypeOK /\ QueueInv /\ OrderInv
  BY DEF StoreInv
<1>1. ASSUME call[c] \in {"read", "exists"}, ~Exists(id[c]),
             NEW t \in due[c] \ overlapped
      PROVE  t \in failed \cup erased
  <2>1. t \in Task /\ store[t] = "ok" /\ KeyOf[t] = id[c]
    BY <1>0, <1>1 DEF OrderInv, TypeOK
  <2>2. ~Queued(t)
    BY <1>0, <1>1 DEF OrderInv, PastQueue, CallPC
  <2>3. t \in stored \cup failed
    BY <1>0, <2>1, <2>2 DEF QueueInv, Accepted
  <2>4. QED
    BY <1>0, <1>1, <2>1, <2>3 DEF OrderInv
<1>2. ASSUME NEW d \in Caller, NEW r, Return(d, r) PROVE d = c /\ r = "notfound"
  BY <1>0, <1>2 DEF Return, TypeOK
<1>3. ASSUME NEW d \in Caller, NEW pc, NEW t PROVE ~GotoWith(d, pc, t)
  BY DEF GotoWith
<1>4. ASSUME NEW d \in Caller, Request(d)
      PROVE  call[c] \in {"read", "exists"} /\ ~Exists(id[c])
  <2> USE <1>2, <1>3 DEF Goto
  <2>1. CASE CheckQueue(d) \/ WaitRegister(d) \/ WaitNotified(d) \/ DeleteKey(d)
    BY <2>1 DEF CheckQueue, WaitRegister, WaitNotified, DeleteKey
  <2>2. CASE WaitTimeout(d) \/ DatabaseError(d) \/ RemoveAccess(d)
    BY <2>2 DEF WaitTimeout, DatabaseError, RemoveAccess
  <2>3. CASE CheckLimit(d)
    BY <2>3 DEF CheckLimit
  <2>4. CASE CountAccess(d)
    BY <2>4 DEF CountAccess
  <2>5. CASE Read(d)
    BY <2>5 DEF Read
  <2>6. CASE CheckExists(d)
    BY <2>6 DEF CheckExists
  <2>7. QED
    BY <1>4, <2>1, <2>2, <2>3, <2>4, <2>5, <2>6 DEF Request
<1>5. ASSUME NEW d \in Caller, Arrive(d) PROVE FALSE
  BY <1>0, <1>5, BeginMoves DEF Arrive, Moves
<1>6. \E d \in Caller : Arrive(d) \/ Request(d)
  <2>1. result' # result
    OBVIOUS
  <2>2. QED
    BY <2>1 DEF Next, Store, Worker, Expire, Clean, AtRest, vars, callVars
<1>7. QED
  BY <1>1, <1>4, <1>5, <1>6

\* A request is told "not found" only when each write of the id acknowledged
\* before it failed, was deleted or overlapped with another (badger_CRUD.go:38-53,
\* 124-143).
THEOREM NotFoundNeverLies == Spec => NotFoundIsTrue
<1>1. StoreInv /\ [Next]_vars =>
        [\A c \in Caller : result[c] # "notfound" /\ result'[c] = "notfound" =>
           \A t \in due[c] \ overlapped : t \in failed \cup erased]_vars
  BY NotFoundStep
<1>2. QED
  BY <1>1, StoreCorrect, PTL DEF Spec, NotFoundIsTrue

-------------------------------------------------------------------------------
(* Access limits *)

LEMMA HoldersCount ==
  ASSUME NEW t
  PROVE  /\ IsFiniteSet(Holders(t))
         /\ Cardinality(Holders(t)) \in Nat
         /\ Cardinality(Holders(t)) <= Cardinality(Caller)
         /\ Cardinality(Caller) \in Nat \ {0}
<1>1. Holders(t) \in SUBSET Caller
  BY DEF Holders
<1>2. Cardinality(Caller) # 0 /\ Cardinality(Caller) \in Nat
  BY StoreAssumption, FS_EmptySet, FS_CardinalityType
<1>3. QED
  BY <1>1, <1>2, StoreAssumption, FS_Subset, FS_CardinalityType

LEMMA NoNewHolder ==
  ASSUME NEW c \in Caller, Moves(c), call'[c] # "count", NEW t
  PROVE  Holders(t)' \subseteq Holders(t)
BY DEF Moves, Holders

LEMMA FewerHolders ==
  ASSUME NEW t, Holders(t)' \subseteq Holders(t)
  PROVE  /\ Cardinality(Holders(t))' \in Nat
         /\ Cardinality(Holders(t))' <= Cardinality(Holders(t))
<1>1. Holders(t)' \in SUBSET Holders(t) /\ IsFiniteSet(Holders(t))
  BY HoldersCount
<1>2. IsFiniteSet(Holders(t)') /\ Cardinality(Holders(t)') <= Cardinality(Holders(t))
  BY <1>1, FS_Subset
<1>3. Cardinality(Holders(t)') \in Nat
  BY <1>2, FS_CardinalityType
<1>4. QED
  BY <1>2, <1>3

LEMMA AllowedType ==
  ASSUME NEW t \in Limited
  PROVE  Limit[t] \in Nat /\ Allowed(t) \in Nat /\ t \in Task
<1>1. Limit[t] \in Nat /\ t \in Task
  BY StoreAssumption
<1>2. Cardinality(Caller) \in Nat \ {0}
  BY HoldersCount
<1>3. QED
  BY <1>1, <1>2 DEF Allowed

LEMMA Arithmetic ==
  ASSUME NEW s \in Nat, NEW n \in Nat, NEW m \in Nat, NEW h \in Nat, NEW g \in Nat,
         NEW a \in Nat
  PROVE  /\ s <= n /\ n <= m => s <= m
         /\ s + h <= a /\ g <= h => s + g <= a
  OBVIOUS

LEMMA AdmitArithmetic ==
  ASSUME NEW s \in Nat, NEW n \in Nat, NEW l \in Nat, NEW h \in Nat, NEW c \in Nat,
         s <= n, ~(n >= l), h <= c
  PROVE  s + h <= l + c - 1 /\ l # 0
OBVIOUS

\* A step that admits no one, counts nothing and lowers no count of a content
\* that is still accounted for
LEMMA LimitKept ==
  ASSUME TypeOK, TypeOK', NEW t \in Task, LimitOf(t),
         db'[KeyOf[t]] = t /\ t \notin forgotten' =>
           /\ db[KeyOf[t]] = t /\ t \notin forgotten
           /\ accessCount[KeyOf[t]] <= accessCount'[KeyOf[t]]
           /\ served'[t] = served[t]
           /\ Holders(t)' \subseteq Holders(t)
  PROVE  LimitOf(t)'
<1> SUFFICES ASSUME db'[KeyOf[t]] = t, t \notin forgotten'
             PROVE  /\ served'[t] <= accessCount'[KeyOf[t]]
                    /\ t \in Limited => served'[t] + Cardinality(Holders(t))' <= Allowed(t)
  BY DEF LimitOf, Allowed
<1>1. /\ served[t] \in Nat /\ served'[t] = served[t] /\ KeyOf[t] \in Key
      /\ accessCount[KeyOf[t]] \in Nat /\ accessCount'[KeyOf[t]] \in Nat
  BY StoreAssumption DEF TypeOK
<1>2. served'[t] <= accessCount'[KeyOf[t]]
  <2>1. served[t] <= accessCount[KeyOf[t]] /\ accessCount[KeyOf[t]] <= accessCount'[KeyOf[t]]
    BY DEF LimitOf
  <2>2. QED
    BY <1>1, <2>1, Arithmetic
<1>3. ASSUME t \in Limited PROVE served'[t] + Cardinality(Holders(t))' <= Allowed(t)
  <2>1. served[t] + Cardinality(Holders(t)) <= Allowed(t)
    BY <1>3 DEF LimitOf
  <2>2. /\ Cardinality(Holders(t))' \in Nat /\ Cardinality(Holders(t)) \in Nat
        /\ Cardinality(Holders(t))' <= Cardinality(Holders(t)) /\ Allowed(t) \in Nat
    BY <1>3, FewerHolders, HoldersCount, AllowedType
  <2>3. QED
    BY <1>1, <2>1, <2>2, Arithmetic
<1>4. QED
  BY <1>2, <1>3

\* The steps of a request on the database and the counts, seen by one content t

LEMMA AdmitKeepsLimit ==
  ASSUME TypeOK, TypeOK', ContentInv, NEW t \in Task, LimitOf(t),
         NEW c \in Caller, CheckLimit(c)
  PROVE  LimitOf(t)'
<1>0. UNCHANGED <<db, accessCount, served, forgotten>> /\ call[c] = "limit"
  BY DEF CheckLimit
<1>k. KeyOf[t] \in Key /\ accessCount[KeyOf[t]] \in Nat /\ served[t] \in Nat
  BY StoreAssumption DEF TypeOK
<1>1. CASE Return(c, "gone")
  <2>1. Holders(t)' \subseteq Holders(t)
    BY <1>1, ReturnMoves, NoNewHolder
  <2>2. QED
    BY <1>0, <1>k, <2>1, LimitKept
<1>2. CASE Goto(c, "count") /\ ~IsAccessExhausted(content[c], accessCount[id[c]])
  <2>1. Moves(c) /\ content'[c] = content[c] /\ KeyOf[content[c]] = id[c]
    BY <1>0, <1>2, GotoMoves DEF Goto, ContentInv
  <2>2. CASE content[c] # t
    <3>1. Holders(t)' \subseteq Holders(t)
      BY <2>1, <2>2 DEF Holders, Moves
    <3>2. QED
      BY <1>0, <1>k, <3>1, LimitKept
  <2>3. CASE content[c] = t
    <3> SUFFICES ASSUME db[KeyOf[t]] = t, t \notin forgotten
                 PROVE  /\ served[t] <= accessCount[KeyOf[t]]
                        /\ t \in Limited =>
                             served[t] + Cardinality(Holders(t))' <= Allowed(t)
      BY <1>0 DEF LimitOf, Allowed
    <3>1. served[t] <= accessCount[KeyOf[t]]
      BY DEF LimitOf
    <3>2. ASSUME t \in Limited
          PROVE  served[t] + Cardinality(Holders(t))' <= Allowed(t)
      <4>1. ~(accessCount[KeyOf[t]] >= Limit[t]) /\ Limit[t] \in Nat
        BY <1>2, <2>1, <2>3, <3>2, AllowedType DEF IsAccessExhausted
      <4>2. Holders(t)' \in SUBSET Caller
        BY DEF Holders
      <4>3. Cardinality(Holders(t)') <= Cardinality(Caller)
            /\ Cardinality(Holders(t)') \in Nat /\ Cardinality(Caller) \in Nat
        BY <4>2, StoreAssumption, FS_Subset, FS_CardinalityType
      <4>4. served[t] + Cardinality(Holders(t)') <= Limit[t] + Cardinality(Caller) - 1
            /\ Limit[t] # 0
        BY <1>k, <3>1, <4>1, <4>3, AdmitArithmetic
      <4>5. QED
        BY <4>4 DEF Allowed
    <3>3. QED
      BY <3>1, <3>2
  <2>4. QED
    BY <2>2, <2>3
<1>3. QED
  BY <1>1, <1>2 DEF CheckLimit

LEMMA CountKeepsLimit ==
  ASSUME TypeOK, TypeOK', ContentInv, NEW t \in Task, LimitOf(t),
         NEW c \in Caller, CountAccess(c)
  PROVE  LimitOf(t)'
<1>0. /\ call[c] = "count" /\ UNCHANGED <<db, forgotten>>
      /\ accessCount' = [accessCount EXCEPT ![id[c]] = accessCount[id[c]] + 1]
      /\ \/ UNCHANGED served
         \/ served' = [served EXCEPT ![content[c]] = served[content[c]] + 1]
      /\ \E r : Return(c, r)
  BY DEF CountAccess
<1>k. /\ KeyOf[t] \in Key /\ accessCount[KeyOf[t]] \in Nat /\ served[t] \in Nat
      /\ id[c] \in Key /\ content[c] \in Task /\ KeyOf[content[c]] = id[c]
  BY <1>0, StoreAssumption DEF TypeOK, ContentInv
<1>m. Moves(c) /\ call'[c] = "idle"
  BY <1>0, ReturnMoves
<1>h. Holders(t)' \subseteq Holders(t)
  BY <1>m, NoNewHolder
<1>a. /\ accessCount'[KeyOf[t]] = IF KeyOf[t] = id[c] THEN accessCount[KeyOf[t]] + 1
                                  ELSE accessCount[KeyOf[t]]
      /\ content[c] # t => served'[t] = served[t]
      /\ content[c] = t => served'[t] \in {served[t], served[t] + 1}
  BY <1>0, <1>k DEF TypeOK
<1>b. accessCount[KeyOf[t]] <= accessCount'[KeyOf[t]]
  BY <1>k, <1>a
<1>1. CASE served'[t] = served[t]
  BY <1>0, <1>h, <1>b, <1>1, LimitKept
<1>2. CASE content[c] = t /\ served'[t] = served[t] + 1
  <2> SUFFICES ASSUME db[KeyOf[t]] = t, t \notin forgotten
               PROVE  /\ served'[t] <= accessCount'[KeyOf[t]]
                      /\ t \in Limited =>
                           served'[t] + Cardinality(Holders(t))' <= Allowed(t)
    BY <1>0 DEF LimitOf, Allowed
  <2>1. served[t] <= accessCount[KeyOf[t]]
    BY DEF LimitOf
  <2>2. served'[t] <= accessCount'[KeyOf[t]]
    BY <1>k, <1>a, <1>2, <2>1
  <2>3. Holders(t)' = Holders(t) \ {c} /\ c \in Holders(t)
    BY <1>0, <1>m, <1>2 DEF Holders, Moves
  <2>4. Cardinality(Holders(t)') = Cardinality(Holders(t)) - 1
        /\ Cardinality(Holders(t)) \in Nat
    BY <2>3, HoldersCount, FS_RemoveElement
  <2>5. ASSUME t \in Limited
        PROVE  served'[t] + Cardinality(Holders(t)') <= Allowed(t)
    BY <1>k, <1>2, <2>4, <2>5, AllowedType DEF LimitOf
  <2>6. QED
    BY <2>2, <2>5
<1>3. QED
  BY <1>1, <1>2, <1>a

LEMMA RequestKeepsLimit ==
  ASSUME TypeOK, TypeOK', ContentInv, NEW t \in Task, LimitOf(t),
         NEW c \in Caller, Arrive(c) \/ Request(c)
  PROVE  LimitOf(t)'
<1>k. /\ KeyOf[t] \in Key /\ accessCount[KeyOf[t]] \in Nat /\ t # None
      /\ accessCount[KeyOf[t]] <= accessCount[KeyOf[t]]
  BY StoreAssumption DEF TypeOK
<1>m. ASSUME Moves(c), call'[c] # "count", UNCHANGED <<db, accessCount, served, forgotten>>
      PROVE  LimitOf(t)'
  BY <1>k, <1>m, NoNewHolder, LimitKept
<1>r. ASSUME NEW r, Return(c, r), UNCHANGED <<db, accessCount, served, forgotten>>
      PROVE  LimitOf(t)'
  BY <1>m, <1>r, ReturnMoves
<1>g. ASSUME NEW pc, NEW u, pc # "count", call[c] # "idle", GotoWith(c, pc, u),
             UNCHANGED <<db, accessCount, served, forgotten>>
      PROVE  LimitOf(t)'
  BY <1>m, <1>g, GotoMoves
<1>a. Access(c) # "count"
  BY DEF Access
<1>1. CASE Arrive(c)
  BY <1>1, <1>m, BeginMoves DEF Arrive
<1>2. CASE CheckQueue(c) \/ WaitRegister(c) \/ WaitNotified(c)
  BY <1>2, <1>a, <1>g DEF CheckQueue, WaitRegister, WaitNotified, Goto
<1>3. CASE WaitTimeout(c) \/ DatabaseError(c)
  BY <1>3, <1>r DEF WaitTimeout, DatabaseError
<1>4. CASE Read(c)
  BY <1>4, <1>r, <1>g DEF Read
<1>5. CASE CheckExists(c)
  BY <1>5, <1>r, <1>g DEF CheckExists, Goto
<1>6. CASE DeleteKey(c)
  <2>1. /\ Moves(c) /\ call'[c] = "untrack" /\ id[c] \in Key
        /\ db' = [db EXCEPT ![id[c]] = None] /\ UNCHANGED <<accessCount, served, forgotten>>
    BY <1>6, GotoMoves DEF DeleteKey, Goto, TypeOK
  <2>2. db'[KeyOf[t]] = t => db[KeyOf[t]] = t
    BY <1>k, <2>1 DEF TypeOK
  <2>3. QED
    BY <1>k, <2>1, <2>2, NoNewHolder, LimitKept
<1>7. CASE RemoveAccess(c)
  <2>1. /\ Moves(c) /\ call'[c] = "idle" /\ UNCHANGED <<db, served>> /\ id[c] \in Key
        /\ accessCount' = [accessCount EXCEPT ![id[c]] = 0]
        /\ forgotten' = forgotten \cup Losing({id[c]})
    BY <1>7, ReturnMoves DEF RemoveAccess, TypeOK
  <2>2. ASSUME db[KeyOf[t]] = t, t \notin forgotten'
        PROVE  accessCount[KeyOf[t]] <= accessCount'[KeyOf[t]]
    <3>1. KeyOf[t] = id[c] => accessCount[KeyOf[t]] = 0
      BY <1>k, <2>1, <2>2 DEF Losing, Exists
    <3>2. KeyOf[t] # id[c] => accessCount'[KeyOf[t]] = accessCount[KeyOf[t]]
      BY <1>k, <2>1 DEF TypeOK
    <3>3. KeyOf[t] = id[c] => accessCount'[KeyOf[t]] = 0
      BY <1>k, <2>1 DEF TypeOK
    <3>4. QED
      BY <1>k, <3>1, <3>2, <3>3
  <2>3. QED
    BY <2>1, <2>2, NoNewHolder, LimitKept
<1>8. QED
  BY <1>1, <1>2, <1>3, <1>4, <1>5, <1>6, <1>7, AdmitKeepsLimit, CountKeepsLimit DEF Request

LEMMA LimitStep ==
  ASSUME TypeOK, TypeOK', QueueInv, ContentInv, LimitInv, [Next]_vars
  PROVE  LimitInv'
<1> SUFFICES ASSUME NEW t \in Task PROVE LimitOf(t)'
  BY DEF LimitInv
<1>k. /\ LimitOf(t) /\ KeyOf[t] \in Key /\ accessCount[KeyOf[t]] \in Nat /\ t # None
      /\ accessCount[KeyOf[t]] <= accessCount[KeyOf[t]]
  BY StoreAssumption DEF TypeOK, LimitInv
<1>f. ASSUME UNCHANGED <<db, accessCount, served, forgotten, call, content>>
      PROVE  LimitOf(t)'
  <2>1. Holders(t)' = Holders(t)
    BY <1>f DEF Holders
  <2>2. QED
    BY <1>f, <1>k, <2>1, LimitKept
<1>1. ASSUME NEW u \in Task, Store(u) \/ Expire(u) PROVE LimitOf(t)'
  <2>1. UNCHANGED <<db, accessCount, served, forgotten, call, content>>
    BY <1>1 DEF Store, Expire, callVars
  <2>2. QED
    BY <1>f, <2>1
<1>2. CASE Worker
  <2>0. UNCHANGED <<accessCount, served, forgotten, content>>
    BY <1>2 DEF Worker, callVars
  <2>1. CASE Commit
    <3> DEFINE h == Head(writeQueue)
    <3>1. h \in Task /\ Queued(h) /\ UNCHANGED call
      BY <2>1, TailQueues DEF Commit, QueueInv, Distinct
    <3>2. db' = [db EXCEPT ![KeyOf[h]] = h] \/ UNCHANGED db
      BY <2>1 DEF Commit
    <3>3. Holders(t)' = Holders(t)
      BY <2>0, <3>1 DEF Holders
    <3>4. CASE t # h
      <4>1. db'[KeyOf[t]] = t => db[KeyOf[t]] = t
        BY <1>k, <3>1, <3>2, <3>4 DEF TypeOK
      <4>2. QED
        BY <1>k, <2>0, <3>3, <4>1, LimitKept
    <3>5. CASE t = h
      <4>1. t \notin stored
        BY <3>1, <3>5 DEF QueueInv
      <4>2. served[t] = 0
        BY <4>1 DEF ContentInv, TypeOK
      <4>3. Holders(t) = {}
        BY <4>1 DEF Holders, ContentInv
      <4>4. Cardinality(Holders(t)') = 0
        BY <3>3, <4>3, FS_EmptySet
      <4>5. t \in Limited => 0 + 0 <= Allowed(t)
        BY AllowedType
      <4>6. QED
        BY <1>k, <2>0, <4>2, <4>4, <4>5 DEF LimitOf, Allowed
    <3>6. QED
      BY <3>4, <3>5
  <2>2. CASE Settle
    <3>1. Holders(t)' \subseteq Holders(t) /\ UNCHANGED db
      BY <2>0, <2>2 DEF Settle, Holders
    <3>2. QED
      BY <1>k, <2>0, <3>1, LimitKept
  <2>3. QED
    BY <1>2, <2>1, <2>2 DEF Worker
<1>3. ASSUME NEW c \in Caller, Arrive(c) \/ Request(c) PROVE LimitOf(t)'
  BY <1>3, <1>k, RequestKeepsLimit
<1>4. ASSUME NEW g \in Cleaner, Clean(g) PROVE LimitOf(t)'
  <2>0. UNCHANGED <<db, call, content, served>>
    BY <1>4 DEF Clean, callVars
  <2>1. CASE ListIDs(g)
    BY <1>f, <2>0, <2>1 DEF ListIDs
  <2>2. CASE CleanupExpiredTrackers(g)
    <3>1. /\ accessCount' = [k \in Key |-> IF k \in existing[g] THEN accessCount[k] ELSE 0]
          /\ forgotten' = forgotten \cup Losing(Key \ existing[g])
      BY <2>2 DEF CleanupExpiredTrackers
    <3>2. ASSUME db[KeyOf[t]] = t, t \notin forgotten'
          PROVE  accessCount[KeyOf[t]] <= accessCount'[KeyOf[t]]
      <4>1. KeyOf[t] \notin existing[g] => accessCount[KeyOf[t]] = 0
        BY <1>k, <3>1, <3>2 DEF Losing, Exists
      <4>2. accessCount'[KeyOf[t]] = IF KeyOf[t] \in existing[g]
                                     THEN accessCount[KeyOf[t]] ELSE 0
        BY <1>k, <3>1
      <4>3. QED
        BY <1>k, <4>1, <4>2
    <3>3. Holders(t)' = Holders(t)
      BY <2>0 DEF Holders
    <3>4. QED
      BY <1>k, <2>0, <3>1, <3>2, <3>3, LimitKept
  <2>3. QED
    BY <1>4, <2>1, <2>2 DEF Clean
<1>5. CASE UNCHANGED vars
  BY <1>5, <1>f DEF vars, callVars
<1>6. QED
  BY <1>1, <1>2, <1>3, <1>4, <1>5 DEF Next, AtRest

LEMMA LimitInit == ASSUME Init PROVE LimitInv
BY StoreAssumption DEF Init, LimitInv, LimitOf

\* The inductive invariant behind the access limits: served accesses and callers
\* admitted to the next one together stay within what is allowed.
THEOREM LimitCorrect == Spec => [](StoreInv /\ LimitInv)
<1>1. Init => StoreInv /\ LimitInv
  BY TypeInit, StoreInit, LimitInit DEF StoreInv
<1>2. StoreInv /\ LimitInv /\ [Next]_vars => (StoreInv /\ LimitInv)'
  BY TypeStep, QueueStep, ContentStep, OrderStep, LimitStep DEF StoreInv
<1>3. QED
  BY <1>1, <1>2, PTL DEF Spec

\* No stored content with a limit is served more often than its limit and the
\* other Gets under way allow, for any number of goroutines (badger_CRUD.go:68-74).
THEOREM LimitOverrunIsBounded == Spec => []OverrunIsBounded
<1>1. ASSUME StoreInv, LimitInv, NEW t \in Limited, db[KeyOf[t]] = t, t \notin forgotten
      PROVE  served[t] <= Allowed(t)
  <2>1. /\ served[t] + Cardinality(Holders(t)) <= Allowed(t)
        /\ Cardinality(Holders(t)) \in Nat /\ Allowed(t) \in Nat
    BY <1>1, HoldersCount, AllowedType DEF LimitInv, LimitOf
  <2>2. served[t] \in Nat
    BY <1>1, AllowedType DEF StoreInv, TypeOK
  <2>3. QED
    BY <2>1, <2>2
<1>2. StoreInv /\ LimitInv => OverrunIsBounded
  BY <1>1 DEF OverrunIsBounded, Allowed
<1>3. QED
  BY <1>2, LimitCorrect, PTL
=============================================================================
