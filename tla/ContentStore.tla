----------------------------- MODULE ContentStore -----------------------------
(***************************************************************************)
(* The content store of pkg/storage/badger_CRUD.go with the access counts  *)
(* of access_manager.go, as the handlers of internal/handlers/content.go   *)
(* use them: Store, Get, Delete and the status of a content id run in      *)
(* goroutines of their own, beside the worker of the write queue and the   *)
(* goroutines that clean up access trackers.                               *)
(*                                                                         *)
(* The queue is reduced to what WriteQueue shows of it while it does not   *)
(* grow: writes are committed or fail one at a time and in order, and      *)
(* pendingItems has one entry per content id, made after the send and      *)
(* removed after the commit.  A write is the content it carries.           *)
(***************************************************************************)
EXTENDS Integers, Sequences, FiniteSets

CONSTANTS
  Task,       \* the writes, one per call of Store
  Key,        \* content ids
  KeyOf,      \* the content id of a write
  None,       \* absence of a content or of a content id
  Limited,    \* contents with an AccessLimit
  Limit,      \* its value
  Expiring,   \* contents with an ExpiresAt
  Caller,     \* goroutines that serve Get, Delete and status requests
  Op,         \* the requests this instance makes
  MaxCalls,   \* bound on the number of requests
  Cleaner     \* goroutines that clean up access trackers

ASSUME StoreAssumption ==
  /\ IsFiniteSet(Caller) /\ Caller # {}
  /\ KeyOf \in [Task -> Key]
  /\ None \notin Task \cup Key
  /\ Limited \subseteq Task
  /\ Limit \in [Limited -> Nat]
  /\ Expiring \subseteq Task
  /\ Op \subseteq {"get", "status", "delete"}
  /\ MaxCalls \in Nat

VARIABLES
  store,        \* program counter of each call of Store
  writeQueue,   \* writes sent and not committed
  pendingItems, \* the tracked write of each content id
  settling,     \* content id of the write just committed or given up
  db,           \* BadgerDB: the content of each id
  expired,      \* contents whose ExpiresAt has passed
  call,         \* program counter of each caller
  op,           \* the request it serves
  id,           \* for which content id
  content,      \* the content it read
  result,       \* the result of its last request, until the next begins
  calls,        \* number of requests made
  accessCount,  \* accessTrackers: absent or the count, both 0 when absent
  cleaner,      \* program counter of each cleanup
  existing      \* the content ids it found in the database

VARIABLES       \* history, read by no action
  stored,       \* writes that were committed
  failed,       \* writes given up without being committed
  overlapped,   \* writes in progress together with another one of their id
  served,       \* successful Gets of each content
  due,          \* writes of its id acknowledged before its request began
  erased,       \* writes of an id stored before it was deleted, or acknowledged
                \* before that Delete began
  forgotten     \* contents whose tracker was removed while they were stored

storeVars  == <<store, overlapped>>
queueVars  == <<writeQueue, settling, stored, failed>>
callVars   == <<op, id, content, result, calls, due>>
cleanVars  == <<cleaner, existing>>
vars == <<storeVars, queueVars, pendingItems, db, expired, call, callVars,
          accessCount, cleanVars, served, erased, forgotten>>

-------------------------------------------------------------------------------

StorePC   == {"idle", "track", "ok", "refused"}
CallPC    == {"idle", "check", "register", "blocked", "woken", "read", "limit",
              "count", "exists", "delete", "untrack"}
Result    == {"none", "ok", "stored", "queued", "deleted", "notfound", "expired",
              "gone", "error"}
CleanerPC == {"idle", "remove"}

Pending(k)   == pendingItems[k] # None
Exists(k)    == db[k] # None
Acknowledged == {t \in Task : store[t] = "ok"}

Init ==
  /\ store = [t \in Task |-> "idle"]
  /\ writeQueue = <<>>
  /\ pendingItems = [k \in Key |-> None]
  /\ settling = None
  /\ db = [k \in Key |-> None]
  /\ expired = {}
  /\ call = [c \in Caller |-> "idle"]
  /\ op = [c \in Caller |-> "none"]
  /\ id = [c \in Caller |-> None]
  /\ content = [c \in Caller |-> None]
  /\ result = [c \in Caller |-> "none"]
  /\ calls = 0
  /\ accessCount = [k \in Key |-> 0]
  /\ cleaner = [g \in Cleaner |-> "idle"]
  /\ existing = [g \in Cleaner |-> {}]
  /\ stored = {}
  /\ failed = {}
  /\ overlapped = {}
  /\ served = [t \in Task |-> 0]
  /\ due = [c \in Caller |-> {}]
  /\ erased = {}
  /\ forgotten = {}

-------------------------------------------------------------------------------
(* Store: QueueWrite sends, then tracks *)

Queued(t) == \E i \in DOMAIN writeQueue : writeQueue[i] = t

\* Other writes of t's id that are not both acknowledged and settled
InProgress(t) ==
  {u \in Task \ {t} : /\ KeyOf[u] = KeyOf[t]
                      /\ store[u] = "track" \/ settling = KeyOf[u] \/ Queued(u)}

StoreSend(t) ==
  /\ store[t] = "idle"
  /\ overlapped' = overlapped \cup (IF InProgress(t) = {} THEN {} ELSE InProgress(t) \cup {t})
  /\ store' = [store EXCEPT ![t] = "track"]
  /\ writeQueue' = Append(writeQueue, t)
  /\ UNCHANGED <<settling, stored, failed, pendingItems>>

\* The queue is full and cannot grow
StoreRefused(t) ==
  /\ store[t] = "idle"
  /\ store' = [store EXCEPT ![t] = "refused"]
  /\ UNCHANGED <<queueVars, pendingItems, overlapped>>

StoreTrack(t) ==
  /\ store[t] = "track"
  /\ store' = [store EXCEPT ![t] = "ok"]
  /\ pendingItems' = [pendingItems EXCEPT ![KeyOf[t]] = t]
  /\ UNCHANGED <<queueVars, overlapped>>

Store(t) ==
  /\ StoreSend(t) \/ StoreRefused(t) \/ StoreTrack(t)
  /\ UNCHANGED <<db, expired, call, callVars, accessCount, cleanVars, served,
                 erased, forgotten>>

-------------------------------------------------------------------------------
(* The queue's worker *)

\* The next write is committed, or not: one that a failed flush committed all the
\* same counts as committed, since only its caller could tell the difference
Commit ==
  LET t == Head(writeQueue) IN
  /\ writeQueue # <<>>
  /\ settling = None
  /\ writeQueue' = Tail(writeQueue)
  /\ settling' = KeyOf[t]
  /\ \/ /\ db' = [db EXCEPT ![KeyOf[t]] = t]
        /\ stored' = stored \cup {t}
        /\ UNCHANGED failed
     \/ /\ failed' = failed \cup {t}
        /\ UNCHANGED <<db, stored>>
  /\ UNCHANGED <<pendingItems, call>>

\* Either way the entry of its id is removed and the waiters are notified
Settle ==
  /\ settling # None
  /\ pendingItems' = [pendingItems EXCEPT ![settling] = None]
  /\ call' = [c \in Caller |-> IF call[c] = "blocked" /\ id[c] = settling
                               THEN "woken" ELSE call[c]]
  /\ settling' = None
  /\ UNCHANGED <<writeQueue, stored, failed, db>>

Worker ==
  /\ Commit \/ Settle
  /\ UNCHANGED <<storeVars, expired, callVars, accessCount, cleanVars, served,
                 erased, forgotten>>

\* ExpiresAt of a content passes
Expire(t) ==
  /\ t \in Expiring \ expired
  /\ expired' = expired \cup {t}
  /\ UNCHANGED <<storeVars, queueVars, pendingItems, db, call, callVars,
                 accessCount, cleanVars, served, erased, forgotten>>

-------------------------------------------------------------------------------
(* Requests: what all of them begin with *)

\* The request of c is answered with r; its locals are gone.  deleteWithRetry
\* passes every error on: none says "currently being written", which it would retry
Return(c, r) ==
  /\ call' = [call EXCEPT ![c] = "idle"]
  /\ result' = [result EXCEPT ![c] = r]
  /\ op' = [op EXCEPT ![c] = "none"]
  /\ id' = [id EXCEPT ![c] = None]
  /\ content' = [content EXCEPT ![c] = None]
  /\ due' = [due EXCEPT ![c] = {}]

\* It goes on, with t the content in hand
GotoWith(c, pc, t) ==
  /\ call' = [call EXCEPT ![c] = pc]
  /\ content' = [content EXCEPT ![c] = t]
  /\ UNCHANGED <<op, id, result, due>>
Goto(c, pc) == GotoWith(c, pc, content[c])

\* A request arrives; that for the status of an id first asks the queue
Begin(c, o, k) ==
  /\ call[c] = "idle"
  /\ calls < MaxCalls
  /\ calls' = calls + 1
  /\ IF o = "status" /\ Pending(k) THEN Return(c, "queued")
     ELSE /\ call' = [call EXCEPT ![c] = "check"]
          /\ op' = [op EXCEPT ![c] = o]
          /\ id' = [id EXCEPT ![c] = k]
          /\ due' = [due EXCEPT ![c] = {t \in Acknowledged : KeyOf[t] = k}]
          /\ result' = [result EXCEPT ![c] = "none"]
          /\ UNCHANGED content
  /\ UNCHANGED <<db, accessCount, served, erased, forgotten>>

\* The first step on the database
Access(c) == IF op[c] = "delete" THEN "exists" ELSE "read"

\* Mutant: only reads wait for pending writes
CheckQueueReadsOnly(c) ==
  /\ call[c] = "check"
  /\ Goto(c, IF Pending(id[c]) /\ op[c] # "delete" THEN "register" ELSE Access(c))
  /\ UNCHANGED <<calls, db, accessCount, served, erased, forgotten>>

\* IsContentInQueue, asked again by WaitForContentWrite
CheckQueue(c) ==
  /\ call[c] = "check"
  /\ Goto(c, IF Pending(id[c]) THEN "register" ELSE Access(c))
  /\ UNCHANGED <<calls, db, accessCount, served, erased, forgotten>>

\* registerCompletionWaiter, in a second critical section
WaitRegister(c) ==
  /\ call[c] = "register"
  /\ Goto(c, "blocked")
  /\ UNCHANGED <<calls, db, accessCount, served, erased, forgotten>>

WaitNotified(c) ==
  /\ call[c] = "woken"
  /\ Goto(c, Access(c))
  /\ UNCHANGED <<calls, db, accessCount, served, erased, forgotten>>

\* Mutant: a timeout counts as completion
WaitTimeoutIgnored(c) ==
  /\ call[c] \in {"blocked", "woken"}
  /\ Goto(c, Access(c))
  /\ UNCHANGED <<calls, db, accessCount, served, erased, forgotten>>

\* 10 seconds pass
WaitTimeout(c) ==
  /\ call[c] \in {"blocked", "woken"}
  /\ Return(c, "error")
  /\ UNCHANGED <<calls, db, accessCount, served, erased, forgotten>>

\* A View or Update transaction fails; a conflicting Update is retried, which
\* changes nothing, and then given up
DatabaseError(c) ==
  /\ call[c] \in {"read", "exists", "delete"}
  /\ Return(c, "error")
  /\ UNCHANGED <<calls, db, accessCount, served, erased, forgotten>>

-------------------------------------------------------------------------------
(* Get and the status of an id *)

\* Mutant: a missing key is not an error
ReadMissing(c) ==
  /\ call[c] = "read"
  /\ IF op[c] = "status" THEN Return(c, "stored")
     ELSE GotoWith(c, "limit", db[id[c]])
  /\ UNCHANGED <<calls, db, accessCount, served, erased, forgotten>>

\* retrieveAndProcessContent, in a View transaction
Read(c) ==
  /\ call[c] = "read"
  /\ IF ~Exists(id[c]) THEN Return(c, "notfound")
     ELSE IF op[c] = "status" THEN Return(c, "stored")
     ELSE GotoWith(c, "limit", db[id[c]])
  /\ UNCHANGED <<calls, db, accessCount, served, erased, forgotten>>

\* Mutant: one access too many
IsAccessExceeded(t, n) == t \in Limited /\ n > Limit[t]

\* Content.IsAccessExhausted
IsAccessExhausted(t, n) == t \in Limited /\ n >= Limit[t]

\* GetAccessCount, under RLock
CheckLimit(c) ==
  /\ call[c] = "limit"
  /\ IF IsAccessExhausted(content[c], accessCount[id[c]])
     THEN Return(c, "gone") ELSE Goto(c, "count")
  /\ UNCHANGED <<calls, db, accessCount, served, erased, forgotten>>

\* IncrementAccess, under Lock, and only then IsExpired
CountAccess(c) ==
  LET t == content[c] IN
  /\ call[c] = "count"
  /\ accessCount' = [accessCount EXCEPT ![id[c]] = @ + 1]
  /\ IF t \in expired THEN Return(c, "expired") /\ UNCHANGED served
     ELSE Return(c, "ok") /\ served' = [served EXCEPT ![t] = @ + 1]
  /\ UNCHANGED <<calls, db, erased, forgotten>>

-------------------------------------------------------------------------------
(* Delete *)

CheckExists(c) ==
  /\ call[c] = "exists"
  /\ IF Exists(id[c]) THEN Goto(c, "delete") ELSE Return(c, "notfound")
  /\ UNCHANGED <<calls, db, accessCount, served, erased, forgotten>>

\* The Update transaction; deleting an absent key succeeds
DeleteKey(c) ==
  /\ call[c] = "delete"
  /\ db' = [db EXCEPT ![id[c]] = None]
  /\ erased' = erased \cup due[c] \cup {t \in stored : KeyOf[t] = id[c]}
  /\ Goto(c, "untrack")
  /\ UNCHANGED <<calls, accessCount, served, forgotten>>

\* The contents that lose their count when the trackers of ids ks are removed
Losing(ks) == {db[k] : k \in {x \in ks : Exists(x) /\ accessCount[x] > 0}}

\* RemoveAccess, in a critical section of its own
RemoveAccess(c) ==
  /\ call[c] = "untrack"
  /\ accessCount' = [accessCount EXCEPT ![id[c]] = 0]
  /\ forgotten' = forgotten \cup Losing({id[c]})
  /\ Return(c, "deleted")
  /\ UNCHANGED <<calls, db, served, erased>>

Request(c) ==
  /\ \/ CheckQueue(c) \/ WaitRegister(c) \/ WaitNotified(c) \/ WaitTimeout(c)
     \/ DatabaseError(c) \/ Read(c) \/ CheckLimit(c) \/ CountAccess(c)
     \/ CheckExists(c) \/ DeleteKey(c) \/ RemoveAccess(c)
  /\ UNCHANGED <<storeVars, queueVars, pendingItems, expired, cleanVars>>

Arrive(c) ==
  /\ \E o \in Op, k \in Key : Begin(c, o, k)
  /\ UNCHANGED <<storeVars, queueVars, pendingItems, expired, cleanVars>>

-------------------------------------------------------------------------------
(* Cleanup of access trackers: the loop of the access manager, the garbage
   collector and the cleanup request do the same *)

\* GetAllContentIDs, a snapshot of the database
ListIDs(g) ==
  /\ cleaner[g] = "idle"
  /\ cleaner' = [cleaner EXCEPT ![g] = "remove"]
  /\ existing' = [existing EXCEPT ![g] = {k \in Key : Exists(k)}]
  /\ UNCHANGED <<accessCount, forgotten>>

\* CleanupExpiredTrackers with that snapshot, under Lock
CleanupExpiredTrackers(g) ==
  /\ cleaner[g] = "remove"
  /\ cleaner' = [cleaner EXCEPT ![g] = "idle"]
  /\ accessCount' = [k \in Key |-> IF k \in existing[g] THEN accessCount[k] ELSE 0]
  /\ forgotten' = forgotten \cup Losing(Key \ existing[g])
  /\ existing' = [existing EXCEPT ![g] = {}]

Clean(g) ==
  /\ ListIDs(g) \/ CleanupExpiredTrackers(g)
  /\ UNCHANGED <<storeVars, queueVars, pendingItems, db, expired, call, callVars,
                 served, erased>>

-------------------------------------------------------------------------------

\* Without cleanups the system rests when every request has been served
AtRest ==
  /\ calls = MaxCalls
  /\ \A c \in Caller : call[c] = "idle"
  /\ \A t \in Task : store[t] \in {"ok", "refused"}
  /\ writeQueue = <<>> /\ settling = None
  /\ UNCHANGED vars

Next ==
  \/ \E t \in Task : Store(t) \/ Expire(t)
  \/ Worker
  \/ \E c \in Caller : Arrive(c) \/ Request(c)
  \/ \E g \in Cleaner : Clean(g)
  \/ AtRest

Spec == Init /\ [][Next]_vars

-------------------------------------------------------------------------------
(* Properties *)

\* Besides the types: a Get past its read holds a content
TypeOK ==
  /\ store \in [Task -> StorePC]
  /\ writeQueue \in Seq(Task)
  /\ pendingItems \in [Key -> Task \cup {None}]
  /\ settling \in Key \cup {None}
  /\ db \in [Key -> Task \cup {None}]
  /\ expired \subseteq Task
  /\ call \in [Caller -> CallPC]
  /\ op \in [Caller -> {"none", "get", "status", "delete"}]
  /\ id \in [Caller -> Key \cup {None}]
  /\ content \in [Caller -> Task \cup {None}]
  /\ result \in [Caller -> Result]
  /\ calls \in Nat
  /\ accessCount \in [Key -> Nat]
  /\ cleaner \in [Cleaner -> CleanerPC]
  /\ existing \in [Cleaner -> SUBSET Key]
  /\ stored \subseteq Task
  /\ failed \subseteq Task
  /\ overlapped \subseteq Task
  /\ served \in [Task -> Nat]
  /\ due \in [Caller -> SUBSET Task]
  /\ erased \subseteq Task
  /\ forgotten \subseteq Task
  /\ \A c \in Caller : call[c] # "idle" => id[c] # None
  /\ \A c \in Caller : call[c] \in {"limit", "count"} => content[c] # None

\* Check and increment are two critical sections (badger_CRUD.go:68-74), but the
\* limit of a stored content is exceeded by no more than the Gets that may run
\* at once, and a limit of zero by none, unless a cleanup or a late RemoveAccess
\* dropped its count.
OverrunIsBounded ==
  \A t \in Limited :
    db[KeyOf[t]] = t /\ t \notin forgotten =>
      served[t] <= IF Limit[t] = 0 THEN 0 ELSE Limit[t] + Cardinality(Caller) - 1

\* A request is told that an id does not exist only when each write of it that
\* was acknowledged before has failed or was deleted, unless it overlapped with
\* another write of the id (badger_CRUD.go:38-53, 124-143).
NotFoundIsTrue ==
  [][\A c \in Caller : result[c] # "notfound" /\ result'[c] = "notfound" =>
       \A t \in due[c] \ overlapped : t \in failed \cup erased]_vars

\* A write acknowledged before a successful Delete of its id never shows up
\* again: the delete does not overtake it in the queue, unless it overlapped with
\* another write of the id (badger_CRUD.go:125-134).
DeletedStaysDeleted ==
  \A t \in erased \ overlapped : db[KeyOf[t]] # t

-------------------------------------------------------------------------------
(* What comments of the code state, and the runs refute *)

\* badger_CRUD.go:67: "to ensure we allow exactly AccessLimit accesses".
ExactAccessLimit == \A t \in Limited : served[t] <= Limit[t]

\* queue.go:707: IsContentInQueue "checks if content with the given ID is
\* currently in the queue"; content.go:587: such an id is "awaiting" processing.
Sent(k)   == \E i \in DOMAIN writeQueue : KeyOf[writeQueue[i]] = k
Quiet(k)  == \A t \in Task : KeyOf[t] = k => store[t] # "track"
QueuedMeansAwaiting == \A k \in Key : Pending(k) /\ Quiet(k) => Sent(k) \/ settling = k
=============================================================================
