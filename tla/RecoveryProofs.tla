----------------------------- MODULE RecoveryProofs -----------------------------
(***************************************************************************)
(* Proofs about Recovery, for any number of contents and ids, any capacity *)
(* and batch size, and any number of starts, emergencies and faults.       *)
(***************************************************************************)
EXTENDS Recovery, FiniteSetTheorems, SequenceTheorems, TLAPS

\* A stamp is chosen from its scan or its shutdown to the end of it
Picking == (Starting \ {"scan"}) \cup Emergency

MemoryTypeOK ==
  /\ main \in MainPC
  /\ worker \in {"off", "running", "exited"}
  /\ stopped \in BOOLEAN
  /\ capacity \in 1 .. MaxCapacity
  /\ chan \in Seq(Task) /\ batch \in Seq(Task) /\ tasks \in Seq(Task)
  /\ tracking \subseteq Task /\ overwriting \subseteq Task
  /\ pendingItems \in [Key -> Task \cup {None}]
  /\ \A k \in Key : pendingItems[k] # None => KeyOf[pendingItems[k]] = k
  /\ count \in Int /\ resurrected \in Nat /\ tardy \subseteq Task
  /\ picked \in Stamp \cup {0}
  /\ main \in Picking => picked \in Stamp

DiskTypeOK ==
  /\ db \in [Key -> Task \cup {None}]
  /\ file \in [Stamp -> [FileKind -> FileState]]
  /\ savedPending \in [Stamp -> SUBSET Task]
  /\ savedQueue \in [Stamp -> Seq(Task)]
  /\ sent \in 0 .. NumTasks
  /\ starts \in 0 .. MaxStarts /\ emergencies \in 0 .. MaxEmergencies
  /\ faults \in 0 .. MaxFaults

HistoryTypeOK ==
  /\ stored \subseteq Task /\ owed \subseteq Task /\ late \subseteq Task
  /\ restored \subseteq Task /\ untracked \subseteq Task /\ excused \subseteq Task
  /\ exposed \subseteq Key /\ disordered \subseteq Key

Types == MemoryTypeOK /\ DiskTypeOK /\ HistoryTypeOK

\* A process that has not restored anything tracks nothing
NothingTracked ==
  main \in {"down", "scan", "metadata", "pending"} => \A k \in Key : pendingItems[k] = None

\* No request is under way before the process serves and once it is flushed
Quiet == ~RequestsRun => Requests = {}

\* The counter misses exactly the entries that were put back uncounted, so that only
\* they can make a flush skip what is tracked
Counting == count + resurrected = Cardinality(Entries(pendingItems))
NoneSkipped ==
  main \in {"stopjoin", "closed"} /\ resurrected = 0 => \A k \in Key : pendingItems[k] = None

\* A recovery file has one entry for an id
OneEntryPerId ==
  \A s \in Stamp : \A v, w \in savedPending[s] : KeyOf[v] = KeyOf[w] => v = w

\* The stamps of later emergencies are free, and so is one that is not written yet
FreshStamps ==
  /\ main = "savePending" => picked = emergencies
  /\ \A s \in Stamp : s > emergencies \/ (main = "savePending" /\ s = picked)
                        => file[s]["pending"] = "absent"

\* What a shutdown found tracked is tracked, or is not lost unaccounted for
SafeOrHeld == \A t \in owed : Accounted(t) \/ Held(t)

\* Once the entries are saved the process may go
SafeToExit ==
  main \in {"drainQueue", "saveQueue", "saveMetadata"} => \A t \in owed : Accounted(t)

\* Once the entries are restored their file may go
SafeToArchive ==
  main \in {"queue", "requeue", "archivePending"} =>
    \A t \in savedPending[picked] : Settled(t) \/ Dropped(t) \/ Held(t)

EntryInv == NothingTracked /\ Quiet /\ OneEntryPerId /\ FreshStamps
CountInv == Counting /\ NoneSkipped
SafeInv  == SafeOrHeld /\ SafeToExit /\ SafeToArchive
RecInv   == Types /\ EntryInv /\ CountInv /\ SafeInv

-------------------------------------------------------------------------------
(* Sequences of tasks *)

LEMMA HeadAndTail ==
  ASSUME NEW s \in Seq(Task), s # <<>>
  PROVE  /\ Head(s) \in Task /\ Tail(s) \in Seq(Task)
         /\ ToSet(s) = {Head(s)} \cup ToSet(Tail(s))
<1>1. Len(s) \in Nat /\ DOMAIN s = 1 .. Len(s)
  OBVIOUS
<1>2. Len(s) # 0
  OBVIOUS
<1>3. 1 \in DOMAIN s /\ Head(s) = s[1]
  BY <1>1, <1>2
<1>4. Tail(s) \in Seq(Task) /\ Len(Tail(s)) = Len(s) - 1
  BY <1>2
<1>5. \A i \in 1 .. Len(s) - 1 : Tail(s)[i] = s[i + 1]
  BY <1>2
<1>6. DOMAIN Tail(s) = 1 .. Len(s) - 1
  BY <1>4
<1>7. \A i \in 1 .. Len(s) : i = 1 \/ i - 1 \in 1 .. Len(s) - 1
  BY <1>1
<1>8. \A i \in 1 .. Len(s) - 1 : i + 1 \in 1 .. Len(s)
  BY <1>1
<1>9. ToSet(s) \subseteq {Head(s)} \cup ToSet(Tail(s))
  <2> SUFFICES ASSUME NEW i \in DOMAIN s, i # 1
               PROVE  \E j \in DOMAIN Tail(s) : Tail(s)[j] = s[i]
    BY <1>3 DEF ToSet
  <2>1. i - 1 \in DOMAIN Tail(s) /\ (i - 1) + 1 = i
    BY <1>1, <1>6, <1>7
  <2> QED
    BY <1>5, <1>6, <2>1
<1>10. {Head(s)} \cup ToSet(Tail(s)) \subseteq ToSet(s)
  BY <1>1, <1>3, <1>5, <1>6, <1>8 DEF ToSet
<1> QED
  BY <1>1, <1>3, <1>4, <1>9, <1>10

LEMMA Appended ==
  ASSUME NEW s \in Seq(Task), NEW t \in Task
  PROVE  /\ Append(s, t) \in Seq(Task)
         /\ ToSet(Append(s, t)) = ToSet(s) \cup {t}
<1>1. /\ Append(s, t) \in Seq(Task)
      /\ DOMAIN s = 1 .. Len(s) /\ Len(s) \in Nat
      /\ DOMAIN Append(s, t) = 1 .. Len(s) + 1
      /\ Append(s, t)[Len(s) + 1] = t
      /\ \A i \in 1 .. Len(s) : Append(s, t)[i] = s[i]
  OBVIOUS
<1> QED
  BY <1>1 DEF ToSet

LEMMA SetOfTasks ==
  ASSUME NEW s \in Seq(Task)
  PROVE  ToSet(s) \subseteq Task
BY DEF ToSet

\* Taking a task out of the channel
LEMMA Removed ==
  ASSUME NEW s \in Seq(Task), NEW i \in DOMAIN s
  PROVE  /\ s[i] \in Task /\ RemoveAt(s, i) \in Seq(Task)
         /\ ToSet(s) = ToSet(RemoveAt(s, i)) \cup {s[i]}
<1>1. /\ Len(s) \in Nat /\ DOMAIN s = 1 .. Len(s) /\ i \in Nat /\ 1 <= i /\ i <= Len(s)
      /\ s[i] \in Task
  OBVIOUS
<1> DEFINE l == SubSeq(s, 1, i - 1)
           r == SubSeq(s, i + 1, Len(s))
<1>2. l \in Seq(Task) /\ Len(l) = i - 1 /\ \A j \in 1 .. i - 1 : l[j] = s[j]
  <2>1. \A j \in 1 .. i - 1 : s[j] \in Task
    BY <1>1
  <2> QED
    BY <1>1, <2>1, SubSeqProperties
<1>3. r \in Seq(Task) /\ Len(r) = Len(s) - i /\ \A j \in 1 .. Len(s) - i : r[j] = s[i + j]
  <2>1. \A j \in i + 1 .. Len(s) : s[j] \in Task
    BY <1>1
  <2> QED
    BY <1>1, <2>1, SubSeqProperties
<1> DEFINE q == RemoveAt(s, i)
<1>4. q = l \o r
  BY DEF RemoveAt
<1> HIDE DEF l, r, q
<1>5. /\ q \in Seq(Task) /\ Len(q) = Len(l) + Len(r)
      /\ \A j \in 1 .. Len(l) + Len(r) : q[j] = IF j <= Len(l) THEN l[j] ELSE r[j - Len(l)]
  BY <1>2, <1>3, <1>4, ConcatProperties, Zenon
<1>6. DOMAIN q = 1 .. Len(s) - 1
  BY <1>1, <1>2, <1>3, <1>5
<1>7. \A j \in 1 .. i - 1 : j \in DOMAIN q /\ q[j] = s[j]
  BY <1>1, <1>2, <1>3, <1>5, <1>6
<1>8. ASSUME NEW j \in i + 1 .. Len(s)
      PROVE  j - 1 \in DOMAIN q /\ q[j - 1] = s[j]
  <2>1. /\ j - 1 \in 1 .. Len(s) - 1 /\ j - 1 \in 1 .. Len(l) + Len(r) /\ ~(j - 1 <= Len(l))
        /\ (j - 1) - Len(l) = j - i /\ j - i \in 1 .. Len(s) - i /\ i + (j - i) = j
    BY <1>1, <1>2, <1>3
  <2> QED
    BY <1>3, <1>5, <1>6, <2>1
<1>9. \A j \in DOMAIN s : j = i \/ j \in 1 .. i - 1 \/ j \in i + 1 .. Len(s)
  BY <1>1
<1>10. ASSUME NEW n \in DOMAIN q
       PROVE  \E j \in DOMAIN s : q[n] = s[j]
  <2>1. CASE n < i
    BY <1>1, <1>6, <1>7, <2>1
  <2>2. CASE ~(n < i)
    <3>1. n + 1 \in i + 1 .. Len(s) /\ (n + 1) - 1 = n /\ n + 1 \in DOMAIN s
      BY <1>1, <1>6, <2>2
    <3> QED
      BY <1>8, <3>1
  <2> QED
    BY <2>1, <2>2
<1>11. ToSet(q) \cup {s[i]} \subseteq ToSet(s)
  BY <1>10 DEF ToSet
<1>12. ToSet(s) \subseteq ToSet(q) \cup {s[i]}
  <2> SUFFICES ASSUME NEW j \in DOMAIN s, j # i PROVE \E n \in DOMAIN q : q[n] = s[j]
    BY DEF ToSet
  <2> QED
    BY <1>7, <1>8, <1>9
<1> QED
  BY <1>1, <1>5, <1>11, <1>12 DEF q

\* SetToSeq lists the elements of a set of tasks
LEMMA TasksInSomeOrder ==
  ASSUME NEW T \in SUBSET Task
  PROVE  SetToSeq(T) \in Seq(Task) /\ ToSet(SetToSeq(T)) = T
<1>1. IsFiniteSet(Task)
  BY RecoveryAssumption, FS_Interval DEF RecoveryAssumption, Task
<1>2. IsFiniteSet(T)
  BY <1>1, FS_Subset
<1>3. Cardinality(T) \in Nat /\ ExistsBijection(1 .. Cardinality(T), T)
  BY <1>2, FS_CardinalityType
<1> DEFINE n == Cardinality(T)
           s == SetToSeq(T)
<1>4. \E f \in [1 .. n -> T] : IsInjective(f)
  BY <1>3 DEF ExistsBijection, Bijection, Injection
<1>5. s \in [1 .. n -> T] /\ IsInjective(s)
  BY <1>4 DEF SetToSeq
<1>6. Cardinality(1 .. n) = n
  BY <1>3, FS_Interval
<1> HIDE DEF n, s
<1>7. s \in Injection(1 .. n, T)
  BY <1>5 DEF Injection
<1>8. n = Cardinality(T)
  BY DEF n
<1>9. s \in Surjection(1 .. n, T)
  BY <1>2, <1>6, <1>7, <1>8, FS_Injection
<1>10. \A t \in T : \E i \in 1 .. n : s[i] = t
  BY <1>9 DEF Surjection
<1>11. ToSet(s) = T
  BY <1>5, <1>10 DEF ToSet
<1>12. s \in Seq(Task)
  <2>1. n \in Nat
    BY <1>3, <1>8
  <2>2. s \in [1 .. n -> Task]
    BY <1>5
  <2> QED
    BY <2>1, <2>2
<1> QED
  BY <1>11, <1>12 DEF s

-------------------------------------------------------------------------------
(* Types *)

LEMMA TasksAreNumbers ==
  /\ NumTasks \in Nat /\ Task = 1 .. NumTasks /\ None \notin Task
  /\ MaxCapacity \in Nat \ {0} /\ InitialQueueSize \in 1 .. MaxCapacity
  /\ MaxStarts \in Nat /\ MaxEmergencies \in Nat /\ MaxFaults \in Nat
<1>1. /\ InitialQueueSize \in Nat \ {0} /\ MaxMultiplier \in Nat \ {0}
      /\ NumTasks \in Nat /\ Task = 1 .. NumTasks /\ None \notin Task
      /\ MaxStarts \in Nat /\ MaxEmergencies \in Nat /\ MaxFaults \in Nat
  BY RecoveryAssumption DEF RecoveryAssumption, Task
<1>2. ASSUME NEW m \in Nat \ {0}, NEW n \in Nat \ {0}
      PROVE  m * n \in Nat \ {0} /\ m <= m * n
  BY <1>2
<1> QED
  BY <1>1, <1>2 DEF MaxCapacity

\* The entries are finitely many, since each holds a task of its id
LEMMA FiniteEntries ==
  ASSUME NEW e \in [Key -> Task \cup {None}],
         \A k \in Key : e[k] # None => KeyOf[e[k]] = k
  PROVE  IsFiniteSet(Entries(e)) /\ Cardinality(Entries(e)) \in Nat
<1>1. IsFiniteSet(Task)
  BY RecoveryAssumption, FS_Interval DEF RecoveryAssumption, Task
<1> DEFINE f == [t \in Task |-> KeyOf[t]]
           I == {f[t] : t \in Task}
<1>2. IsFiniteSet(I)
  <2>1. f \in Surjection(Task, I)
    BY DEF Surjection
  <2> HIDE DEF f, I
  <2> QED
    BY <1>1, <2>1, FS_Surjection
<1>3. Entries(e) \subseteq I
  <2> SUFFICES ASSUME NEW k \in Key, e[k] # None PROVE k \in I
    BY DEF Entries
  <2>1. e[k] \in Task /\ f[e[k]] = k
    OBVIOUS
  <2> QED
    BY <2>1
<1> HIDE DEF I
<1> QED
  BY <1>2, <1>3, FS_Subset, FS_CardinalityType

\* What a commit does, to the database, the entries and the history
LEMMA CommitTyped ==
  ASSUME Types, NEW s \in Seq(Task), Commit(s)
  PROVE  /\ db' \in [Key -> Task \cup {None}] /\ faults' \in 0 .. MaxFaults
         /\ pendingItems' \in [Key -> Task \cup {None}]
         /\ \A k \in Key : pendingItems'[k] \in {pendingItems[k], None}
         /\ Counted(pendingItems') /\ count' \in Int
         /\ stored \subseteq stored' /\ stored' \subseteq Task
         /\ untracked \subseteq untracked' /\ untracked' \subseteq Task
         /\ ToSet(s) \subseteq stored' \cup untracked'
         /\ \A k \in Key : pendingItems'[k] = None =>
              pendingItems[k] \in {None} \cup stored' \cup untracked'
         /\ \A k \in Key : pendingItems[k] \in ToSet(s) => pendingItems'[k] = None
<1>1. /\ pendingItems \in [Key -> Task \cup {None}] /\ db \in [Key -> Task \cup {None}]
      /\ stored \subseteq Task /\ untracked \subseteq Task /\ count \in Int
      /\ \A k \in Key : pendingItems[k] # None => KeyOf[pendingItems[k]] = k
      /\ faults \in 0 .. MaxFaults
  BY DEF Types, MemoryTypeOK, DiskTypeOK, HistoryTypeOK
<1> DEFINE K == KeysOf(ToSet(s))
           e == [k \in Key |-> IF k \in K THEN None ELSE pendingItems[k]]
<1>2. PICK T \in SUBSET ToSet(s) :
        /\ IF T = ToSet(s) THEN UNCHANGED faults ELSE Fail
        /\ db' = Written(s, T) /\ stored' = stored \cup T
        /\ Counted(e)
        /\ untracked' = untracked \cup ({t \in ToSet(s) \cup PendingTasks : KeyOf[t] \in K} \ T)
  BY DEF Commit
<1>3. \A i \in DOMAIN s : s[i] \in Task
  OBVIOUS
<1>4. Written(s, T) \in [Key -> Task \cup {None}]
  BY <1>1, <1>3 DEF Written
<1>5. PendingTasks \subseteq Task /\ ToSet(s) \subseteq Task
  BY <1>1, SetOfTasks DEF PendingTasks
<1>6. e \in [Key -> Task \cup {None}] /\ \A k \in Key : e[k] = IF k \in K THEN None ELSE pendingItems[k]
  BY <1>1
<1>7. \A t \in ToSet(s) : KeyOf[t] \in K
  BY DEF KeysOf
<1> HIDE DEF K, e
<1>8. pendingItems' = e /\ Counted(pendingItems') /\ count' \in Int
  <2>1. \A f \in [Key -> Task \cup {None}] :
          (\A k \in Key : f[k] # None => KeyOf[f[k]] = k) => Cardinality(Entries(f)) \in Nat
    BY FiniteEntries
  <2>2. \A k \in Key : e[k] # None => KeyOf[e[k]] = k
    BY <1>1, <1>6
  <2>3. Cardinality(Entries(e)) \in Nat /\ Cardinality(Entries(pendingItems)) \in Nat
    BY <1>1, <1>6, <2>1, <2>2
  <2> QED
    BY <1>1, <1>2, <2>3 DEF Counted
<1>9. faults' \in 0 .. MaxFaults
  BY <1>1, <1>2, TasksAreNumbers DEF Fail
<1>10. ASSUME NEW k \in Key, pendingItems'[k] = None, pendingItems[k] # None
       PROVE  pendingItems[k] \in stored' \cup untracked'
  <2>1. pendingItems[k] \in PendingTasks
    BY <1>10 DEF PendingTasks
  <2>2. k \in K /\ KeyOf[pendingItems[k]] = k
    BY <1>1, <1>6, <1>8, <1>10
  <2> QED
    BY <1>2, <2>1, <2>2
<1>11. ASSUME NEW k \in Key, pendingItems[k] \in ToSet(s)
       PROVE  pendingItems'[k] = None
  <2>1. pendingItems[k] # None
    BY <1>5, <1>11, TasksAreNumbers
  <2>2. k \in K
    BY <1>1, <1>7, <1>11, <2>1
  <2> QED
    BY <1>6, <1>8, <2>2
<1>12. ToSet(s) \subseteq stored' \cup untracked'
  BY <1>2, <1>7
<1>13. stored' \subseteq Task /\ untracked' \subseteq Task
  BY <1>1, <1>2, <1>5
<1> QED
  BY <1>1, <1>2, <1>4, <1>6, <1>8, <1>9, <1>10, <1>11, <1>12, <1>13

\* Entries that come and go with their count
LEMMA CountTyped ==
  ASSUME Types, Counted(pendingItems'), pendingItems' \in [Key -> Task \cup {None}],
         \A k \in Key : pendingItems'[k] # None => KeyOf[pendingItems'[k]] = k
  PROVE  /\ count' \in Int
         /\ Counting /\ UNCHANGED resurrected => Counting'
<1>1. /\ Cardinality(Entries(pendingItems)) \in Nat
      /\ count \in Int /\ resurrected \in Nat
  BY FiniteEntries DEF Types, MemoryTypeOK
<1>2. Cardinality(Entries(pendingItems')) \in Nat
  <2>1. PICK e : e = pendingItems'
    OBVIOUS
  <2>2. Cardinality(Entries(e)) \in Nat
    BY <2>1, FiniteEntries
  <2> QED
    BY <2>1, <2>2
<1>3. count' = count + Cardinality(Entries(pendingItems')) - Cardinality(Entries(pendingItems))
  BY DEF Counted
<1>4. count' \in Int
  BY <1>1, <1>2, <1>3
<1>5. ASSUME Counting, UNCHANGED resurrected PROVE Counting'
  <2>1. count' + resurrected' = Cardinality(Entries(pendingItems'))
    BY <1>1, <1>2, <1>3, <1>5 DEF Counting
  <2> QED
    BY <2>1 DEF Counting, Entries
<1> QED
  BY <1>4, <1>5

LEMMA EntriesTyped ==
  ASSUME Types, NEW T \in SUBSET Task
  PROVE  /\ EntriesOf(T) \in [Key -> Task \cup {None}]
         /\ \A k \in Key : \/ EntriesOf(T)[k] \in T /\ KeyOf[EntriesOf(T)[k]] = k
                           \/ /\ EntriesOf(T)[k] = pendingItems[k]
                              /\ \A t \in T : KeyOf[t] # k
<1>1. pendingItems \in [Key -> Task \cup {None}]
  BY DEF Types, MemoryTypeOK
<1>2. ASSUME NEW k \in Key
      PROVE  LET own == {t \in T : KeyOf[t] = k} IN
             own # {} => (CHOOSE t \in own : TRUE) \in own
  OBVIOUS
<1>3. \A k \in Key : \/ EntriesOf(T)[k] \in T /\ KeyOf[EntriesOf(T)[k]] = k
                     \/ /\ EntriesOf(T)[k] = pendingItems[k]
                        /\ \A t \in T : KeyOf[t] # k
  BY <1>2 DEF EntriesOf
<1>4. EntriesOf(T) \in [Key -> Task \cup {None}]
  <2>1. EntriesOf(T) = [k \in Key |-> EntriesOf(T)[k]]
    BY DEF EntriesOf
  <2>2. \A k \in Key : EntriesOf(T)[k] \in Task \cup {None}
    BY <1>1, <1>3
  <2> QED
    BY <2>1, <2>2
<1> QED
  BY <1>3, <1>4

LEMMA ProgramCounters ==
  /\ DOMAIN Renamed = {"archivePending", "archiveQueue", "archiveMetadata"}
  /\ MainPC = {"down", "serving", "scan", "metadata", "pending", "queue", "requeue",
                "archivePending", "archiveQueue", "archiveMetadata",
                "savePending", "drainQueue", "saveQueue", "saveMetadata",
                "join", "drain", "force", "stopjoin", "closed"}
  /\ Picking = {"metadata", "pending", "queue", "requeue",
                 "archivePending", "archiveQueue", "archiveMetadata",
                 "savePending", "drainQueue", "saveQueue", "saveMetadata"}
<1>1. DOMAIN Renamed = {"archivePending", "archiveQueue", "archiveMetadata"}
  BY DEF Renamed
<1> QED
  BY <1>1 DEF MainPC, Picking, Starting, Emergency, Flushing

LEMMA MemoryGoneTyped ==
  ASSUME MemoryGone
  PROVE  MemoryTypeOK' /\ restored' = {}
<1>1. <<>> \in Seq(Task)
  OBVIOUS
<1>2. [k \in Key |-> None] \in [Key -> Task \cup {None}]
  OBVIOUS
<1>3. /\ main' = "down" /\ worker' = "off" /\ stopped' = FALSE /\ capacity' = InitialQueueSize
      /\ chan' = <<>> /\ batch' = <<>> /\ tasks' = <<>> /\ tracking' = {} /\ overwriting' = {}
      /\ pendingItems' = [k \in Key |-> None] /\ count' = 0 /\ picked' = 0
      /\ restored' = {} /\ tardy' = {} /\ resurrected' = 0
  BY DEF MemoryGone
<1>4. count' \in Int /\ resurrected' \in Nat /\ InitialQueueSize \in 1 .. MaxCapacity
  BY <1>3, TasksAreNumbers
<1>5. \A k \in Key : pendingItems'[k] = None
  BY <1>3
<1>6. "down" \in MainPC /\ "down" \notin Picking
  BY ProgramCounters
<1> QED
  BY <1>1, <1>2, <1>3, <1>4, <1>5, <1>6 DEF MemoryTypeOK

LEMMA KindsOfFiles == \A f \in DOMAIN Renamed : Renamed[f] \in FileKind
BY DEF Renamed, FileKind

\* A file changes its state
LEMMA FileTyped ==
  ASSUME Types, NEW s \in Stamp, NEW f \in FileKind, NEW st \in FileState,
         file' = [file EXCEPT ![s][f] = st]
  PROVE  /\ file' \in [Stamp -> [FileKind -> FileState]]
         /\ file'[s][f] = st
         /\ \A r \in Stamp : \A g \in FileKind :
              r # s \/ g # f => file'[r][g] = file[r][g]
BY DEF Types, DiskTypeOK

LEMMA ServeTyped ==
  ASSUME Types, NEW files, Serve(files)
  PROVE  main' = "serving" /\ tasks' \in Seq(Task) /\ picked' \in Stamp \cup {0} /\ exposed' \subseteq Key
<1>1. <<>> \in Seq(Task)
  OBVIOUS
<1> QED
  BY <1>1 DEF Serve, Types, HistoryTypeOK

LEMMA RecoverTypes ==
  ASSUME Types, Recover
  PROVE  Types'
<1> USE ProgramCounters DEF Types, MemoryTypeOK, DiskTypeOK, HistoryTypeOK, queueVars, entryVars,
        memoryVars, localVars, diskVars, dbVars, boundVars, histVars
<1>1. CASE Open
  <2>1. starts' \in 0 .. MaxStarts
    BY <1>1, TasksAreNumbers DEF Open
  <2> QED
    BY <1>1, <2>1, ServeTyped DEF Open
<1>2. CASE Scan
  BY <1>2, ServeTyped DEF Scan
<1>3. CASE RecoveryError
  BY <1>3, ServeTyped DEF RecoveryError
<1>4. CASE ReadMetadata \/ Restored
  BY <1>4 DEF ReadMetadata, Restored
<1>5. CASE RestorePendingItems
  <2>1. picked \in Stamp /\ savedPending[picked] \subseteq Task
    BY <1>5 DEF RestorePendingItems
  <2>2. pendingItems' = EntriesOf(savedPending[picked]) /\ Counted(pendingItems')
    BY <1>5 DEF RestorePendingItems, Counted
  <2>a. PICK T \in SUBSET Task : T = savedPending[picked]
    BY <2>1
  <2>b. /\ EntriesOf(T) \in [Key -> Task \cup {None}]
        /\ \A k \in Key : \/ EntriesOf(T)[k] \in T /\ KeyOf[EntriesOf(T)[k]] = k
                          \/ EntriesOf(T)[k] = pendingItems[k]
    BY EntriesTyped, Zenon
  <2>3. /\ pendingItems' \in [Key -> Task \cup {None}]
        /\ \A k \in Key : pendingItems'[k] # None => KeyOf[pendingItems'[k]] = k
    BY <2>2, <2>a, <2>b
  <2>4. count' \in Int
    BY <2>2, <2>3, CountTyped
  <2> QED
    BY <1>5, <2>1, <2>3, <2>4 DEF RestorePendingItems
<1>6. CASE ReadQueueFile
  <2>1. picked \in Stamp /\ savedQueue[picked] \in Seq(Task)
    BY <1>6 DEF ReadQueueFile
  <2> QED
    BY <1>6, <2>1 DEF ReadQueueFile
<1>7. CASE RestoreWriteQueue
  <2>0. tasks \in Seq(Task) /\ tasks # <<>> /\ tasks' = Tail(tasks)
    BY <1>7 DEF RestoreWriteQueue
  <2>1. Head(tasks) \in Task /\ Tail(tasks) \in Seq(Task)
    BY <2>0, HeadAndTail
  <2>2. chan' \in Seq(Task)
    <3>1. Append(chan, Head(tasks)) \in Seq(Task)
      BY <2>1, Appended
    <3> QED
      BY <1>7, <3>1 DEF RestoreWriteQueue
  <2>3. exposed' \subseteq Key
    BY <1>7, <2>1, RecoveryAssumption DEF RestoreWriteQueue, RecoveryAssumption
  <2> QED
    BY <1>7, <2>0, <2>1, <2>2, <2>3 DEF RestoreWriteQueue
<1>8. CASE Archive
  <2>1. picked \in Stamp /\ Renamed[main] \in FileKind /\ "absent" \in FileState
    BY <1>8, KindsOfFiles DEF Archive, FileState
  <2>2. file' \in [Stamp -> [FileKind -> FileState]] /\ faults' \in 0 .. MaxFaults
    <3>1. CASE file' = [file EXCEPT ![picked][Renamed[main]] = "absent"] /\ UNCHANGED faults
      BY <2>1, <3>1, FileTyped
    <3>2. CASE Fail /\ UNCHANGED file
      BY <3>2, TasksAreNumbers DEF Fail
    <3> QED
      BY <1>8, <3>1, <3>2 DEF Archive
  <2>3. /\ main' \in {"archiveQueue", "archiveMetadata", "serving"}
        /\ tasks' \in Seq(Task) /\ exposed' \subseteq Key
        /\ picked' \in Stamp \cup {0} /\ (main' \in Picking => picked' \in Stamp)
    BY <1>8, <2>1, ServeTyped DEF Archive
  <2> QED
    BY <1>8, <2>2, <2>3 DEF Archive
<1> QED
  BY <1>1, <1>2, <1>3, <1>4, <1>5, <1>6, <1>7, <1>8 DEF Recover

\* An entry that a request makes
LEMMA EntryMade ==
  ASSUME Types, NEW t \in Task, MakeEntry(t)
  PROVE  /\ pendingItems' \in [Key -> Task \cup {None}]
         /\ \A k \in Key : pendingItems'[k] # None => KeyOf[pendingItems'[k]] = k
         /\ KeyOf[t] \in Key /\ pendingItems'[KeyOf[t]] = t
         /\ \A k \in Key : k # KeyOf[t] => pendingItems'[k] = pendingItems[k]
         /\ untracked \subseteq untracked' /\ untracked' \subseteq Task
         /\ tardy' \subseteq Task /\ disordered' \subseteq Key
<1>1. KeyOf[t] \in Key
  BY RecoveryAssumption DEF RecoveryAssumption
<1>2. untracked' = untracked \cup (PendingTasks \cap (Newer(t) \ {t}))
  BY DEF MakeEntry
<1>3. Newer(t) \subseteq Task
  BY DEF Newer
<1>4. pendingItems' = [pendingItems EXCEPT ![KeyOf[t]] = t]
  BY DEF MakeEntry
<1>5. tardy' \subseteq tardy \cup {t} /\ disordered' \subseteq disordered \cup {KeyOf[t]}
  BY DEF MakeEntry
<1> QED
  BY <1>1, <1>2, <1>3, <1>4, <1>5 DEF Types, MemoryTypeOK, HistoryTypeOK

LEMMA RequestTypes ==
  ASSUME Types, Request
  PROVE  Types'
<1> USE ProgramCounters DEF Types, MemoryTypeOK, DiskTypeOK, HistoryTypeOK, queueVars, entryVars,
        memoryVars, localVars, diskVars, dbVars, boundVars, histVars
<1>1. CASE Send
  <2> DEFINE t == sent + 1
  <2>1. t \in Task /\ t \in 0 .. NumTasks
    BY <1>1, TasksAreNumbers DEF Send
  <2>2. chan' \in Seq(Task)
    BY <1>1, <2>1, Appended DEF Send
  <2>3. sent' = t /\ late' \subseteq late \cup {t} /\ tracking' = tracking \cup {t}
    BY <1>1 DEF Send
  <2> HIDE DEF t
  <2> QED
    BY <1>1, <2>1, <2>2, <2>3 DEF Send
<1>2. CASE Grow
  <2>1. capacity' \in 1 .. MaxCapacity
    BY <1>2, TasksAreNumbers DEF Grow
  <2>2. chan' \in Seq(Task) /\ batch' \in Seq(Task) /\ disordered' \subseteq Key
    <3>1. CASE UNCHANGED <<chan, batch, disordered>>
      BY <3>1
    <3>2. ASSUME NEW i \in DOMAIN chan, batch' = Append(batch, chan[i]), chan' = RemoveAt(chan, i),
                 disordered' = disordered \cup
                   (KeysOf({chan[i]}) \cap KeysOf({chan[j] : j \in 1 .. (i - 1)}))
          PROVE  chan' \in Seq(Task) /\ batch' \in Seq(Task) /\ disordered' \subseteq Key
      <4>1. chan[i] \in Task /\ chan' \in Seq(Task)
        BY <3>2, Removed
      <4>2. batch' \in Seq(Task)
        BY <3>2, <4>1, Appended
      <4>3. KeysOf({chan[i]}) \subseteq Key
        BY <4>1, RecoveryAssumption DEF KeysOf, RecoveryAssumption
      <4> QED
        BY <3>2, <4>1, <4>2, <4>3
    <3> QED
      BY <1>2, <3>1, <3>2 DEF Grow
  <2> QED
    BY <1>2, <2>1, <2>2 DEF Grow
<1>3. ASSUME NEW t \in Task, Track(t)
      PROVE  Types'
  <2>1. CASE MakeEntry(t) /\ count' = count + 1 /\ UNCHANGED overwriting
    BY <1>3, <2>1, EntryMade DEF Track
  <2>2. CASE overwriting' = overwriting \cup {t}
             /\ UNCHANGED <<pendingItems, count, tardy, untracked, disordered>>
    BY <1>3, <2>2 DEF Track
  <2> QED
    BY <1>3, <2>1, <2>2 DEF Track
<1>4. ASSUME NEW t \in Task, Overwrite(t)
      PROVE  Types'
  <2>1. resurrected' \in Nat
    BY <1>4 DEF Overwrite
  <2> QED
    BY <1>4, <2>1, EntryMade DEF Overwrite
<1> QED
  BY <1>1, <1>2, <1>3, <1>4 DEF Request

LEMMA WorkTypes ==
  ASSUME Types, Worker
  PROVE  Types'
<1> USE ProgramCounters DEF Types, MemoryTypeOK, DiskTypeOK, HistoryTypeOK, queueVars, entryVars,
        memoryVars, localVars, diskVars, dbVars, boundVars, histVars
<1>2. CASE WorkerReceive
  <2>1. Head(chan) \in Task /\ Tail(chan) \in Seq(Task)
    BY <1>2, HeadAndTail DEF WorkerReceive
  <2>2. chan' \in Seq(Task) /\ batch' \in Seq(Task)
    BY <1>2, <2>1, Appended DEF WorkerReceive
  <2> QED
    BY <1>2, <2>2 DEF WorkerReceive
<1>3. CASE WorkerCommit
  <2>1. Commit(batch) /\ batch' = <<>> /\ batch' \in Seq(Task)
    BY <1>3 DEF WorkerCommit
  <2>2. /\ db' \in [Key -> Task \cup {None}] /\ pendingItems' \in [Key -> Task \cup {None}]
        /\ \A k \in Key : pendingItems'[k] # None => KeyOf[pendingItems'[k]] = k
        /\ stored' \subseteq Task /\ untracked' \subseteq Task
        /\ count' \in Int /\ faults' \in 0 .. MaxFaults
    BY <2>1, CommitTyped
  <2> QED
    BY <1>3, <2>1, <2>2 DEF WorkerCommit
<1>4. CASE WorkerExit
  BY <1>4 DEF WorkerExit
<1> QED
  BY <1>2, <1>3, <1>4 DEF Worker

LEMMA SaveTypes ==
  ASSUME Types, Save
  PROVE  Types'
<1> USE ProgramCounters DEF Types, MemoryTypeOK, DiskTypeOK, HistoryTypeOK, queueVars, entryVars,
        memoryVars, localVars, diskVars, dbVars, boundVars, histVars
<1>0. PendingTasks \subseteq Task /\ FileState = {"absent", "torn", "whole"}
      /\ FileKind = {"pending", "queue", "metadata"}
  BY DEF PendingTasks, FileState, FileKind
<1>1. CASE EmergencyBegin
  <2>1. emergencies' \in Stamp /\ emergencies' \in 0 .. MaxEmergencies /\ picked' = emergencies'
    BY <1>1, TasksAreNumbers DEF EmergencyBegin, Stamp
  <2> QED
    BY <1>0, <1>1, <2>1 DEF EmergencyBegin
<1>2. CASE SavePending
  <2>1. picked \in Stamp
    BY <1>2 DEF SavePending
  <2>2. /\ file' \in [Stamp -> [FileKind -> FileState]] /\ faults' \in 0 .. MaxFaults
        /\ excused' \subseteq Task
    <3>1. ASSUME NEW st \in FileState, file' = [file EXCEPT ![picked]["pending"] = st]
          PROVE  file' \in [Stamp -> [FileKind -> FileState]]
      BY <1>0, <2>1, <3>1, FileTyped
    <3>2. CASE file' = [file EXCEPT ![picked]["pending"] = "whole"] /\ UNCHANGED <<faults, excused>>
      BY <1>0, <3>1, <3>2
    <3>3. CASE /\ Fail
               /\ \E st \in {"absent", "torn"} : file' = [file EXCEPT ![picked]["pending"] = st]
               /\ excused' = excused \cup {t \in owed : Held(t)}
      <4>1. faults' \in 0 .. MaxFaults
        BY <3>3, TasksAreNumbers DEF Fail
      <4> QED
        BY <1>0, <3>1, <3>3, <4>1
    <3> QED
      BY <1>2, <3>2, <3>3 DEF SavePending
  <2>3. savedPending' \in [Stamp -> SUBSET Task] /\ late' \subseteq Task
    BY <1>0, <1>2, <2>1 DEF SavePending, Requests
  <2> QED
    BY <1>2, <2>1, <2>2, <2>3 DEF SavePending
<1>3. CASE DrainQueue
  <2>1. CASE chan # <<>> /\ tasks' = Append(tasks, Head(chan)) /\ chan' = Tail(chan)
    <3>1. Head(chan) \in Task /\ Tail(chan) \in Seq(Task)
      BY <2>1, HeadAndTail
    <3>2. chan' \in Seq(Task) /\ tasks' \in Seq(Task)
      BY <2>1, <3>1, Appended
    <3> QED
      BY <1>3, <3>2 DEF DrainQueue
  <2> QED
    BY <1>3, <2>1 DEF DrainQueue
<1>4. CASE SaveQueue
  <2>1. picked \in Stamp /\ <<>> \in Seq(Task)
    BY <1>4 DEF SaveQueue
  <2>2. /\ file' \in [Stamp -> [FileKind -> FileState]] /\ faults' \in 0 .. MaxFaults
    <3>1. ASSUME NEW st \in FileState, file' = [file EXCEPT ![picked]["queue"] = st]
          PROVE  file' \in [Stamp -> [FileKind -> FileState]]
      BY <1>0, <2>1, <3>1, FileTyped
    <3> QED
      BY <1>0, <1>4, <3>1, TasksAreNumbers DEF SaveQueue, Fail
  <2>3. savedQueue' \in [Stamp -> Seq(Task)]
    BY <1>4, <2>1 DEF SaveQueue
  <2> QED
    BY <1>4, <2>1, <2>2, <2>3 DEF SaveQueue
<1>5. CASE SaveMetadata
  <2>1. picked \in Stamp
    BY <1>5 DEF SaveMetadata
  <2>2. /\ file' \in [Stamp -> [FileKind -> FileState]] /\ faults' \in 0 .. MaxFaults
    <3>1. ASSUME NEW st \in FileState, file' = [file EXCEPT ![picked]["metadata"] = st]
          PROVE  file' \in [Stamp -> [FileKind -> FileState]]
      BY <1>0, <2>1, <3>1, FileTyped
    <3> QED
      BY <1>0, <1>5, <3>1, TasksAreNumbers DEF SaveMetadata, Fail
  <2>3. MemoryTypeOK' /\ restored' = {}
    BY <1>5, MemoryGoneTyped DEF SaveMetadata
  <2> QED
    BY <1>5, <2>2, <2>3 DEF SaveMetadata
<1> QED
  BY <1>1, <1>2, <1>3, <1>4, <1>5 DEF Save

LEMMA FlushTypes ==
  ASSUME Types, Flush \/ Kill
  PROVE  Types'
<1> USE ProgramCounters DEF Types, MemoryTypeOK, DiskTypeOK, HistoryTypeOK, queueVars, entryVars,
        memoryVars, localVars, diskVars, dbVars, boundVars, histVars
<1>0. PendingTasks \subseteq Task
  BY DEF PendingTasks
<1>1. CASE FlushBegin
  BY <1>0, <1>1 DEF FlushBegin
<1>2. CASE FlushJoin
  BY <1>2 DEF FlushJoin
<1>3. ASSUME NEW s \in Seq(Task), Commit(s)
      PROVE  /\ db' \in [Key -> Task \cup {None}] /\ pendingItems' \in [Key -> Task \cup {None}]
             /\ \A k \in Key : pendingItems'[k] # None => KeyOf[pendingItems'[k]] = k
             /\ stored' \subseteq Task /\ untracked' \subseteq Task
             /\ count' \in Int /\ faults' \in 0 .. MaxFaults
  BY <1>3, CommitTyped
<1>4. CASE FlushDrain
  <2>1. chan' = <<>> /\ <<>> \in Seq(Task)
    BY <1>4 DEF FlushDrain
  <2> QED
    BY <1>3, <1>4, <2>1 DEF FlushDrain
<1>5. CASE FlushForce
  <2>1. SetToSeq(PendingTasks) \in Seq(Task)
    BY <1>0, TasksInSomeOrder
  <2> QED
    BY <1>3, <1>5, <2>1 DEF FlushForce
<1>6. CASE Exit \/ Kill
  <2>1. excused' \subseteq Task
    BY <1>6 DEF Exit, Kill, Excuse
  <2>2. MemoryTypeOK' /\ restored' = {}
    BY <1>6, MemoryGoneTyped DEF Exit, Kill
  <2> QED
    BY <1>6, <2>1, <2>2 DEF Exit, Kill
<1> QED
  BY <1>1, <1>2, <1>4, <1>5, <1>6 DEF Flush

LEMMA TypesNext == Types /\ [Next]_vars => Types'
<1> SUFFICES ASSUME Types, [Next]_vars PROVE Types'
  OBVIOUS
<1>1. CASE UNCHANGED vars
  BY <1>1 DEF vars, queueVars, entryVars, memoryVars, localVars, diskVars, dbVars, boundVars,
     histVars, Types, MemoryTypeOK, DiskTypeOK, HistoryTypeOK
<1> QED
  BY <1>1, RecoverTypes, RequestTypes, WorkTypes, SaveTypes, FlushTypes DEF Next

LEMMA TypesInit == Init => Types
<1> SUFFICES ASSUME Init PROVE Types
  OBVIOUS
<1>1. <<>> \in Seq(Task) /\ "absent" \in FileState
  BY DEF FileState
<1>2. MemoryTypeOK
  <2>1. "down" \in MainPC /\ "down" \notin Picking /\ 0 \in Int /\ 0 \in Nat
    BY ProgramCounters
  <2>2. InitialQueueSize \in 1 .. MaxCapacity
    BY TasksAreNumbers
  <2>3. [k \in Key |-> None] \in [Key -> Task \cup {None}] /\ \A k \in Key : pendingItems[k] = None
    BY DEF Init
  <2> QED
    BY <1>1, <2>1, <2>2, <2>3 DEF Init, MemoryTypeOK
<1>3. DiskTypeOK
  BY <1>1, TasksAreNumbers DEF Init, DiskTypeOK
<1> QED
  BY <1>2, <1>3 DEF Init, Types, HistoryTypeOK

\* Every variable keeps its type, over any number of starts, shutdowns and deaths of
\* the process; a recovery file restores each content under its own id
\* (badger_close.go:500-574, recovery.go:211-279).
THEOREM TypeCorrect == Spec => []TypeOK
<1>1. Types => TypeOK
  BY DEF Types, MemoryTypeOK, DiskTypeOK, HistoryTypeOK, TypeOK
<1> QED
  BY <1>1, TypesInit, TypesNext, PTL DEF Spec

-------------------------------------------------------------------------------
(* What a step does to the entries, to the files and to the program counter *)

\* A request tracks its task
Asked == \E t \in Task : Track(t) \/ Overwrite(t)

\* Entries stay, go with a commit, or are replaced; an older task that replaces one
\* leaves it untracked
EntriesKept ==
  \A k \in Key :
    \/ pendingItems'[k] = pendingItems[k]
    \/ pendingItems[k] \in {None} \cup stored' \cup untracked'
    \/ pendingItems'[k] \in Newer(pendingItems[k])

NoNewEntries == \A k \in Key : pendingItems'[k] \in {pendingItems[k], None}

LEMMA TrackedTasks ==
  ASSUME Types
  PROVE  /\ PendingTasks \subseteq Task
         /\ \A k \in Key : pendingItems[k] # None => pendingItems[k] \in PendingTasks
         /\ \A u \in PendingTasks : KeyOf[u] \in Key /\ pendingItems[KeyOf[u]] = u
BY DEF Types, MemoryTypeOK, PendingTasks

\* A task is newer than itself, and what is newer than a newer one is newer
LEMMA NewerTasks ==
  /\ \A t \in Task : t \in Newer(t) /\ Newer(t) \subseteq Task
  /\ \A t \in Task : \A u \in Newer(t) : Newer(u) \subseteq Newer(t)
  /\ \A t, u \in Task : KeyOf[t] = KeyOf[u] /\ t <= u => u \in Newer(t)
<1>1. \A t \in Task : t \in Nat
  BY TasksAreNumbers
<1> QED
  BY <1>1 DEF Newer

\* The entry a request makes leaves the one it replaces behind only if it is newer
LEMMA MadeEntryKeeps ==
  ASSUME Types, NEW t \in Task, MakeEntry(t)
  PROVE  EntriesKept
<1> SUFFICES ASSUME NEW k \in Key,
                    pendingItems'[k] # pendingItems[k], pendingItems[k] # None
             PROVE  \/ pendingItems[k] \in untracked'
                    \/ pendingItems'[k] \in Newer(pendingItems[k])
  BY DEF EntriesKept
<1>1. k = KeyOf[t] /\ pendingItems'[k] = t
  BY EntryMade
<1>2. PICK u \in Task : u = pendingItems[k]
  BY DEF Types, MemoryTypeOK
<1>3. u \in PendingTasks /\ KeyOf[u] = KeyOf[t] /\ u # t
  BY <1>1, <1>2, TrackedTasks DEF Types, MemoryTypeOK
<1>4. u <= t \/ t <= u
  BY TasksAreNumbers
<1>5. CASE u <= t
  BY <1>1, <1>2, <1>3, <1>5, NewerTasks
<1>6. CASE t <= u
  <2>1. u \in Newer(t) \ {t}
    BY <1>3, <1>6, NewerTasks
  <2> QED
    BY <1>2, <1>3, <2>1 DEF MakeEntry
<1> QED
  BY <1>4, <1>5, <1>6

LEMMA MovesOfEntries ==
  ASSUME Types, [Next]_vars
  PROVE  \/ RestorePendingItems \/ SaveMetadata \/ Exit \/ Kill
         \/ EntriesKept /\ (Asked \/ NoNewEntries)
<1> DEFINE Fine == EntriesKept /\ (Asked \/ NoNewEntries)
<1>1. ASSUME UNCHANGED pendingItems
      PROVE  Fine
  BY <1>1 DEF EntriesKept, NoNewEntries
<1>2. ASSUME NEW s \in Seq(Task), Commit(s)
      PROVE  Fine
  BY <1>2, CommitTyped DEF EntriesKept, NoNewEntries
<1>3. ASSUME NEW t \in Task, Track(t) \/ Overwrite(t)
      PROVE  Fine
  <2>1. Asked
    BY <1>3 DEF Asked
  <2>2. CASE MakeEntry(t)
    BY <2>1, <2>2, MadeEntryKeeps
  <2>3. CASE UNCHANGED pendingItems
    BY <1>1, <2>3
  <2> QED
    BY <1>3, <2>2, <2>3 DEF Track, Overwrite
<1> HIDE DEF Fine
<1>4. ASSUME Recover
      PROVE  RestorePendingItems \/ Fine
  BY <1>1, <1>4 DEF Recover, Open, Scan, RecoveryError, ReadMetadata, ReadQueueFile,
     RestoreWriteQueue, Restored, Archive, memoryVars, entryVars
<1>5. ASSUME Request
      PROVE  Fine
  BY <1>1, <1>3, <1>5 DEF Request, Send, Grow, entryVars
<1>6. ASSUME Worker
      PROVE  Fine
  <2>1. CASE WorkerCommit
    BY <1>2, <2>1 DEF WorkerCommit, Types, MemoryTypeOK
  <2>2. CASE WorkerReceive \/ WorkerExit
    BY <1>1, <2>2 DEF WorkerReceive, WorkerExit, entryVars
  <2> QED
    BY <1>6, <2>1, <2>2 DEF Worker
<1>7. ASSUME Save
      PROVE  SaveMetadata \/ Fine
  BY <1>1, <1>7 DEF Save, EmergencyBegin, SavePending, DrainQueue, SaveQueue, memoryVars,
     entryVars
<1>8. ASSUME Flush
      PROVE  Exit \/ Fine
  <2>1. CASE FlushBegin \/ FlushJoin
    BY <1>1, <2>1 DEF FlushBegin, FlushJoin, memoryVars, entryVars
  <2>2. CASE FlushDrain
    BY <1>2, <2>2 DEF FlushDrain, Types, MemoryTypeOK
  <2>3. CASE FlushForce
    <3>1. SetToSeq(PendingTasks) \in Seq(Task)
      BY TrackedTasks, TasksInSomeOrder
    <3> QED
      BY <1>2, <2>3, <3>1 DEF FlushForce
  <2> QED
    BY <1>8, <2>1, <2>2, <2>3 DEF Flush
<1>9. ASSUME UNCHANGED vars
      PROVE  Fine
  BY <1>1, <1>9 DEF vars, memoryVars, entryVars
<1> QED
  BY <1>4, <1>5, <1>6, <1>7, <1>8, <1>9 DEF Next, Fine

EntryFilesKept ==
  /\ savedPending' = savedPending
  /\ \A s \in Stamp : file'[s]["pending"] = file[s]["pending"]

LEMMA MovesOfFiles ==
  ASSUME Types, [Next]_vars
  PROVE  \/ SavePending
         \/ Archive /\ main = "archivePending"
         \/ EntryFilesKept
<1> USE DEF EntryFilesKept, diskVars
<1>1. CASE Archive
  <2>1. CASE main # "archivePending"
    <3>1. picked \in Stamp /\ Renamed[main] \in FileKind /\ Renamed[main] # "pending"
      BY <1>1, <2>1, KindsOfFiles, ProgramCounters DEF Archive, Types, MemoryTypeOK, Renamed
    <3>2. \A s \in Stamp : file'[s]["pending"] = file[s]["pending"]
      <4>1. CASE file' = [file EXCEPT ![picked][Renamed[main]] = "absent"]
        BY <3>1, <4>1, FileTyped DEF FileKind, FileState
      <4>2. CASE UNCHANGED file
        BY <4>2
      <4> QED
        BY <1>1, <4>1, <4>2 DEF Archive
    <3> QED
      BY <1>1, <3>2 DEF Archive
  <2> QED
    BY <1>1, <2>1
<1>2. CASE SaveQueue
  <2>1. picked \in Stamp
    BY <1>2, ProgramCounters DEF SaveQueue, Types, MemoryTypeOK
  <2>2. PICK st \in FileState : file' = [file EXCEPT ![picked]["queue"] = st]
    BY <1>2 DEF SaveQueue, FileState
  <2>3. \A s \in Stamp : file'[s]["pending"] = file[s]["pending"]
    BY <2>1, <2>2, FileTyped DEF FileKind
  <2> QED
    BY <1>2, <2>3 DEF SaveQueue
<1>3. CASE SaveMetadata
  <2>1. picked \in Stamp
    BY <1>3, ProgramCounters DEF SaveMetadata, Types, MemoryTypeOK
  <2>2. PICK st \in FileState : file' = [file EXCEPT ![picked]["metadata"] = st]
    BY <1>3 DEF SaveMetadata, FileState
  <2>3. \A s \in Stamp : file'[s]["pending"] = file[s]["pending"]
    BY <2>1, <2>2, FileTyped DEF FileKind
  <2> QED
    BY <1>3, <2>3 DEF SaveMetadata
<1>4. ASSUME Recover, ~Archive
      PROVE  EntryFilesKept
  BY <1>4 DEF Recover, Open, Scan, RecoveryError, ReadMetadata, RestorePendingItems,
     ReadQueueFile, RestoreWriteQueue, Restored
<1>5. CASE Request \/ Worker
  BY <1>5 DEF Request, Send, Grow, Track, Overwrite, Worker, WorkerReceive, WorkerCommit,
     WorkerExit
<1>6. ASSUME Save
      PROVE  SavePending \/ SaveQueue \/ SaveMetadata \/ EntryFilesKept
  BY <1>6 DEF Save, EmergencyBegin, DrainQueue
<1>7. CASE Flush \/ Kill
  BY <1>7 DEF Flush, FlushBegin, FlushJoin, FlushDrain, FlushForce, Exit, Kill
<1>8. CASE UNCHANGED vars
  BY <1>8 DEF vars
<1> QED
  BY <1>1, <1>2, <1>3, <1>4, <1>5, <1>6, <1>7, <1>8 DEF Next

\* Where the process can come from, and what of the history changes then
Leaving ==
  /\ stored \subseteq stored' /\ untracked \subseteq untracked' /\ excused \subseteq excused'
  /\ owed' = owed \/ EmergencyBegin \/ FlushBegin
  /\ emergencies' = emergencies \/ EmergencyBegin
  /\ resurrected' = resurrected \/ (RequestsRun /\ main' = main) \/ main' = "down"
Arriving ==
  /\ main' = "down" => main = "down" \/ SaveMetadata \/ Exit \/ Kill
  /\ main' \in {"scan", "metadata", "pending"} => main \in {"down", "scan", "metadata", "pending"}
  /\ main' \in {"queue", "requeue", "archivePending"} =>
       \/ main \in {"queue", "requeue", "archivePending"} /\ picked' = picked
       \/ RestorePendingItems
  /\ main' = "savePending" =>
       \/ main = "savePending" /\ picked' = picked /\ emergencies' = emergencies
       \/ EmergencyBegin
  /\ main' \in {"drainQueue", "saveQueue", "saveMetadata"} =>
       main \in {"drainQueue", "saveQueue", "saveMetadata"} \/ SavePending
  /\ main' \in {"stopjoin", "closed"} => main \in {"stopjoin", "closed"} \/ FlushBegin \/ FlushForce

LEMMA MovesOfMain ==
  ASSUME Types, [Next]_vars
  PROVE  Leaving /\ Arriving
<1> USE DEF Leaving, Arriving, queueVars, entryVars, memoryVars, localVars, diskVars, dbVars,
        boundVars, histVars
<1>1. CASE Open
  BY <1>1 DEF Open, Serve
<1>2. CASE Scan
  BY <1>2 DEF Scan, Serve
<1>3. CASE RecoveryError
  BY <1>3 DEF RecoveryError, Serve
<1>4. CASE ReadMetadata \/ RestorePendingItems \/ ReadQueueFile \/ RestoreWriteQueue \/ Restored
  BY <1>4 DEF ReadMetadata, RestorePendingItems, ReadQueueFile, RestoreWriteQueue, Restored
<1>5. CASE Archive
  BY <1>5 DEF Archive, Serve
<1>6. CASE Request
  <2>1. CASE Send \/ Grow
    BY <2>1 DEF Send, Grow
  <2>2. ASSUME NEW t \in Task, Track(t) \/ Overwrite(t)
        PROVE  Leaving /\ Arriving
    <3>1. untracked \subseteq untracked'
      BY <2>2, EntryMade DEF Track, Overwrite
    <3> QED
      BY <2>2, <3>1 DEF Track, Overwrite
  <2> QED
    BY <1>6, <2>1, <2>2 DEF Request
<1>7. CASE WorkerReceive \/ WorkerExit
  BY <1>7 DEF WorkerReceive, WorkerExit
<1>8. CASE WorkerCommit
  BY <1>8, CommitTyped DEF WorkerCommit, Types, MemoryTypeOK
<1>9. CASE Save
  BY <1>9 DEF Save, EmergencyBegin, SavePending, DrainQueue, SaveQueue, SaveMetadata, MemoryGone
<1>10. CASE FlushBegin \/ FlushJoin \/ Exit \/ Kill
  BY <1>10 DEF FlushBegin, FlushJoin, Exit, Kill, MemoryGone, Excuse
<1>11. CASE FlushDrain
  BY <1>11, CommitTyped DEF FlushDrain, Types, MemoryTypeOK
<1>12. CASE FlushForce
  <2>1. SetToSeq(PendingTasks) \in Seq(Task)
    BY TasksInSomeOrder DEF PendingTasks, Types, MemoryTypeOK
  <2> QED
    BY <1>12, <2>1, CommitTyped DEF FlushForce
<1>13. CASE UNCHANGED vars
  BY <1>13 DEF vars
<1> QED
  BY <1>1, <1>2, <1>3, <1>4, <1>5, <1>6, <1>7, <1>8, <1>9, <1>10, <1>11, <1>12, <1>13
  DEF Next, Recover, Worker, Flush

-------------------------------------------------------------------------------
(* Entries *)

LEMMA NothingTrackedNext ==
  ASSUME Types, NothingTracked, [Next]_vars
  PROVE  NothingTracked'
<1> USE DEF NothingTracked
<1> DEFINE Bare == {"down", "scan", "metadata", "pending"}
<1>1. CASE SaveMetadata \/ Exit \/ Kill
  BY <1>1 DEF SaveMetadata, Exit, Kill, MemoryGone
<1>2. CASE Asked
  BY <1>2 DEF Asked, Track, Overwrite, RequestsRun, Emergency
<1>3. ASSUME main \in Bare, NoNewEntries
      PROVE  \A k \in Key : pendingItems'[k] = None
  BY <1>3 DEF NoNewEntries
<1>4. CASE RestorePendingItems
  BY <1>4 DEF RestorePendingItems
<1>5. ASSUME main' \in Bare, ~(SaveMetadata \/ Exit \/ Kill)
      PROVE  main \in Bare
  BY <1>5, MovesOfMain DEF Arriving
<1> QED
  BY <1>1, <1>2, <1>3, <1>4, <1>5, MovesOfEntries

LEMMA QuietNext ==
  ASSUME Types, Quiet, [Next]_vars
  PROVE  Quiet'
<1> USE DEF Quiet, Requests, queueVars, entryVars, memoryVars
<1>1. ASSUME UNCHANGED <<tracking, overwriting>>, RequestsRun => RequestsRun' \/ Requests = {}
      PROVE  Quiet'
  BY <1>1
<1>2. CASE Recover
  <2>1. ~RequestsRun /\ UNCHANGED <<tracking, overwriting>>
    BY <1>2, ProgramCounters DEF Recover, Open, Scan, RecoveryError, ReadMetadata,
       RestorePendingItems, ReadQueueFile, RestoreWriteQueue, Restored, Archive, RequestsRun,
       Emergency
  <2> QED
    BY <1>1, <2>1
<1>3. CASE Request
  BY <1>3 DEF Request, Send, Grow, Track, Overwrite, RequestsRun
<1>4. CASE Worker
  BY <1>1, <1>4 DEF Worker, WorkerReceive, WorkerCommit, WorkerExit, RequestsRun
<1>5. CASE SaveMetadata \/ Exit \/ Kill
  BY <1>5 DEF SaveMetadata, Exit, Kill, MemoryGone
<1>6. CASE EmergencyBegin \/ SavePending \/ DrainQueue \/ SaveQueue
  BY <1>1, <1>6 DEF EmergencyBegin, SavePending, DrainQueue, SaveQueue, RequestsRun, Emergency
<1>7. CASE FlushBegin \/ FlushJoin \/ FlushDrain \/ FlushForce
  BY <1>1, <1>7 DEF FlushBegin, FlushJoin, FlushDrain, FlushForce, RequestsRun, Emergency
<1>8. CASE UNCHANGED vars
  BY <1>1, <1>8 DEF vars, RequestsRun
<1> QED
  BY <1>2, <1>3, <1>4, <1>5, <1>6, <1>7, <1>8 DEF Next, Save, Flush

LEMMA OneEntryPerIdNext ==
  ASSUME Types, OneEntryPerId, [Next]_vars
  PROVE  OneEntryPerId'
<1>1. CASE SavePending
  <2>1. \A s \in Stamp : savedPending'[s] \in {savedPending[s], PendingTasks}
    BY <1>1 DEF SavePending, Types, DiskTypeOK
  <2>2. \A v, w \in PendingTasks : KeyOf[v] = KeyOf[w] => v = w
    BY TrackedTasks
  <2> QED
    BY <2>1, <2>2 DEF OneEntryPerId
<1>2. CASE EntryFilesKept \/ Archive
  BY <1>2 DEF EntryFilesKept, Archive, OneEntryPerId
<1> QED
  BY <1>1, <1>2, MovesOfFiles

LEMMA FreshStampsNext ==
  ASSUME Types, FreshStamps, [Next]_vars
  PROVE  FreshStamps'
<1> USE DEF FreshStamps
<1>0. emergencies \in Nat
  BY DEF Types, DiskTypeOK
<1>1. CASE EmergencyBegin
  <2>1. /\ picked' = emergencies + 1 /\ emergencies' = emergencies + 1 /\ file' = file
    BY <1>1 DEF EmergencyBegin, diskVars
  <2>2. \A s \in Stamp : s \in Nat
    BY DEF Stamp
  <2>3. \A s \in Stamp : s > emergencies' \/ s = picked' => s > emergencies
    BY <1>0, <2>1, <2>2
  <2> QED
    BY <2>1, <2>3
<1>2. CASE SavePending
  <2>1. /\ picked \in Stamp /\ picked = emergencies /\ emergencies' = emergencies
        /\ main' = "drainQueue"
    BY <1>2, ProgramCounters DEF SavePending, Types, MemoryTypeOK
  <2>2. PICK st \in FileState : file' = [file EXCEPT ![picked]["pending"] = st]
    BY <1>2 DEF SavePending, FileState
  <2>3. \A s \in Stamp : s # picked => file'[s]["pending"] = file[s]["pending"]
    BY <2>1, <2>2, FileTyped DEF FileKind
  <2>4. \A s \in Stamp : s > emergencies => s # picked
    BY <1>0, <2>1
  <2> QED
    BY <2>1, <2>3, <2>4
<1>3. ASSUME ~EmergencyBegin, ~SavePending
      PROVE  FreshStamps'
  <2>1. /\ emergencies' = emergencies
        /\ main' = "savePending" => main = "savePending" /\ picked' = picked
    BY <1>3, MovesOfMain DEF Leaving, Arriving
  <2>2. \A s \in Stamp : file[s]["pending"] = "absent" => file'[s]["pending"] = "absent"
    <3>1. CASE EntryFilesKept
      BY <3>1 DEF EntryFilesKept
    <3>2. CASE Archive /\ main = "archivePending"
      <4>1. picked \in Stamp /\ Renamed[main] = "pending" /\ "absent" \in FileState
        BY <3>2, ProgramCounters DEF Types, MemoryTypeOK, Renamed, FileState
      <4>2. CASE file' = [file EXCEPT ![picked]["pending"] = "absent"]
        BY <4>1, <4>2, FileTyped DEF FileKind
      <4>3. CASE UNCHANGED file
        BY <4>3
      <4> QED
        BY <3>2, <4>1, <4>2, <4>3 DEF Archive
    <3> QED
      BY <1>3, <3>1, <3>2, MovesOfFiles
  <2> QED
    BY <2>1, <2>2
<1> QED
  BY <1>1, <1>2, <1>3

-------------------------------------------------------------------------------
(* The counter of the entries *)

\* An entry more, or the entry of an id replaced
LEMMA EntryAdded ==
  ASSUME Types, NEW t \in Task, MakeEntry(t)
  PROVE  /\ Cardinality(Entries(pendingItems)) \in Nat
         /\ Cardinality(Entries(pendingItems'))
              = IF pendingItems[KeyOf[t]] = None THEN Cardinality(Entries(pendingItems)) + 1
                ELSE Cardinality(Entries(pendingItems))
<1>1. /\ KeyOf[t] \in Key /\ pendingItems'[KeyOf[t]] = t /\ t # None
      /\ \A k \in Key : k # KeyOf[t] => pendingItems'[k] = pendingItems[k]
  BY EntryMade, TasksAreNumbers
<1>2. IsFiniteSet(Entries(pendingItems)) /\ Cardinality(Entries(pendingItems)) \in Nat
  BY FiniteEntries DEF Types, MemoryTypeOK
<1>3. Entries(pendingItems') = Entries(pendingItems) \cup {KeyOf[t]}
  BY <1>1 DEF Entries
<1>4. KeyOf[t] \in Entries(pendingItems) <=> pendingItems[KeyOf[t]] # None
  BY <1>1 DEF Entries
<1> QED
  BY <1>2, <1>3, <1>4, FS_AddElement

LEMMA CountingNext ==
  ASSUME Types, Counting, [Next]_vars
  PROVE  Counting'
<1> USE DEF queueVars, entryVars, memoryVars
<1>0. count \in Int /\ resurrected \in Nat
  BY DEF Types, MemoryTypeOK
<1>1. ASSUME UNCHANGED <<count, resurrected, pendingItems>>
      PROVE  Counting'
  BY <1>1 DEF Counting, Entries
<1>2. ASSUME NEW s \in Seq(Task), Commit(s), UNCHANGED resurrected
      PROVE  Counting'
  <2>1. /\ pendingItems' \in [Key -> Task \cup {None}] /\ Counted(pendingItems')
        /\ \A k \in Key : pendingItems'[k] \in {pendingItems[k], None}
    BY <1>2, CommitTyped
  <2>2. \A k \in Key : pendingItems'[k] # None => KeyOf[pendingItems'[k]] = k
    BY <2>1 DEF Types, MemoryTypeOK
  <2> QED
    BY <1>2, <2>1, <2>2, CountTyped
<1>3. CASE SaveMetadata \/ Exit \/ Kill
  <2>1. /\ count' = 0 /\ resurrected' = 0
        /\ pendingItems' = [k \in Key |-> None]
    BY <1>3 DEF SaveMetadata, Exit, Kill, MemoryGone
  <2>2. Entries(pendingItems') = {}
    BY <2>1 DEF Entries
  <2>3. count' + resurrected' = Cardinality(Entries(pendingItems'))
    BY <2>1, <2>2, FS_EmptySet
  <2> QED
    BY <2>3 DEF Counting, Entries
<1>4. CASE RestorePendingItems
  <2>1. Counted(pendingItems') /\ UNCHANGED resurrected
    BY <1>4 DEF RestorePendingItems, Counted
  <2>2. Types'
    BY TypesNext
  <2>3. /\ pendingItems' \in [Key -> Task \cup {None}]
        /\ \A k \in Key : pendingItems'[k] # None => KeyOf[pendingItems'[k]] = k
    BY <2>2 DEF Types, MemoryTypeOK
  <2> QED
    BY <2>1, <2>3, CountTyped
<1>5. CASE Recover /\ ~RestorePendingItems
  BY <1>1, <1>5 DEF Recover, Open, Scan, RecoveryError, ReadMetadata, ReadQueueFile,
     RestoreWriteQueue, Restored, Archive
<1>6. ASSUME NEW t \in Task, Track(t)
      PROVE  Counting'
  <2>1. CASE MakeEntry(t) /\ count' = count + 1 /\ pendingItems[KeyOf[t]] = None
    <3>1. resurrected' = resurrected
      BY <1>6 DEF Track
    <3>2. count' + resurrected' = Cardinality(Entries(pendingItems'))
      BY <1>0, <2>1, <3>1, EntryAdded DEF Counting
    <3> QED
      BY <3>2 DEF Counting, Entries
  <2> QED
    BY <1>1, <1>6, <2>1 DEF Track
<1>7. ASSUME NEW t \in Task, Overwrite(t)
      PROVE  Counting'
  <2>1. /\ MakeEntry(t) /\ count' = count
        /\ resurrected' = IF pendingItems[KeyOf[t]] = None THEN resurrected + 1 ELSE resurrected
    BY <1>7 DEF Overwrite
  <2>2. count' + resurrected' = Cardinality(Entries(pendingItems'))
    BY <1>0, <2>1, EntryAdded DEF Counting
  <2> QED
    BY <2>2 DEF Counting, Entries
<1>8. CASE Request
  BY <1>1, <1>6, <1>7, <1>8 DEF Request, Send, Grow
<1>9. CASE Worker
  <2>1. CASE WorkerCommit
    BY <1>2, <2>1 DEF WorkerCommit, Types, MemoryTypeOK
  <2> QED
    BY <1>1, <1>9, <2>1 DEF Worker, WorkerReceive, WorkerExit
<1>10. CASE EmergencyBegin \/ SavePending \/ DrainQueue \/ SaveQueue \/ FlushBegin \/ FlushJoin
  BY <1>1, <1>10 DEF EmergencyBegin, SavePending, DrainQueue, SaveQueue, FlushBegin, FlushJoin
<1>11. CASE FlushDrain
  BY <1>2, <1>11 DEF FlushDrain, Types, MemoryTypeOK
<1>12. CASE FlushForce
  <2>1. SetToSeq(PendingTasks) \in Seq(Task)
    BY TrackedTasks, TasksInSomeOrder
  <2> QED
    BY <1>2, <1>12, <2>1 DEF FlushForce
<1>13. CASE UNCHANGED vars
  BY <1>1, <1>13 DEF vars
<1> QED
  BY <1>3, <1>4, <1>5, <1>8, <1>9, <1>10, <1>11, <1>12, <1>13 DEF Next, Save, Flush

LEMMA NoneSkippedNext ==
  ASSUME Types, Counting, NoneSkipped, [Next]_vars
  PROVE  NoneSkipped'
<1> USE DEF NoneSkipped
<1> DEFINE Stopped == {"stopjoin", "closed"}
<1>1. CASE FlushBegin
  <2>1. UNCHANGED <<pendingItems, resurrected>> /\ (main' \in Stopped => count = 0)
    BY <1>1 DEF FlushBegin, entryVars
  <2>2. ASSUME main' \in Stopped, resurrected' = 0
        PROVE  \A k \in Key : pendingItems[k] = None
    <3>1. IsFiniteSet(Entries(pendingItems))
      BY FiniteEntries DEF Types, MemoryTypeOK
    <3>2. Cardinality(Entries(pendingItems)) = 0
      BY <2>1, <2>2 DEF Counting
    <3>3. Entries(pendingItems) = {}
      BY <3>1, <3>2, FS_EmptySet
    <3> QED
      BY <3>3 DEF Entries
  <2> QED
    BY <2>1, <2>2
<1>2. CASE FlushForce
  <2>1. /\ ToSet(SetToSeq(PendingTasks)) = PendingTasks
        /\ SetToSeq(PendingTasks) \in Seq(Task)
    BY TrackedTasks, TasksInSomeOrder
  <2>2. \A k \in Key : /\ pendingItems[k] \in PendingTasks => pendingItems'[k] = None
                      /\ pendingItems'[k] \in {pendingItems[k], None}
    BY <1>2, <2>1, CommitTyped DEF FlushForce
  <2> QED
    BY <2>2, TrackedTasks
<1>3. ASSUME ~FlushBegin, ~FlushForce, main' \in Stopped, resurrected' = 0
      PROVE  \A k \in Key : pendingItems'[k] = None
  <2>1. Leaving /\ Arriving
    BY MovesOfMain
  <2>2. main \in Stopped
    BY <1>3, <2>1 DEF Arriving
  <2>3. resurrected' = resurrected
    BY <1>3, <2>1, <2>2 DEF Leaving, RequestsRun, Emergency
  <2>4. NoNewEntries
    <3>1. ~RestorePendingItems /\ ~SaveMetadata /\ ~Exit /\ ~Kill
      BY <1>3, <2>2 DEF RestorePendingItems, SaveMetadata, Exit, Kill, MemoryGone
    <3>2. ~Asked
      BY <2>2 DEF Asked, Track, Overwrite, RequestsRun, Emergency
    <3> QED
      BY <3>1, <3>2, MovesOfEntries
  <2> QED
    BY <1>3, <2>2, <2>3, <2>4 DEF NoNewEntries
<1> QED
  BY <1>1, <1>2, <1>3

-------------------------------------------------------------------------------
(* Saved tasks *)

LEMMA SafeStays ==
  ASSUME Leaving, NEW t,
         Preserved(t) => Preserved(t)'
  PROVE  /\ Accounted(t) => Accounted(t)'
         /\ Settled(t) => Settled(t)'
         /\ Dropped(t) => Dropped(t)'
BY DEF Leaving, Accounted, Settled, Dropped, Newer

LEMMA FilesPreserve ==
  ASSUME EntryFilesKept, NEW t, Preserved(t)
  PROVE  Preserved(t)'
BY DEF EntryFilesKept, Preserved, OnDisk, Newer

\* An entry that goes is stored, dropped or replaced by a newer one
LEMMA HeldStays ==
  ASSUME Types, Leaving, EntriesKept, NEW t \in Task, Held(t)
  PROVE  Held(t)' \/ Settled(t)' \/ Dropped(t)'
<1>1. PICK u \in Newer(t) : u \in PendingTasks
  BY DEF Held
<1>2. /\ KeyOf[u] \in Key /\ pendingItems[KeyOf[u]] = u /\ u # None
      /\ u \in Task /\ Newer(u) \subseteq Newer(t)
  BY <1>1, TrackedTasks, TasksAreNumbers, NewerTasks
<1>3. PICK e : e = pendingItems'[KeyOf[u]]
  OBVIOUS
<1>4. e = u \/ u \in stored' \cup untracked' \/ e \in Newer(u)
  BY <1>2, <1>3 DEF EntriesKept
<1>5. e # None => e \in PendingTasks'
  BY <1>2, <1>3 DEF PendingTasks
<1>6. e \in Newer(u) => e # None
  BY TasksAreNumbers DEF Newer
<1>7. u \in Newer(t) /\ (e \in Newer(u) => e \in Newer(t))
  BY <1>1, <1>2
<1>8. CASE u \in stored' \cup untracked'
  BY <1>7, <1>8 DEF Settled, Dropped, Newer
<1>9. CASE e = u \/ e \in Newer(u)
  BY <1>2, <1>5, <1>6, <1>7, <1>9 DEF Held, Newer
<1> QED
  BY <1>4, <1>8, <1>9

\* What a step keeps safe, but the entries of a process that ends
LEMMA SafeOrHeldNext ==
  ASSUME Types, EntryInv, SafeInv, [Next]_vars
  PROVE  SafeOrHeld'
<1>0. Leaving /\ Arriving
  BY MovesOfMain
<1>1. ASSUME NEW t \in owed
      PROVE  t \in Task /\ (Accounted(t) \/ Held(t))
  BY <1>1 DEF SafeInv, SafeOrHeld, Types, HistoryTypeOK
<1>2. CASE Archive /\ main = "archivePending"
  <2>1. /\ picked \in Stamp /\ UNCHANGED <<savedPending, pendingItems, owed>>
        /\ savedPending[picked] \subseteq Task
    BY <1>2, ProgramCounters DEF Archive, Types, MemoryTypeOK, DiskTypeOK, memoryVars, entryVars
  <2>2. \A s \in Stamp : s # picked => file'[s]["pending"] = file[s]["pending"]
    <3>1. Renamed[main] = "pending" /\ "absent" \in FileState
      BY <1>2 DEF Renamed, FileState
    <3>2. CASE file' = [file EXCEPT ![picked]["pending"] = "absent"]
      BY <2>1, <3>1, <3>2, FileTyped DEF FileKind
    <3>3. CASE UNCHANGED file
      BY <3>3
    <3> QED
      BY <1>2, <3>1, <3>2, <3>3 DEF Archive
  <2>3. ASSUME NEW t \in Task, Preserved(t), ~Preserved(t)'
        PROVE  Settled(t) \/ Dropped(t) \/ Held(t)
    <3>1. PICK u \in Newer(t) : OnDisk(u)
      BY <2>3 DEF Preserved
    <3>2. u \in savedPending[picked]
      BY <2>1, <2>2, <2>3, <3>1 DEF Preserved, OnDisk, Newer
    <3>3. Settled(u) \/ Dropped(u) \/ Held(u)
      BY <1>2, <3>2 DEF SafeInv, SafeToArchive
    <3>4. Newer(u) \subseteq Newer(t)
      BY <3>1, NewerTasks
    <3> QED
      BY <3>3, <3>4 DEF Settled, Dropped, Held
  <2>4. ASSUME NEW t \in owed
        PROVE  Accounted(t)' \/ Held(t)'
    <3>1. Held(t) => Held(t)'
      BY <2>1 DEF Held, PendingTasks, Newer
    <3>2. CASE Preserved(t) /\ ~Preserved(t)'
      <4>1. Settled(t) \/ Dropped(t) \/ Held(t)
        BY <1>1, <2>3, <3>2
      <4>2. (Settled(t) => Settled(t)') /\ (Dropped(t) => Dropped(t)')
        BY <1>0 DEF Leaving, Settled, Dropped, Newer
      <4> QED
        BY <3>1, <4>1, <4>2 DEF Accounted
    <3>3. CASE Preserved(t) => Preserved(t)'
      BY <1>0, <1>1, <3>1, <3>3, SafeStays
    <3> QED
      BY <3>2, <3>3
  <2> QED
    BY <2>1, <2>4 DEF SafeOrHeld
<1>3. CASE SavePending
  <2>1. /\ main = "savePending" /\ picked \in Stamp /\ pendingItems' = pendingItems /\ owed' = owed
    BY <1>3, ProgramCounters DEF SavePending, Types, MemoryTypeOK, memoryVars, entryVars
  <2>2. \A s \in Stamp : file[s]["pending"] = "whole" =>
          s # picked /\ file'[s]["pending"] = "whole" /\ savedPending'[s] = savedPending[s]
    <3>1. file[picked]["pending"] = "absent"
      BY <2>1 DEF EntryInv, FreshStamps
    <3>2. PICK st \in FileState : file' = [file EXCEPT ![picked]["pending"] = st]
      BY <1>3 DEF SavePending, FileState
    <3>3. \A s \in Stamp : s # picked => file'[s]["pending"] = file[s]["pending"]
      BY <2>1, <3>2, FileTyped DEF FileKind
    <3>4. \A s \in Stamp : s # picked => savedPending'[s] = savedPending[s]
      BY <1>3, <2>1 DEF SavePending, Types, DiskTypeOK
    <3> QED
      BY <3>1, <3>3, <3>4
  <2>3. ASSUME NEW t \in owed
        PROVE  Accounted(t)' \/ Held(t)'
    <3>1. Preserved(t) => Preserved(t)'
      BY <2>2 DEF Preserved, OnDisk, Newer
    <3>2. Held(t) => Held(t)'
      BY <2>1 DEF Held, PendingTasks, Newer
    <3> QED
      BY <1>0, <1>1, <3>1, <3>2, SafeStays
  <2> QED
    BY <2>1, <2>3 DEF SafeOrHeld
<1>4. CASE EntryFilesKept
  <2>1. ASSUME NEW t, Accounted(t)
        PROVE  Accounted(t)'
    BY <1>0, <1>4, <2>1, FilesPreserve, SafeStays
  <2>2. CASE EntriesKept
    <3>1. ASSUME NEW t \in owed
          PROVE  Accounted(t)' \/ Held(t)'
      BY <1>0, <1>1, <2>1, <2>2, HeldStays DEF Accounted
    <3>2. CASE owed' = owed
      BY <3>1, <3>2 DEF SafeOrHeld
    <3>3. CASE EmergencyBegin \/ FlushBegin
      <4>1. owed' = owed \cup PendingTasks /\ pendingItems' = pendingItems
        BY <3>3 DEF EmergencyBegin, FlushBegin, entryVars
      <4>2. ASSUME NEW t \in PendingTasks
            PROVE  Held(t)'
        BY <4>1, TrackedTasks, NewerTasks DEF Held, PendingTasks, Newer
      <4> QED
        BY <3>1, <4>1, <4>2 DEF SafeOrHeld
    <3> QED
      BY <1>0, <3>2, <3>3 DEF Leaving
  <2>4. CASE RestorePendingItems
    <3>1. \A k \in Key : pendingItems[k] = None
      BY <2>4 DEF RestorePendingItems, EntryInv, NothingTracked
    <3>2. PendingTasks = {}
      BY <3>1 DEF PendingTasks
    <3> QED
      BY <1>1, <2>1, <2>4, <3>2 DEF SafeOrHeld, Held, RestorePendingItems
  <2>5. CASE SaveMetadata
    <3>1. \A t \in owed : Accounted(t)
      BY <2>5 DEF SaveMetadata, SafeInv, SafeToExit
    <3> QED
      BY <2>1, <2>5, <3>1 DEF SafeOrHeld, SaveMetadata
  <2>6. CASE Exit \/ Kill
    <3>1. owed' = owed /\ Excuse
      BY <2>6 DEF Exit, Kill
    <3>2. ASSUME NEW t \in owed, Held(t)
          PROVE  Accounted(t)'
      <4>1. Preserved(t) \/ t \in excused'
        BY <3>1, <3>2 DEF Excuse
      <4> QED
        BY <1>4, <2>1, <4>1 DEF Accounted
    <3> QED
      BY <1>1, <2>1, <3>1, <3>2 DEF SafeOrHeld
  <2> QED
    BY <2>2, <2>4, <2>5, <2>6, MovesOfEntries
<1> QED
  BY <1>2, <1>3, <1>4, MovesOfFiles

\* After SavePending every entry is in its file, or the failure excuses it
LEMMA SafeToExitNext ==
  ASSUME Types, EntryInv, SafeInv, [Next]_vars
  PROVE  SafeToExit'
<1> DEFINE Saved == {"drainQueue", "saveQueue", "saveMetadata"}
<1>0. Leaving /\ Arriving
  BY MovesOfMain
<1>1. CASE SavePending
  <2>1. /\ main = "savePending" /\ picked \in Stamp /\ pendingItems' = pendingItems /\ owed' = owed
    BY <1>1, ProgramCounters DEF SavePending, Types, MemoryTypeOK, memoryVars, entryVars
  <2>2. \A s \in Stamp : s # picked =>
          file'[s]["pending"] = file[s]["pending"] /\ savedPending'[s] = savedPending[s]
    <3>1. PICK st \in FileState : file' = [file EXCEPT ![picked]["pending"] = st]
      BY <1>1 DEF SavePending, FileState
    <3>2. \A s \in Stamp : s # picked => file'[s]["pending"] = file[s]["pending"]
      BY <2>1, <3>1, FileTyped DEF FileKind
    <3> QED
      BY <1>1, <2>1, <3>2 DEF SavePending, Types, DiskTypeOK
  <2>3. file[picked]["pending"] = "absent"
    BY <2>1 DEF EntryInv, FreshStamps
  <2>4. ASSUME NEW t, Preserved(t)
        PROVE  Preserved(t)'
    BY <2>2, <2>3, <2>4 DEF Preserved, OnDisk, Newer
  <2>5. ASSUME NEW t \in owed, Held(t)
        PROVE  Accounted(t)'
    <3>1. PICK u \in Newer(t) : u \in PendingTasks
      BY <2>5 DEF Held
    <3>2. CASE file' = [file EXCEPT ![picked]["pending"] = "whole"]
      <4>1. file'[picked]["pending"] = "whole"
        BY <2>1, <3>2, FileTyped DEF FileKind, FileState
      <4>2. savedPending'[picked] = PendingTasks
        BY <1>1, <2>1 DEF SavePending, Types, DiskTypeOK
      <4> QED
        BY <2>1, <3>1, <4>1, <4>2 DEF Accounted, Preserved, OnDisk, Newer
    <3>3. CASE excused' = excused \cup {x \in owed : Held(x)}
      BY <2>5, <3>3 DEF Accounted
    <3> QED
      BY <1>1, <3>2, <3>3 DEF SavePending
  <2> QED
    BY <1>0, <2>1, <2>4, <2>5, SafeStays DEF SafeToExit, SafeInv, SafeOrHeld
<1>2. ASSUME ~SavePending, main' \in Saved
      PROVE  \A t \in owed' : Accounted(t)'
  <2>1. main \in Saved /\ owed' = owed
    BY <1>0, <1>2 DEF Leaving, Arriving, EmergencyBegin, FlushBegin
  <2>2. EntryFilesKept
    BY <1>2, <2>1, MovesOfFiles
  <2>3. \A t \in owed : Accounted(t)
    BY <2>1 DEF SafeInv, SafeToExit
  <2> QED
    BY <1>0, <2>1, <2>2, <2>3, FilesPreserve, SafeStays
<1> QED
  BY <1>1, <1>2 DEF SafeToExit

\* After RestorePendingItems every entry of the file is in memory
LEMMA SafeToArchiveNext ==
  ASSUME Types, EntryInv, SafeInv, [Next]_vars
  PROVE  SafeToArchive'
<1> DEFINE Restoring == {"queue", "requeue", "archivePending"}
<1>0. Leaving /\ Arriving
  BY MovesOfMain
<1>1. CASE RestorePendingItems
  <2>1. /\ picked \in Stamp /\ savedPending[picked] \subseteq Task
        /\ pendingItems' = EntriesOf(savedPending[picked])
        /\ picked' = picked /\ savedPending' = savedPending
    BY <1>1, ProgramCounters DEF RestorePendingItems, Counted, Types, MemoryTypeOK, DiskTypeOK,
       localVars, diskVars
  <2>2. ASSUME NEW t \in savedPending[picked]
        PROVE  Held(t)'
    <3>1. t \in Task /\ KeyOf[t] \in Key /\ t # None /\ t \in Newer(t)
      BY <2>1, RecoveryAssumption, TasksAreNumbers, NewerTasks DEF RecoveryAssumption
    <3>2. pendingItems'[KeyOf[t]] \in savedPending[picked]
          /\ KeyOf[pendingItems'[KeyOf[t]]] = KeyOf[t]
      BY <2>1, <3>1, EntriesTyped
    <3>3. pendingItems'[KeyOf[t]] = t
      BY <2>1, <3>2 DEF EntryInv, OneEntryPerId
    <3> QED
      BY <3>1, <3>3 DEF Held, PendingTasks, Newer
  <2> QED
    BY <2>1, <2>2 DEF SafeToArchive
<1>2. ASSUME ~RestorePendingItems, main' \in Restoring
      PROVE  \A t \in savedPending'[picked'] : Settled(t)' \/ Dropped(t)' \/ Held(t)'
  <2>1. main \in Restoring /\ picked' = picked
    BY <1>0, <1>2 DEF Arriving
  <2>2. savedPending' = savedPending
    <3>1. ~SavePending
      BY <2>1 DEF SavePending
    <3> QED
      BY <3>1, MovesOfFiles DEF EntryFilesKept, Archive
  <2>3. EntriesKept
    <3>1. ~SaveMetadata /\ ~Exit /\ ~Kill
      BY <1>2 DEF SaveMetadata, Exit, Kill, MemoryGone
    <3> QED
      BY <1>2, <3>1, MovesOfEntries
  <2>4. ASSUME NEW t \in savedPending[picked]
        PROVE  Settled(t)' \/ Dropped(t)' \/ Held(t)'
    <3>1. t \in Task /\ (Settled(t) \/ Dropped(t) \/ Held(t))
      BY <2>1, ProgramCounters DEF SafeInv, SafeToArchive, Types, MemoryTypeOK, DiskTypeOK
    <3>2. (Settled(t) => Settled(t)') /\ (Dropped(t) => Dropped(t)')
      BY <1>0 DEF Leaving, Settled, Dropped, Newer
    <3> QED
      BY <1>0, <2>3, <3>1, <3>2, HeldStays
  <2> QED
    BY <2>1, <2>2, <2>4
<1> QED
  BY <1>1, <1>2 DEF SafeToArchive

LEMMA RecInit == Init => RecInv
<1> SUFFICES ASSUME Init PROVE RecInv
  OBVIOUS
<1>1. Types
  BY TypesInit
<1>2. \A k \in Key : pendingItems[k] = None
  BY DEF Init
<1>3. EntryInv
  BY <1>2 DEF Init, EntryInv, NothingTracked, Quiet, Requests, OneEntryPerId, FreshStamps, FileKind
<1>4. CountInv
  <2>1. Entries(pendingItems) = {}
    BY <1>2 DEF Entries
  <2>2. Cardinality(Entries(pendingItems)) = 0
    BY <2>1, FS_EmptySet
  <2> QED
    BY <1>2, <2>2 DEF Init, CountInv, Counting, NoneSkipped
<1>5. SafeInv
  BY DEF Init, SafeInv, SafeOrHeld, SafeToExit, SafeToArchive
<1> QED
  BY <1>1, <1>3, <1>4, <1>5 DEF RecInv

LEMMA RecNext == RecInv /\ [Next]_vars => RecInv'
<1> SUFFICES ASSUME RecInv, [Next]_vars PROVE RecInv'
  OBVIOUS
<1>1. Types /\ EntryInv /\ CountInv /\ SafeInv /\ Types'
  BY TypesNext DEF RecInv
<1>2. EntryInv'
  BY <1>1, NothingTrackedNext, QuietNext, OneEntryPerIdNext, FreshStampsNext DEF EntryInv
<1>3. CountInv'
  BY <1>1, CountingNext, NoneSkippedNext DEF CountInv
<1>4. SafeInv'
  BY <1>1, SafeOrHeldNext, SafeToExitNext, SafeToArchiveNext DEF SafeInv
<1> QED
  BY <1>1, <1>2, <1>3, <1>4 DEF RecInv

\* What a shutdown found tracked is tracked again, written, or still in its files,
\* whatever starts, kills, shutdowns, failed commits and failed file writes follow, and
\* however late requests track their tasks, but for the recorded losses
\* (recovery.go:16-17, 147).
THEOREM SavedTasksAreSafe == Spec => []SavedTasksSurvive
<1>1. RecInv => SavedTasksSurvive
  BY DEF RecInv, SafeInv, SafeOrHeld, SavedTasksSurvive
<1> QED
  BY <1>1, RecInit, RecNext, PTL DEF Spec

\* A graceful shutdown settles every task that was tracked when it began, those that
\* recovery restored included, but for the recorded losses; unless an entry was put back
\* uncounted, the test of the counter at queue.go:247 skips none (queue.go:223, 245-276).
THEOREM FlushSettlesWhatWasTracked == Spec => []FlushSettlesRestored
<1>1. RecInv => FlushSettlesRestored
  <2> SUFFICES ASSUME RecInv, main = "closed", NEW t \in owed, ~Accounted(t)
               PROVE  Held(t) /\ resurrected > 0
    BY DEF FlushSettlesRestored
  <2>1. Held(t)
    BY DEF RecInv, SafeInv, SafeOrHeld
  <2>2. PICK u \in PendingTasks : TRUE
    BY <2>1 DEF Held
  <2>3. KeyOf[u] \in Key /\ pendingItems[KeyOf[u]] # None
    BY <2>2, TrackedTasks, TasksAreNumbers DEF RecInv
  <2>4. resurrected # 0
    BY <2>3 DEF RecInv, CountInv, NoneSkipped
  <2> QED
    BY <2>1, <2>4 DEF RecInv, Types, MemoryTypeOK
<1> QED
  BY <1>1, RecInit, RecNext, PTL DEF Spec

-------------------------------------------------------------------------------
(* Entries without a queued task *)

\* A task that a request has not tracked yet is queued, or the worker is done with it
Done == stored \cup untracked
SentTasksKnown == main = "serving" => Requests \subseteq Queued \cup Done

StuckInv == Types /\ NothingTracked /\ Quiet /\ StuckEntriesAreKnown /\ SentTasksKnown

\* The channel and the batch together, over a step of the worker
LEMMA ReceiveKeepsQueued ==
  ASSUME Types, WorkerReceive
  PROVE  Queued' = Queued
<1>1. chan \in Seq(Task) /\ batch \in Seq(Task) /\ chan # <<>>
  BY DEF WorkerReceive, Types, MemoryTypeOK
<1>2. Head(chan) \in Task /\ ToSet(chan) = {Head(chan)} \cup ToSet(Tail(chan))
  BY <1>1, HeadAndTail
<1>3. ToSet(Append(batch, Head(chan))) = ToSet(batch) \cup {Head(chan)}
  BY <1>1, <1>2, Appended
<1>4. chan' = Tail(chan) /\ batch' = Append(batch, Head(chan))
  BY DEF WorkerReceive
<1>5. Queued' = ToSet(Tail(chan)) \cup ToSet(Append(batch, Head(chan)))
  BY <1>4 DEF Queued
<1> QED
  BY <1>2, <1>3, <1>5 DEF Queued

\* A doubling moves a task from the channel to the batch, or none
LEMMA GrowKeepsQueued ==
  ASSUME Types, Grow
  PROVE  Queued' = Queued
<1>1. chan \in Seq(Task) /\ batch \in Seq(Task)
  BY DEF Types, MemoryTypeOK
<1>2. CASE UNCHANGED <<chan, batch, disordered>>
  BY <1>2 DEF Queued
<1>3. ASSUME NEW i \in DOMAIN chan, batch' = Append(batch, chan[i]), chan' = RemoveAt(chan, i)
      PROVE  Queued' = Queued
  <2>1. chan[i] \in Task /\ ToSet(chan) = ToSet(RemoveAt(chan, i)) \cup {chan[i]}
    BY <1>1, Removed
  <2>2. ToSet(Append(batch, chan[i])) = ToSet(batch) \cup {chan[i]}
    BY <1>1, <2>1, Appended
  <2>3. Queued' = ToSet(RemoveAt(chan, i)) \cup ToSet(Append(batch, chan[i]))
    BY <1>3 DEF Queued
  <2> QED
    BY <2>1, <2>2, <2>3 DEF Queued
<1> QED
  BY <1>2, <1>3 DEF Grow

LEMMA StuckNext == StuckInv /\ [Next]_vars => StuckInv'
<1> SUFFICES ASSUME StuckInv, [Next]_vars
             PROVE  StuckEntriesAreKnown' /\ SentTasksKnown'
  BY TypesNext, NothingTrackedNext, QuietNext DEF StuckInv
<1> USE DEF queueVars, entryVars, memoryVars, histVars, dbVars
<1> DEFINE Working == {"serving"} \cup Starting
           Fine    == StuckEntriesAreKnown' /\ SentTasksKnown'
           Covered == Queued \cup restored \cup (tardy \cap Done)
<1>0. /\ Types /\ NothingTracked
      /\ ~RequestsRun => Requests = {}
      /\ main \in Working => PendingTasks \subseteq Covered
      /\ main = "serving" => Requests \subseteq Queued \cup Done
  BY DEF StuckInv, StuckEntriesAreKnown, SentTasksKnown, Quiet, Done
<1>1. Done \subseteq Done'
  BY <1>0, MovesOfMain DEF Leaving, Done
<1>2. ASSUME main' \in Working => PendingTasks' \subseteq Queued' \cup restored' \cup (tardy' \cap Done'),
             main' = "serving" => Requests' \subseteq Queued' \cup Done'
      PROVE  Fine
  BY <1>2 DEF StuckEntriesAreKnown, SentTasksKnown, Done
<1>3. ASSUME main \in Working, restored \subseteq restored', UNCHANGED tardy,
             Queued \subseteq Queued' \cup Done', UNCHANGED <<tracking, overwriting>>,
             main' = "serving" /\ main # "serving" => Requests = {},
             PendingTasks' \subseteq PendingTasks \cup restored',
             PendingTasks' \cap Queued \subseteq Queued'
      PROVE  Fine
  <2>1. Requests' = Requests
    BY <1>3 DEF Requests
  <2>2. main' = "serving" => Requests' \subseteq Queued' \cup Done'
    BY <1>0, <1>1, <1>3, <2>1
  <2>3. PendingTasks' \subseteq Queued' \cup restored' \cup (tardy' \cap Done')
    BY <1>0, <1>1, <1>3
  <2> QED
    BY <1>2, <2>2, <2>3
<1>4. ASSUME UNCHANGED <<chan, batch>>
      PROVE  Queued' = Queued
  BY <1>4 DEF Queued
<1>5. ASSUME UNCHANGED pendingItems
      PROVE  PendingTasks' = PendingTasks
  BY <1>5 DEF PendingTasks
<1>6. main \in Starting => ~RequestsRun
  BY ProgramCounters DEF RequestsRun, Starting, Emergency
<1>7. CASE Open
  <2>1. PendingTasks' = {}
    BY <1>0, <1>7 DEF Open, NothingTracked, PendingTasks
  <2>2. Requests' = {}
    BY <1>0, <1>7 DEF Open, Requests, RequestsRun, Emergency
  <2> QED
    BY <1>2, <2>1, <2>2
<1>8. CASE Scan \/ RecoveryError \/ ReadMetadata \/ ReadQueueFile \/ Restored \/ Archive
  <2>1. /\ main \in Starting
        /\ UNCHANGED <<pendingItems, chan, batch, restored, tardy, tracking, overwriting>>
    BY <1>8, ProgramCounters DEF Scan, RecoveryError, ReadMetadata, ReadQueueFile, Restored,
       Archive, Starting
  <2> QED
    BY <1>0, <1>3, <1>4, <1>5, <1>6, <2>1
<1>9. CASE RestorePendingItems
  <2>1. /\ picked \in Stamp /\ savedPending[picked] \subseteq Task
        /\ pendingItems' = EntriesOf(savedPending[picked])
        /\ restored' = restored \cup savedPending[picked]
        /\ UNCHANGED <<chan, batch, tardy, tracking, overwriting>> /\ main \in Starting
        /\ main' = "queue"
    BY <1>0, <1>9, ProgramCounters DEF RestorePendingItems, Counted, Types, MemoryTypeOK,
       DiskTypeOK, Starting
  <2>2. \A k \in Key : pendingItems'[k] \in savedPending[picked] \cup {pendingItems[k]}
    BY <1>0, <2>1, EntriesTyped
  <2>3. PendingTasks' \subseteq PendingTasks \cup restored'
    BY <2>1, <2>2 DEF PendingTasks
  <2> QED
    BY <1>3, <1>4, <2>1, <2>3
<1>10. CASE RestoreWriteQueue
  <2>1. /\ main \in Starting /\ UNCHANGED <<main, pendingItems, batch, restored, tardy>>
        /\ UNCHANGED <<tracking, overwriting>>
        /\ tasks \in Seq(Task) /\ tasks # <<>> /\ chan \in Seq(Task)
    BY <1>0, <1>10 DEF RestoreWriteQueue, Starting, Types, MemoryTypeOK
  <2>2. ToSet(Append(chan, Head(tasks))) = ToSet(chan) \cup {Head(tasks)}
    BY <2>1, HeadAndTail, Appended
  <2>3. chan' = chan \/ chan' = Append(chan, Head(tasks))
    BY <1>10 DEF RestoreWriteQueue
  <2>4. Queued \subseteq Queued'
    BY <2>1, <2>2, <2>3 DEF Queued
  <2> QED
    BY <1>3, <1>5, <2>1, <2>4
<1>11. CASE Send
  <2>1. PICK t \in Task : /\ t = sent + 1 /\ chan' = Append(chan, t)
                          /\ tracking' = tracking \cup {t}
    BY <1>11 DEF Send
  <2>2. /\ UNCHANGED <<main, batch, restored, tardy, pendingItems, overwriting>>
        /\ chan \in Seq(Task)
    BY <1>0, <1>11 DEF Send, Types, MemoryTypeOK
  <2>3. Queued' = Queued \cup {t}
    <3>1. ToSet(Append(chan, t)) = ToSet(chan) \cup {t}
      BY <2>2, Appended
    <3> QED
      BY <2>1, <2>2, <3>1 DEF Queued
  <2>4. Requests' = Requests \cup {t}
    BY <2>1, <2>2 DEF Requests
  <2> QED
    BY <1>0, <1>1, <1>2, <1>5, <2>2, <2>3, <2>4
<1>12. CASE Grow
  <2>1. UNCHANGED <<main, restored, tardy, pendingItems, tracking, overwriting>>
    BY <1>12 DEF Grow
  <2>2. Queued' = Queued /\ PendingTasks' = PendingTasks /\ Requests' = Requests
    BY <1>0, <1>5, <1>12, <2>1, GrowKeepsQueued DEF Requests
  <2> QED
    BY <1>0, <1>1, <1>2, <2>1, <2>2
<1>13. ASSUME NEW t \in Task, Track(t) \/ Overwrite(t)
       PROVE  Fine
  <2>1. /\ UNCHANGED <<main, chan, batch, restored, stored>> /\ t \in Requests
        /\ Requests' \subseteq Requests /\ untracked \subseteq untracked'
        /\ main = "serving" \/ main \in Emergency
    <3>1. untracked \subseteq untracked'
      BY <1>0, <1>13, EntryMade DEF Track, Overwrite
    <3> QED
      BY <1>13, <3>1 DEF Track, Overwrite, Requests, RequestsRun
  <2>2. Queued' = Queued
    BY <1>4, <2>1
  <2>3. CASE main \in Emergency
    BY <1>2, <2>1, <2>3, ProgramCounters DEF Emergency, Starting
  <2>4. CASE main = "serving" /\ UNCHANGED <<pendingItems, tardy>>
    BY <1>0, <1>1, <1>2, <1>5, <2>1, <2>2, <2>4
  <2>5. CASE main = "serving" /\ MakeEntry(t)
    <3>1. PendingTasks' \subseteq PendingTasks \cup {t}
      BY <1>0, <2>5, EntryMade, TrackedTasks DEF PendingTasks
    <3>2. tardy \subseteq tardy' /\ (t \in Queued \/ t \in tardy')
      BY <2>5 DEF MakeEntry
    <3>3. t \in Queued \cup Done
      BY <1>0, <2>1, <2>5
    <3> QED
      BY <1>0, <1>1, <1>2, <2>1, <2>2, <2>5, <3>1, <3>2, <3>3
  <2> QED
    BY <1>13, <2>1, <2>3, <2>4, <2>5 DEF Track, Overwrite
<1>14. CASE Request
  BY <1>11, <1>12, <1>13, <1>14 DEF Request
<1>15. CASE Worker
  <2>1. UNCHANGED <<main, restored, tardy, tracking, overwriting>>
    BY <1>15 DEF Worker, WorkerReceive, WorkerCommit, WorkerExit
  <2>2. Requests' = Requests
    BY <2>1 DEF Requests
  <2>3. CASE UNCHANGED pendingItems /\ Queued' = Queued
    BY <1>0, <1>1, <1>2, <1>5, <2>1, <2>2, <2>3
  <2>4. CASE WorkerCommit
    <3>1. UNCHANGED chan /\ Commit(batch) /\ batch \in Seq(Task)
      BY <1>0, <2>4 DEF WorkerCommit, Types, MemoryTypeOK
    <3>2. ToSet(batch) \subseteq Done'
      BY <1>0, <3>1, CommitTyped DEF Done
    <3>3. Queued \subseteq Queued' \cup ToSet(batch)
      BY <3>1 DEF Queued
    <3>4. PendingTasks' \subseteq PendingTasks \ ToSet(batch)
      <4>1. ASSUME NEW k \in Key, pendingItems'[k] # None
            PROVE  pendingItems'[k] = pendingItems[k] /\ pendingItems[k] \notin ToSet(batch)
        <5>1. /\ pendingItems'[k] \in {pendingItems[k], None}
              /\ pendingItems[k] \in ToSet(batch) => pendingItems'[k] = None
          BY <1>0, <3>1, <4>1, CommitTyped
        <5> QED
          BY <4>1, <5>1
      <4> QED
        BY <4>1 DEF PendingTasks
    <3> QED
      BY <1>0, <1>1, <1>2, <2>1, <2>2, <3>2, <3>3, <3>4
  <2>5. CASE WorkerReceive
    BY <1>0, <2>3, <2>5, ReceiveKeepsQueued DEF WorkerReceive
  <2>6. CASE WorkerExit
    BY <1>4, <2>3, <2>6 DEF WorkerExit
  <2> QED
    BY <1>15, <2>4, <2>5, <2>6 DEF Worker
<1>16. CASE Save \/ Flush \/ Kill
  <2>1. main' \notin Working
    BY <1>16, ProgramCounters DEF Save, EmergencyBegin, SavePending, DrainQueue, SaveQueue,
       SaveMetadata, Flush, FlushBegin, FlushJoin, FlushDrain, FlushForce, Exit, Kill, MemoryGone,
       Starting
  <2> QED
    BY <1>2, <2>1
<1>17. CASE UNCHANGED vars
  <2>1. UNCHANGED <<main, pendingItems, restored, tardy, chan, batch, tracking, overwriting>>
    BY <1>17 DEF vars
  <2> QED
    BY <1>0, <1>1, <1>2, <1>4, <1>5, <2>1 DEF Requests
<1> QED
  BY <1>7, <1>8, <1>9, <1>10, <1>14, <1>15, <1>16, <1>17 DEF Next, Recover

LEMMA StuckInit == Init => StuckInv
<1> SUFFICES ASSUME Init PROVE StuckInv
  OBVIOUS
<1>1. Types
  BY TypesInit
<1>2. "down" \notin {"serving"} \cup Starting
  BY ProgramCounters DEF Starting
<1> QED
  BY <1>1, <1>2
  DEF Init, StuckInv, NothingTracked, Quiet, Requests, StuckEntriesAreKnown, SentTasksKnown

\* While the worker runs, an entry that no queued task stands behind comes from a recovery
\* file, or from a request that was slower to track its task than the worker was to
\* settle it, and then nothing of it is missing in the database but what a commit
\* refused or a recorded loss took (queue.go:279-352, 443-493, recovery.go:211-241).
THEOREM StuckAreRestoredOrTardy == Spec => []StuckEntriesAreKnown
<1>1. StuckInv => StuckEntriesAreKnown
  BY DEF StuckInv
<1> QED
  BY <1>1, StuckInit, StuckNext, PTL DEF Spec

=============================================================================
