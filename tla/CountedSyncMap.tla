---------------------------- MODULE CountedSyncMap ----------------------------
(***************************************************************************)
(* pkg/storage/CountedSyncMap.go: a sync.Map beside an atomic counter.     *)
(*                                                                         *)
(* Each access to the sync.Map and each atomic addition is a step of its   *)
(* own, and any number of goroutines call the methods concurrently.        *)
(* Values are abstracted: the counter depends only on which keys are       *)
(* present.  Load, Range, Count and IsEmpty change nothing.                *)
(***************************************************************************)
EXTENDS Integers, FiniteSets

CONSTANTS
  Proc,      \* goroutines
  Key,       \* keys of the map
  NoKey,     \* the key of a goroutine that has made no call
  MaxCalls   \* bound on the calls of each goroutine

ASSUME MapAssumption ==
  /\ IsFiniteSet(Proc)
  /\ IsFiniteSet(Key)
  /\ MaxCalls \in Nat

VARIABLES
  items,        \* keys present in the sync.Map
  count,        \* the atomic counter
  pc,           \* what each goroutine does next
  key,          \* the key of its call
  calls,        \* calls it has begun
  resurrected   \* history: overwrites that re-inserted a deleted key

vars == <<items, count, pc, key, calls, resurrected>>

Init ==
  /\ items = {}
  /\ count = 0
  /\ pc = [p \in Proc |-> "idle"]
  /\ key = [p \in Proc |-> NoKey]
  /\ calls = [p \in Proc |-> 0]
  /\ resurrected = 0

\* Mutant: the second step uses the key of an earlier call
CallKeepsKey(p, k, next) ==
  /\ pc[p] = "idle"
  /\ calls[p] < MaxCalls
  /\ calls' = [calls EXCEPT ![p] = @ + 1]
  /\ pc' = [pc EXCEPT ![p] = next]
  /\ UNCHANGED key

\* Goroutine p begins a call on key k and continues at step next
Call(p, k, next) ==
  /\ pc[p] = "idle"
  /\ calls[p] < MaxCalls
  /\ calls' = [calls EXCEPT ![p] = @ + 1]
  /\ key' = [key EXCEPT ![p] = k]
  /\ pc' = [pc EXCEPT ![p] = next]

\* The second step of a call
Finish(p, step) ==
  /\ pc[p] = step
  /\ pc' = [pc EXCEPT ![p] = "idle"]
  /\ UNCHANGED <<key, calls>>

\* Mutant: an entry that was there is counted again
StoreRecounts(p, k) ==
  /\ Call(p, k, "increment")
  /\ items' = items \cup {k}
  /\ UNCHANGED <<count, resurrected>>

\* Store: LoadOrStore, then either overwrite or count
Store(p, k) ==
  /\ Call(p, k, IF k \in items THEN "overwrite" ELSE "increment")
  /\ items' = items \cup {k}
  /\ UNCHANGED <<count, resurrected>>

Overwrite(p) ==
  /\ Finish(p, "overwrite")
  /\ items' = items \cup {key[p]}
  /\ resurrected' = IF key[p] \in items THEN resurrected ELSE resurrected + 1
  /\ UNCHANGED count

\* LoadOrStore: a present entry is left alone
LoadOrStore(p, k) ==
  /\ Call(p, k, IF k \in items THEN "idle" ELSE "increment")
  /\ items' = items \cup {k}
  /\ UNCHANGED <<count, resurrected>>

Increment(p) ==
  /\ Finish(p, "increment")
  /\ count' = count + 1
  /\ UNCHANGED <<items, resurrected>>

\* Mutant: a deleted entry stays counted
LoadAndDeleteUncounted(p, k) ==
  /\ Call(p, k, "idle")
  /\ items' = items \ {k}
  /\ UNCHANGED <<count, resurrected>>

\* LoadAndDelete and Delete
LoadAndDelete(p, k) ==
  /\ Call(p, k, IF k \in items THEN "decrement" ELSE "idle")
  /\ items' = items \ {k}
  /\ UNCHANGED <<count, resurrected>>

Decrement(p) ==
  /\ Finish(p, "decrement")
  /\ count' = count - 1
  /\ UNCHANGED <<items, resurrected>>

\* All goroutines are done
Done ==
  /\ \A p \in Proc : pc[p] = "idle" /\ calls[p] = MaxCalls
  /\ UNCHANGED vars

Next ==
  \/ \E p \in Proc, k \in Key : Store(p, k) \/ LoadOrStore(p, k) \/ LoadAndDelete(p, k)
  \/ \E p \in Proc : Overwrite(p) \/ Increment(p) \/ Decrement(p)
  \/ Done

Spec == Init /\ [][Next]_vars

-------------------------------------------------------------------------------

TypeOK ==
  /\ items \subseteq Key
  /\ count \in Int
  /\ pc \in [Proc -> {"idle", "overwrite", "increment", "decrement"}]
  /\ key \in [Proc -> Key \cup {NoKey}]
  /\ calls \in [Proc -> Nat]
  /\ resurrected \in Nat
  /\ \A p \in Proc : pc[p] # "idle" => key[p] \in Key

At(step) == {p \in Proc : pc[p] = step}

\* The counter, corrected by the additions still under way, falls short of the
\* number of entries by exactly the overwrites that re-inserted a key deleted
\* since it was looked up: that is the only way it can drift
\* (CountedSyncMap.go:23-33 against 52-67).
DriftIsResurrection ==
  count + Cardinality(At("increment")) - Cardinality(At("decrement")) + resurrected
    = Cardinality(items)

\* Hence a counter read between calls never claims more entries than there are:
\* simpleFlush never reports "incomplete" for an empty map (queue.go:270-273).
NeverOverReports ==
  (\A p \in Proc : pc[p] = "idle") => count <= Cardinality(items)
=============================================================================
