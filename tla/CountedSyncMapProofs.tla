------------------------- MODULE CountedSyncMapProofs -------------------------
(***************************************************************************)
(* Proofs about CountedSyncMap, for any finite set of goroutines and keys  *)
(* and any number of calls: the counter drifts from the number of entries  *)
(* by exactly the number of re-inserted keys, hence never above it.        *)
(***************************************************************************)
EXTENDS CountedSyncMap, FiniteSetTheorems, TLAPS

Step == {"idle", "overwrite", "increment", "decrement"}

Inv == TypeOK /\ DriftIsResurrection

-------------------------------------------------------------------------------
(* Cardinalities after one change *)

\* How many goroutines are at a step after one of them moved
LEMMA AtMoves ==
  ASSUME TypeOK, NEW p \in Proc, NEW n \in Step, NEW s \in Step,
         pc' = [pc EXCEPT ![p] = n]
  PROVE  /\ Cardinality(At(s)) \in Nat
         /\ Cardinality(At(s))' =
              IF n = s THEN (IF pc[p] = s THEN Cardinality(At(s))
                                          ELSE Cardinality(At(s)) + 1)
                       ELSE (IF pc[p] = s THEN Cardinality(At(s)) - 1
                                          ELSE Cardinality(At(s)))
<1>1. IsFiniteSet(At(s))
  BY FS_Subset, MapAssumption DEF At
<1>2. At(s)' = IF n = s THEN At(s) \cup {p} ELSE At(s) \ {p}
  BY DEF At, TypeOK, Step
<1>3. p \in At(s) <=> pc[p] = s
  BY DEF At
<1>4. /\ Cardinality(At(s)) \in Nat
      /\ Cardinality(At(s) \cup {p}) = IF p \in At(s) THEN Cardinality(At(s))
                                                    ELSE Cardinality(At(s)) + 1
      /\ Cardinality(At(s) \ {p}) = IF p \in At(s) THEN Cardinality(At(s)) - 1
                                                   ELSE Cardinality(At(s))
  BY <1>1, FS_CardinalityType, FS_AddElement, FS_RemoveElement
<1>5. CASE n = s
  <2>1. Cardinality(At(s))' = Cardinality(At(s) \cup {p})
    BY <1>2, <1>5
  <2>2. QED
    BY <1>3, <1>4, <1>5, <2>1
<1>6. CASE n # s
  <2>1. Cardinality(At(s))' = Cardinality(At(s) \ {p})
    BY <1>2, <1>6
  <2>2. QED
    BY <1>3, <1>4, <1>6, <2>1
<1>7. QED
  BY <1>5, <1>6

LEMMA ItemsFinite == ASSUME TypeOK PROVE IsFiniteSet(items)
  BY FS_Subset, MapAssumption DEF TypeOK

-------------------------------------------------------------------------------
(* Type correctness *)

LEMMA TypeStep == ASSUME TypeOK, [Next]_vars PROVE TypeOK'
<1> USE DEF TypeOK, Call, Finish
<1>1. ASSUME NEW p \in Proc, NEW k \in Key, Store(p, k)
      PROVE  TypeOK'
  BY <1>1 DEF Store
<1>2. ASSUME NEW p \in Proc, NEW k \in Key, LoadOrStore(p, k)
      PROVE  TypeOK'
  BY <1>2 DEF LoadOrStore
<1>3. ASSUME NEW p \in Proc, NEW k \in Key, LoadAndDelete(p, k)
      PROVE  TypeOK'
  BY <1>3 DEF LoadAndDelete
<1>4. ASSUME NEW p \in Proc, Overwrite(p)
      PROVE  TypeOK'
  BY <1>4 DEF Overwrite
<1>5. ASSUME NEW p \in Proc, Increment(p)
      PROVE  TypeOK'
  BY <1>5 DEF Increment
<1>6. ASSUME NEW p \in Proc, Decrement(p)
      PROVE  TypeOK'
  BY <1>6 DEF Decrement
<1>7. CASE UNCHANGED vars
  BY <1>7 DEF vars
<1>8. QED
  BY <1>1, <1>2, <1>3, <1>4, <1>5, <1>6, <1>7 DEF Next, Done

\* Every variable keeps its type, for any sets of goroutines and keys.
THEOREM TypeCorrect == Spec => []TypeOK
<1>1. Init => TypeOK
  BY DEF Init, TypeOK
<1>2. QED
  BY <1>1, TypeStep, PTL DEF Spec

-------------------------------------------------------------------------------
(* The drift of the counter *)

LEMMA DriftStep == ASSUME Inv, [Next]_vars PROVE DriftIsResurrection'
<1> USE DEF Inv, DriftIsResurrection
<1> DEFINE inc == Cardinality(At("increment"))
           dec == Cardinality(At("decrement"))
<1>i. /\ count \in Int /\ resurrected \in Nat /\ pc \in [Proc -> Step]
      /\ \A p \in Proc : pc[p] # "idle" => key[p] \in Key
  BY DEF TypeOK, Step
<1>f. IsFiniteSet(items)
  BY ItemsFinite
<1>s. "increment" \in Step /\ "decrement" \in Step /\ "idle" \in Step
      /\ "overwrite" \in Step
  BY DEF Step
<1>m. ASSUME NEW p \in Proc, NEW n \in Step, pc' = [pc EXCEPT ![p] = n]
      PROVE  /\ inc \in Nat /\ dec \in Nat
             /\ inc' = IF n = "increment"
                       THEN (IF pc[p] = "increment" THEN inc ELSE inc + 1)
                       ELSE (IF pc[p] = "increment" THEN inc - 1 ELSE inc)
             /\ dec' = IF n = "decrement"
                       THEN (IF pc[p] = "decrement" THEN dec ELSE dec + 1)
                       ELSE (IF pc[p] = "decrement" THEN dec - 1 ELSE dec)
  BY <1>m, <1>s, AtMoves
<1>1. ASSUME NEW p \in Proc, NEW k \in Key, Store(p, k)
      PROVE  DriftIsResurrection'
  <2> DEFINE n == IF k \in items THEN "overwrite" ELSE "increment"
  <2>1. n \in Step /\ pc[p] = "idle" /\ pc' = [pc EXCEPT ![p] = n]
        /\ items' = items \cup {k} /\ UNCHANGED <<count, resurrected>>
    BY <1>1, <1>s DEF Store, Call
  <2>2. Cardinality(items') = IF k \in items THEN Cardinality(items)
                                             ELSE Cardinality(items) + 1
    BY <1>f, <2>1, FS_CardinalityType, FS_AddElement, FS_RemoveElement
  <2>3. /\ inc' = IF n = "increment" THEN inc + 1 ELSE inc
        /\ dec' = IF n = "decrement" THEN dec + 1 ELSE dec
        /\ inc \in Nat /\ dec \in Nat /\ Cardinality(items) \in Nat
    BY <1>f, <1>m, <2>1, FS_CardinalityType
  <2>4. QED
    BY <1>i, <2>1, <2>2, <2>3
<1>2. ASSUME NEW p \in Proc, NEW k \in Key, LoadOrStore(p, k)
      PROVE  DriftIsResurrection'
  <2> DEFINE n == IF k \in items THEN "idle" ELSE "increment"
  <2>1. n \in Step /\ pc[p] = "idle" /\ pc' = [pc EXCEPT ![p] = n]
        /\ items' = items \cup {k} /\ UNCHANGED <<count, resurrected>>
    BY <1>2, <1>s DEF LoadOrStore, Call
  <2>2. Cardinality(items') = IF k \in items THEN Cardinality(items)
                                             ELSE Cardinality(items) + 1
    BY <1>f, <2>1, FS_CardinalityType, FS_AddElement, FS_RemoveElement
  <2>3. /\ inc' = IF n = "increment" THEN inc + 1 ELSE inc
        /\ dec' = IF n = "decrement" THEN dec + 1 ELSE dec
        /\ inc \in Nat /\ dec \in Nat /\ Cardinality(items) \in Nat
    BY <1>f, <1>m, <2>1, FS_CardinalityType
  <2>4. QED
    BY <1>i, <2>1, <2>2, <2>3
<1>3. ASSUME NEW p \in Proc, NEW k \in Key, LoadAndDelete(p, k)
      PROVE  DriftIsResurrection'
  <2> DEFINE n == IF k \in items THEN "decrement" ELSE "idle"
  <2>1. n \in Step /\ pc[p] = "idle" /\ pc' = [pc EXCEPT ![p] = n]
        /\ items' = items \ {k} /\ UNCHANGED <<count, resurrected>>
    BY <1>3, <1>s DEF LoadAndDelete, Call
  <2>2. Cardinality(items') = IF k \in items THEN Cardinality(items) - 1
                                             ELSE Cardinality(items)
    BY <1>f, <2>1, FS_CardinalityType, FS_AddElement, FS_RemoveElement
  <2>3. /\ inc' = IF n = "increment" THEN inc + 1 ELSE inc
        /\ dec' = IF n = "decrement" THEN dec + 1 ELSE dec
        /\ inc \in Nat /\ dec \in Nat /\ Cardinality(items) \in Nat
    BY <1>f, <1>m, <2>1, FS_CardinalityType
  <2>4. QED
    BY <1>i, <2>1, <2>2, <2>3
<1>4. ASSUME NEW p \in Proc, Overwrite(p)
      PROVE  DriftIsResurrection'
  <2>1. pc[p] = "overwrite" /\ pc' = [pc EXCEPT ![p] = "idle"]
        /\ items' = items \cup {key[p]} /\ count' = count
        /\ resurrected' = IF key[p] \in items THEN resurrected ELSE resurrected + 1
    BY <1>4 DEF Overwrite, Finish
  <2>2. /\ Cardinality(items') = IF key[p] \in items THEN Cardinality(items)
                                                     ELSE Cardinality(items) + 1
        /\ Cardinality(items) \in Nat
    BY <1>f, <2>1, FS_CardinalityType, FS_AddElement, FS_RemoveElement
  <2>3. inc' = inc /\ dec' = dec /\ inc \in Nat /\ dec \in Nat
    BY <1>m, <1>s, <2>1
  <2>4. QED
    BY <1>i, <2>1, <2>2, <2>3
<1>5. ASSUME NEW p \in Proc, Increment(p)
      PROVE  DriftIsResurrection'
  <2>1. pc[p] = "increment" /\ pc' = [pc EXCEPT ![p] = "idle"]
        /\ count' = count + 1 /\ UNCHANGED <<items, resurrected>>
    BY <1>5 DEF Increment, Finish
  <2>2. inc' = inc - 1 /\ dec' = dec /\ inc \in Nat /\ dec \in Nat
    BY <1>m, <1>s, <2>1
  <2>3. Cardinality(items') = Cardinality(items) /\ Cardinality(items) \in Nat
    BY <1>f, <2>1, FS_CardinalityType
  <2>4. QED
    BY <1>i, <2>1, <2>2, <2>3
<1>6. ASSUME NEW p \in Proc, Decrement(p)
      PROVE  DriftIsResurrection'
  <2>1. pc[p] = "decrement" /\ pc' = [pc EXCEPT ![p] = "idle"]
        /\ count' = count - 1 /\ UNCHANGED <<items, resurrected>>
    BY <1>6 DEF Decrement, Finish
  <2>2. inc' = inc /\ dec' = dec - 1 /\ inc \in Nat /\ dec \in Nat
    BY <1>m, <1>s, <2>1
  <2>3. Cardinality(items') = Cardinality(items) /\ Cardinality(items) \in Nat
    BY <1>f, <2>1, FS_CardinalityType
  <2>4. QED
    BY <1>i, <2>1, <2>2, <2>3
<1>7. CASE UNCHANGED vars
  BY <1>7 DEF vars, At
<1>8. QED
  BY <1>1, <1>2, <1>3, <1>4, <1>5, <1>6, <1>7 DEF Next, Done

\* The counter plus the additions under way misses exactly the re-inserted keys.
THEOREM Drift == Spec => []DriftIsResurrection
<1>1. Init => Inv
  <2>1. SUFFICES ASSUME Init PROVE Inv
    OBVIOUS
  <2>2. At("increment") = {} /\ At("decrement") = {} /\ items = {}
    BY <2>1 DEF Init, At
  <2>3. QED
    BY <2>1, <2>2, FS_EmptySet DEF Init, Inv, TypeOK, DriftIsResurrection
<1>2. Inv /\ [Next]_vars => Inv'
  BY TypeStep, DriftStep DEF Inv
<1>3. Inv => DriftIsResurrection
  BY DEF Inv
<1>4. QED
  BY <1>1, <1>2, <1>3, PTL DEF Spec

\* When no call is in progress the counter never exceeds the number of entries.
THEOREM NoOverReport == Spec => []NeverOverReports
<1>1. TypeOK /\ DriftIsResurrection => NeverOverReports
  <2>1. SUFFICES ASSUME TypeOK, DriftIsResurrection, \A p \in Proc : pc[p] = "idle"
                 PROVE  count <= Cardinality(items)
    BY DEF NeverOverReports
  <2>2. At("increment") = {} /\ At("decrement") = {}
    BY <2>1 DEF At
  <2>3. QED
    <3>1. Cardinality(At("increment")) = 0 /\ Cardinality(At("decrement")) = 0
      BY <2>2, FS_EmptySet
    <3>2. Cardinality(items) \in Nat /\ count \in Int /\ resurrected \in Nat
      BY <2>1, ItemsFinite, FS_CardinalityType DEF TypeOK
    <3>3. QED
      BY <2>1, <3>1, <3>2 DEF DriftIsResurrection
<1>2. QED
  BY <1>1, TypeCorrect, Drift, PTL
=============================================================================
