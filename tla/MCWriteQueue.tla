----------------------------- MODULE MCWriteQueue -----------------------------
(* Instances of WriteQueue for TLC: which content id each write is for *)
EXTENDS WriteQueue

CONSTANTS t1, t2, t3, k1, k2, k3

\* Three writes of three ids
DistinctKeyOf == t1 :> k1 @@ t2 :> k2 @@ t3 :> k3
\* Two overlapping writes of one id and one of another
SharedKeyOf == t1 :> k1 @@ t2 :> k1 @@ t3 :> k2
\* Three overlapping writes of one id
OneKeyOf == t1 :> k1 @@ t2 :> k1 @@ t3 :> k1
\* Two writes of two ids, and two of one id
PairKeyOf == t1 :> k1 @@ t2 :> k2
SharedPairKeyOf == t1 :> k1 @@ t2 :> k1
\* Tasks of distinct ids are interchangeable together with their ids
TaskOf(k) == CHOOSE t \in Task : KeyOf[t] = k
PairedSymmetry == {p @@ [k \in Key |-> KeyOf[p[TaskOf(k)]]] : p \in Permutations(Task)}
=============================================================================
