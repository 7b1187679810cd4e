--------------------------- MODULE MCCountedSyncMap ---------------------------
(* Instances of CountedSyncMap for TLC *)
EXTENDS CountedSyncMap, TLC

\* Goroutines and keys are interchangeable
Symmetry == Permutations(Proc) \cup Permutations(Key)
=============================================================================
