---------------------------- MODULE MCContentStore ----------------------------
(* Instances of ContentStore for TLC: content ids and access limits of writes *)
EXTENDS ContentStore, TLC

CONSTANTS t1, t2, k1

\* One write, or two of one id
SingleKeyOf == t1 :> k1
OneKeyOf    == t1 :> k1 @@ t2 :> k1
\* Each content may be read once
One     == t1 :> 1
OneEach == t1 :> 1 @@ t2 :> 1

CallerSymmetry == Permutations(Caller)
=============================================================================
