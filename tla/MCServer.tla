------------------------------- MODULE MCServer -------------------------------
\* An instance of Server for TLC, with the requests that its handlers validate.
EXTENDS Handlers, TLC

CONSTANTS r1, r2, r3

FewKinds == r1 :> {"store", "backup", "collect"} @@ r2 :> {"read"} @@ r3 :> {"read"}

\* Lengths below, at and above the limits of either kind
StructTags == [idLength |-> 3, typeLength |-> 2, accessLimit |-> 2]

Types == {[size |-> 2, text |-> "slashed", prefix |-> "text/"],
          [size |-> 2, text |-> "slashed", prefix |-> "application/json"],
          [size |-> 1, text |-> "plain", prefix |-> "other"],
          [size |-> 0, text |-> "free", prefix |-> "other"],
          [size |-> 1, text |-> "free", prefix |-> "other"],
          [size |-> 3, text |-> "slashed", prefix |-> "application/"]}

StorageRequests ==
  [id : {[size |-> 0, text |-> "free"], [size |-> 2, text |-> "plain"],
         [size |-> 2, text |-> "dotted"], [size |-> 2, text |-> "slashed"],
         [size |-> 3, text |-> "plain"]},
   type : Types,
   tag : {[size |-> 0, runes |-> 0, text |-> "free"], [size |-> 1, runes |-> 1, text |-> "plain"],
          [size |-> 3, runes |-> 2, text |-> "free"]},
   data : {[size |-> 0, isJSON |-> FALSE], [size |-> 1, isJSON |-> TRUE],
           [size |-> 1, isJSON |-> FALSE], [size |-> 2, isJSON |-> TRUE]},
   accessLimit : {None, -1, 0, 1, 2},
   expiresAt : Expiry]

Configs ==
  [performanceMode : {TRUE},
   limits : {[idLength |-> 2, typeLength |-> 2, accessLimit |-> 1], StructTags},
   contentSize : {1}, allowed : {{}, {t \in Types : t.size = 1}}, pagination : {2}]
===============================================================================
