------------------------------- MODULE Validation -------------------------------
(***************************************************************************)
(* Which requests are accepted: RequestValidator of                        *)
(* internal/handlers/validation.go, with the checks StoreContent makes     *)
(* before it and the limits in the tags of models.StorageRequest.          *)
(*                                                                         *)
(* A string is its length and what the patterns tell apart: "plain" has    *)
(* letters, digits, '.', '_' and '-' only, "dotted" is plain but begins or *)
(* ends with a dot or has two in a row, "slashed" has a '/' as well, and   *)
(* "free" is anything else.  Decoding has made every string valid UTF-8.   *)
(***************************************************************************)
EXTENDS Integers

CONSTANTS
  None,            \* an absent value
  Malformed,       \* a query parameter that does not parse
  StructTag,       \* the limits in the tags of StorageRequest
  StorageRequest,  \* bound: the requests to store
  Config           \* bound: the configurations

Text   == {"plain", "dotted", "slashed", "free"}
Prefix == {"text/", "application/json", "application/", "other"}

Limits        == [idLength : Nat, typeLength : Nat, accessLimit : Nat]
StringRecord  == [size : Nat, text : Text]
TypeRecord    == [size : Nat, text : Text, prefix : Prefix]
TagRecord     == [size : Nat, runes : Nat, text : Text]
DataRecord    == [size : Nat, isJSON : BOOLEAN]
Expiry        == {"never", "past", "future", "far"}
RequestRecord == [id : StringRecord, type : TypeRecord, tag : TagRecord,
                  data : DataRecord, accessLimit : Int \cup {None}, expiresAt : Expiry]
ConfigRecord  == [performanceMode : BOOLEAN, limits : Limits, contentSize : Nat,
                  allowed : SUBSET TypeRecord, pagination : Nat]

ASSUME ValidationAssumption ==
  /\ None \notin Int
  /\ StructTag \in Limits
  /\ StorageRequest \subseteq RequestRecord
  /\ Config \subseteq ConfigRecord

-------------------------------------------------------------------------------
(* Single fields *)

ValidateID(id, c) ==
  /\ id.size \in 1 .. c.limits.idLength
  /\ id.text = "plain"

ValidateContentType(type, c) ==
  /\ type.size \in 1 .. c.limits.typeLength
  /\ type.text # "free"

ValidateTag(tag, c) ==
  tag.size > 0 => tag.size <= c.limits.typeLength /\ tag.text # "free"

\* validateDataByType: the data is a string, so only JSON can be wrong
SuitsType(data, type) == type.prefix = "application/json" => data.isJSON

ValidateData(data, type, c) ==
  /\ data.size \in 1 .. c.contentSize
  /\ SuitsType(data, type)

ValidateAccessLimit(limit, c) ==
  limit \in {None, 0} \/ limit \in 1 .. c.limits.accessLimit

ValidateExpirationTime(expiresAt) == expiresAt \notin {"past", "far"}

IsAllowed(type, c) == c.allowed = {} \/ type \in c.allowed

\* The tags of StorageRequest, which count characters and not bytes
ValidStruct(req) ==
  /\ req.id.size \in 1 .. StructTag.idLength /\ req.id.text \in {"plain", "dotted"}
  /\ req.data.size > 0
  /\ req.type.size \in 1 .. StructTag.typeLength
  /\ req.tag.runes <= StructTag.typeLength
  /\ req.accessLimit = None \/ req.accessLimit \in 0 .. StructTag.accessLimit

-------------------------------------------------------------------------------
(* ValidateStorageRequest *)

\* Mutant: the limit on accesses is left to the tag
FastPathTrustsTag(req, c) ==
  /\ ValidStruct(req)
  /\ ValidateID(req.id, c)
  /\ req.data.size <= c.contentSize
  /\ req.expiresAt # "past"
  /\ IsAllowed(req.type, c)

FastPath(req, c) ==
  /\ ValidStruct(req)
  /\ ValidateID(req.id, c)
  /\ req.data.size <= c.contentSize
  /\ req.expiresAt # "past"
  /\ IsAllowed(req.type, c)
  /\ ValidateAccessLimit(req.accessLimit, c)

ConservativePath(req, c) ==
  /\ ValidateID(req.id, c)
  /\ ValidateContentType(req.type, c)
  /\ ValidateTag(req.tag, c)
  /\ ValidateData(req.data, req.type, c)
  /\ ValidateAccessLimit(req.accessLimit, c)
  /\ ValidateExpirationTime(req.expiresAt)

\* StoreContent accepts the request
Accepts(req, c) ==
  /\ ValidateID(req.id, c)
  /\ ValidateContentType(req.type, c)
  /\ IsAllowed(req.type, c)
  /\ IF c.performanceMode THEN FastPath(req, c) ELSE ConservativePath(req, c)

-------------------------------------------------------------------------------
(* Query parameters of ListContent *)

DefaultLimit == 100

\* ValidatePaginationParams: a limit that is not given is not compared with the
\* maximum
ValidLimit(limit, c) == limit = None \/ limit \in 1 .. c.pagination
ValidOffset(offset)  == offset = None \/ offset \in Nat
PageLimit(limit)     == IF limit = None THEN DefaultLimit ELSE limit
PageOffset(offset)   == IF offset = None THEN 0 ELSE offset

-------------------------------------------------------------------------------
(* Comparison of the two paths *)

\* What performance mode leaves out of the checks
LeftOut(req, c) ==
  /\ ValidateTag(req.tag, c)
  /\ SuitsType(req.data, req.type)
  /\ req.expiresAt # "far"

\* Characters are not more than bytes
Decoded(req) == req.tag.runes <= req.tag.size

\* Performance mode cannot exceed the limits in the struct tags
WithinTags(c) == \A field \in DOMAIN StructTag : c.limits[field] <= StructTag[field]

Fast(c) == [c EXCEPT !.performanceMode = TRUE]
Full(c) == [c EXCEPT !.performanceMode = FALSE]

SameVerdict ==
  \A c \in Config, req \in StorageRequest :
    WithinTags(c) /\ Decoded(req)
      => (Accepts(req, Full(c)) <=> Accepts(req, Fast(c)) /\ LeftOut(req, c))
===============================================================================
