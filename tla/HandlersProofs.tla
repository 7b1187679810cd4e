----------------------------- MODULE HandlersProofs -----------------------------
(* Proofs that the two paths of the validator agree, for any requests to store, *)
(* any configurations and any limits in the struct tags, and that the pages of  *)
(* an unchanged database cover it, whatever its contents, the filter and the    *)
(* limit are.                                                                   *)
EXTENDS Handlers, TLAPS, FiniteSetTheorems, SequenceTheorems, WellFoundedInduction

\* Performance mode alone decides which path a request takes
LEMMA PathTaken ==
  ASSUME NEW c \in Config, NEW req
  PROVE  /\ Accepts(req, Fast(c)) <=>
              /\ ValidateID(req.id, c) /\ ValidateContentType(req.type, c)
              /\ IsAllowed(req.type, c) /\ FastPath(req, c)
         /\ Accepts(req, Full(c)) <=>
              /\ ValidateID(req.id, c) /\ ValidateContentType(req.type, c)
              /\ IsAllowed(req.type, c) /\ ConservativePath(req, c)
<1>1. c \in ConfigRecord
  BY ValidationAssumption DEF ValidationAssumption
<1> DEFINE fast == Fast(c)
           full == Full(c)
<1>2. /\ fast.performanceMode = TRUE /\ fast.limits = c.limits
      /\ fast.contentSize = c.contentSize /\ fast.allowed = c.allowed
  BY <1>1 DEF Fast, ConfigRecord
<1>3. /\ full.performanceMode = FALSE /\ full.limits = c.limits
      /\ full.contentSize = c.contentSize /\ full.allowed = c.allowed
  BY <1>1 DEF Full, ConfigRecord
<1> HIDE DEF fast, full
<1>4. Accepts(req, fast) <=>
              /\ ValidateID(req.id, c) /\ ValidateContentType(req.type, c)
              /\ IsAllowed(req.type, c) /\ FastPath(req, c)
  BY <1>2 DEF Accepts, ValidateID, ValidateContentType, IsAllowed, FastPath, ValidateAccessLimit
<1>5. Accepts(req, full) <=>
              /\ ValidateID(req.id, c) /\ ValidateContentType(req.type, c)
              /\ IsAllowed(req.type, c) /\ ConservativePath(req, c)
  BY <1>3 DEF Accepts, ValidateID, ValidateContentType, IsAllowed, ConservativePath,
     ValidateTag, ValidateData, SuitsType, ValidateAccessLimit
<1> QED
  BY <1>4, <1>5 DEF fast, full

\* A request that passes the conservative path has all that the struct tags ask for
LEMMA TagsAreImplied ==
  ASSUME NEW c \in Config, NEW req \in StorageRequest, WithinTags(c), Decoded(req),
         ValidateContentType(req.type, c), ConservativePath(req, c)
  PROVE  ValidStruct(req)
<1>1. /\ c.limits.idLength <= StructTag.idLength
      /\ c.limits.typeLength <= StructTag.typeLength
      /\ c.limits.accessLimit <= StructTag.accessLimit
      /\ c.limits \in Limits /\ StructTag \in Limits
      /\ c.contentSize \in Nat
  BY ValidationAssumption DEF ValidationAssumption, WithinTags, ConfigRecord, Limits
<1>2. /\ req.id \in StringRecord /\ req.type \in TypeRecord /\ req.tag \in TagRecord
      /\ req.data \in DataRecord /\ req.accessLimit \in Int \cup {None}
  BY ValidationAssumption DEF ValidationAssumption, RequestRecord
<1>3. req.id.size \in 1 .. StructTag.idLength /\ req.id.text \in {"plain", "dotted"}
  BY <1>1, <1>2 DEF ConservativePath, ValidateID, Limits, StringRecord
<1>4. req.data.size > 0
  BY <1>1, <1>2 DEF ConservativePath, ValidateData, DataRecord
<1>5. req.type.size \in 1 .. StructTag.typeLength
  BY <1>1, <1>2 DEF ValidateContentType, Limits, TypeRecord
<1>6. req.tag.runes <= StructTag.typeLength
  BY <1>1, <1>2 DEF ConservativePath, ValidateTag, Limits, TagRecord, Decoded
<1>7. req.accessLimit = None \/ req.accessLimit \in 0 .. StructTag.accessLimit
  BY <1>1, <1>2 DEF ConservativePath, ValidateAccessLimit, Limits
<1> QED
  BY <1>3, <1>4, <1>5, <1>6, <1>7 DEF ValidStruct

\* The two paths of ValidateStorageRequest accept the same requests, up to what
\* performance mode leaves out (validation.go:57-58, 95): for any requests and any
\* configuration whose limits are within the struct tags.
THEOREM PathsAlwaysAgree == PathsAgree
<1> SUFFICES ASSUME NEW c \in Config, NEW req \in StorageRequest,
                    WithinTags(c), Decoded(req)
             PROVE  Accepts(req, Full(c)) <=> Accepts(req, Fast(c)) /\ LeftOut(req, c)
  BY DEF PathsAgree, SameVerdict
<1>1. /\ req.id \in StringRecord /\ req.data \in DataRecord /\ req.expiresAt \in Expiry
      /\ c.contentSize \in Nat
  BY ValidationAssumption DEF ValidationAssumption, RequestRecord, ConfigRecord
<1>2. ASSUME ValidateContentType(req.type, c), IsAllowed(req.type, c),
             ConservativePath(req, c)
      PROVE  FastPath(req, c) /\ LeftOut(req, c)
  <2>1. ValidStruct(req)
    BY <1>2, TagsAreImplied
  <2>2. req.data.size <= c.contentSize /\ req.expiresAt # "past"
    BY <1>1, <1>2 DEF ConservativePath, ValidateData, ValidateExpirationTime, DataRecord
  <2>3. LeftOut(req, c)
    BY <1>2 DEF LeftOut, ConservativePath, ValidateData, ValidateExpirationTime
  <2> QED
    BY <1>2, <2>1, <2>2, <2>3 DEF FastPath, ConservativePath
<1>3. ASSUME ValidateContentType(req.type, c), FastPath(req, c), LeftOut(req, c)
      PROVE  ConservativePath(req, c)
  <2>1. ValidateData(req.data, req.type, c)
    BY <1>1, <1>3 DEF ValidateData, FastPath, ValidStruct, LeftOut, DataRecord
  <2>2. ValidateExpirationTime(req.expiresAt)
    BY <1>1, <1>3 DEF ValidateExpirationTime, FastPath, LeftOut
  <2> QED
    BY <1>3, <2>1, <2>2 DEF ConservativePath, FastPath, LeftOut
<1> QED
  BY <1>2, <1>3, PathTaken

-------------------------------------------------------------------------------
(* Pages *)

\* Induction along a sequence
LEMMA AlongSequence ==
  ASSUME NEW n \in Nat, NEW T, 0 \in T,
         \A i \in 1 .. n : i - 1 \in T => i \in T
  PROVE  0 .. n \subseteq T
<1> SUFFICES ASSUME ~ (0 .. n \subseteq T) PROVE FALSE
  OBVIOUS
<1> DEFINE U == (0 .. n) \ T
           R == OpToRel(<, Nat)
<1>1. U \subseteq Nat /\ U # {}
  OBVIOUS
<1>2. PICK x \in U : \A y \in U : ~ (<<y, x>> \in R)
  <2> HIDE DEF U, R
  <2> QED
    BY <1>1, NatLessThanWellFounded, WFMin DEF R
<1>3. \A y \in U : ~ (y < x)
  BY <1>1, <1>2 DEF OpToRel
<1>4. x \in 1 .. n /\ x - 1 \in 0 .. n
  BY <1>1
<1>5. x - 1 \notin U
  BY <1>3, <1>4
<1> QED
  BY <1>4, <1>5

-------------------------------------------------------------------------------
(* The contents of a page are a slice of the contents that match *)

SliceLen(n, limit, offset) ==
  IF n <= offset THEN 0 ELSE IF n - offset <= limit THEN n - offset ELSE limit

Slice(m, limit, offset) ==
  [i \in 1 .. SliceLen(Len(m), limit, offset) |-> m[offset + i]]

\* The page once the contents m have matched
PageOf(m, limit, offset) ==
  [skipped |-> IF Len(m) <= offset THEN Len(m) ELSE offset, contents |-> Slice(m, limit, offset)]

LEMMA SliceType ==
  ASSUME NEW S, NEW m \in Seq(S), NEW limit \in Nat, NEW offset \in Nat
  PROVE  /\ SliceLen(Len(m), limit, offset) \in Nat
         /\ Slice(m, limit, offset) \in Seq(S)
         /\ Len(Slice(m, limit, offset)) = SliceLen(Len(m), limit, offset)
         /\ \A i \in 1 .. Len(Slice(m, limit, offset)) :
               Slice(m, limit, offset)[i] = m[offset + i] /\ offset + i \in 1 .. Len(m)
<1> DEFINE k == SliceLen(Len(m), limit, offset)
<1>1. k \in Nat /\ (k # 0 => offset + k <= Len(m))
  BY DEF SliceLen
<1>2. \A i \in 1 .. k : offset + i \in 1 .. Len(m)
  <2> HIDE DEF k
  <2> QED
    BY <1>1
<1>3. \A i \in 1 .. k : m[offset + i] \in S
  BY <1>2
<1> HIDE DEF k
<1>4. Slice(m, limit, offset) = [i \in 1 .. k |-> m[offset + i]]
  BY DEF Slice, k
<1> QED
  BY <1>1, <1>2, <1>3, <1>4 DEF k

LEMMA PrefixType ==
  ASSUME NEW S, NEW m \in Seq(S), NEW k \in Nat
  PROVE  /\ Slice(m, k, 0) \in Seq(S)
         /\ Len(Slice(m, k, 0)) = SliceLen(Len(m), k, 0)
         /\ \A i \in 1 .. Len(Slice(m, k, 0)) : Slice(m, k, 0)[i] = m[i]
<1>1. PICK zero \in Nat : zero = 0
  OBVIOUS
<1>2. /\ Slice(m, k, zero) \in Seq(S)
      /\ Len(Slice(m, k, zero)) = SliceLen(Len(m), k, zero)
      /\ \A i \in 1 .. Len(Slice(m, k, zero)) : Slice(m, k, zero)[i] = m[zero + i]
  BY SliceType
<1>3. \A i \in 1 .. Len(Slice(m, k, zero)) : zero + i = i
  BY <1>1, <1>2
<1>4. /\ Slice(m, k, zero) \in Seq(S)
      /\ Len(Slice(m, k, zero)) = SliceLen(Len(m), k, zero)
      /\ \A i \in 1 .. Len(Slice(m, k, zero)) : Slice(m, k, zero)[i] = m[i]
  BY <1>2, <1>3, Zenon
<1> QED
  BY <1>1, <1>4, Zenon

\* A turn of the loop: a content that matches is skipped, added or too many, one
\* that does not match changes nothing
LEMMA CollectStep ==
  ASSUME NEW S, NEW m \in Seq(S), NEW x \in S, NEW limit \in Nat \ {0},
         NEW offset \in Nat, NEW f
  PROVE  Collect(PageOf(m, limit, offset), x, limit, offset, f)
           = PageOf(IF MatchesFilter(x, f) THEN Append(m, x) ELSE m, limit, offset)
<1> DEFINE p == PageOf(m, limit, offset)
           a == Append(m, x)
           c == Slice(m, limit, offset)
           d == Slice(a, limit, offset)
<1>1. /\ p.contents = c
      /\ p.skipped = IF Len(m) <= offset THEN Len(m) ELSE offset
      /\ p = [skipped |-> p.skipped, contents |-> c]
  BY DEF PageOf
<1>2. CASE ~ MatchesFilter(x, f)
  BY <1>2 DEF Collect
<1>3. CASE MatchesFilter(x, f)
  <2>1. /\ a \in Seq(S) /\ Len(a) = Len(m) + 1 /\ Len(m) \in Nat
        /\ \A i \in 1 .. Len(m) : a[i] = m[i]
        /\ a[Len(m) + 1] = x
    OBVIOUS
  <2>2. /\ c \in Seq(S) /\ Len(c) = SliceLen(Len(m), limit, offset)
        /\ \A i \in 1 .. Len(c) : c[i] = m[offset + i] /\ offset + i \in 1 .. Len(m)
    BY SliceType
  <2>3. /\ d \in Seq(S) /\ Len(d) = SliceLen(Len(m) + 1, limit, offset)
        /\ \A i \in 1 .. Len(d) : d[i] = a[offset + i]
    <3> HIDE DEF a
    <3>1. /\ d \in Seq(S) /\ Len(d) = SliceLen(Len(a), limit, offset)
          /\ \A i \in 1 .. Len(d) : d[i] = a[offset + i] /\ offset + i \in 1 .. Len(a)
      BY <2>1, SliceType
    <3> HIDE DEF d
    <3> QED
      BY <2>1, <3>1
  <2>4. PageOf(a, limit, offset)
          = [skipped |-> IF Len(m) + 1 <= offset THEN Len(m) + 1 ELSE offset, contents |-> d]
    BY <2>1 DEF PageOf
  <2> HIDE DEF p, a, c, d
  <2>5. \A i \in 1 .. Len(c) : a[offset + i] = c[i]
    BY <2>1, <2>2
  <2>6. CASE Len(c) = limit
    <3>1. Len(d) = Len(c) /\ Len(m) > offset
      BY <2>1, <2>2, <2>3, <2>6 DEF SliceLen
    <3>2. d = c
      BY <2>2, <2>3, <2>5, <3>1, SeqEqual
    <3> QED
      BY <1>1, <1>3, <2>1, <2>4, <2>6, <3>1, <3>2 DEF Collect, p, a
  <2>7. CASE Len(c) # limit /\ Len(m) < offset
    <3>1. c = <<>> /\ d = <<>>
      BY <2>1, <2>2, <2>3, <2>7, EmptySeq DEF SliceLen
    <3>2. Collect(p, x, limit, offset, f) = [p EXCEPT !.skipped = @ + 1]
      BY <1>1, <1>3, <2>1, <2>7 DEF Collect
    <3>3. [p EXCEPT !.skipped = @ + 1] = [skipped |-> Len(m) + 1, contents |-> c]
      BY <1>1, <2>1, <2>7
    <3> QED
      BY <1>3, <2>1, <2>4, <2>7, <3>1, <3>2, <3>3 DEF p, a
  <2>8. CASE Len(c) # limit /\ Len(m) >= offset
    <3>1. Len(c) = Len(m) - offset /\ Len(d) = Len(c) + 1
      BY <2>1, <2>2, <2>3, <2>8 DEF SliceLen
    <3>2. d = Append(c, x)
      <4>1. /\ Append(c, x) \in Seq(S) /\ Len(Append(c, x)) = Len(d)
            /\ \A i \in 1 .. Len(c) : Append(c, x)[i] = c[i]
            /\ Append(c, x)[Len(c) + 1] = x
        BY <2>2, <3>1
      <4>2. d[Len(c) + 1] = x
        <5>1. Len(c) + 1 \in 1 .. Len(d) /\ offset + (Len(c) + 1) = Len(m) + 1
          BY <2>1, <2>2, <3>1
        <5> QED
          BY <2>1, <2>3, <5>1
      <4>3. ASSUME NEW i \in 1 .. Len(d)
            PROVE  d[i] = Append(c, x)[i]
        <5>1. CASE i = Len(c) + 1
          BY <4>1, <4>2, <5>1
        <5>2. CASE i # Len(c) + 1
          <6>1. i \in 1 .. Len(c)
            BY <2>2, <3>1, <5>2
          <6> QED
            BY <2>3, <2>5, <4>1, <6>1
        <5> QED
          BY <5>1, <5>2
      <4> QED
        BY <2>3, <4>1, <4>3, SeqEqual
    <3>3. Collect(p, x, limit, offset, f) = [p EXCEPT !.contents = Append(@, x)]
      BY <1>1, <1>3, <2>1, <2>8 DEF Collect
    <3>4. [p EXCEPT !.contents = Append(@, x)] = [skipped |-> offset, contents |-> Append(c, x)]
      <4>1. p.skipped = offset
        BY <1>1, <2>1, <2>8
      <4>2. p = [skipped |-> offset, contents |-> c]
        BY <1>1, <4>1
      <4>3. \A r, v : r = [skipped |-> offset, contents |-> c]
              => [r EXCEPT !.contents = v] = [skipped |-> offset, contents |-> v]
        OBVIOUS
      <4>4. p.contents = c
        BY <1>1
      <4>5. [p EXCEPT !.contents = Append(c, x)] = [skipped |-> offset, contents |-> Append(c, x)]
        BY <4>2, <4>3, Zenon
      <4> QED
        BY <4>4, <4>5, Zenon
    <3> QED
      BY <1>3, <2>1, <2>4, <2>8, <3>2, <3>3, <3>4 DEF p, a
  <2> QED
    BY <2>1, <2>6, <2>7, <2>8
<1> QED
  BY <1>2, <1>3

-------------------------------------------------------------------------------
(* What the recursive functions compute *)

\* Matching is the function that its definition describes
MatchStep(h, db, f, i) ==
  IF i = 0 THEN <<>>
  ELSE IF MatchesFilter(db[i], f) THEN Append(h[i - 1], db[i])
  ELSE h[i - 1]

LEMMA MatchingDef ==
  ASSUME NEW db, Len(db) \in Nat, NEW f
  PROVE  Matching(db, f) = [i \in 0 .. Len(db) |-> MatchStep(Matching(db, f), db, f, i)]
<1> DEFINE n == Len(db)
           T == {k \in 0 .. n : \E h : h = [i \in 0 .. k |-> MatchStep(h, db, f, i)]}
<1>1. 0 \in T
  <2> DEFINE h == [i \in 0 .. 0 |-> <<>>]
  <2>1. h = [i \in 0 .. 0 |-> MatchStep(h, db, f, i)]
    BY DEF MatchStep
  <2> QED
    BY <2>1
<1>2. ASSUME NEW k \in 1 .. n, k - 1 \in T
      PROVE  k \in T
  <2>1. PICK h : h = [i \in 0 .. k - 1 |-> MatchStep(h, db, f, i)]
    BY <1>2
  <2> DEFINE g == [i \in 0 .. k |-> IF i = k THEN MatchStep(h, db, f, k) ELSE h[i]]
  <2>2. \A i \in 0 .. k : g[i] = MatchStep(g, db, f, i)
    <3> SUFFICES ASSUME NEW i \in 0 .. k PROVE g[i] = MatchStep(g, db, f, i)
      OBVIOUS
    <3>1. i # 0 => i - 1 \in 0 .. k - 1 /\ g[i - 1] = h[i - 1]
      OBVIOUS
    <3>2. MatchStep(g, db, f, i) = MatchStep(h, db, f, i)
      BY <3>1 DEF MatchStep
    <3>3. CASE i = k
      BY <3>2, <3>3
    <3>4. CASE i # k
      <4>1. i \in 0 .. k - 1
        BY <3>4
      <4>2. h[i] = MatchStep(h, db, f, i)
        BY <2>1, <4>1
      <4> QED
        BY <3>2, <3>4, <4>2
    <3> QED
      BY <3>3, <3>4
  <2>3. g = [i \in 0 .. k |-> MatchStep(g, db, f, i)]
    <3>1. g = [i \in 0 .. k |-> g[i]]
      OBVIOUS
    <3> HIDE DEF g
    <3> QED
      BY <2>2, <3>1
  <2> HIDE DEF g
  <2> QED
    BY <2>3
<1>3. n \in T
  <2>1. 0 .. n \subseteq T
    <3> HIDE DEF T
    <3> QED
      BY <1>1, <1>2, AlongSequence
  <2> QED
    BY <2>1
<1>4. \E h : h = [i \in 0 .. Len(db) |-> MatchStep(h, db, f, i)]
  BY <1>3
<1>5. Matching(db, f) = CHOOSE h : h = [i \in 0 .. Len(db) |-> MatchStep(h, db, f, i)]
  BY DEF Matching, MatchStep
<1> QED
  BY <1>4, <1>5, Zenon

LEMMA MatchingSteps ==
  ASSUME NEW S, NEW db \in Seq(S), NEW f
  PROVE  /\ Matching(db, f)[0] = <<>>
         /\ \A i \in 1 .. Len(db) :
              Matching(db, f)[i] = IF MatchesFilter(db[i], f)
                                   THEN Append(Matching(db, f)[i - 1], db[i])
                                   ELSE Matching(db, f)[i - 1]
         /\ \A i \in 0 .. Len(db) : Matching(db, f)[i] \in Seq(S)
<1> DEFINE m == Matching(db, f)
           T == {i \in 0 .. Len(db) : m[i] \in Seq(S)}
<1>1. \A i \in 0 .. Len(db) : m[i] = MatchStep(m, db, f, i)
  <2>1. m = [i \in 0 .. Len(db) |-> MatchStep(m, db, f, i)]
    BY MatchingDef
  <2> HIDE DEF m
  <2> QED
    BY <2>1
<1> HIDE DEF m
<1>2. m[0] = <<>>
  BY <1>1 DEF MatchStep
<1>3. \A i \in 1 .. Len(db) : m[i] = IF MatchesFilter(db[i], f) THEN Append(m[i - 1], db[i]) ELSE m[i - 1]
  BY <1>1 DEF MatchStep
<1>n. Len(db) \in Nat /\ 0 \in 0 .. Len(db)
  OBVIOUS
<1>4. 0 \in T
  BY <1>2, <1>n, EmptySeq
<1>5. ASSUME NEW i \in 1 .. Len(db), i - 1 \in T
      PROVE  i \in T
  <2>1. db[i] \in S /\ i \in 0 .. Len(db) /\ m[i - 1] \in Seq(S)
    BY <1>5
  <2>2. Append(m[i - 1], db[i]) \in Seq(S)
    BY <2>1
  <2>3. m[i] \in {Append(m[i - 1], db[i]), m[i - 1]}
    BY <1>3
  <2>4. m[i] \in Seq(S)
    BY <2>1, <2>2, <2>3
  <2> QED
    BY <2>1, <2>4
<1>6. 0 .. Len(db) \subseteq T
  <2> HIDE DEF T
  <2> QED
    BY <1>n, <1>4, <1>5, AlongSequence
<1> QED
  BY <1>2, <1>3, <1>6 DEF m

\* CountWithFilter counts the contents that match
LEMMA CountIsLength ==
  ASSUME NEW S, NEW db \in Seq(S), NEW f
  PROVE  CountWithFilter(db, f) = Len(Matching(db, f)[Len(db)])
<1> DEFINE m == Matching(db, f)
           found(k) == {i \in 1 .. k : MatchesFilter(db[i], f)}
           T == {k \in 0 .. Len(db) :
                   IsFiniteSet(found(k)) /\ Cardinality(found(k)) = Len(m[k])}
<1> HIDE DEF m
<1>n. Len(db) \in Nat
  OBVIOUS
<1>1. 0 \in T
  <2>1. found(0) = {} /\ m[0] = <<>>
    BY MatchingSteps DEF m
  <2> QED
    BY <2>1, FS_EmptySet
<1>2. ASSUME NEW k \in 1 .. Len(db), k - 1 \in T
      PROVE  k \in T
  <2>1. m[k - 1] \in Seq(S) /\ db[k] \in S
    BY MatchingSteps DEF m
  <2>2. m[k] = IF MatchesFilter(db[k], f) THEN Append(m[k - 1], db[k]) ELSE m[k - 1]
    BY MatchingSteps DEF m
  <2>3. IsFiniteSet(found(k - 1)) /\ Cardinality(found(k - 1)) = Len(m[k - 1])
    BY <1>2
  <2>4. CASE MatchesFilter(db[k], f)
    <3>1. found(k) = found(k - 1) \cup {k} /\ k \notin found(k - 1)
      BY <2>4
    <3>2. Len(m[k]) = Len(m[k - 1]) + 1
      BY <2>1, <2>2, <2>4
    <3>3. IsFiniteSet(found(k)) /\ Cardinality(found(k)) = Cardinality(found(k - 1)) + 1
      <4> HIDE DEF found
      <4>1. /\ IsFiniteSet(found(k - 1) \cup {k})
            /\ Cardinality(found(k - 1) \cup {k}) = Cardinality(found(k - 1)) + 1
        BY <2>3, <3>1, FS_AddElement
      <4> QED
        BY <3>1, <4>1
    <3> HIDE DEF found
    <3> QED
      BY <2>3, <3>2, <3>3
  <2>5. CASE ~ MatchesFilter(db[k], f)
    <3>1. found(k) = found(k - 1)
      BY <2>5
    <3> HIDE DEF found
    <3> QED
      BY <2>2, <2>3, <2>5, <3>1
  <2> QED
    BY <2>4, <2>5
<1>3. 0 .. Len(db) \subseteq T
  <2> HIDE DEF T
  <2> QED
    BY <1>n, <1>1, <1>2, AlongSequence
<1>4. Cardinality(found(Len(db))) = Len(m[Len(db)])
  <2>1. Len(db) \in T
    <3> HIDE DEF T
    <3> QED
      BY <1>n, <1>3
  <2> HIDE DEF found
  <2> QED
    BY <2>1
<1>5. DOMAIN db = 1 .. Len(db)
  OBVIOUS
<1> QED
  BY <1>4, <1>5 DEF CountWithFilter, m

\* ListWithFilter returns a slice of the contents that match
LEMMA ListIsSlice ==
  ASSUME NEW S, NEW db \in Seq(S), NEW f, NEW limit \in Nat \ {0}, NEW offset \in Nat
  PROVE  ListWithFilter(db, limit, offset, f) = Slice(Matching(db, f)[Len(db)], limit, offset)
<1> DEFINE m == Matching(db, f)
           Turn(h, i) == IF i = 0 THEN [skipped |-> 0, contents |-> <<>>]
                         ELSE Collect(h[i - 1], db[i], limit, offset, f)
           pages == [i \in 0 .. Len(db) |-> PageOf(m[i], limit, offset)]
           page  == Collecting(db, limit, offset, f)
<1> HIDE DEF m
<1>n. Len(db) \in Nat
  OBVIOUS
<1>1. PageOf(<<>>, limit, offset) = [skipped |-> 0, contents |-> <<>>]
  <2>1. Slice(<<>>, limit, offset) = <<>>
    <3>1. PICK e \in Seq(S) : e = <<>> /\ Len(e) = 0
      BY EmptySeq
    <3>2. SliceLen(0, limit, offset) = 0
      BY DEF SliceLen
    <3>3. /\ Slice(e, limit, offset) \in Seq(S)
          /\ Len(Slice(e, limit, offset)) = SliceLen(Len(e), limit, offset)
      BY SliceType
    <3> QED
      BY <3>1, <3>2, <3>3, EmptySeq
  <2> QED
    BY <2>1 DEF PageOf
<1>2. \A i \in 1 .. Len(db) :
        Collect(PageOf(m[i - 1], limit, offset), db[i], limit, offset, f)
          = PageOf(m[i], limit, offset)
  <2> TAKE i \in 1 .. Len(db)
  <2>1. m[i - 1] \in Seq(S) /\ db[i] \in S
    BY MatchingSteps DEF m
  <2>2. m[i] = IF MatchesFilter(db[i], f) THEN Append(m[i - 1], db[i]) ELSE m[i - 1]
    BY MatchingSteps DEF m
  <2>3. PICK before \in Seq(S), x \in S : before = m[i - 1] /\ x = db[i]
    BY <2>1
  <2>4. Collect(PageOf(before, limit, offset), x, limit, offset, f)
          = PageOf(IF MatchesFilter(x, f) THEN Append(before, x) ELSE before, limit, offset)
    BY CollectStep
  <2> QED
    BY <2>2, <2>3, <2>4, Zenon
<1>3. m[0] = <<>>
  BY MatchingSteps DEF m
<1>4. \A i \in 0 .. Len(db) : pages[i] = Turn(pages, i)
  <2> TAKE i \in 0 .. Len(db)
  <2>1. CASE i = 0
    BY <1>1, <1>3, <2>1
  <2>2. CASE i # 0
    <3>1. i \in 1 .. Len(db) /\ i - 1 \in 0 .. Len(db)
      BY <2>2
    <3>2. pages[i] = PageOf(m[i], limit, offset) /\ pages[i - 1] = PageOf(m[i - 1], limit, offset)
      BY <3>1
    <3> HIDE DEF pages
    <3> QED
      BY <1>2, <2>2, <3>1, <3>2
  <2> QED
    BY <2>1, <2>2
<1>5. \E h : h = [i \in 0 .. Len(db) |-> Turn(h, i)]
  <2>1. pages = [i \in 0 .. Len(db) |-> pages[i]]
    OBVIOUS
  <2> HIDE DEF pages, Turn
  <2>2. pages = [i \in 0 .. Len(db) |-> Turn(pages, i)]
    BY <1>4, <2>1
  <2> QED
    BY <2>2
<1>6. page = CHOOSE h : h = [i \in 0 .. Len(db) |-> Turn(h, i)]
  BY DEF Collecting
<1>7. page = [i \in 0 .. Len(db) |-> Turn(page, i)]
  <2> HIDE DEF page, Turn
  <2> QED
    BY <1>5, <1>6, Zenon
<1> DEFINE T == {i \in 0 .. Len(db) : page[i] = PageOf(m[i], limit, offset)}
<1> HIDE DEF page
<1>8. \A i \in 0 .. Len(db) : page[i] = Turn(page, i)
  <2> HIDE DEF Turn
  <2> QED
    BY <1>7
<1>9. 0 \in T
  BY <1>1, <1>3, <1>8
<1>10. \A i \in 1 .. Len(db) : i - 1 \in T => i \in T
  BY <1>2, <1>8
<1>11. 0 .. Len(db) \subseteq T
  <2> HIDE DEF T
  <2> QED
    BY <1>n, <1>9, <1>10, AlongSequence
<1>12. page[Len(db)].contents = Slice(m[Len(db)], limit, offset)
  <2>1. Len(db) \in T
    BY <1>n, <1>11
  <2> QED
    BY <2>1 DEF PageOf
<1> QED
  BY <1>12 DEF ListWithFilter, page, m

-------------------------------------------------------------------------------
(* The pages in turn *)

\* A slice goes on where the one before it has ended
LEMMA SliceConcat ==
  ASSUME NEW S, NEW m \in Seq(S), NEW k \in Nat, NEW limit \in Nat
  PROVE  Slice(m, k, 0) \o Slice(m, limit, k) = Slice(m, k + limit, 0)
<1> DEFINE a == Slice(m, k, 0)
           b == Slice(m, limit, k)
           c == Slice(m, k + limit, 0)
<1>1. /\ a \in Seq(S) /\ Len(a) = SliceLen(Len(m), k, 0)
      /\ \A i \in 1 .. Len(a) : a[i] = m[i]
  BY PrefixType
<1>2. /\ b \in Seq(S) /\ Len(b) = SliceLen(Len(m), limit, k)
      /\ \A i \in 1 .. Len(b) : b[i] = m[k + i] /\ k + i \in 1 .. Len(m)
  BY SliceType
<1>3. /\ c \in Seq(S) /\ Len(c) = SliceLen(Len(m), k + limit, 0)
      /\ \A i \in 1 .. Len(c) : c[i] = m[i]
  <2>1. PICK l \in Nat : l = k + limit
    OBVIOUS
  <2>2. /\ Slice(m, l, 0) \in Seq(S) /\ Len(Slice(m, l, 0)) = SliceLen(Len(m), l, 0)
        /\ \A i \in 1 .. Len(Slice(m, l, 0)) : Slice(m, l, 0)[i] = m[i]
    BY PrefixType
  <2> QED
    BY <2>1, <2>2, Zenon
<1> HIDE DEF a, b, c
<1>4. Len(m) \in Nat /\ Len(a) \in Nat /\ Len(b) \in Nat
  BY <1>1, <1>2
<1>5. /\ a \o b \in Seq(S) /\ Len(a \o b) = Len(a) + Len(b)
      /\ \A i \in 1 .. Len(a) : (a \o b)[i] = a[i]
      /\ \A i \in Len(a) + 1 .. Len(a) + Len(b) : (a \o b)[i] = b[i - Len(a)]
  <2>1. /\ a \o b \in Seq(S) /\ Len(a \o b) = Len(a) + Len(b)
        /\ \A i \in 1 .. Len(a) + Len(b) :
              (a \o b)[i] = IF i <= Len(a) THEN a[i] ELSE b[i - Len(a)]
    BY <1>1, <1>2, ConcatProperties
  <2> QED
    BY <1>4, <2>1
<1>6. Len(a) + Len(b) = Len(c)
  <2>1. SliceLen(Len(m), k, 0) + SliceLen(Len(m), limit, k) = SliceLen(Len(m), k + limit, 0)
    <3>1. PICK n \in Nat : n = Len(m)
      BY <1>4
    <3>2. CASE n <= k
      <4>1. SliceLen(n, k, 0) = n
        BY <3>2 DEF SliceLen
      <4>2. SliceLen(n, limit, k) = 0
        BY <3>2 DEF SliceLen
      <4>3. SliceLen(n, k + limit, 0) = n
        BY <3>2 DEF SliceLen
      <4> QED
        BY <3>1, <4>1, <4>2, <4>3
    <3>3. CASE n > k
      <4>1. SliceLen(n, k, 0) = k
        BY <3>3 DEF SliceLen
      <4>2. SliceLen(n, limit, k) = IF n - k <= limit THEN n - k ELSE limit
        BY <3>3 DEF SliceLen
      <4>3. SliceLen(n, k + limit, 0) = IF n <= k + limit THEN n ELSE k + limit
        BY <3>3 DEF SliceLen
      <4> QED
        BY <3>1, <4>1, <4>2, <4>3
    <3> QED
      BY <3>1, <3>2, <3>3
  <2> QED
    BY <1>1, <1>2, <1>3, <2>1
<1>7. Len(b) # 0 => Len(a) = k
  BY <1>1, <1>2, <1>4 DEF SliceLen
<1>8. ASSUME NEW i \in 1 .. Len(a \o b)
      PROVE  (a \o b)[i] = c[i]
  <2>1. i \in 1 .. Len(c) /\ c[i] = m[i]
    BY <1>3, <1>4, <1>5, <1>6
  <2>2. CASE i <= Len(a)
    <3>1. i \in 1 .. Len(a)
      BY <1>4, <2>1, <2>2
    <3>2. a[i] = m[i]
      BY <1>1, <3>1
    <3> QED
      BY <1>5, <2>1, <3>1, <3>2
  <2>3. CASE i > Len(a)
    <3>1. i \in Len(a) + 1 .. Len(a) + Len(b) /\ i - Len(a) \in 1 .. Len(b)
      BY <1>4, <1>5, <2>3
    <3>2. b[i - Len(a)] = m[k + (i - Len(a))]
      BY <1>2, <3>1
    <3>3. k + (i - Len(a)) = i
      BY <1>4, <1>7, <3>1
    <3> QED
      BY <1>5, <2>1, <3>1, <3>2, <3>3
  <2> QED
    BY <1>4, <1>5, <2>2, <2>3
<1>9. a \o b = c
  BY <1>3, <1>5, <1>6, <1>8, SeqEqual
<1> QED
  BY <1>9 DEF a, b, c

\* A slice that is long enough is everything, one that begins too late is empty
LEMMA SliceEnds ==
  ASSUME NEW S, NEW m \in Seq(S), NEW k \in Nat, Len(m) <= k, NEW limit \in Nat
  PROVE  Slice(m, k, 0) = m /\ Slice(m, limit, k) = <<>>
<1> DEFINE a == Slice(m, k, 0)
           b == Slice(m, limit, k)
<1>1. /\ a \in Seq(S) /\ Len(a) = SliceLen(Len(m), k, 0)
      /\ \A i \in 1 .. Len(a) : a[i] = m[i]
  BY PrefixType
<1>2. b \in Seq(S) /\ Len(b) = SliceLen(Len(m), limit, k)
  BY SliceType
<1> HIDE DEF a, b
<1>3. Len(a) = Len(m) /\ Len(b) = 0 /\ Len(m) \in Nat
  BY <1>1, <1>2 DEF SliceLen
<1>4. \A i \in 1 .. Len(a) : a[i] = m[i]
  BY <1>1, <1>3
<1>5. a = m
  BY <1>1, <1>3, <1>4, SeqEqual
<1>6. b = <<>>
  BY <1>2, <1>3, EmptySeq
<1> QED
  BY <1>5, <1>6 DEF a, b

\* The slices put together
LEMMA SlicesFlattened ==
  ASSUME NEW S, NEW m \in Seq(S), NEW limit \in Nat \ {0}, NEW n \in Nat \ {0}
  PROVE  FlattenSeq([i \in 1 .. n |-> Slice(m, limit, (i - 1) * limit)])
           = Slice(m, n * limit, 0)
<1> DEFINE s == [i \in 1 .. n |-> Slice(m, limit, (i - 1) * limit)]
           Turn(h, i) == IF i = 1 THEN s[i] ELSE h[i - 1] \o s[i]
           whole == [i \in 1 .. n |-> Slice(m, i * limit, 0)]
           flatten == CHOOSE h : h = [i \in 1 .. n |-> Turn(h, i)]
<1>1. Len(s) = n
  <2>1. \A i \in 1 .. n : (i - 1) * limit \in Nat
    OBVIOUS
  <2>2. \A i \in 1 .. n : Slice(m, limit, (i - 1) * limit) \in Seq(S)
    BY <2>1, SliceType
  <2> QED
    BY <2>2
<1>2. \A i \in 1 .. n : s[i] = Slice(m, limit, (i - 1) * limit)
  OBVIOUS
<1>3. \A i \in 1 .. n : whole[i] = Slice(m, i * limit, 0)
  OBVIOUS
<1>4. FlattenSeq(s) = flatten[n]
  <2>1. n # 0
    OBVIOUS
  <2> HIDE DEF s
  <2> QED
    BY <1>1, <2>1, Zenon DEF FlattenSeq
<1> HIDE DEF s
<1>5. \A i \in 2 .. n : Slice(m, (i - 1) * limit, 0) \o s[i] = Slice(m, i * limit, 0)
  <2> TAKE i \in 2 .. n
  <2>1. PICK k \in Nat : k = (i - 1) * limit
    <3>1. (i - 1) * limit \in Nat
      OBVIOUS
    <3> QED
      BY <3>1
  <2>2. i * limit = k + limit
    BY <2>1
  <2>3. Slice(m, k, 0) \o Slice(m, limit, k) = Slice(m, k + limit, 0)
    BY SliceConcat
  <2>4. s[i] = Slice(m, limit, k)
    BY <1>2, <2>1
  <2> QED
    BY <2>1, <2>2, <2>3, <2>4
<1>6. s[1] = Slice(m, 1 * limit, 0)
  <2>1. 1 \in 1 .. n /\ (1 - 1) * limit = 0 /\ 1 * limit = limit
    OBVIOUS
  <2> QED
    BY <1>2, <2>1
<1>7. whole = [i \in 1 .. n |-> Turn(whole, i)]
  <2>1. ASSUME NEW i \in 1 .. n
        PROVE  whole[i] = Turn(whole, i)
    <3>1. CASE i = 1
      BY <1>3, <1>6, <3>1
    <3>2. CASE i # 1
      <4>1. i \in 2 .. n /\ i - 1 \in 1 .. n
        BY <3>2
      <4>2. whole[i - 1] = Slice(m, (i - 1) * limit, 0)
        BY <1>3, <4>1
      <4> HIDE DEF whole
      <4> QED
        BY <1>3, <1>5, <3>2, <4>1, <4>2
    <3> QED
      BY <3>1, <3>2
  <2>2. whole = [i \in 1 .. n |-> whole[i]]
    OBVIOUS
  <2> HIDE DEF whole, Turn
  <2> QED
    BY <2>1, <2>2
<1>8. flatten = [i \in 1 .. n |-> Turn(flatten, i)]
  <2>1. \E h : h = [i \in 1 .. n |-> Turn(h, i)]
    <3> HIDE DEF whole, Turn
    <3> QED
      BY <1>7
  <2> HIDE DEF Turn
  <2> QED
    BY <2>1, Zenon
<1> HIDE DEF flatten
<1>9. \A i \in 1 .. n : flatten[i] = Turn(flatten, i)
  <2> HIDE DEF Turn
  <2> QED
    BY <1>8
<1> DEFINE T == {i \in 0 .. n : i # 0 => flatten[i] = Slice(m, i * limit, 0)}
<1>10. 0 \in T
  OBVIOUS
<1>11. ASSUME NEW i \in 1 .. n, i - 1 \in T
       PROVE  i \in T
  <2>1. CASE i = 1
    BY <1>6, <1>9, <2>1
  <2>2. CASE i # 1
    <3>1. i \in 2 .. n /\ i - 1 # 0
      BY <2>2
    <3>2. flatten[i - 1] = Slice(m, (i - 1) * limit, 0)
      BY <1>11, <3>1
    <3>3. flatten[i] = Slice(m, i * limit, 0)
      BY <1>5, <1>9, <2>2, <3>1, <3>2
    <3> QED
      BY <3>3
  <2> QED
    BY <2>1, <2>2
<1>12. n \in T
  <2>1. 0 .. n \subseteq T
    <3> HIDE DEF T
    <3> QED
      BY <1>10, <1>11, AlongSequence
  <2> HIDE DEF T
  <2> QED
    BY <2>1
<1>13. FlattenSeq(s) = Slice(m, n * limit, 0)
  BY <1>4, <1>12
<1> QED
  BY <1>13 DEF s

\* Page after page of an unchanged database covers what matches the filter
LEMMA PagesCoverAll ==
  ASSUME NEW S, NEW db \in Seq(S), NEW c \in Config, NEW f, NEW number
  PROVE  /\ PagesCover(db, number, f, c)
         /\ ListContent(db, number, None, f, c).status # 500
<1> DEFINE m     == Matching(db, f)[Len(db)]
           limit == PageLimit(number)
           first == ListContent(db, number, None, f, c)
           n     == Len(m) \div limit + 1
           page(i) == ListContent(db, number, i * limit, f, c)
<1>1. m \in Seq(S) /\ Len(m) \in Nat
  <2>1. m \in Seq(S)
    <3>1. Len(db) \in 0 .. Len(db)
      OBVIOUS
    <3> QED
      BY <3>1, MatchingSteps
  <2> HIDE DEF m
  <2> QED
    BY <2>1
<1>2. CountWithFilter(db, f) = Len(m)
  BY CountIsLength
<1> HIDE DEF m
<1>3. ValidLimit(number, c) => limit \in Nat \ {0}
  <2>1. c.pagination \in Nat
    BY ValidationAssumption DEF ValidationAssumption, ConfigRecord
  <2> QED
    BY <2>1 DEF ValidLimit, PageLimit, DefaultLimit
<1>4. ValidOffset(None) /\ PageOffset(None) = 0
  BY DEF ValidOffset, PageOffset
<1>5. first.status # 500
  BY <1>3, <1>4 DEF ListContent
<1>6. ASSUME first.status = 200
      PROVE  /\ ValidLimit(number, c) /\ ValidFilter(f) /\ limit \in Nat \ {0}
             /\ first.limit = limit /\ first.total = Len(m)
  <2>1. ValidLimit(number, c) /\ ValidFilter(f)
    BY <1>4, <1>6 DEF ListContent
  <2>2. limit \in Nat \ {0}
    BY <1>3, <2>1
  <2>3. first = [status |-> 200, limit |-> limit,
                 contents |-> ListWithFilter(db, limit, 0, f), total |-> Len(m)]
    BY <1>2, <1>4, <2>1, <2>2 DEF ListContent
  <2> HIDE DEF first, limit
  <2> QED
    BY <2>1, <2>2, <2>3
<1>7. ASSUME first.status = 200, NEW i \in Nat
      PROVE  page(i).status = 200 /\ page(i).contents = Slice(m, limit, i * limit)
  <2>1. /\ ValidLimit(number, c) /\ ValidFilter(f) /\ limit \in Nat \ {0}
    BY <1>6, <1>7
  <2>2. PICK offset \in Nat : offset = i * limit
    <3> HIDE DEF limit
    <3>1. i * limit \in Nat
      BY <2>1
    <3> QED
      BY <3>1
  <2>3. ValidOffset(offset) /\ PageOffset(offset) = offset
    BY ValidationAssumption DEF ValidationAssumption, ValidOffset, PageOffset
  <2>4. ListContent(db, number, offset, f, c)
          = [status |-> 200, limit |-> limit,
             contents |-> ListWithFilter(db, limit, offset, f), total |-> Len(m)]
    BY <1>2, <2>1, <2>3 DEF ListContent
  <2>5. ListWithFilter(db, limit, offset, f) = Slice(m, limit, offset)
    BY <2>1, ListIsSlice DEF m
  <2> HIDE DEF limit
  <2> QED
    BY <2>2, <2>4, <2>5
<1>8. ASSUME first.status = 200
      PROVE  n \in Nat \ {0} /\ n * limit \in Nat /\ Len(m) <= n * limit
  <2>1. limit \in Nat \ {0}
    BY <1>6, <1>8
  <2> HIDE DEF limit
  <2>2. PICK q \in Nat : q = Len(m) \div limit
    BY <1>1, <2>1
  <2>3. Len(m) < q * limit + limit
    BY <1>1, <2>1, <2>2
  <2>4. (q + 1) * limit = q * limit + limit /\ (q + 1) * limit \in Nat /\ q * limit \in Nat
    BY <2>1
  <2> QED
    BY <1>1, <2>1, <2>2, <2>3, <2>4
<1>9. ASSUME first.status = 200
      PROVE  FlattenSeq([i \in 1 .. n |-> page(i - 1).contents]) = m
  <2>1. n \in Nat \ {0} /\ limit \in Nat \ {0} /\ n * limit \in Nat /\ Len(m) <= n * limit
    BY <1>6, <1>8, <1>9
  <2>2. \A i \in 1 .. n : page(i - 1).contents = Slice(m, limit, (i - 1) * limit)
    <3> TAKE i \in 1 .. n
    <3>1. i - 1 \in Nat
      <4> HIDE DEF n
      <4> QED
        BY <2>1
    <3> HIDE DEF page, n, limit
    <3> QED
      BY <1>7, <1>9, <3>1
  <2> HIDE DEF page, n, limit
  <2>3. [i \in 1 .. n |-> page(i - 1).contents]
          = [i \in 1 .. n |-> Slice(m, limit, (i - 1) * limit)]
    BY <2>2
  <2>4. FlattenSeq([i \in 1 .. n |-> Slice(m, limit, (i - 1) * limit)]) = Slice(m, n * limit, 0)
    BY <1>1, <2>1, SlicesFlattened
  <2>5. Slice(m, n * limit, 0) = m
    BY <1>1, <2>1, SliceEnds
  <2> QED
    BY <2>3, <2>4, <2>5
<1>10. ASSUME first.status = 200
       PROVE  page(n).contents = <<>> /\ \A i \in 0 .. n : page(i).status = 200
  <2>1. n \in Nat \ {0} /\ limit \in Nat \ {0} /\ n * limit \in Nat /\ Len(m) <= n * limit
    BY <1>6, <1>8, <1>10
  <2> HIDE DEF page, n, limit
  <2>2. page(n).contents = Slice(m, limit, n * limit)
    BY <1>7, <1>10, <2>1
  <2>3. Slice(m, limit, n * limit) = <<>>
    BY <1>1, <2>1, SliceEnds
  <2>4. \A i \in 0 .. n : page(i).status = 200
    BY <1>7, <1>10, <2>1
  <2> QED
    BY <2>2, <2>3, <2>4
<1>11. PagesCover(db, number, f, c)
  <2> DEFINE Covered(l, t) ==
        /\ \A i \in 0 .. t \div l + 1 : ListContent(db, number, i * l, f, c).status = 200
        /\ FlattenSeq([i \in 1 .. t \div l + 1 |->
                        ListContent(db, number, (i - 1) * l, f, c).contents]) = m
        /\ ListContent(db, number, (t \div l + 1) * l, f, c).contents = <<>>
  <2>1. ASSUME first.status = 200
        PROVE  first.limit = limit /\ first.total = Len(m) /\ Covered(limit, Len(m))
    BY <1>6, <1>9, <1>10, <2>1
  <2>2. first.status = 200 => Covered(first.limit, first.total)
    <3> HIDE DEF first, limit, Covered
    <3> QED
      BY <2>1
  <2>3. PagesCover(db, number, f, c) <=> (first.status = 200 => Covered(first.limit, first.total))
    BY DEF PagesCover, m
  <2> QED
    BY <2>2, <2>3
<1> QED
  BY <1>5, <1>11

\* Whatever the configuration, the database, the filter and the limit are, the pages
\* that a client asks for one after the other cover what matches the filter, once and
\* in order, and the total tells where they end (pagination.go:40-58, content.go:503, 525)
THEOREM PagesAlwaysCover == PagesCoverListing
<1> SUFFICES ASSUME NEW c \in Config, NEW db \in BoundedSeq(Content, MaxContents),
                    NEW f \in Filter, NEW number \in Number
             PROVE  /\ PagesCover(db, number, f, c)
                    /\ ListContent(db, number, None, f, c).status # 500
  BY DEF PagesCoverListing, EveryPageFits
<1>1. db \in Seq(Content)
  BY DEF BoundedSeq, SeqOf
<1> QED
  BY <1>1, PagesCoverAll
===============================================================================
