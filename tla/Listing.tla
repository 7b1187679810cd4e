-------------------------------- MODULE Listing --------------------------------
(***************************************************************************)
(* Listing contents: ListWithFilter and CountWithFilter of                 *)
(* pkg/storage/pagination.go, matchesFilter of filter.go, and ListContent  *)
(* of internal/handlers/content.go over one state of the database.  The    *)
(* iterator of BadgerDB gives the contents in the order of their keys.     *)
(***************************************************************************)
EXTENDS Validation, Sequences, SequencesExt

CONSTANTS
  ContentType,  \* content types, and those that have a slash in them
  SlashedType,
  Tag,          \* tags that ValidateTag accepts under every configuration
  MaxTime,      \* bound: times of creation
  MaxContents,  \* bound: contents in the database
  MaxNumber     \* bound: numbers in the query

ASSUME ListingAssumption ==
  /\ SlashedType \subseteq ContentType
  /\ MaxTime \in Nat /\ MaxContents \in Nat /\ MaxNumber \in Nat

Time    == 0 .. MaxTime
Content == [type : ContentType, tag : Tag, created : Time, expired : BOOLEAN]

\* The query parameters; None is one that is not given.  A Malformed tag is one that
\* ValidateTag refuses; include_expired means FALSE when it is not given.
Number == -1 .. MaxNumber \cup {None, Malformed}
Filter == [type : ContentType \cup {None}, tag : Tag \cup {None, Malformed},
           after : Time \cup {None, Malformed}, before : Time \cup {None, Malformed},
           expired : BOOLEAN \cup {Malformed}]

-------------------------------------------------------------------------------

\* ParseContentFilter without an error
ValidFilter(f) ==
  /\ f.type \in SlashedType \cup {None}
  /\ Malformed \notin {f.tag, f.after, f.before, f.expired}
  /\ f.after \in Time /\ f.before \in Time => f.after <= f.before

\* matchesFilter: created_after is inclusive, created_before is not
MatchesFilter(content, f) ==
  /\ content.expired => f.expired = TRUE
  /\ f.type \in {None, content.type}
  /\ f.tag \in {None, content.tag}
  /\ f.after # None => content.created >= f.after
  /\ f.before # None => content.created < f.before

\* Mutant: the offset skips contents that do not match as well
CollectSkipsAny(page, content, limit, offset, f) ==
  IF Len(page.contents) = limit THEN page
  ELSE IF page.skipped < offset THEN [page EXCEPT !.skipped = @ + 1]
  ELSE IF MatchesFilter(content, f) THEN [page EXCEPT !.contents = Append(@, content)]
  ELSE page

\* The body of the loop
Collect(page, content, limit, offset, f) ==
  IF Len(page.contents) = limit \/ ~MatchesFilter(content, f) THEN page
  ELSE IF page.skipped < offset THEN [page EXCEPT !.skipped = @ + 1]
  ELSE [page EXCEPT !.contents = Append(@, content)]

\* The page after each content that the iterator gives
Collecting(db, limit, offset, f) ==
  LET page[i \in 0 .. Len(db)] ==
        IF i = 0 THEN [skipped |-> 0, contents |-> <<>>]
        ELSE Collect(page[i - 1], db[i], limit, offset, f)
  IN  page

ListWithFilter(db, limit, offset, f) ==
  Collecting(db, limit, offset, f)[Len(db)].contents

CountWithFilter(db, f) == Cardinality({i \in DOMAIN db : MatchesFilter(db[i], f)})

\* ListContent: refused by the validator, an error of ListWithFilter, or a page
ListContent(db, limitParam, offsetParam, f, c) ==
  LET limit == PageLimit(limitParam) offset == PageOffset(offsetParam) IN
  IF ~(ValidLimit(limitParam, c) /\ ValidOffset(offsetParam) /\ ValidFilter(f))
  THEN [status |-> 400]
  ELSE IF limit <= 0 \/ offset < 0 THEN [status |-> 500]
  ELSE [status |-> 200, limit |-> limit,
        contents |-> ListWithFilter(db, limit, offset, f),
        total |-> CountWithFilter(db, f)]

-------------------------------------------------------------------------------
(* A client that asks for page after page of an unchanged database *)

\* The contents that match among the first of db, in their order
Matching(db, f) ==
  LET matching[i \in 0 .. Len(db)] ==
        IF i = 0 THEN <<>>
        ELSE IF MatchesFilter(db[i], f) THEN Append(matching[i - 1], db[i])
        ELSE matching[i - 1]
  IN  matching

\* The pages cover the contents that match: all of them, once, in order, and the
\* last page is empty
PagesCover(db, n, f, c) ==
  LET first   == ListContent(db, n, None, f, c)
      pages   == first.total \div first.limit + 1
      page(i) == ListContent(db, n, i * first.limit, f, c)
  IN  first.status = 200 =>
        /\ \A i \in 0 .. pages : page(i).status = 200
        /\ FlattenSeq([i \in 1 .. pages |-> page(i - 1).contents])
             = Matching(db, f)[Len(db)]
        /\ page(pages).contents = <<>>

EveryPageFits ==
  \A c \in Config, db \in BoundedSeq(Content, MaxContents), f \in Filter, n \in Number :
    /\ PagesCover(db, n, f, c)
    /\ ListContent(db, n, None, f, c).status # 500
===============================================================================
