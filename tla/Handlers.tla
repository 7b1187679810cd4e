-------------------------------- MODULE Handlers --------------------------------
(* What the handlers of a running Server answer to the requests to store and    *)
(* to list.  Both are functions of the request, so one state stands for all.   *)
EXTENDS Server, Listing

\* The two paths of the validator are meant to differ in cost only
\* (validation.go:57-58, 95).  They accept the same requests, except that
\* performance mode looks neither at the pattern and the length in bytes of the
\* tag, nor whether JSON data parses, nor for an expiry that is ten years off;
\* given that the configured limits are within those of the struct tags.
PathsAgree == Running => SameVerdict

\* A client that asks for page after page of an unchanged database, whatever limit
\* and filter are accepted, sees each content that matches exactly once and in
\* order, the pages end where the total says, and no accepted request fails
\* (pagination.go:40-58, content.go:503, 525).
PagesCoverListing == Running => EveryPageFits
===============================================================================
