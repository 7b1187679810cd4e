---------------------------- MODULE AcceptedWrites ----------------------------
(***************************************************************************)
(* What the write queue promises, whether it is shut down or not: a write  *)
(* that was accepted is committed at most once and not after it was        *)
(* reported as failed, but by the forced pass of a shutdown, after which   *)
(* nothing is committed; several writes may be committed together, and the *)
(* content of an id is then that of one of its writes just committed.      *)
(* Channels, batches, doublings, timers and pending items do not appear.   *)
(***************************************************************************)
CONSTANTS Task, Key, KeyOf, None

VARIABLES
  accepted,   \* writes the queue has taken
  committed,  \* writes that reached the database
  failed,     \* writes whose caller or error handler was told of a failure
  content,    \* the write each content id was last committed by
  mode        \* "open", "forcing" in the forced pass, "closed" after the last commit

vars == <<accepted, committed, failed, content, mode>>

InFlight == accepted \ (committed \cup failed)

Init ==
  /\ accepted = {}
  /\ committed = {}
  /\ failed = {}
  /\ content = [k \in Key |-> None]
  /\ mode = "open"

Accept(t) ==
  /\ t \in Task \ accepted
  /\ accepted' = accepted \cup {t}
  /\ UNCHANGED <<committed, failed, content, mode>>

\* Writes S are committed together, in the forced pass for a second time
Commit(S) ==
  /\ S # {}
  /\ \/ mode = "open" /\ S \subseteq InFlight
     \/ mode = "forcing" /\ S \subseteq accepted
  /\ committed' = committed \cup S
  /\ content' \in [Key -> Task \cup {None}]
  /\ \A k \in Key : LET new == {t \in S : KeyOf[t] = k} IN
       IF new = {} THEN content'[k] = content[k] ELSE content'[k] \in new
  /\ UNCHANGED <<accepted, failed, mode>>

\* One write is given up; part of it may have been committed before
Fail(t) ==
  /\ mode # "closed"
  /\ t \in accepted \ failed
  /\ failed' = failed \cup {t}
  /\ UNCHANGED <<accepted, committed, content, mode>>

\* A shutdown begins its forced pass
Force ==
  /\ mode = "open"
  /\ mode' = "forcing"
  /\ UNCHANGED <<accepted, committed, failed, content>>

\* A shutdown ends the pass, or has stopped the queue without one
Close ==
  /\ mode # "closed"
  /\ mode' = "closed"
  /\ UNCHANGED <<accepted, committed, failed, content>>

Next ==
  \/ \E t \in Task : Accept(t) \/ Fail(t)
  \/ \E S \in SUBSET accepted : Commit(S)
  \/ Force \/ Close

Spec == Init /\ [][Next]_vars
=============================================================================
