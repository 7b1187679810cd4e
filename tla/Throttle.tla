-------------------------------- MODULE Throttle --------------------------------
(***************************************************************************)
(* The request throttle of pkg/middleware/throttle.go: a channel of tokens *)
(* (slots) and a channel that counts the requests which found none         *)
(* (backlog).  One process per request; what happens inside next(c), and   *)
(* what comes before the throttle, is the business of the module that      *)
(* extends this one.  Every deferred function is a step of its own: the    *)
(* slot is given back before the place in the backlog.                     *)
(***************************************************************************)
EXTENDS Naturals, FiniteSets, Requests

CONSTANTS
  MaxConcurrent,  \* THROTTLE_LIMIT
  MaxBacklog      \* THROTTLE_BACKLOG_LIMIT

ASSUME ThrottleAssumption ==
  /\ MaxConcurrent \in Nat
  /\ MaxBacklog \in Nat

VARIABLES
  phase,    \* program counter of each request
  defers,   \* deferred functions a request has still to run
  slots,    \* len(rl.slots)
  backlog   \* len(rl.backlog)

throttleVars == <<phase, defers, slots, backlog>>

Phase  == {"new", "arriving", "busy", "waiting", "admitted", "handling",
           "returning", "done"}

ThrottleTypeOK ==
  /\ phase \in [Request -> Phase]
  /\ defers \in [Request -> SUBSET {"slot", "place"}]
  /\ slots \in 0 .. MaxConcurrent
  /\ backlog \in 0 .. MaxBacklog

\* NewRateLimiter: every token is in the channel
ThrottleInit ==
  /\ phase = [r \in Request |-> "new"]
  /\ defers = [r \in Request |-> {}]
  /\ slots = MaxConcurrent
  /\ backlog = 0

Holders(what)   == {r \in Request : what \in defers[r]}
CurrentRequests == MaxConcurrent - slots      \* GetStats

-------------------------------------------------------------------------------

\* A handler or a middleware returns: the deferred functions are next, and the
\* answer is written when there is none
Owes(r, D) == phase' = [phase EXCEPT ![r] = IF D = {} THEN "done" ELSE "returning"]

Return(r) == Owes(r, defers[r]) /\ UNCHANGED <<defers, slots, backlog>>

\* Stage 1 and the wait of stage 2: a token is received, next(c) is called
Admit(r) ==
  /\ slots > 0
  /\ slots' = slots - 1
  /\ defers' = [defers EXCEPT ![r] = @ \cup {"slot"}]
  /\ phase' = [phase EXCEPT ![r] = "admitted"]
  /\ UNCHANGED backlog

TakeSlot(r) == phase[r] = "arriving" /\ Admit(r)

\* Stage 1, default
NoSlot(r) ==
  /\ phase[r] = "arriving"
  /\ slots = 0
  /\ phase' = [phase EXCEPT ![r] = "busy"]
  /\ UNCHANGED <<defers, slots, backlog>>

\* Mutant: the backlog is not bounded
EnterBacklogAlways(r) ==
  /\ phase[r] = "busy"
  /\ backlog' = backlog + 1
  /\ defers' = [defers EXCEPT ![r] = @ \cup {"place"}]
  /\ phase' = [phase EXCEPT ![r] = "waiting"]
  /\ UNCHANGED slots

\* Stage 2: a place in the backlog
EnterBacklog(r) ==
  /\ phase[r] = "busy"
  /\ backlog < MaxBacklog
  /\ backlog' = backlog + 1
  /\ defers' = [defers EXCEPT ![r] = @ \cup {"place"}]
  /\ phase' = [phase EXCEPT ![r] = "waiting"]
  /\ UNCHANGED slots

\* Stage 3
RejectBusy(r) ==
  /\ phase[r] = "busy"
  /\ backlog = MaxBacklog
  /\ Return(r)

\* Mutant: the place is given back when the slot is found, and deferred as well
DequeueLeaves(r) ==
  /\ phase[r] = "waiting" /\ slots > 0
  /\ slots' = slots - 1
  /\ backlog' = backlog - 1
  /\ defers' = [defers EXCEPT ![r] = @ \cup {"slot"}]
  /\ phase' = [phase EXCEPT ![r] = "admitted"]

Dequeue(r) == phase[r] = "waiting" /\ Admit(r)

\* ctx.Done: the backlog timeout, or the client went away
BacklogTimeout(r) == phase[r] = "waiting" /\ Return(r)

\* rl.slots <- struct{}{}, which would block on a full channel
ReturnSlot(r) ==
  /\ phase[r] = "returning"
  /\ "slot" \in defers[r]
  /\ slots < MaxConcurrent
  /\ slots' = slots + 1
  /\ defers' = [defers EXCEPT ![r] = @ \ {"slot"}]
  /\ Owes(r, defers[r] \ {"slot"})
  /\ UNCHANGED backlog

\* <-rl.backlog, which would block on an empty channel
LeaveBacklog(r) ==
  /\ phase[r] = "returning"
  /\ defers[r] = {"place"}
  /\ backlog > 0
  /\ backlog' = backlog - 1
  /\ defers' = [defers EXCEPT ![r] = {}]
  /\ Owes(r, {})
  /\ UNCHANGED slots

ThrottleStep(r) ==
  \/ TakeSlot(r)
  \/ NoSlot(r)
  \/ EnterBacklog(r)
  \/ RejectBusy(r)
  \/ Dequeue(r)
  \/ BacklogTimeout(r)
  \/ ReturnSlot(r)
  \/ LeaveBacklog(r)

\* The goroutines that answer requests are no longer followed
ThrottleLeft ==
  /\ phase' = [r \in Request |-> "done"]
  /\ defers' = [r \in Request |-> {}]
  /\ slots' = MaxConcurrent
  /\ backlog' = 0

-------------------------------------------------------------------------------
(* Properties *)

\* No token and no place in the backlog is lost or made: each is in its
\* channel or owed by exactly one request, so giving one back never blocks, the
\* load that GetStats reports is the requests with a slot, and a request that
\* has left the throttle owes nothing (throttle.go:55-75, 97).
SlotsConserved ==
  /\ CurrentRequests = Cardinality(Holders("slot"))
  /\ backlog = Cardinality(Holders("place"))
  /\ \A r \in Request : phase[r] \in {"new", "arriving", "busy", "done"}
                          => defers[r] = {}
===============================================================================
