------------------------------ MODULE ServerProofs ------------------------------
(***************************************************************************)
(* Proofs about Server, for any finite set of requests, whatever they ask  *)
(* for, any limits of the throttle and any number of signals.              *)
(***************************************************************************)
EXTENDS Server, FiniteSetTheorems, TLAPS

\* The throttle: who holds what, by where a request is
PhaseOwes ==
  \A r \in Request :
    /\ phase[r] \in {"new", "arriving", "busy", "done"} => defers[r] = {}
    /\ phase[r] = "waiting" => defers[r] = {"place"}
SlotInv == ThrottleTypeOK /\ SlotsConserved /\ PhaseOwes

\* Every SIGTERM in the channel was sent, as long as none can be the server's own
TermIn(q) == \E i \in DOMAIN q : q[i] = "TERM"
SignalInv ==
  /\ quit \in Seq(Signal)
  /\ Len(quit) <= QuitCapacity
  /\ signals \in [Signal -> Nat]
  /\ window \in {"none", "open", "over"}
  /\ main = "serving" =>
       /\ \A i \in DOMAIN quit : quit[i] = "USR1" => signals["USR1"] > 0
       /\ window = "none" =>
            /\ TermIn(quit) => signals["TERM"] > 0
            /\ Len(quit) = 2 /\ quit[1] = "TERM" /\ quit[2] = "TERM" => signals["TERM"] > 1
       /\ window = "open" =>
            /\ signals["TERM"] > 0
            /\ TermIn(quit) => signals["TERM"] > 1
  /\ EmergencyOnlyOnPurpose

-------------------------------------------------------------------------------
(* What a step of the process does to the throttle *)

\* A request goes on without touching the channels
Goes(r) ==
  /\ \/ phase[r] = "new" /\ phase' = [phase EXCEPT ![r] = "arriving"]
     \/ phase[r] = "admitted" /\ phase' = [phase EXCEPT ![r] = "handling"]
  /\ UNCHANGED <<defers, slots, backlog>>

ThrottleMove ==
  \/ UNCHANGED throttleVars
  \/ ThrottleLeft
  \/ \E r \in Request : ThrottleStep(r) \/ Return(r) \/ Goes(r)

LEMMA MovesOfThrottle ==
  ASSUME [ServerNext]_serverVars
  PROVE  ThrottleMove
<1> USE DEF ThrottleMove, throttleVars
<1>1. ASSUME NEW r \in Request, Arrive(r)
      PROVE  Return(r) \/ Goes(r)
  BY <1>1 DEF Arrive, Goes
<1>2. ASSUME NEW r \in Request, RequestStep(r)
      PROVE  ThrottleStep(r) \/ Return(r) \/ Goes(r)
  BY <1>2 DEF RequestStep, RateLimited, InThrottle, Denied, Unauthorized, Enter, Reply,
     RequestTimeout, Goes
<1>3. ASSUME NEW r \in Request, Handle(r)
      PROVE  UNCHANGED throttleVars
  BY <1>3 DEF Handle
<1>4. ASSUME NEW s \in Signal, SendSignal(s)
      PROVE  UNCHANGED throttleVars
  BY <1>4 DEF SendSignal, MainKept
<1>5. ASSUME MainStep
      PROVE  UNCHANGED throttleVars \/ ThrottleLeft
  BY <1>5 DEF MainStep, ReceiveSignal, Drained, DrainTimeout, Close, MainReturns, Abandon, MainKept
<1>6. ASSUME DelayedSignal \/ ServeFails \/ CloseStep \/ Deadline \/ StorageStep
      PROVE  UNCHANGED throttleVars
  BY <1>6 DEF DelayedSignal, ServeFails, CloseStep, Deadline, StorageStep, MainKept
<1>7. ASSUME Exited \/ UNCHANGED serverVars
      PROVE  UNCHANGED throttleVars
  BY <1>7 DEF Exited, serverVars
<1> QED
  BY <1>1, <1>2, <1>3, <1>4, <1>5, <1>6, <1>7 DEF ServerNext

-------------------------------------------------------------------------------
(* Counting the holders of a slot or of a place *)

LEMMA HoldersFinite ==
  ASSUME NEW what
  PROVE  IsFiniteSet(Holders(what)) /\ Cardinality(Holders(what)) \in Nat
<1>1. Holders(what) \in SUBSET Request
  BY DEF Holders
<1> QED
  BY <1>1, RequestAssumption, FS_Subset, FS_CardinalityType DEF RequestAssumption

\* A request that takes one is one more
LEMMA HolderAdded ==
  ASSUME NEW what, NEW r \in Request, defers \in [Request -> SUBSET {"slot", "place"}],
         what \notin defers[r], defers' = [defers EXCEPT ![r] = @ \cup {what}]
  PROVE  /\ Cardinality(Holders(what)') = Cardinality(Holders(what)) + 1
         /\ \A other : other # what => Holders(other)' = Holders(other)
<1>1. Holders(what)' = Holders(what) \cup {r} /\ r \notin Holders(what)
  BY DEF Holders
<1>2. \A other : other # what => Holders(other)' = Holders(other)
  BY DEF Holders
<1> QED
  BY <1>1, <1>2, HoldersFinite, FS_AddElement

\* A request that gives one back is one less
LEMMA HolderRemoved ==
  ASSUME NEW what, NEW r \in Request, defers \in [Request -> SUBSET {"slot", "place"}],
         what \in defers[r], defers' = [defers EXCEPT ![r] = @ \ {what}]
  PROVE  /\ Cardinality(Holders(what)') = Cardinality(Holders(what)) - 1
         /\ \A other : other # what => Holders(other)' = Holders(other)
<1>1. Holders(what)' = Holders(what) \ {r} /\ r \in Holders(what)
  BY DEF Holders
<1>2. \A other : other # what => Holders(other)' = Holders(other)
  BY DEF Holders
<1> QED
  BY <1>1, <1>2, HoldersFinite, FS_RemoveElement

LEMMA HoldersKept ==
  ASSUME UNCHANGED defers, NEW what
  PROVE  Holders(what)' = Holders(what)
BY DEF Holders

\* When nobody holds anything, every token is in its channel
LEMMA NobodyHolds ==
  ASSUME \A r \in Request : defers[r] = {}, NEW what
  PROVE  Cardinality(Holders(what)) = 0
<1>1. Holders(what) = {}
  BY DEF Holders
<1> QED
  BY <1>1, FS_EmptySet

\* Where a request goes, and what it then owes
LEMMA OwesKeeps ==
  ASSUME ThrottleTypeOK, PhaseOwes, NEW r \in Request, NEW D \in SUBSET {"slot", "place"},
         defers' = [defers EXCEPT ![r] = D], Owes(r, D)
  PROVE  phase' \in [Request -> Phase] /\ defers' \in [Request -> SUBSET {"slot", "place"}]
         /\ PhaseOwes'
<1>1. phase' = [phase EXCEPT ![r] = IF D = {} THEN "done" ELSE "returning"]
  BY DEF Owes
<1>2. phase' \in [Request -> Phase] /\ defers' \in [Request -> SUBSET {"slot", "place"}]
  BY <1>1 DEF ThrottleTypeOK, Phase
<1>3. ASSUME NEW q \in Request
      PROVE  /\ phase'[q] \in {"new", "arriving", "busy", "done"} => defers'[q] = {}
             /\ phase'[q] = "waiting" => defers'[q] = {"place"}
  BY <1>1 DEF ThrottleTypeOK, PhaseOwes
<1> QED
  BY <1>2, <1>3 DEF PhaseOwes

LEMMA ReturnKeepsSlots ==
  ASSUME SlotInv, NEW r \in Request, Return(r)
  PROVE  SlotInv'
<1>1. defers[r] \in SUBSET {"slot", "place"} /\ defers' = [defers EXCEPT ![r] = defers[r]]
  BY DEF SlotInv, ThrottleTypeOK, Return
<1>2. phase' \in [Request -> Phase] /\ defers' \in [Request -> SUBSET {"slot", "place"}]
      /\ PhaseOwes'
  BY <1>1, OwesKeeps DEF SlotInv, Return
<1>3. ThrottleTypeOK'
  BY <1>2 DEF SlotInv, ThrottleTypeOK, Return
<1>4. /\ CurrentRequests' = Cardinality(Holders("slot"))'
      /\ backlog' = Cardinality(Holders("place"))'
  <2>1. Holders("slot")' = Holders("slot") /\ Holders("place")' = Holders("place")
    BY HoldersKept DEF Return
  <2> QED
    BY <2>1 DEF SlotInv, SlotsConserved, Return, CurrentRequests
<1>5. SlotsConserved'
  BY <1>2, <1>4 DEF SlotsConserved, PhaseOwes
<1> QED
  BY <1>2, <1>3, <1>5 DEF SlotInv

LEMMA AdmitKeepsSlots ==
  ASSUME SlotInv, NEW r \in Request, phase[r] \in {"arriving", "waiting"}, Admit(r)
  PROVE  SlotInv'
<1>1. "slot" \notin defers[r]
  BY DEF SlotInv, PhaseOwes
<1>2. ThrottleTypeOK'
  <2>1. slots' \in 0 .. MaxConcurrent
    BY ThrottleAssumption DEF SlotInv, ThrottleTypeOK, Admit, ThrottleAssumption
  <2> QED
    BY <2>1 DEF SlotInv, ThrottleTypeOK, Admit, Phase
<1>3. PhaseOwes'
  BY DEF SlotInv, ThrottleTypeOK, PhaseOwes, Admit
<1>4. /\ Cardinality(Holders("slot")') = Cardinality(Holders("slot")) + 1
      /\ Holders("place")' = Holders("place")
  BY <1>1, HolderAdded DEF SlotInv, ThrottleTypeOK, Admit
<1>5. /\ CurrentRequests' = Cardinality(Holders("slot")')
      /\ backlog' = Cardinality(Holders("place")')
  <2>1. CurrentRequests' = CurrentRequests + 1
    BY ThrottleAssumption DEF SlotInv, ThrottleTypeOK, ThrottleAssumption, CurrentRequests, Admit
  <2> QED
    BY <1>4, <2>1 DEF SlotInv, SlotsConserved, Admit
<1>6. SlotsConserved'
  BY <1>3, <1>5 DEF SlotsConserved, PhaseOwes
<1> QED
  BY <1>2, <1>3, <1>6 DEF SlotInv

LEMMA EnterBacklogKeepsSlots ==
  ASSUME SlotInv, NEW r \in Request, EnterBacklog(r)
  PROVE  SlotInv'
<1>1. defers[r] = {}
  BY DEF SlotInv, PhaseOwes, EnterBacklog
<1>2. ThrottleTypeOK'
  <2>1. backlog' \in 0 .. MaxBacklog
    BY ThrottleAssumption DEF SlotInv, ThrottleTypeOK, EnterBacklog, ThrottleAssumption
  <2> QED
    BY <2>1 DEF SlotInv, ThrottleTypeOK, EnterBacklog, Phase
<1>3. PhaseOwes'
  BY <1>1 DEF SlotInv, ThrottleTypeOK, PhaseOwes, EnterBacklog
<1>4. /\ Cardinality(Holders("place")') = Cardinality(Holders("place")) + 1
      /\ Holders("slot")' = Holders("slot")
  BY <1>1, HolderAdded DEF SlotInv, ThrottleTypeOK, EnterBacklog
<1>5. /\ CurrentRequests' = Cardinality(Holders("slot")')
      /\ backlog' = Cardinality(Holders("place")')
  BY <1>4 DEF SlotInv, SlotsConserved, EnterBacklog, CurrentRequests
<1>6. SlotsConserved'
  BY <1>3, <1>5 DEF SlotsConserved, PhaseOwes
<1> QED
  BY <1>2, <1>3, <1>6 DEF SlotInv

LEMMA ReturnSlotKeepsSlots ==
  ASSUME SlotInv, NEW r \in Request, ReturnSlot(r)
  PROVE  SlotInv'
<1>1. defers' = [defers EXCEPT ![r] = defers[r] \ {"slot"}]
      /\ defers[r] \ {"slot"} \in SUBSET {"slot", "place"}
  BY DEF SlotInv, ThrottleTypeOK, ReturnSlot
<1>2. phase' \in [Request -> Phase] /\ defers' \in [Request -> SUBSET {"slot", "place"}]
      /\ PhaseOwes'
  BY <1>1, OwesKeeps DEF SlotInv, ReturnSlot
<1>3. ThrottleTypeOK'
  BY <1>2, ThrottleAssumption DEF SlotInv, ThrottleTypeOK, ReturnSlot, ThrottleAssumption
<1>4. /\ Cardinality(Holders("slot")') = Cardinality(Holders("slot")) - 1
      /\ Holders("place")' = Holders("place")
  BY HolderRemoved DEF SlotInv, ThrottleTypeOK, ReturnSlot
<1>5. /\ CurrentRequests' = Cardinality(Holders("slot")')
      /\ backlog' = Cardinality(Holders("place")')
  <2>1. CurrentRequests' = CurrentRequests - 1
    BY ThrottleAssumption DEF SlotInv, ThrottleTypeOK, ThrottleAssumption, CurrentRequests, ReturnSlot
  <2> QED
    BY <1>4, <2>1 DEF SlotInv, SlotsConserved, ReturnSlot
<1>6. SlotsConserved'
  BY <1>2, <1>5 DEF SlotsConserved, PhaseOwes
<1> QED
  BY <1>2, <1>3, <1>6 DEF SlotInv

LEMMA LeaveBacklogKeepsSlots ==
  ASSUME SlotInv, NEW r \in Request, LeaveBacklog(r)
  PROVE  SlotInv'
<1>1. defers' = [defers EXCEPT ![r] = {}]
      /\ defers' = [defers EXCEPT ![r] = @ \ {"place"}]
  BY DEF SlotInv, ThrottleTypeOK, LeaveBacklog
<1>2. phase' \in [Request -> Phase] /\ defers' \in [Request -> SUBSET {"slot", "place"}]
      /\ PhaseOwes'
  BY <1>1, OwesKeeps DEF SlotInv, LeaveBacklog
<1>3. ThrottleTypeOK'
  BY <1>2, ThrottleAssumption DEF SlotInv, ThrottleTypeOK, LeaveBacklog, ThrottleAssumption
<1>4. /\ Cardinality(Holders("place")') = Cardinality(Holders("place")) - 1
      /\ Holders("slot")' = Holders("slot")
  BY <1>1, HolderRemoved DEF SlotInv, ThrottleTypeOK, LeaveBacklog
<1>5. /\ CurrentRequests' = Cardinality(Holders("slot")')
      /\ backlog' = Cardinality(Holders("place")')
  BY <1>4 DEF SlotInv, SlotsConserved, LeaveBacklog, CurrentRequests
<1>6. SlotsConserved'
  BY <1>2, <1>5 DEF SlotsConserved, PhaseOwes
<1> QED
  BY <1>2, <1>3, <1>6 DEF SlotInv

\* Steps that touch neither channel
LEMMA MovingKeepsSlots ==
  ASSUME SlotInv, NEW r \in Request, NoSlot(r) \/ Goes(r)
  PROVE  SlotInv'
<1>1. UNCHANGED <<defers, slots, backlog>>
  BY DEF NoSlot, Goes
<1>2. ThrottleTypeOK'
  BY <1>1 DEF SlotInv, ThrottleTypeOK, NoSlot, Goes, Phase
<1>3. PhaseOwes'
  BY <1>1 DEF SlotInv, ThrottleTypeOK, PhaseOwes, NoSlot, Goes
<1>4. SlotsConserved'
  <2>1. Holders("slot")' = Holders("slot") /\ Holders("place")' = Holders("place")
    BY <1>1, HoldersKept
  <2>2. CurrentRequests' = Cardinality(Holders("slot")')
        /\ backlog' = Cardinality(Holders("place")')
    BY <1>1, <2>1 DEF SlotInv, SlotsConserved, CurrentRequests
  <2> QED
    BY <1>3, <2>2 DEF SlotsConserved, PhaseOwes
<1> QED
  BY <1>2, <1>3, <1>4 DEF SlotInv

LEMMA LeavingKeepsSlots ==
  ASSUME ThrottleLeft
  PROVE  SlotInv'
<1>1. \A r \in Request : defers'[r] = {}
  BY DEF ThrottleLeft
<1>2. Cardinality(Holders("slot"))' = 0 /\ Cardinality(Holders("place"))' = 0
  <2>1. Holders("slot")' = {} /\ Holders("place")' = {}
    BY <1>1 DEF Holders
  <2> QED
    BY <2>1, FS_EmptySet
<1>3. ThrottleTypeOK'
  BY ThrottleAssumption DEF ThrottleLeft, ThrottleTypeOK, ThrottleAssumption, Phase
<1>4. PhaseOwes'
  BY DEF ThrottleLeft, PhaseOwes
<1>5. CurrentRequests' = 0 /\ backlog' = 0
  BY ThrottleAssumption DEF ThrottleLeft, ThrottleAssumption, CurrentRequests
<1>6. SlotsConserved'
  BY <1>2, <1>4, <1>5 DEF SlotsConserved, PhaseOwes
<1> QED
  BY <1>3, <1>4, <1>6 DEF SlotInv

LEMMA SlotsStutter ==
  ASSUME SlotInv, UNCHANGED throttleVars
  PROVE  SlotInv'
<1>1. UNCHANGED <<phase, defers, slots, backlog>>
  BY DEF throttleVars
<1>2. Holders("slot")' = Holders("slot") /\ Holders("place")' = Holders("place")
  BY <1>1, HoldersKept
<1> QED
  BY <1>1, <1>2 DEF SlotInv, ThrottleTypeOK, PhaseOwes, SlotsConserved, CurrentRequests

LEMMA SlotsInit == ServerInit => SlotInv
<1> SUFFICES ASSUME ServerInit PROVE SlotInv
  OBVIOUS
<1>1. /\ phase = [r \in Request |-> "new"] /\ defers = [r \in Request |-> {}]
      /\ slots = MaxConcurrent /\ backlog = 0
  BY DEF ServerInit, ThrottleInit
<1>2. Cardinality(Holders("slot")) = 0 /\ Cardinality(Holders("place")) = 0
  BY <1>1, NobodyHolds
<1>3. ThrottleTypeOK
  BY <1>1, ThrottleAssumption DEF ThrottleTypeOK, ThrottleAssumption, Phase
<1>4. CurrentRequests = 0
  BY <1>1, ThrottleAssumption DEF ThrottleAssumption, CurrentRequests
<1> QED
  BY <1>1, <1>2, <1>3, <1>4 DEF SlotInv, PhaseOwes, SlotsConserved

LEMMA SlotsNext == SlotInv /\ [ServerNext]_serverVars => SlotInv'
<1> SUFFICES ASSUME SlotInv, [ServerNext]_serverVars PROVE SlotInv'
  OBVIOUS
<1>1. ThrottleMove
  BY MovesOfThrottle
<1>2. ASSUME NEW r \in Request, ThrottleStep(r) PROVE SlotInv'
  <2>1. CASE TakeSlot(r)
    BY <2>1, AdmitKeepsSlots DEF TakeSlot
  <2>2. CASE NoSlot(r)
    BY <2>2, MovingKeepsSlots
  <2>3. CASE EnterBacklog(r)
    BY <2>3, EnterBacklogKeepsSlots
  <2>4. CASE RejectBusy(r)
    BY <2>4, ReturnKeepsSlots DEF RejectBusy
  <2>5. CASE Dequeue(r)
    BY <2>5, AdmitKeepsSlots DEF Dequeue
  <2>6. CASE BacklogTimeout(r)
    BY <2>6, ReturnKeepsSlots DEF BacklogTimeout
  <2>7. CASE ReturnSlot(r)
    BY <2>7, ReturnSlotKeepsSlots
  <2>8. CASE LeaveBacklog(r)
    BY <2>8, LeaveBacklogKeepsSlots
  <2> QED
    BY <1>2, <2>1, <2>2, <2>3, <2>4, <2>5, <2>6, <2>7, <2>8 DEF ThrottleStep
<1>3. ASSUME NEW r \in Request, Return(r) PROVE SlotInv'
  BY <1>3, ReturnKeepsSlots
<1>4. ASSUME NEW r \in Request, Goes(r) PROVE SlotInv'
  BY <1>4, MovingKeepsSlots
<1> QED
  BY <1>1, <1>2, <1>3, <1>4, SlotsStutter, LeavingKeepsSlots DEF ThrottleMove

\* No token and no place in the backlog is lost or made, however requests arrive,
\* are refused, time out or are abandoned (throttle.go:55-75, 97).
THEOREM TokensAreConserved == Safety => []SlotsConserved
<1>1. SlotInv => SlotsConserved
  BY DEF SlotInv
<1> QED
  BY <1>1, SlotsInit, SlotsNext, PTL DEF Safety

-------------------------------------------------------------------------------
(* Signals *)

signalVars == <<main, quit, window, signals>>

\* All but these steps leave the loop and its channel alone
LEMMA MovesOfSignals ==
  ASSUME [ServerNext]_serverVars
  PROVE  \/ UNCHANGED signalVars
         \/ \E s \in Signal : SendSignal(s)
         \/ DelayedSignal \/ ReceiveSignal
         \/ /\ main \notin {"serving", "emergency"} \/ main' = "exited"
            /\ main' \notin {"serving", "emergency"}
            /\ UNCHANGED <<quit, window, signals>>
<1> USE DEF signalVars
<1>1. ASSUME NEW r \in Request, Arrive(r) \/ RequestStep(r) \/ Handle(r)
      PROVE  UNCHANGED signalVars
  BY <1>1 DEF Arrive, RequestStep, Handle, RateLimited, InThrottle, Denied, Unauthorized,
     Enter, Reply, RequestTimeout, mainVars
<1>2. ASSUME MainStep
      PROVE  \/ ReceiveSignal
             \/ /\ main \notin {"serving", "emergency"} \/ main' = "exited"
                /\ main' \notin {"serving", "emergency"}
                /\ UNCHANGED <<quit, window, signals>>
             \/ UNCHANGED signalVars
  <2>1. CASE ReceiveSignal
    BY <2>1
  <2>2. CASE Drained \/ DrainTimeout \/ MainReturns \/ Abandon
    BY <2>2 DEF Drained, DrainTimeout, MainReturns, Abandon
  <2>3. CASE Close
    BY <2>3 DEF Close, mainVars
  <2> QED
    BY <1>2, <2>1, <2>2, <2>3 DEF MainStep
<1>3. ASSUME ServeFails
      PROVE  main' = "exited" /\ UNCHANGED <<quit, window, signals>>
  BY <1>3 DEF ServeFails
<1>4. ASSUME CloseStep \/ Deadline \/ StorageStep
      PROVE  UNCHANGED signalVars
  BY <1>4 DEF CloseStep, Deadline, StorageStep, mainVars
<1>5. ASSUME Exited \/ UNCHANGED serverVars
      PROVE  UNCHANGED signalVars
  BY <1>5 DEF Exited, serverVars, mainVars
<1> QED
  BY <1>1, <1>2, <1>3, <1>4, <1>5 DEF ServerNext

\* A signal is put in the channel, or does not fit
LEMMA SendKeepsSignals ==
  ASSUME SignalInv, NEW s \in Signal, SendSignal(s)
  PROVE  SignalInv'
<1> USE DEF SignalInv
<1>1. /\ main = "serving" /\ main' = main /\ window' = window
      /\ signals' = [signals EXCEPT ![s] = @ + 1]
      /\ quit' = IF Len(quit) < QuitCapacity THEN Append(quit, s) ELSE quit
      /\ s = "USR1" \/ s = "TERM"
  BY DEF SendSignal, Signal
<1>2. signals' \in [Signal -> Nat]
      /\ signals'["USR1"] >= signals["USR1"] /\ signals'["TERM"] >= signals["TERM"]
      /\ signals'[s] = signals[s] + 1
  BY <1>1 DEF Signal
<1>3. quit' \in Seq(Signal) /\ Len(quit') <= QuitCapacity /\ Len(quit) \in Nat
  BY <1>1 DEF QuitCapacity
<1>4. /\ \A i \in DOMAIN quit' : quit'[i] = s \/ (i \in DOMAIN quit /\ quit'[i] = quit[i])
      /\ Len(quit') = 2 => quit'[1] = quit[1] /\ 1 \in DOMAIN quit
      /\ Len(quit') = 2 => \/ quit'[2] = s
                           \/ Len(quit) = 2 /\ quit'[2] = quit[2] /\ quit'[1] = quit[1]
  BY <1>1, <1>3 DEF QuitCapacity
<1>5. \A i \in DOMAIN quit' : quit'[i] = "USR1" => signals'["USR1"] > 0
  BY <1>1, <1>2, <1>4 DEF Signal
<1>6. ASSUME window' = "none"
      PROVE  /\ TermIn(quit') => signals'["TERM"] > 0
             /\ Len(quit') = 2 /\ quit'[1] = "TERM" /\ quit'[2] = "TERM" => signals'["TERM"] > 1
  <2>1. TermIn(quit') => signals'["TERM"] > 0
    BY <1>1, <1>2, <1>4, <1>6 DEF TermIn, Signal
  <2>2. ASSUME Len(quit') = 2, quit'[1] = "TERM", quit'[2] = "TERM"
        PROVE  signals'["TERM"] > 1
    <3>1. signals["TERM"] > 0
      BY <1>1, <1>4, <1>6, <2>2 DEF TermIn
    <3> QED
      BY <1>1, <1>2, <1>4, <1>6, <2>2, <3>1 DEF Signal
  <2> QED
    BY <2>1, <2>2
<1>7. ASSUME window' = "open"
      PROVE  signals'["TERM"] > 0 /\ (TermIn(quit') => signals'["TERM"] > 1)
  BY <1>1, <1>2, <1>4, <1>7 DEF TermIn, Signal
<1> QED
  BY <1>1, <1>2, <1>3, <1>5, <1>6, <1>7 DEF EmergencyOnlyOnPurpose

LEMMA DelayedKeepsSignals ==
  ASSUME SignalInv, DelayedSignal
  PROVE  SignalInv'
<1> USE DEF SignalInv
<1>1. /\ main = "serving" /\ main' = main /\ window' = "over" /\ signals' = signals
      /\ quit' = IF Len(quit) < QuitCapacity THEN Append(quit, "TERM") ELSE quit
  BY DEF DelayedSignal
<1>2. quit' \in Seq(Signal) /\ Len(quit') <= QuitCapacity
  BY <1>1 DEF QuitCapacity, Signal
<1>3. \A i \in DOMAIN quit' : quit'[i] = "USR1" => i \in DOMAIN quit /\ quit[i] = "USR1"
  BY <1>1 DEF QuitCapacity
<1> QED
  BY <1>1, <1>2, <1>3 DEF EmergencyOnlyOnPurpose

\* What the loop takes for an emergency was sent as one
LEMMA ReceiveKeepsSignals ==
  ASSUME SignalInv, ReceiveSignal
  PROVE  SignalInv'
<1> USE DEF SignalInv
<1> DEFINE sig == Head(quit)
<1>0. quit \in Seq(Signal) /\ quit # <<>> /\ Len(quit) <= 2
  BY DEF ReceiveSignal, QuitCapacity
<1>a. Len(quit) \in 1 .. 2 /\ 1 \in DOMAIN quit /\ sig = quit[1]
  <2>1. Len(quit) \in Nat /\ DOMAIN quit = 1 .. Len(quit)
    BY <1>0
  <2>2. Len(quit) # 0
    BY <1>0
  <2>3. sig = quit[1]
    BY <1>0
  <2> QED
    BY <1>0, <2>1, <2>2, <2>3
<1>b. Tail(quit) \in Seq(Signal) /\ Len(Tail(quit)) = Len(quit) - 1
  BY <1>0
<1>c. \A i \in DOMAIN Tail(quit) : i + 1 \in DOMAIN quit /\ Tail(quit)[i] = quit[i + 1]
  BY <1>0
<1>1. /\ main = "serving" /\ quit # <<>> /\ 1 \in DOMAIN quit /\ sig = quit[1]
      /\ Tail(quit) \in Seq(Signal) /\ Len(Tail(quit)) = Len(quit) - 1
      /\ \A i \in DOMAIN Tail(quit) : i + 1 \in DOMAIN quit /\ Tail(quit)[i] = quit[i + 1]
      /\ Len(quit) \in 1 .. 2
  BY <1>0, <1>a, <1>b, <1>c DEF ReceiveSignal
<1> HIDE DEF sig
<1>2. CASE /\ sig = "TERM" /\ window = "none"
           /\ window' = "open" /\ quit' = Tail(quit) /\ UNCHANGED <<main, signals>>
  <2>1. signals["TERM"] > 0
    BY <1>1, <1>2 DEF TermIn
  <2>2. TermIn(quit') => signals["TERM"] > 1
    BY <1>1, <1>2 DEF TermIn
  <2>3. \A i \in DOMAIN quit' : quit'[i] = "USR1" => signals["USR1"] > 0
    BY <1>1, <1>2
  <2> QED
    BY <1>1, <1>2, <2>1, <2>2, <2>3 DEF EmergencyOnlyOnPurpose, QuitCapacity
<1>3. CASE /\ sig = "USR1" \/ (sig = "TERM" /\ window = "open")
           /\ main' = "emergency" /\ quit' = <<>> /\ window' = "none" /\ UNCHANGED signals
  <2>1. signals["USR1"] > 0 \/ signals["TERM"] > 1
    BY <1>1, <1>3 DEF TermIn
  <2> QED
    BY <1>3, <2>1 DEF EmergencyOnlyOnPurpose, QuitCapacity
<1>4. CASE /\ main' = "draining" /\ quit' = <<>> /\ window' = "none" /\ signals' = NoSignals
  BY <1>4 DEF EmergencyOnlyOnPurpose, QuitCapacity, NoSignals
<1> QED
  BY <1>2, <1>3, <1>4 DEF ReceiveSignal, sig

LEMMA SignalsInit == ServerInit => SignalInv
BY DEF ServerInit, SignalInv, QuitCapacity, NoSignals, EmergencyOnlyOnPurpose, TermIn

LEMMA SignalsNext == SignalInv /\ [ServerNext]_serverVars => SignalInv'
<1> SUFFICES ASSUME SignalInv, [ServerNext]_serverVars PROVE SignalInv'
  OBVIOUS
<1>1. CASE UNCHANGED signalVars
  BY <1>1 DEF SignalInv, signalVars, EmergencyOnlyOnPurpose
<1>2. CASE /\ main \notin {"serving", "emergency"} \/ main' = "exited"
           /\ main' \notin {"serving", "emergency"}
           /\ UNCHANGED <<quit, window, signals>>
  BY <1>2 DEF SignalInv, EmergencyOnlyOnPurpose
<1> QED
  BY <1>1, <1>2, MovesOfSignals, SendKeepsSignals, DelayedKeepsSignals, ReceiveKeepsSignals

\* The process leaves without flushing only on SIGUSR1 or on two SIGINT or SIGTERM,
\* never because of the signal it sends itself, whatever is dropped or delayed
\* (main.go:404-437).
THEOREM EmergencyIsWanted == Safety => []EmergencyOnlyOnPurpose
<1>1. SignalInv => EmergencyOnlyOnPurpose
  BY DEF SignalInv
<1> QED
  BY <1>1, SignalsInit, SignalsNext, PTL DEF Safety

-------------------------------------------------------------------------------
(* Components *)

LEMMA FourComponents ==
  /\ Health # Backup /\ Health # GC /\ Health # Queue
  /\ Backup # GC /\ Backup # Queue /\ GC # Queue
<1>1. ASSUME NEW a, NEW b, NEW c
      PROVE  IsFiniteSet({a, b, c}) /\ Cardinality({a, b, c}) <= 3
  <2>1. IsFiniteSet({a}) /\ Cardinality({a}) = 1
    BY FS_Singleton
  <2>2. IsFiniteSet({a} \cup {b}) /\ Cardinality({a} \cup {b}) <= 2
    BY <2>1, FS_AddElement
  <2>3. IsFiniteSet({a} \cup {b}) /\ Cardinality({a} \cup {b}) \in Nat
    BY <2>2, FS_CardinalityType
  <2>4. IsFiniteSet(({a} \cup {b}) \cup {c}) /\ Cardinality(({a} \cup {b}) \cup {c}) <= 3
    BY <2>2, <2>3, FS_AddElement
  <2>5. ({a} \cup {b}) \cup {c} = {a, b, c}
    OBVIOUS
  <2> QED
    BY <2>4, <2>5
<1>2. ~(4 <= 3)
  OBVIOUS
<1>3. ASSUME NEW a, NEW b, NEW c, Component = {a, b, c}
      PROVE  FALSE
  <2>1. Cardinality(Component) <= 3
    BY <1>1, <1>3
  <2> QED
    BY <1>2, <2>1, ComponentsAssumption DEF ComponentsAssumption
<1>4. Component = {Health, Backup, GC, Queue}
  BY DEF Component, Loop
<1>5. Health # Backup
  BY <1>4, <1>3
<1>6. Health # GC
  <2>1. Health = GC => Component = {Health, Backup, Queue}
    BY <1>4
  <2> QED
    BY <2>1, <1>3
<1>7. Health # Queue
  <2>1. Health = Queue => Component = {Health, Backup, GC}
    BY <1>4
  <2> QED
    BY <2>1, <1>3
<1>8. Backup # GC
  <2>1. Backup = GC => Component = {Health, Backup, Queue}
    BY <1>4
  <2> QED
    BY <2>1, <1>3
<1>9. Backup # Queue
  <2>1. Backup = Queue => Component = {Health, Backup, GC}
    BY <1>4
  <2> QED
    BY <2>1, <1>3
<1>10. GC # Queue
  <2>1. GC = Queue => Component = {Health, Backup, GC}
    BY <1>4
  <2> QED
    BY <2>1, <1>3
<1> QED
  BY <1>5, <1>6, <1>7, <1>8, <1>9, <1>10

\* A request is not a loop
LEMMA RequestsAreNoLoops ==
  ASSUME NEW r \in Request
  PROVE  r \in Job /\ r \notin Loop /\ After(r) = "ended"
BY ComponentsAssumption DEF ComponentsAssumption, Component, Job, After

\* What a step of a request does to the components: its handler begins or ends
HandlerMove(r) ==
  /\ \/ \E state \in {"none", "ended", "storing", "entered", "collecting"} : Becomes(r, state)
     \/ work' = work
  /\ JobKept /\ UNCHANGED afterStop

\* ... and the main goroutine's drain, when it gives up on requests: their handlers
\* are to be called, or are done with; no loop and no worker is touched
Left ==
  /\ work' \in [Job -> Work]
  /\ \A j \in Job : \/ work'[j] = work[j]
                    \/ j \in Request /\ work'[j] \in {"called", "none"}
                    \/ work[j] \in Finished /\ work'[j] = "none"
  /\ JobKept /\ UNCHANGED afterStop

\* ... and an emergency to the queue
QueueAbandoned ==
  /\ running' = running \ {Queue}
  /\ CloseKept /\ UNCHANGED <<stopper, closer, expired>>

ComponentMove ==
  \/ UNCHANGED componentVars
  \/ \E r \in Request : HandlerMove(r)
  \/ Left
  \/ CloseBegin \/ QueueAbandoned
  \/ CloserStep \/ CloseExpires \/ JobStep \/ StopperStep \/ WorkerStep \/ FlushSettles

LEMMA HandlerBegins ==
  ASSUME NEW r \in Request, NEW kind \in Kind, Begin(r, kind)
  PROVE  \E state \in {"ended", "storing", "entered", "collecting"} : Becomes(r, state)
BY RequestsAreNoLoops DEF Begin, BeginStore, BeginBackup, BeginCollect, BeginRead, BackupBegin

LEMMA MovesOfComponents ==
  ASSUME ComponentsTypeOK, [ServerNext]_serverVars
  PROVE  ComponentMove
<1> USE DEF ComponentMove
<1>0. \A r \in Request : Kinds[r] \subseteq Kind
  BY ServerAssumption DEF ServerAssumption
<1>1. ASSUME NEW r \in Request, Arrive(r)
      PROVE  ComponentMove
  BY <1>1 DEF Arrive
<1>2. ASSUME NEW r \in Request, RequestStep(r)
      PROVE  UNCHANGED componentVars \/ HandlerMove(r)
  <2>1. CASE RateLimited(r) \/ InThrottle(r) \/ Denied(r)
    BY <2>1 DEF RateLimited, InThrottle, Denied
  <2>2. CASE Unauthorized(r)
    BY <2>2 DEF Unauthorized, HandlerMove
  <2>3. CASE Enter(r)
    BY <1>0, <2>3, HandlerBegins DEF Enter, HandlerMove
  <2>4. CASE Reply(r)
    BY <2>4 DEF Reply, HandlerMove
  <2>5. CASE RequestTimeout(r)
    <3>1. Becomes(r, work[r]) => work' = work
      BY DEF Becomes, ComponentsTypeOK
    <3> QED
      BY <2>5, <3>1 DEF RequestTimeout, HandlerMove
  <2> QED
    BY <1>2, <2>1, <2>2, <2>3, <2>4, <2>5 DEF RequestStep
<1>3. ASSUME NEW r \in Request, Handle(r)
      PROVE  HandlerMove(r)
  BY <1>0, <1>3, HandlerBegins DEF Handle, HandlerMove
<1>4. ASSUME NEW s \in Signal, SendSignal(s)
      PROVE  UNCHANGED componentVars
  BY <1>4 DEF SendSignal, MainKept
<1>5. ASSUME MainStep
      PROVE  ComponentMove
  <2>1. CASE ReceiveSignal \/ Drained \/ MainReturns
    BY <2>1 DEF ReceiveSignal, Drained, MainReturns, MainKept
  <2>2. CASE DrainTimeout
    <3>1. \A j \in Job : /\ Detached(j) \in Work
                         /\ \/ Detached(j) = work[j]
                            \/ j \in Request /\ Detached(j) \in {"called", "none"}
                            \/ work[j] \in Finished /\ Detached(j) = "none"
      BY DEF Detached, ComponentsTypeOK, Work
    <3>2. work' = [j \in Job |-> Detached(j)] /\ JobKept /\ UNCHANGED afterStop
      BY <2>2 DEF DrainTimeout
    <3>3. \A j \in Job : work'[j] = Detached(j)
      BY <3>2
    <3>4. work' \in [Job -> Work]
      BY <3>1, <3>2
    <3>5. Left
      BY <3>1, <3>2, <3>3, <3>4 DEF Left
    <3> QED
      BY <3>5
  <2>3. CASE Close
    BY <2>3 DEF Close
  <2>4. CASE Abandon
    BY <2>4 DEF Abandon, QueueAbandoned
  <2> QED
    BY <1>5, <2>1, <2>2, <2>3, <2>4 DEF MainStep
<1>6. ASSUME DelayedSignal \/ ServeFails
      PROVE  UNCHANGED componentVars
  BY <1>6 DEF DelayedSignal, ServeFails, MainKept
<1>7. ASSUME CloseStep \/ Deadline \/ StorageStep
      PROVE  ComponentMove
  BY <1>7 DEF CloseStep, Deadline, StorageStep
<1>8. ASSUME Exited \/ UNCHANGED serverVars
      PROVE  UNCHANGED componentVars
  BY <1>8 DEF Exited, serverVars
<1> QED
  BY <1>1, <1>2, <1>3, <1>4, <1>5, <1>6, <1>7, <1>8 DEF ServerNext

-------------------------------------------------------------------------------
(* Types of the components *)

LEMMA BecomesTyped ==
  ASSUME ComponentsTypeOK, NEW j \in Job, NEW state \in Work, Becomes(j, state)
  PROVE  work' \in [Job -> Work]
BY DEF ComponentsTypeOK, Becomes

LEMMA AfterTyped ==
  ASSUME NEW j
  PROVE  After(j) \in {"waiting", "ended"} /\ After(j) \in Work
BY DEF After, Work

\* The steps of a job change work and afterStop only
LEMMA JobStepTyped ==
  ASSUME ComponentsTypeOK, JobKept, work' \in [Job -> Work], afterStop' \subseteq Job
  PROVE  ComponentsTypeOK'
BY DEF ComponentsTypeOK, JobKept, queueVars

LEMMA LoopsAreJobs ==
  /\ Health \in Job /\ Backup \in Job /\ GC \in Job
  /\ Health \in Component /\ Backup \in Component /\ GC \in Component
  /\ Queue \in Component /\ Queue \in Job /\ Request \subseteq Job
  /\ Health \in Loop /\ Backup \in Loop /\ GC \in Loop
BY DEF Job, Loop, Component

LEMMA ComponentTypesNext ==
  ASSUME ComponentsTypeOK, ComponentMove
  PROVE  ComponentsTypeOK'
<1> USE LoopsAreJobs
<1>1. CASE UNCHANGED componentVars
  BY <1>1 DEF ComponentsTypeOK, componentVars, queueVars
<1>2. ASSUME NEW r \in Request, HandlerMove(r)
      PROVE  ComponentsTypeOK'
  <2>1. work' \in [Job -> Work]
    BY <1>2 DEF HandlerMove, ComponentsTypeOK, Becomes, Work
  <2>2. JobKept /\ afterStop' \subseteq Job
    BY <1>2 DEF HandlerMove, ComponentsTypeOK
  <2> QED
    BY <2>1, <2>2, JobStepTyped
<1>3. CASE Left
  BY <1>3, JobStepTyped DEF Left, ComponentsTypeOK
<1>4. CASE CloseBegin
  BY <1>4 DEF CloseBegin, CloseKept, QueueKept, queueVars, ComponentsTypeOK, Closer
<1>5. CASE QueueAbandoned
  BY <1>5 DEF QueueAbandoned, CloseKept, QueueKept, queueVars, ComponentsTypeOK
<1>6. CASE CloseExpires
  BY <1>6 DEF CloseExpires, CloseKept, QueueKept, queueVars, ComponentsTypeOK
<1>7. CASE WorkerStep
  <2>1. CASE WorkerBegins
    <3>1. work' \in [Job -> Work]
      BY <2>1, BecomesTyped DEF WorkerBegins, Work
    <3>2. queued' \subseteq Request /\ batch' \subseteq Request
      BY <2>1 DEF WorkerBegins, ComponentsTypeOK
    <3> QED
      BY <2>1, <3>1, <3>2 DEF WorkerBegins, QueueKept, ComponentsTypeOK
  <2>2. CASE WorkerEnds
    <3>1. work' \in [Job -> Work]
      BY <2>2, BecomesTyped DEF WorkerEnds, Work
    <3>2. committed' \subseteq Request /\ failed' \subseteq Request
      BY <2>2 DEF WorkerEnds, Settle, ComponentsTypeOK
    <3> QED
      BY <2>2, <3>1, <3>2 DEF WorkerEnds, QueueKept, ComponentsTypeOK
  <2>3. CASE WorkerExits
    <3>1. work' \in [Job -> Work]
      BY <2>3, BecomesTyped DEF WorkerExits, Work
    <3> QED
      BY <2>3, <3>1 DEF WorkerExits, QueueKept, queueVars, ComponentsTypeOK
  <2> QED
    BY <1>7, <2>1, <2>2, <2>3 DEF WorkerStep
<1>11. CASE FlushSettles
  <2>1. committed' \subseteq Request /\ failed' \subseteq Request
    BY <1>11 DEF FlushSettles, Settle, ComponentsTypeOK
  <2>2. closer' \in Closer /\ queued' \subseteq Request
    BY <1>11 DEF FlushSettles, Closer
  <2> QED
    BY <1>11, <2>1, <2>2 DEF FlushSettles, QueueKept, ComponentsTypeOK
<1>8. CASE CloserStep
  <2>1. ASSUME NEW c \in Component, StopComponent(c)
        PROVE  ComponentsTypeOK'
    <3>1. StopperBegins(c) \in Stopper
      BY DEF StopperBegins, Stopper, Component, Loop
    <3> QED
      BY <2>1, <3>1 DEF StopComponent, StopKept, queueVars, ComponentsTypeOK
  <2>2. ASSUME NEW c \in Component, ComponentStopped(c)
        PROVE  ComponentsTypeOK'
    <3>1. closer' \in Closer
      BY <2>2 DEF ComponentStopped, Stops, Follow, Closer
    <3> QED
      BY <2>2, <3>1 DEF ComponentStopped, queueVars, ComponentsTypeOK
  <2>3. CASE FlushSkips \/ FlushBegins \/ FlushJoins
    <3>1. closer' \in Closer /\ missed' \subseteq Request /\ running' \subseteq Component
      BY <2>3 DEF FlushSkips, FlushBegins, FlushJoins, CloseKept, queueVars, Closer,
         ComponentsTypeOK
    <3> QED
      BY <2>3, <3>1 DEF FlushSkips, FlushBegins, FlushJoins, CloseKept, QueueKept, queueVars,
         ComponentsTypeOK
  <2> QED
    BY <1>8, <2>1, <2>2, <2>3 DEF CloserStep
<1>9. CASE StopperStep
  <2>1. CASE StopBackup
    BY <2>1 DEF StopBackup, StopKept, queueVars, ComponentsTypeOK, Stopper
  <2>2. CASE JoinBackup
    BY <2>2 DEF JoinBackup, StopKept, queueVars, ComponentsTypeOK, Stopper
  <2>3. CASE StopQueue
    BY <2>3 DEF StopQueue, CloseKept, QueueKept, queueVars, ComponentsTypeOK, Stopper
  <2>4. ASSUME NEW c \in {GC, Health}, JoinLoop(c)
        PROVE  ComponentsTypeOK'
    <3>1. work' \in [Job -> Work]
      BY <2>4, BecomesTyped DEF JoinLoop, Work
    <3> QED
      BY <2>4, <3>1 DEF JoinLoop, StopKept, queueVars, ComponentsTypeOK, Stopper
  <2>5. CASE JoinQueue
    BY <2>5 DEF JoinQueue, QueueKept, ComponentsTypeOK, Stopper
  <2> QED
    BY <1>9, <2>1, <2>2, <2>3, <2>4, <2>5 DEF StopperStep
<1>10. CASE JobStep
  <2>1. ASSUME NEW j \in Job, BackupLock(j) \/ BackupFinish(j) \/ CollectFinish(j)
        PROVE  ComponentsTypeOK'
    <3>1. work' \in [Job -> Work]
      BY <2>1, BecomesTyped, AfterTyped DEF BackupLock, BackupFinish, CollectFinish, Work
    <3>2. JobKept /\ afterStop' \subseteq Job
      BY <2>1 DEF BackupLock, BackupFinish, CollectFinish, ComponentsTypeOK
    <3> QED
      BY <3>1, <3>2, JobStepTyped
  <2>2. ASSUME NEW j \in Job, BackupRecheck(j)
        PROVE  ComponentsTypeOK'
    <3>1. work' \in [Job -> Work]
      <4>1. "copying" \in Work
        BY DEF Work
      <4> QED
        BY <2>2, <4>1, BecomesTyped, AfterTyped DEF BackupRecheck
    <3>2. JobKept /\ afterStop' \subseteq Job
      BY <2>2 DEF BackupRecheck, ComponentsTypeOK
    <3> QED
      BY <3>1, <3>2, JobStepTyped
  <2>3. ASSUME NEW r \in Request, QueueWrite(r)
        PROVE  ComponentsTypeOK'
    <3>1. work' \in [Job -> Work]
      BY <2>3, BecomesTyped DEF QueueWrite, Work
    <3> QED
      BY <2>3, <3>1 DEF QueueWrite, QueueKept, ComponentsTypeOK
  <2>4. CASE BackupTick
    <3>1. work' \in [Job -> Work]
      BY <2>4, BecomesTyped, AfterTyped DEF BackupTick, BackupBegin, Work
    <3> QED
      BY <2>4, <3>1, JobStepTyped DEF BackupTick, ComponentsTypeOK
  <2>5. CASE BackupLoopExit
    <3>1. work' \in [Job -> Work]
      BY <2>5, BecomesTyped DEF BackupLoopExit, Work
    <3> QED
      BY <2>5, <3>1, JobStepTyped DEF BackupLoopExit, ComponentsTypeOK
  <2>6. CASE CollectTick
    <3>1. work' \in [Job -> Work]
      BY <2>6, BecomesTyped DEF CollectTick, Work
    <3> QED
      BY <2>6, <3>1, JobStepTyped DEF CollectTick, ComponentsTypeOK
  <2> QED
    BY <1>10, <2>1, <2>2, <2>3, <2>4, <2>5, <2>6 DEF JobStep
<1> QED
  BY <1>1, <1>2, <1>3, <1>4, <1>5, <1>6, <1>7, <1>8, <1>9, <1>10, <1>11 DEF ComponentMove

LEMMA ComponentTypesInit == ServerInit => ComponentsTypeOK
BY LoopsAreJobs DEF ServerInit, ComponentsInit, ComponentsTypeOK, Work, Stopper, Closer

-------------------------------------------------------------------------------
(* Types of the process *)

MainTypeOK ==
  /\ main \in MainPC
  /\ shuttingDown \in BOOLEAN
  /\ acknowledged \subseteq Request
  /\ cut \in BOOLEAN
  /\ signals \in [Signal -> 0 .. MaxSignals]

LEMMA MainTypesNext ==
  ASSUME SignalInv, MainTypeOK, [ServerNext]_serverVars
  PROVE  MainTypeOK'
<1> USE DEF MainTypeOK
<1>1. ASSUME NEW r \in Request, Arrive(r) \/ RequestStep(r) \/ Handle(r)
      PROVE  MainTypeOK'
  <2>1. CASE Arrive(r) \/ Handle(r)
    BY <2>1 DEF Arrive, Handle, mainVars
  <2>2. CASE RequestStep(r)
    BY <2>2 DEF RequestStep, RateLimited, InThrottle, Denied, Unauthorized, Enter, Reply,
       RequestTimeout, mainVars
  <2> QED
    BY <1>1, <2>1, <2>2
<1>2. ASSUME NEW s \in Signal, SendSignal(s)
      PROVE  MainTypeOK'
  <2>1. signals' \in [Signal -> 0 .. MaxSignals]
    <3>1. signals[s] + 1 \in 0 .. MaxSignals
      BY <1>2, ServerAssumption DEF SendSignal, Signal, ServerAssumption
    <3> QED
      BY <1>2, <3>1 DEF SendSignal
  <2> QED
    BY <1>2, <2>1 DEF SendSignal
<1>3. CASE DelayedSignal \/ ServeFails
  BY <1>3 DEF DelayedSignal, ServeFails, MainPC
<1>4. CASE MainStep
  <2>1. CASE ReceiveSignal
    <3>1. NoSignals \in [Signal -> 0 .. MaxSignals]
      BY ServerAssumption DEF NoSignals, ServerAssumption
    <3> QED
      BY <2>1, <3>1 DEF ReceiveSignal, MainPC
  <2>2. CASE Drained \/ DrainTimeout \/ MainReturns \/ Abandon
    BY <2>2 DEF Drained, DrainTimeout, MainReturns, Abandon, MainPC
  <2>3. CASE Close
    BY <2>3 DEF Close, mainVars
  <2> QED
    BY <1>4, <2>1, <2>2, <2>3 DEF MainStep
<1>5. CASE CloseStep \/ Deadline \/ StorageStep
  BY <1>5 DEF CloseStep, Deadline, StorageStep, mainVars
<1>6. CASE Exited \/ UNCHANGED serverVars
  BY <1>6 DEF Exited, serverVars, mainVars
<1> QED
  BY <1>1, <1>2, <1>3, <1>4, <1>5, <1>6 DEF ServerNext

LEMMA MainTypesInit == ServerInit => MainTypeOK
<1>1. NoSignals \in [Signal -> 0 .. MaxSignals]
  BY ServerAssumption DEF NoSignals, ServerAssumption
<1> QED
  BY <1>1 DEF ServerInit, MainTypeOK, MainPC

TypesInv == SlotInv /\ SignalInv /\ ComponentsTypeOK /\ MainTypeOK

LEMMA TypesInit == ServerInit => TypesInv
BY SlotsInit, SignalsInit, ComponentTypesInit, MainTypesInit DEF TypesInv

LEMMA TypesNext == TypesInv /\ [ServerNext]_serverVars => TypesInv'
BY SlotsNext, SignalsNext, MovesOfComponents, ComponentTypesNext, MainTypesNext DEF TypesInv

\* Every variable of the process keeps its type: any number of requests, of signals
\* and any limits of the throttle (throttle.go, badger_close.go, main.go).
THEOREM TypeCorrect == Safety => []TypeOK
<1>1. TypesInv => TypeOK
  BY DEF TypesInv, SlotInv, SignalInv, MainTypeOK, TypeOK
<1> QED
  BY <1>1, TypesInit, TypesNext, PTL DEF Safety

-------------------------------------------------------------------------------
(* Backups and loops *)

OneHolder == \A i, j \in Holding : i = j

\* The contexts, by how far the stopper of the backups has come
BackupsStop ==
  /\ stopper[Backup] \in {"none", "started"} => Backup \in running /\ ctx = "live"
  /\ stopper[Backup] = "joining" => ctx = "cancelled"
  /\ stopper[Backup] = "done" =>
       /\ ctx = "renewed"
       /\ \A j \in Job : work[j] = "copying" => j \in afterStop

\* A loop that was stopped stays so
LoopsStop ==
  \A c \in {GC, Health} : /\ stopper[c] = "done" => work[c] = "exited"
                          /\ stopper[c] # "done" => c \in running

\* In time, every component behind the closer has stopped
InOrder ==
  ~expired =>
    /\ closer \notin {"none", "health"} => stopper[Health] = "done"
    /\ closer \notin {"none", "health", "backup"} => stopper[Backup] = "done"
    /\ closer \notin {"none", "health", "backup", "gc"} => stopper[GC] = "done"

JobInv == OneHolder /\ BackupsStop /\ LoopsStop /\ InOrder

\* A step after which no job holds or copies that did not before, and the loops that
\* have returned stay so
Calm ==
  /\ \A j \in Job : /\ work'[j] \in {"locked", "copying"} => work'[j] = work[j]
                    /\ j \in {GC, Health} /\ work[j] = "exited" => work'[j] = "exited"
  /\ afterStop' = afterStop

LEMMA CalmKeepsHolders ==
  ASSUME OneHolder, Calm
  PROVE  OneHolder'
BY DEF OneHolder, Calm, Holding

LEMMA CalmKeepsJobs ==
  ASSUME JobInv, Calm, UNCHANGED <<running, stopper, ctx, closer, expired>>
  PROVE  JobInv'
<1>1. OneHolder'
  BY CalmKeepsHolders DEF JobInv
<1>2. BackupsStop' /\ InOrder'
  BY DEF JobInv, BackupsStop, InOrder, Calm
<1>3. LoopsStop'
  BY LoopsAreJobs DEF JobInv, LoopsStop, Calm
<1> QED
  BY <1>1, <1>2, <1>3 DEF JobInv

\* One job changes its state, which is not the end of a loop, and takes no lock
LEMMA BecomesIsCalm ==
  ASSUME ComponentsTypeOK, NEW j \in Job, NEW state, Becomes(j, state),
         state \notin {"locked", "copying"},
         j \in {GC, Health} => work[j] # "exited" \/ state = "exited",
         UNCHANGED afterStop
  PROVE  Calm
BY DEF ComponentsTypeOK, Becomes, Calm

LEMMA JobStepKeepsJobs ==
  ASSUME ComponentsTypeOK, JobInv, JobStep
  PROVE  JobInv'
<1> USE LoopsAreJobs
<1>0. ASSUME JobKept
      PROVE  UNCHANGED <<running, stopper, ctx, closer, expired>>
  BY <1>0 DEF JobKept
<1>1. ASSUME NEW j \in Job, BackupLock(j)
      PROVE  JobInv'
  <2>1. /\ work[j] = "entered" /\ Holding = {} /\ work' = [work EXCEPT ![j] = "locked"]
        /\ UNCHANGED <<running, stopper, ctx, closer, expired, afterStop>>
    BY <1>1 DEF BackupLock, Becomes, JobKept
  <2>2. Holding' = {j}
    BY <2>1 DEF Holding, ComponentsTypeOK
  <2>3. \A i \in Job : i # j => work'[i] = work[i]
    BY <2>1 DEF ComponentsTypeOK
  <2>4. work'[j] = "locked"
    BY <2>1 DEF ComponentsTypeOK
  <2>5. BackupsStop' /\ InOrder'
    BY <2>1, <2>3, <2>4 DEF JobInv, BackupsStop, InOrder
  <2>6. LoopsStop'
    BY <2>1, <2>3, <2>4 DEF JobInv, LoopsStop
  <2> QED
    BY <2>2, <2>5, <2>6 DEF JobInv, OneHolder
<1>2. ASSUME NEW j \in Job, BackupRecheck(j)
      PROVE  JobInv'
  <2>1. /\ work[j] = "locked"
        /\ UNCHANGED <<running, stopper, ctx, closer, expired>>
    BY <1>2 DEF BackupRecheck, JobKept
  <2>2. CASE /\ ctx # "cancelled" /\ Becomes(j, "copying")
             /\ afterStop' = IF ctx = "renewed" THEN afterStop \cup {j} ELSE afterStop
    <3>1. \A i \in Job : i # j => work'[i] = work[i]
      BY <2>2 DEF ComponentsTypeOK, Becomes
    <3>2. work'[j] = "copying"
      BY <2>2 DEF ComponentsTypeOK, Becomes
    <3>3. Holding' = Holding
      BY <2>1, <3>1, <3>2 DEF Holding
    <3>4. BackupsStop'
      BY <2>1, <2>2, <3>1, <3>2 DEF JobInv, BackupsStop
    <3>5. LoopsStop' /\ InOrder'
      BY <2>1, <3>1, <3>2 DEF JobInv, LoopsStop, InOrder
    <3> QED
      BY <3>3, <3>4, <3>5 DEF JobInv, OneHolder
  <2>3. CASE Becomes(j, After(j)) /\ UNCHANGED afterStop
    <3>1. Calm
      BY <2>1, <2>3, AfterTyped, BecomesIsCalm
    <3> QED
      BY <2>1, <3>1, CalmKeepsJobs
  <2> QED
    BY <1>2, <2>2, <2>3 DEF BackupRecheck
<1>3. ASSUME NEW j \in Job, BackupFinish(j) \/ CollectFinish(j)
      PROVE  JobInv'
  <2>1. Calm
    BY <1>3, AfterTyped, BecomesIsCalm DEF BackupFinish, CollectFinish
  <2> QED
    BY <1>0, <1>3, <2>1, CalmKeepsJobs DEF BackupFinish, CollectFinish
<1>4. ASSUME NEW r \in Request, QueueWrite(r)
      PROVE  JobInv'
  <2>1. r \in Job /\ r \notin {GC, Health}
    BY RequestsAreNoLoops DEF Loop
  <2>2. Calm
    BY <1>4, <2>1, BecomesIsCalm DEF QueueWrite, QueueKept
  <2> QED
    BY <1>4, <2>2, CalmKeepsJobs DEF QueueWrite, QueueKept
<1>5. CASE BackupTick
  <2>1. Calm
    BY <1>5, AfterTyped, BecomesIsCalm DEF BackupTick, BackupBegin
  <2> QED
    BY <1>0, <1>5, <2>1, CalmKeepsJobs DEF BackupTick
<1>6. CASE BackupLoopExit
  <2>1. Calm
    BY <1>6, BecomesIsCalm DEF BackupLoopExit
  <2> QED
    BY <1>0, <1>6, <2>1, CalmKeepsJobs DEF BackupLoopExit
<1>7. CASE CollectTick
  <2>1. Calm
    BY <1>7, BecomesIsCalm DEF CollectTick
  <2> QED
    BY <1>0, <1>7, <2>1, CalmKeepsJobs DEF CollectTick
<1> QED
  BY <1>1, <1>2, <1>3, <1>4, <1>5, <1>6, <1>7 DEF JobStep

LEMMA StopperKeepsJobs ==
  ASSUME ComponentsTypeOK, JobInv, StopperStep
  PROVE  JobInv'
<1> USE LoopsAreJobs, FourComponents DEF StopKept
<1>1. CASE StopBackup
  <2>1. /\ stopper[Backup] = "started" /\ ctx' = "cancelled" /\ work' = work
        /\ stopper'[Backup] = "joining" /\ closer' = closer /\ expired' = expired
        /\ \A c \in {GC, Health} : stopper'[c] = stopper[c]
                                   /\ (c \in running => c \in running')
    BY <1>1 DEF StopBackup, ComponentsTypeOK
  <2> QED
    BY <2>1 DEF JobInv, OneHolder, Holding, BackupsStop, LoopsStop, InOrder
<1>2. CASE JoinBackup
  <2>1. /\ stopper[Backup] = "joining" /\ Holding = {} /\ ctx' = "renewed" /\ work' = work
        /\ stopper'[Backup] = "done" /\ closer' = closer /\ expired' = expired
        /\ afterStop' = afterStop /\ running' = running
        /\ \A c \in {GC, Health} : stopper'[c] = stopper[c]
    BY <1>2 DEF JoinBackup, ComponentsTypeOK
  <2>2. \A j \in Job : work[j] # "copying"
    BY <2>1 DEF Holding
  <2> QED
    BY <2>1, <2>2 DEF JobInv, OneHolder, Holding, BackupsStop, LoopsStop, InOrder
<1>3. CASE StopQueue
  <2>1. /\ work' = work /\ ctx' = ctx /\ afterStop' = afterStop
        /\ closer' = closer /\ expired' = expired
        /\ \A c \in {GC, Health, Backup} : stopper'[c] = stopper[c]
                                           /\ (c \in running <=> c \in running')
    BY <1>3 DEF StopQueue, CloseKept, QueueKept, ComponentsTypeOK
  <2> QED
    BY <2>1 DEF JobInv, OneHolder, Holding, BackupsStop, LoopsStop, InOrder
<1>4. ASSUME NEW c \in {GC, Health}, JoinLoop(c)
      PROVE  JobInv'
  <2>1. /\ work[c] = "waiting" /\ work' = [work EXCEPT ![c] = "exited"]
        /\ running' = running \ {c} /\ stopper' = [stopper EXCEPT ![c] = "done"]
        /\ stopper[c] = "joining"
        /\ UNCHANGED <<ctx, closer, expired, afterStop>>
    BY <1>4 DEF JoinLoop, Becomes
  <2>2. work'[c] = "exited" /\ \A j \in Job : j # c => work'[j] = work[j]
    BY <2>1 DEF ComponentsTypeOK
  <2>3. stopper'[c] = "done" /\ \A d \in Component : d # c => stopper'[d] = stopper[d]
    BY <2>1 DEF ComponentsTypeOK
  <2>4. OneHolder'
    BY <2>1, <2>2 DEF JobInv, OneHolder, Holding
  <2>5. BackupsStop'
    BY <2>1, <2>2, <2>3 DEF JobInv, BackupsStop
  <2>6. LoopsStop'
    BY <2>1, <2>2, <2>3 DEF JobInv, LoopsStop
  <2>7. InOrder'
    BY <2>1, <2>3 DEF JobInv, InOrder
  <2> QED
    BY <2>4, <2>5, <2>6, <2>7 DEF JobInv
<1>5. CASE JoinQueue
  <2>1. /\ work' = work /\ ctx' = ctx /\ afterStop' = afterStop
        /\ closer' = closer /\ expired' = expired /\ running' = running
        /\ \A c \in {GC, Health, Backup} : stopper'[c] = stopper[c]
    BY <1>5 DEF JoinQueue, QueueKept, ComponentsTypeOK
  <2> QED
    BY <2>1 DEF JobInv, OneHolder, Holding, BackupsStop, LoopsStop, InOrder
<1> QED
  BY <1>1, <1>2, <1>3, <1>4, <1>5 DEF StopperStep

LEMMA CloserKeepsJobs ==
  ASSUME ComponentsTypeOK, JobInv, CloserStep
  PROVE  JobInv'
<1> USE LoopsAreJobs, FourComponents
<1>1. ASSUME NEW c \in Component, StopComponent(c)
      PROVE  JobInv'
  <2>1. /\ stopper[c] = "none" /\ stopper'[c] = StopperBegins(c)
        /\ \A d \in Component : d # c => stopper'[d] = stopper[d]
        /\ UNCHANGED <<work, running, ctx, closer, expired, afterStop>>
    BY <1>1 DEF StopComponent, StopKept, ComponentsTypeOK
  <2>2. OneHolder'
    BY <2>1 DEF JobInv, OneHolder, Holding
  <2>3. BackupsStop'
    <3>1. c = Backup => stopper'[Backup] = "started"
      BY <2>1 DEF StopperBegins, JobInv, BackupsStop
    <3> QED
      BY <2>1, <3>1 DEF JobInv, BackupsStop
  <2>4. LoopsStop'
    <3>1. c \in {GC, Health} => stopper'[c] # "done"
      BY <2>1 DEF StopperBegins, JobInv, LoopsStop
    <3> QED
      BY <2>1, <3>1 DEF JobInv, LoopsStop
  <2>5. InOrder'
    BY <2>1 DEF JobInv, InOrder
  <2> QED
    BY <2>2, <2>3, <2>4, <2>5 DEF JobInv
<1>2. ASSUME NEW c \in Component, ComponentStopped(c)
      PROVE  JobInv'
  <2>1. /\ closer \in DOMAIN Stops /\ Stops[closer] = c /\ closer' = Follow[closer]
        /\ stopper[c] = "done" \/ expired
        /\ UNCHANGED <<work, running, stopper, ctx, expired, afterStop>>
    BY <1>2 DEF ComponentStopped
  <2>2. OneHolder' /\ BackupsStop' /\ LoopsStop'
    BY <2>1 DEF JobInv, OneHolder, Holding, BackupsStop, LoopsStop
  <2>3. \/ closer = "health" /\ c = Health /\ closer' = "backup"
        \/ closer = "backup" /\ c = Backup /\ closer' = "gc"
        \/ closer = "gc" /\ c = GC /\ closer' = "flush"
        \/ closer = "queue" /\ closer' = "closing"
    BY <2>1 DEF Stops, Follow
  <2>4. InOrder'
    BY <2>1, <2>3 DEF JobInv, InOrder
  <2> QED
    BY <2>2, <2>4 DEF JobInv
<1>3. CASE FlushSkips \/ FlushBegins \/ FlushJoins
  <2>1. /\ closer \in {"flush", "join"} /\ closer' \in {"join", "drain", "queue"}
        /\ \A c \in {GC, Health, Backup} : c \in running <=> c \in running'
        /\ UNCHANGED <<work, stopper, ctx, expired, afterStop>>
    BY <1>3 DEF FlushSkips, FlushBegins, FlushJoins, CloseKept, QueueKept
  <2> QED
    BY <2>1 DEF JobInv, OneHolder, Holding, BackupsStop, LoopsStop, InOrder
<1> QED
  BY <1>1, <1>2, <1>3 DEF CloserStep

LEMMA JobsNext ==
  ASSUME ComponentsTypeOK, JobInv, ComponentMove
  PROVE  JobInv'
<1> USE LoopsAreJobs, FourComponents
<1>1. CASE UNCHANGED componentVars
  <2>1. UNCHANGED <<work, running, stopper, ctx, closer, expired, afterStop>>
    BY <1>1 DEF componentVars
  <2> QED
    BY <2>1 DEF JobInv, OneHolder, Holding, BackupsStop, LoopsStop, InOrder
<1>2. ASSUME NEW r \in Request, HandlerMove(r)
      PROVE  JobInv'
  <2>1. r \in Job /\ r \notin {GC, Health}
    BY RequestsAreNoLoops DEF Loop
  <2>2. Calm
    <3>1. CASE work' = work
      BY <1>2, <3>1 DEF HandlerMove, Calm
    <3>2. ASSUME NEW state \in {"none", "ended", "storing", "entered", "collecting"},
                 Becomes(r, state)
          PROVE  Calm
      BY <1>2, <2>1, <3>2, BecomesIsCalm DEF HandlerMove
    <3> QED
      BY <1>2, <3>1, <3>2 DEF HandlerMove
  <2> QED
    BY <1>2, <2>2, CalmKeepsJobs DEF HandlerMove, JobKept
<1>3. CASE Left
  <2>1. "exited" \notin Finished
    BY DEF Finished
  <2>2. \A j \in {GC, Health} : j \notin Request
    BY RequestsAreNoLoops
  <2>3. Calm
    BY <1>3, <2>1, <2>2 DEF Left, Calm
  <2> QED
    BY <1>3, <2>3, CalmKeepsJobs DEF Left, JobKept
<1>4. CASE CloseBegin
  <2>1. /\ closer' = "health"
        /\ UNCHANGED <<work, running, stopper, ctx, expired, afterStop>>
    BY <1>4 DEF CloseBegin, CloseKept, QueueKept
  <2> QED
    BY <2>1 DEF JobInv, OneHolder, Holding, BackupsStop, LoopsStop, InOrder
<1>5. CASE QueueAbandoned
  <2>1. /\ \A c \in {GC, Health, Backup} : c \in running <=> c \in running'
        /\ UNCHANGED <<work, stopper, ctx, closer, expired, afterStop>>
    BY <1>5 DEF QueueAbandoned, CloseKept, QueueKept
  <2> QED
    BY <2>1 DEF JobInv, OneHolder, Holding, BackupsStop, LoopsStop, InOrder
<1>6. CASE CloseExpires
  <2>1. expired' /\ UNCHANGED <<work, running, stopper, ctx, closer, afterStop>>
    BY <1>6 DEF CloseExpires, CloseKept, QueueKept
  <2> QED
    BY <2>1 DEF JobInv, OneHolder, Holding, BackupsStop, LoopsStop, InOrder
<1>7. CASE WorkerStep
  <2>1. Calm
    BY <1>7, BecomesIsCalm DEF WorkerStep, WorkerBegins, WorkerEnds, WorkerExits, QueueKept
  <2> QED
    BY <1>7, <2>1, CalmKeepsJobs DEF WorkerStep, WorkerBegins, WorkerEnds, WorkerExits, QueueKept
<1>8. CASE FlushSettles
  <2>1. /\ closer = "drain" /\ closer' = "queue"
        /\ UNCHANGED <<work, running, stopper, ctx, expired, afterStop>>
    BY <1>8 DEF FlushSettles, QueueKept
  <2> QED
    BY <2>1 DEF JobInv, OneHolder, Holding, BackupsStop, LoopsStop, InOrder
<1> QED
  BY <1>1, <1>2, <1>3, <1>4, <1>5, <1>6, <1>7, <1>8, CloserKeepsJobs, JobStepKeepsJobs,
     StopperKeepsJobs DEF ComponentMove

LEMMA JobsInit == ServerInit => JobInv
BY LoopsAreJobs, ComponentsAssumption
DEF ServerInit, ComponentsInit, JobInv, OneHolder, Holding, BackupsStop, LoopsStop, InOrder

LEMMA AtMostOneHolder == OneHolder => Cardinality(Holding) <= 1
<1>1. CASE Holding = {}
  <2>1. Cardinality({}) = 0
    BY FS_EmptySet
  <2> QED
    BY <1>1, <2>1
<1>2. ASSUME OneHolder, Holding # {}
      PROVE  Cardinality(Holding) <= 1
  <2>1. PICK j \in Holding : TRUE
    BY <1>2
  <2>2. Holding = {j}
    BY <1>2, <2>1 DEF OneHolder
  <2>3. Cardinality({j}) = 1
    BY FS_Singleton
  <2> QED
    BY <2>2, <2>3
<1> QED
  BY <1>1, <1>2

RunInv == ComponentsTypeOK /\ JobInv

LEMMA RunInit == ServerInit => RunInv
BY ComponentTypesInit, JobsInit DEF RunInv

LEMMA RunNext == RunInv /\ [ServerNext]_serverVars => RunInv'
BY MovesOfComponents, ComponentTypesNext, JobsNext DEF RunInv

\* At most one backup holds the lock, and Stop returns to no backup that the renewed
\* contexts did not start (backup.go:96-165).
THEOREM BackupsAreAwaited == Safety => []StopWaitsForBackups
<1>1. RunInv => StopWaitsForBackups
  BY AtMostOneHolder DEF RunInv, JobInv, BackupsStop, StopWaitsForBackups
<1> QED
  BY <1>1, RunInit, RunNext, PTL DEF Safety

\* The database is closed in time only when no loop and no backup, but one that began
\* under renewed contexts, is using it (badger_close.go:128-240).
THEOREM CloseIsQuiet == Safety => []QuietClose
<1>1. RunInv => QuietClose
  BY DEF RunInv, JobInv, InOrder, LoopsStop, BackupsStop, QuietClose
<1> QED
  BY <1>1, RunInit, RunNext, PTL DEF Safety

-------------------------------------------------------------------------------
(* Acknowledged writes *)

\* The writes that are decided, one way or another, and all that the queue knows of
Known == committed \cup failed \cup missed
Kept  == queued \cup batch \cup Known

\* The queue is stopped last, by the closer, and the worker waited for by the flush
WorkerStops ==
  /\ closer \notin {"queue", "closing"} => stopper[Queue] = "none"
  /\ work[Queue] \in {"waiting", "committing", "exited"}
  /\ batch # {} => work[Queue] = "committing"
  /\ closer = "drain" => work[Queue] = "exited"

\* Until then no accepted write is forgotten
AcceptedKept ==
  stopper[Queue] = "none" =>
    \A r \in Request : r \in acknowledged \/ work[r] = "accepted" => r \in Kept

Flushed == closer \in {"queue", "closing"} /\ ~cut => acknowledged \subseteq Known

\* Once main closes the storage after a drain, no request is being answered
NobodyAnswers ==
  /\ closer # "none" => main \in {"closing", "exited"}
  /\ main = "closing" /\ ~cut => \A r \in Request : Idle(r)

FlushParts == WorkerStops /\ AcceptedKept /\ Flushed
FlushInv   == ComponentsTypeOK /\ acknowledged \subseteq Request /\ FlushParts /\ NobodyAnswers

LEMMA PartsKept ==
  ASSUME FlushParts, acknowledged' = acknowledged, cut => cut',
         closer' = closer, stopper'[Queue] = stopper[Queue],
         UNCHANGED <<work[Queue], batch>>, Kept \subseteq Kept', Known \subseteq Known',
         \A r \in Request : work'[r] = "accepted" => work[r] = "accepted"
  PROVE  FlushParts'
BY DEF FlushParts, WorkerStops, AcceptedKept, Flushed

LEMMA QueueStays ==
  ASSUME UNCHANGED queueVars
  PROVE  batch' = batch /\ queued' = queued /\ Kept' = Kept /\ Known' = Known
BY DEF queueVars, Kept, Known

\* A step of a handler or of a loop that is not the queue's
LEMMA JobKeepsParts ==
  ASSUME ComponentsTypeOK, FlushParts, acknowledged' = acknowledged, cut => cut',
         JobKept, NEW j \in Job, j # Queue, NEW state, state # "accepted", Becomes(j, state)
  PROVE  FlushParts'
<1>1. \A q \in Request : work'[q] = "accepted" => work[q] = "accepted"
  BY LoopsAreJobs DEF Becomes, ComponentsTypeOK
<1>2. work'[Queue] = work[Queue]
  BY LoopsAreJobs DEF Becomes, ComponentsTypeOK
<1> QED
  BY <1>1, <1>2, QueueStays, PartsKept DEF JobKept

LEMMA WorkerKeepsParts ==
  ASSUME ComponentsTypeOK, FlushParts, WorkerStep,
         acknowledged \subseteq Request, acknowledged' = acknowledged, cut => cut'
  PROVE  FlushParts'
<1> USE LoopsAreJobs
<1>0. ASSUME NEW state, Becomes(Queue, state)
      PROVE  /\ work'[Queue] = state
             /\ \A q \in Request : work'[q] = work[q]
  BY <1>0, RequestsAreNoLoops, ComponentsAssumption
  DEF Becomes, ComponentsTypeOK, ComponentsAssumption
<1>1. CASE WorkerBegins
  <2>1. /\ work[Queue] = "waiting" /\ work'[Queue] = "committing"
        /\ UNCHANGED <<stopper, closer>>
    BY <1>0, <1>1 DEF WorkerBegins
  <2>2. batch = {}
    BY <2>1 DEF FlushParts, WorkerStops
  <2>3. PICK writes : batch' = writes /\ queued' = queued \ writes
    BY <1>1 DEF WorkerBegins
  <2>4. Known' = Known
    BY <1>1 DEF WorkerBegins, Known
  <2>5. Kept \subseteq Kept'
    BY <2>2, <2>3, <2>4 DEF Kept
  <2> QED
    BY <1>0, <1>1, <2>1, <2>4, <2>5 DEF WorkerBegins, FlushParts, WorkerStops, AcceptedKept, Flushed
<1>2. CASE WorkerEnds
  <2>1. /\ work[Queue] = "committing" /\ work'[Queue] = "waiting" /\ batch' = {}
        /\ UNCHANGED <<stopper, closer>>
    BY <1>0, <1>2 DEF WorkerEnds
  <2>2. Kept \subseteq Kept' /\ Known \subseteq Known'
    BY <1>2 DEF WorkerEnds, Settle, Kept, Known
  <2> QED
    BY <1>0, <1>2, <2>1, <2>2 DEF WorkerEnds, FlushParts, WorkerStops, AcceptedKept, Flushed
<1>3. CASE WorkerExits
  <2>1. /\ work[Queue] = "waiting" /\ work'[Queue] = "exited"
        /\ UNCHANGED <<stopper, closer, batch>> /\ Kept' = Kept /\ Known' = Known
    BY <1>0, <1>3, QueueStays DEF WorkerExits
  <2> QED
    BY <1>0, <1>3, <2>1 DEF WorkerExits, FlushParts, WorkerStops, AcceptedKept, Flushed
<1> QED
  BY <1>1, <1>2, <1>3 DEF WorkerStep

\* FlushQueue: it returns at once, or waits for the worker and takes the rest
LEMMA FlushKeepsParts ==
  ASSUME ComponentsTypeOK, FlushParts, FlushSkips \/ FlushBegins \/ FlushJoins \/ FlushSettles,
         acknowledged \subseteq Request, acknowledged' = acknowledged, cut => cut'
  PROVE  FlushParts'
<1>0. UNCHANGED <<work, stopper>>
  BY DEF FlushSkips, FlushBegins, FlushJoins, FlushSettles, CloseKept
<1>1. CASE FlushSkips
  <2>1. closer = "flush" /\ closer' = "queue" /\ batch' = batch /\ Kept \subseteq Known'
        /\ Kept' = Known'
    BY <1>1 DEF FlushSkips, Kept, Known
  <2>2. stopper[Queue] = "none"
    BY <2>1 DEF FlushParts, WorkerStops
  <2> QED
    BY <1>0, <2>1, <2>2 DEF FlushParts, WorkerStops, AcceptedKept, Flushed
<1>2. CASE FlushBegins \/ FlushJoins
  <2>1. /\ closer \in {"flush", "join"} /\ closer' \in {"join", "drain"} /\ batch' = batch
        /\ closer' = "drain" => work[Queue] = "exited"
        /\ Kept' = Kept /\ Known' = Known
    BY <1>2, QueueStays DEF FlushBegins, FlushJoins, CloseKept
  <2> QED
    BY <1>0, <2>1 DEF FlushParts, WorkerStops, AcceptedKept, Flushed
<1>3. CASE FlushSettles
  <2>1. closer = "drain" /\ closer' = "queue" /\ batch' = batch
    BY <1>3 DEF FlushSettles
  <2>2. stopper[Queue] = "none" /\ batch = {}
    BY <2>1 DEF FlushParts, WorkerStops
  <2>3. Kept \subseteq Known' /\ Kept' = Known'
    BY <1>3, <2>2 DEF FlushSettles, Settle, Kept, Known
  <2> QED
    BY <1>0, <2>1, <2>2, <2>3 DEF FlushParts, WorkerStops, AcceptedKept, Flushed
<1> QED
  BY <1>1, <1>2, <1>3

LEMMA ComponentsKeepParts ==
  ASSUME ComponentsTypeOK, FlushParts, ComponentMove,
         acknowledged \subseteq Request, acknowledged' = acknowledged, cut => cut'
  PROVE  FlushParts'
<1> USE LoopsAreJobs, FourComponents
<1>0. \A r \in Request : r # Queue
  BY ComponentsAssumption DEF ComponentsAssumption
<1>1. CASE UNCHANGED componentVars
  BY <1>1, QueueStays, PartsKept DEF componentVars
<1>2. ASSUME NEW r \in Request, HandlerMove(r)
      PROVE  FlushParts'
  <2>1. CASE work' = work
    BY <1>2, <2>1, QueueStays, PartsKept DEF HandlerMove, JobKept
  <2> QED
    BY <1>0, <1>2, <2>1, JobKeepsParts DEF HandlerMove
<1>3. CASE Left
  <2>1. \A q \in Request : work'[q] = "accepted" => work[q] = "accepted"
    BY <1>3 DEF Left
  <2>2. work'[Queue] = work[Queue]
    BY <1>0, <1>3 DEF Left, FlushParts, WorkerStops, Finished
  <2> QED
    BY <1>3, <2>1, <2>2, QueueStays, PartsKept DEF Left, JobKept
<1>4. CASE CloseBegin
  <2>1. /\ closer = "none" /\ closer' = "health" /\ UNCHANGED <<work, stopper, batch>>
        /\ Kept' = Kept /\ Known' = Known
    BY <1>4, QueueStays DEF CloseBegin, CloseKept
  <2> QED
    BY <2>1 DEF FlushParts, WorkerStops, AcceptedKept, Flushed
<1>5. CASE QueueAbandoned
  BY <1>5, QueueStays, PartsKept DEF QueueAbandoned, CloseKept
<1>6. CASE CloseExpires
  BY <1>6, QueueStays, PartsKept DEF CloseExpires, CloseKept
<1>8. CASE CloserStep
  <2>1. ASSUME NEW c \in Component, StopComponent(c)
        PROVE  FlushParts'
    <3>1. c = Queue => closer = "queue"
      BY <2>1 DEF StopComponent, Stops
    <3>2. c # Queue => stopper'[Queue] = stopper[Queue]
      BY <2>1 DEF StopComponent, ComponentsTypeOK
    <3>3. c = Queue => stopper'[Queue] # "none"
      BY <2>1 DEF StopComponent, StopperBegins, ComponentsTypeOK, Loop
    <3>4. UNCHANGED <<work, closer, batch>> /\ Kept' = Kept /\ Known' = Known
      BY <2>1, QueueStays DEF StopComponent, StopKept
    <3> QED
      BY <3>1, <3>2, <3>3, <3>4 DEF FlushParts, WorkerStops, AcceptedKept, Flushed
  <2>2. ASSUME NEW c \in Component, ComponentStopped(c)
        PROVE  FlushParts'
    <3>1. /\ closer = "queue" => closer' = "closing"
          /\ closer # "queue" => closer \notin {"queue", "closing"}
                                 /\ closer' \notin {"queue", "closing", "drain"}
          /\ UNCHANGED <<work, stopper, batch>> /\ Kept' = Kept /\ Known' = Known
      BY <2>2, QueueStays DEF ComponentStopped, Stops, Follow
    <3> QED
      BY <3>1 DEF FlushParts, WorkerStops, AcceptedKept, Flushed
  <2> QED
    BY <1>8, <2>1, <2>2, FlushKeepsParts DEF CloserStep
<1>9. CASE StopperStep
  <2>1. CASE StopBackup \/ JoinBackup
    BY <2>1, QueueStays, PartsKept DEF StopBackup, JoinBackup, StopKept, ComponentsTypeOK
  <2>2. CASE StopQueue \/ JoinQueue
    <3>1. /\ stopper[Queue] # "none" /\ stopper'[Queue] # "none"
          /\ UNCHANGED <<work, closer, batch>> /\ Known' = Known
      BY <2>2, QueueStays DEF StopQueue, JoinQueue, CloseKept, ComponentsTypeOK, Known
    <3> QED
      BY <3>1 DEF FlushParts, WorkerStops, AcceptedKept, Flushed
  <2>3. ASSUME NEW c \in {GC, Health}, JoinLoop(c)
        PROVE  FlushParts'
    <3>1. \A q \in Request : work'[q] = "accepted" => work[q] = "accepted"
      BY <2>3 DEF JoinLoop, Becomes, ComponentsTypeOK
    <3>2. work'[Queue] = work[Queue]
      BY <2>3 DEF JoinLoop, Becomes, ComponentsTypeOK
    <3> QED
      BY <2>3, <3>1, <3>2, QueueStays, PartsKept DEF JoinLoop, StopKept, ComponentsTypeOK
  <2> QED
    BY <1>9, <2>1, <2>2, <2>3 DEF StopperStep
<1>10. CASE JobStep
  <2>0. work[Queue] \in {"waiting", "committing", "exited"}
    BY DEF FlushParts, WorkerStops
  <2>1. ASSUME NEW r \in Request, QueueWrite(r)
        PROVE  FlushParts'
    <3>0. work'[Queue] = work[Queue] /\ UNCHANGED <<closer, stopper, batch>> /\ Known' = Known
      BY <1>0, <2>1 DEF QueueWrite, Becomes, ComponentsTypeOK, Known
    <3>1. CASE Becomes(r, "accepted") /\ queued' = queued \cup {r}
      <4>1. \A q \in Request : work'[q] = "accepted" => work[q] = "accepted" \/ q = r
        BY <3>1 DEF Becomes, ComponentsTypeOK
      <4>2. Kept' = Kept \cup {r}
        BY <3>0, <3>1 DEF Kept
      <4> QED
        BY <3>0, <4>1, <4>2 DEF FlushParts, WorkerStops, AcceptedKept, Flushed
    <3>2. CASE Becomes(r, "ended") /\ UNCHANGED queued
      <4>1. \A q \in Request : work'[q] = "accepted" => work[q] = "accepted"
        BY <3>2 DEF Becomes, ComponentsTypeOK
      <4>2. Kept' = Kept
        BY <3>0, <3>2 DEF Kept
      <4> QED
        BY <3>0, <4>1, <4>2, PartsKept
    <3> QED
      BY <2>1, <3>1, <3>2 DEF QueueWrite
  <2>3. ASSUME NEW j \in Job,
               BackupLock(j) \/ BackupRecheck(j) \/ BackupFinish(j) \/ CollectFinish(j)
        PROVE  FlushParts'
    <3>1. j # Queue
      BY <2>0, <2>3 DEF BackupLock, BackupRecheck, BackupFinish, CollectFinish
    <3> QED
      BY <2>3, <3>1, JobKeepsParts, AfterTyped
      DEF BackupLock, BackupRecheck, BackupFinish, CollectFinish
  <2>4. CASE BackupTick \/ BackupLoopExit \/ CollectTick
    BY <2>4, JobKeepsParts, AfterTyped DEF BackupTick, BackupBegin, BackupLoopExit, CollectTick
  <2> QED
    BY <1>10, <2>1, <2>3, <2>4 DEF JobStep
<1> QED
  BY <1>1, <1>2, <1>3, <1>4, <1>5, <1>6, <1>8, <1>9, <1>10, WorkerKeepsParts, FlushKeepsParts
  DEF ComponentMove

\* The 202 is written by a goroutine whose handler has put the write in the queue
LEMMA ReplyKeepsFlush ==
  ASSUME FlushInv, NEW r \in Request, Reply(r), Running
  PROVE  FlushParts' /\ NobodyAnswers'
<1> USE DEF FlushInv
<1>0. r # Queue
  BY LoopsAreJobs, ComponentsAssumption DEF ComponentsAssumption
<1>1. /\ acknowledged' = IF work[r] = "accepted" THEN acknowledged \cup {r} ELSE acknowledged
      /\ UNCHANGED <<main, cut, closer, stopper, batch>> /\ Kept' = Kept /\ Known' = Known
  BY QueueStays DEF Reply, JobKept
<1>2. /\ \A q \in Request : work'[q] = "accepted" => work[q] = "accepted"
      /\ work'[Queue] = work[Queue]
  BY <1>0, LoopsAreJobs DEF Reply, Becomes, ComponentsTypeOK
<1>3. phase[r] = "handling" /\ ~Idle(r)
  BY DEF Reply, Idle
<1>4. main = "closing" => cut
  BY <1>3 DEF NobodyAnswers
<1>5. closer # "none" => cut
  BY <1>4 DEF NobodyAnswers, Running
<1>6. NobodyAnswers'
  BY <1>1, <1>4 DEF NobodyAnswers
<1>7. FlushParts'
  BY <1>1, <1>2, <1>5 DEF FlushParts, WorkerStops, AcceptedKept, Flushed
<1> QED
  BY <1>6, <1>7

\* What the other steps do to the process
LEMMA OthersKeepAnswers ==
  ASSUME FlushInv, [ServerNext]_serverVars,
         ~(\E r \in Request : Running /\ Reply(r))
  PROVE  acknowledged' = acknowledged /\ (cut => cut') /\ NobodyAnswers'
<1> USE DEF FlushInv
<1>1. ASSUME NEW r \in Request, Arrive(r)
      PROVE  acknowledged' = acknowledged /\ (cut => cut') /\ NobodyAnswers'
  BY <1>1 DEF Arrive, componentVars, mainVars, NobodyAnswers
<1>2. ASSUME NEW r \in Request, RequestStep(r)
      PROVE  acknowledged' = acknowledged /\ (cut => cut') /\ NobodyAnswers'
  <2>1. UNCHANGED <<main, cut, closer, acknowledged>>
    <3>1. CASE RateLimited(r) \/ InThrottle(r) \/ Denied(r)
      BY <3>1 DEF RateLimited, InThrottle, Denied, componentVars, mainVars
    <3>2. CASE Unauthorized(r) \/ Enter(r) \/ RequestTimeout(r)
      BY <3>2 DEF Unauthorized, Enter, RequestTimeout, JobKept, mainVars
    <3> QED
      BY <1>2, <3>1, <3>2 DEF RequestStep
  <2>2. ~Idle(r)
    BY <1>2 DEF RequestStep, RateLimited, InThrottle, ThrottleStep, Denied, Unauthorized, Enter,
       Reply, RequestTimeout, TakeSlot, NoSlot, EnterBacklog, RejectBusy, Dequeue,
       BacklogTimeout, ReturnSlot, LeaveBacklog, Idle
  <2> QED
    BY <2>1, <2>2 DEF NobodyAnswers
<1>3. ASSUME NEW r \in Request, Handle(r)
      PROVE  acknowledged' = acknowledged /\ (cut => cut') /\ NobodyAnswers'
  BY <1>3 DEF Handle, JobKept, throttleVars, mainVars, NobodyAnswers, Idle
<1>4. ASSUME NEW s \in Signal, SendSignal(s)
      PROVE  acknowledged' = acknowledged /\ (cut => cut') /\ NobodyAnswers'
  BY <1>4 DEF SendSignal, MainKept, componentVars, NobodyAnswers
<1>5. CASE DelayedSignal \/ ServeFails
  BY <1>5 DEF DelayedSignal, ServeFails, MainKept, componentVars, NobodyAnswers
<1>6. CASE MainStep
  <2>1. CASE ReceiveSignal
    BY <2>1 DEF ReceiveSignal, MainKept, componentVars, NobodyAnswers
  <2>2. CASE Drained
    BY <2>2 DEF Drained, MainKept, componentVars, throttleVars, NobodyAnswers, Idle
  <2>3. CASE DrainTimeout
    BY <2>3 DEF DrainTimeout, JobKept, NobodyAnswers
  <2>4. CASE Close
    BY <2>4 DEF Close, CloseBegin, throttleVars, mainVars, NobodyAnswers, Idle
  <2>5. CASE MainReturns
    BY <2>5 DEF MainReturns, MainKept, componentVars, NobodyAnswers
  <2>6. CASE Abandon
    BY <2>6 DEF Abandon, NobodyAnswers
  <2> QED
    BY <1>6, <2>1, <2>2, <2>3, <2>4, <2>5, <2>6 DEF MainStep
<1>7. CASE CloseStep \/ Deadline \/ StorageStep
  <2>1. UNCHANGED <<main, cut, acknowledged, phase>>
    BY <1>7 DEF CloseStep, Deadline, StorageStep, throttleVars, mainVars
  <2>2. closer = "none" => closer' = "none"
    <3>1. CASE CloserStep
      BY <3>1 DEF CloserStep, StopComponent, ComponentStopped, Stops, FlushSkips,
         FlushBegins, FlushJoins
    <3>2. CASE CloseExpires \/ StopperStep
      BY <3>2 DEF CloseExpires, StopperStep, StopBackup, JoinBackup, StopQueue, JoinQueue,
         JoinLoop, StopKept
    <3>4. CASE WorkerStep \/ FlushSettles
      BY <3>4 DEF WorkerStep, WorkerBegins, WorkerEnds, WorkerExits, FlushSettles
    <3>3. CASE JobStep
      BY <3>3 DEF JobStep, BackupLock, BackupRecheck, BackupFinish, CollectFinish, QueueWrite,
         BackupTick, BackupLoopExit, CollectTick, JobKept
    <3> QED
      BY <1>7, <3>1, <3>2, <3>3, <3>4 DEF CloseStep, Deadline, StorageStep
  <2> QED
    BY <2>1, <2>2 DEF NobodyAnswers, Idle
<1>8. CASE Exited \/ UNCHANGED serverVars
  BY <1>8 DEF Exited, serverVars, throttleVars, componentVars, mainVars, NobodyAnswers, Idle
<1> QED
  BY <1>1, <1>2, <1>3, <1>4, <1>5, <1>6, <1>7, <1>8 DEF ServerNext

LEMMA FlushNext == FlushInv /\ [ServerNext]_serverVars => FlushInv'
<1> SUFFICES ASSUME FlushInv, [ServerNext]_serverVars PROVE FlushInv'
  OBVIOUS
<1>1. ComponentsTypeOK /\ ComponentMove /\ ComponentsTypeOK'
  BY MovesOfComponents, ComponentTypesNext DEF FlushInv
<1>2. ASSUME NEW r \in Request, Running, Reply(r)
      PROVE  FlushInv'
  <2>1. acknowledged' \subseteq Request
    BY <1>2 DEF FlushInv, Reply
  <2> QED
    BY <1>1, <1>2, <2>1, ReplyKeepsFlush DEF FlushInv
<1>3. CASE ~(\E r \in Request : Running /\ Reply(r))
  <2>1. acknowledged' = acknowledged /\ (cut => cut') /\ NobodyAnswers'
    BY <1>3, OthersKeepAnswers
  <2>2. FlushParts'
    BY <1>1, <2>1, ComponentsKeepParts DEF FlushInv
  <2> QED
    BY <1>1, <2>1, <2>2 DEF FlushInv
<1> QED
  BY <1>2, <1>3

LEMMA FlushInit == ServerInit => FlushInv
<1> SUFFICES ASSUME ServerInit PROVE FlushInv
  OBVIOUS
<1>1. ComponentsTypeOK
  BY ComponentTypesInit
<1>2. \A r \in Request : work[r] # "accepted"
  BY RequestsAreNoLoops DEF ServerInit, ComponentsInit
<1> QED
  BY <1>1, <1>2, LoopsAreJobs DEF ServerInit, ComponentsInit, FlushInv, FlushParts, WorkerStops,
     AcceptedKept, Flushed, NobodyAnswers, Kept, Known

\* At a graceful exit that cut no request off it is known what became of each write
\* answered 202: committed, refused or failed in BadgerDB, or in the queue when the flush
\* returned at once; none came too late and none is still with the worker
\* (main.go:458, badger_close.go:178-192, queue.go:245-268).
THEOREM AcceptedAreAccountedFor == Safety => []AcceptedIsFlushed
<1>1. FlushInv => AcceptedIsFlushed
  BY DEF FlushInv, FlushParts, Flushed, Known, AcceptedIsFlushed
<1> QED
  BY <1>1, FlushInit, FlushNext, PTL DEF Safety

===============================================================================
