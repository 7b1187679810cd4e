--------------------------------- MODULE Server ---------------------------------
(***************************************************************************)
(* The whole process: the request goroutines with their middleware chain   *)
(* (handlers/shutdown.go, middleware/setup.go), the main goroutine with    *)
(* its signal loop (cmd/server/main.go, pkg/tls/autotls.go) and the        *)
(* components of the storage, from serving to os.Exit.                     *)
(*                                                                         *)
(* A request is two goroutines once the timeout middleware has called its  *)
(* handler: phase[r] is the one that answers, work[r] the handler, which   *)
(* runs on when the request was answered without it.                       *)
(***************************************************************************)
EXTENDS Throttle, Components, Sequences

CONSTANTS
  Kinds,       \* what each request may ask for
  MaxSignals   \* bound: signals sent to the process

Kind == {"store", "backup", "collect", "read"}

\* make(chan os.Signal, 2)
QuitCapacity == 2

ASSUME ServerAssumption ==
  /\ Kinds \in [Request -> SUBSET Kind]
  /\ MaxSignals \in Nat

VARIABLES
  main,          \* program counter of the main goroutine
  quit,          \* contents of the channel quit
  window,        \* the 3 seconds after the first signal
  shuttingDown,  \* isShuttingDown
  acknowledged,  \* history: requests answered 202
  cut,           \* history: Shutdown gave up on requests under way
  signals        \* history: signals sent before the loop ended, by name

mainVars   == <<main, quit, window, shuttingDown, acknowledged, cut, signals>>
serverVars == <<throttleVars, componentVars, mainVars>>

Signal == {"USR1", "TERM"}
NoSignals == [s \in Signal |-> 0]
MainPC == {"serving", "draining", "closing", "emergency", "exited"}

Running == main # "exited"
\* A request nobody works for; a detached handler does not count
Idle(r) == phase[r] \in {"new", "done"}

ServerInit ==
  /\ ThrottleInit
  /\ ComponentsInit
  /\ main = "serving"
  /\ quit = <<>>
  /\ window = "none"
  /\ shuttingDown = FALSE
  /\ acknowledged = {}
  /\ cut = FALSE
  /\ signals = NoSignals

-------------------------------------------------------------------------------
(* Requests *)

\* ShutdownHandler.Middleware comes first.  The listener is closed once Shutdown is
\* called.
Arrive(r) ==
  /\ main \in {"serving", "emergency"}
  /\ phase[r] = "new"
  /\ IF shuttingDown
     THEN Return(r)
     ELSE /\ phase' = [phase EXCEPT ![r] = "arriving"]
          /\ UNCHANGED <<defers, slots, backlog>>
  /\ UNCHANGED <<componentVars, mainVars>>

\* The rate limiter of echo stands before the throttle
RateLimited(r) ==
  /\ phase[r] = "arriving"
  /\ Return(r)
  /\ UNCHANGED <<componentVars, mainVars>>

InThrottle(r) == ThrottleStep(r) /\ UNCHANGED <<componentVars, mainVars>>

\* The address list refuses behind the throttle, with its slot
Denied(r) ==
  /\ phase[r] = "admitted"
  /\ Return(r)
  /\ UNCHANGED <<componentVars, mainVars>>

\* What the handlers do first.  StoreContent may refuse: see Validation.
BeginStore(r)   == \E state \in {"storing", "ended"} : Becomes(r, state)
BeginBackup(r)  == BackupBegin(r)
BeginCollect(r) == Becomes(r, "collecting")
BeginRead(r)    == Becomes(r, "ended")

Begin(r, kind) == \/ kind = "store"   /\ BeginStore(r)
                  \/ kind = "backup"  /\ BeginBackup(r)
                  \/ kind = "collect" /\ BeginCollect(r)
                  \/ kind = "read"    /\ BeginRead(r)

\* The timeout middleware starts the goroutine of the handler
Enter(r) ==
  /\ phase[r] = "admitted"
  /\ \E kind \in Kinds[r] : Begin(r, kind)
  /\ phase' = [phase EXCEPT ![r] = "handling"]
  /\ UNCHANGED <<defers, slots, backlog>>
  /\ JobKept /\ UNCHANGED <<afterStop, mainVars>>

\* ... in which the key is asked for first
Unauthorized(r) ==
  /\ phase[r] = "admitted"
  /\ Becomes(r, "ended")
  /\ phase' = [phase EXCEPT ![r] = "handling"]
  /\ UNCHANGED <<defers, slots, backlog>>
  /\ JobKept /\ UNCHANGED <<afterStop, mainVars>>

\* A handler called after the drain
Handle(r) ==
  /\ Running
  /\ work[r] = "called"
  /\ \E kind \in Kinds[r] : Begin(r, kind)
  /\ JobKept /\ UNCHANGED <<afterStop, throttleVars, mainVars>>

Finished == {"accepted", "ended"}

\* The handler's goroutine has ended in time
Reply(r) ==
  /\ phase[r] = "handling"
  /\ work[r] \in Finished
  /\ acknowledged' = IF work[r] = "accepted" THEN acknowledged \cup {r}
                                             ELSE acknowledged
  /\ Return(r)
  /\ Becomes(r, "none")
  /\ JobKept /\ UNCHANGED <<afterStop, main, quit, window, shuttingDown, cut, signals>>

\* Mutant: no timeout middleware
RequestTimeoutNever(r) ==
  /\ phase[r] = "handling" /\ work[r] \in Finished
  /\ Return(r)
  /\ Becomes(r, "none")
  /\ JobKept /\ UNCHANGED <<afterStop, mainVars>>

\* The timeout middleware answers and leaves the handler to itself
RequestTimeout(r) ==
  /\ phase[r] = "handling"
  /\ Return(r)
  /\ Becomes(r, IF work[r] \in Finished THEN "none" ELSE work[r])
  /\ JobKept /\ UNCHANGED <<afterStop, mainVars>>

\* The goroutine that answers r
RequestStep(r) ==
  /\ Running
  /\ \/ RateLimited(r) \/ InThrottle(r) \/ Denied(r) \/ Unauthorized(r)
     \/ Enter(r) \/ Reply(r) \/ RequestTimeout(r)

-------------------------------------------------------------------------------
(* Signals *)

MainKept == UNCHANGED <<throttleVars, componentVars>>

\* signal.Notify drops what does not fit in the channel.  Signals sent after the
\* loop are received by nobody, and left out, as is the time that passes then.
SendSignal(s) ==
  /\ main = "serving"
  /\ signals["USR1"] + signals["TERM"] < MaxSignals
  /\ signals' = [signals EXCEPT ![s] = @ + 1]
  /\ quit' = IF Len(quit) < QuitCapacity THEN Append(quit, s) ELSE quit
  /\ MainKept /\ UNCHANGED <<main, window, shuttingDown, acknowledged, cut>>

\* Mutant: the goroutine does not sleep
DelayedSignalEarly ==
  /\ main = "serving" /\ window = "open"
  /\ quit' = IF Len(quit) < QuitCapacity THEN Append(quit, "TERM") ELSE quit
  /\ MainKept /\ UNCHANGED <<main, window, shuttingDown, acknowledged, cut, signals>>

\* The goroutine that the first signal started has slept its 3 seconds, and sends a
\* SIGTERM of its own if there is room.  What the loop receives between the end of
\* the 3 seconds and this send, it treats as what it receives after it.
DelayedSignal ==
  /\ main = "serving" /\ window = "open"
  /\ window' = "over"
  /\ quit' = IF Len(quit) < QuitCapacity THEN Append(quit, "TERM") ELSE quit
  /\ MainKept /\ UNCHANGED <<main, shuttingDown, acknowledged, cut, signals>>

\* The loop of startServerWithShutdown: new requests are refused at once; the
\* first SIGTERM is only noted, a second one within 3 seconds is an emergency.
\* Nobody receives from quit, or looks at the time, once the loop has ended.
ReceiveSignal ==
  LET sig == Head(quit)
      end(pc) == main' = pc /\ quit' = <<>> /\ window' = "none" IN
  /\ main = "serving"
  /\ quit # <<>>
  /\ shuttingDown' = TRUE
  /\ \/ /\ sig = "TERM" /\ window = "none"
        /\ window' = "open" /\ quit' = Tail(quit) /\ UNCHANGED <<main, signals>>
     \/ /\ sig = "USR1" \/ (sig = "TERM" /\ window = "open")
        /\ end("emergency") /\ UNCHANGED signals
     \/ /\ sig = "TERM" /\ window = "over"
        /\ end("draining") /\ signals' = NoSignals
  /\ MainKept /\ UNCHANGED <<acknowledged, cut>>

-------------------------------------------------------------------------------
(* Graceful shutdown *)

\* Mutant: requests under way are not waited for
DrainedAtOnce ==
  /\ main = "draining"
  /\ main' = "closing"
  /\ MainKept /\ UNCHANGED <<quit, window, shuttingDown, acknowledged, cut, signals>>

\* performGracefulServerShutdown: Shutdown waits for the requests under way
Drained ==
  /\ main = "draining"
  /\ \A r \in Request : Idle(r)
  /\ main' = "closing"
  /\ MainKept /\ UNCHANGED <<quit, window, shuttingDown, acknowledged, cut, signals>>

\* The handler of j, when Shutdown gives up: one that was still in the throttle may
\* be called at any time, and one that only reads has nothing left to show
Detached(j) ==
  CASE work[j] \in Finished -> "none"
    [] j \in Request /\ phase[j] \in {"arriving", "busy", "waiting", "admitted"} ->
         IF Kinds[j] = {"read"} THEN "none" ELSE "called"
    [] OTHER -> work[j]

\* ... for ShutdownTimeout at most.  The requests go on while main closes the
\* storage.  From here only their handlers are followed.
DrainTimeout ==
  /\ main = "draining"
  /\ main' = "closing"
  /\ cut' = TRUE
  /\ work' = [j \in Job |-> Detached(j)]
  /\ ThrottleLeft
  /\ JobKept /\ UNCHANGED <<afterStop, quit, window, shuttingDown, acknowledged, signals>>

\* The deferred store.Close of main
Close ==
  /\ main = "closing"
  /\ CloseBegin
  /\ UNCHANGED <<throttleVars, mainVars>>

\* Close has returned, the database closed or not 30 seconds after db.Close
\* was called, and main returns
MainReturns ==
  /\ main = "closing"
  /\ closer = "closing"
  /\ main' = "exited"
  /\ MainKept /\ UNCHANGED <<quit, window, shuttingDown, acknowledged, cut, signals>>

-------------------------------------------------------------------------------
(* Emergency shutdown, and a server that does not start *)

\* performEmergencyServerShutdown: EmergencyShutdown tells the worker to stop and
\* saves what is in memory, which is the subject of Recovery; then os.Exit,
\* whatever requests and the worker are doing
Abandon ==
  /\ main = "emergency"
  /\ main' = "exited"
  /\ running' = running \ {Queue}
  /\ CloseKept /\ UNCHANGED <<stopper, closer, expired, throttleVars>>
  /\ UNCHANGED <<quit, window, shuttingDown, acknowledged, cut, signals>>

\* Fatal in the goroutine that serves: the process ends without closing the storage
ServeFails ==
  /\ main = "serving"
  /\ \A r \in Request : phase[r] = "new"
  /\ main' = "exited"
  /\ MainKept /\ UNCHANGED <<quit, window, shuttingDown, acknowledged, cut, signals>>

-------------------------------------------------------------------------------

MainStep == ReceiveSignal \/ Drained \/ DrainTimeout \/ Close \/ MainReturns
            \/ Abandon
CloseStep == Running /\ CloserStep /\ UNCHANGED <<throttleVars, mainVars>>
Deadline  == Running /\ CloseExpires /\ UNCHANGED <<throttleVars, mainVars>>

\* Nobody reads what a loop is doing before its stopper has begun, or the worker
\* before Close comes to the flush, and how far each has got by then is open: so
\* they need not move before.
Watched == {c \in Loop : stopper[c] # "none"}
           \cup IF closer \in {"none", "health", "backup", "gc"} THEN {} ELSE {Queue}
StorageStep ==
  /\ Running
  /\ JobStep \/ StopperStep \/ WorkerStep \/ FlushSettles
  /\ \A c \in Component \ Watched : work'[c] = work[c]
  /\ UNCHANGED <<throttleVars, mainVars>>

Exited == ~Running /\ UNCHANGED serverVars

ServerNext ==
  \/ \E r \in Request : Arrive(r) \/ RequestStep(r) \/ Handle(r)
  \/ \E s \in Signal : SendSignal(s)
  \/ DelayedSignal \/ MainStep \/ ServeFails
  \/ CloseStep \/ Deadline \/ StorageStep
  \/ Exited

Safety == ServerInit /\ [][ServerNext]_serverVars

\* The worker looks at stopChan between its batches
Leave == Running /\ WorkerExits /\ UNCHANGED <<throttleVars, mainVars>>

\* The runtime schedules every goroutine and every timer fires.  Handlers, the
\* components and BadgerDB may hang, in the worker and in the closer.  The emergency
\* shutdown waits for neither; that the file system takes its three files is assumed.
Spec ==
  /\ Safety
  /\ \A r \in Request : WF_serverVars(RequestStep(r))
  /\ WF_serverVars(DelayedSignal)
  /\ WF_serverVars(MainStep)
  /\ WF_serverVars(CloseStep)
  /\ WF_serverVars(Deadline)
  /\ WF_serverVars(Leave)

-------------------------------------------------------------------------------
(* Properties *)

\* Every variable of the process has its type.
TypeOK ==
  /\ ThrottleTypeOK
  /\ ComponentsTypeOK
  /\ main \in MainPC
  /\ quit \in Seq(Signal) /\ Len(quit) <= QuitCapacity
  /\ window \in {"none", "open", "over"}
  /\ shuttingDown \in BOOLEAN
  /\ acknowledged \subseteq Request
  /\ cut \in BOOLEAN
  /\ signals \in [Signal -> 0 .. MaxSignals]

\* At a graceful exit that cut no request off, what became of each write answered 202
\* is known: it was committed, BadgerDB refused it or failed, or the flush returned at
\* once while it was in the queue.  Shutdown has waited for the handlers, and the
\* flush waits for the worker and takes what it left, so that nothing comes too late
\* or is still under way (main.go:458, badger_close.go:178-192, queue.go:245-268).
AcceptedIsFlushed ==
  main = "exited" /\ closer = "closing" /\ ~cut
    => acknowledged \subseteq committed \cup failed \cup missed

\* A signal makes the process leave without flushing only when somebody asked for it:
\* by SIGUSR1 or by two SIGINT or SIGTERM.  The signal that the server sends itself
\* after a lone SIGTERM is never taken for the second (main.go:404-437).  A listener
\* that fails ends the process without a flush as well, and without a signal.
EmergencyOnlyOnPurpose ==
  main = "emergency" => signals["USR1"] > 0 \/ signals["TERM"] > 1

\* Once a signal has arrived, the process ends, by either shutdown: whatever requests
\* and components do, and whichever signals follow or are dropped.  Only a commit that
\* hangs in BadgerDB can hold it, because FlushQueue has no timeout, neither for the
\* worker nor for its own commits (badger_close.go:180, queue.go:142, 252).
SignalEndsProcess ==
  ([]<>~AwaitsCommit) => ((quit # <<>>) ~> (main = "exited"))

\* Every request is answered and gives back what it holds of the throttle while
\* the process runs, even when its handler or a backup hangs.
EveryRequestEnds ==
  \A r \in Request : (phase[r] # "new") ~> (phase[r] = "done" \/ main = "exited")
===============================================================================
