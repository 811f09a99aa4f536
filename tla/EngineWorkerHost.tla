-------------------------- MODULE EngineWorkerHost --------------------------
(***************************************************************************)
(* src/main/engine-worker-host.js: HTTP requests and SQLite reads run in a *)
(* worker process, and in the main process when the worker is down.        *)
(*                                                                         *)
(* The host is single-threaded; the worker (src/main/engine-worker.js) is  *)
(* another process whose events (message, error, exit) arrive late and are *)
(* not tied to the worker that is current when they arrive.                *)
(*                                                                         *)
(* A call has two halves: what its caller sees (st) and how far its trip   *)
(* to the worker has come (trip), which goes on when the caller gave up.   *)
(***************************************************************************)
EXTENDS Naturals

CONSTANTS Calls,        \* calls of httpJson and readVscdbItems in progress together
          Workers,      \* worker processes that may exist together
          MaxRestarts,  \* MAX_RESTARTS
          NoWorker

ASSUME HostAssumption ==
  /\ NoWorker \notin Workers
  /\ MaxRestarts \in Nat

VARIABLES child,     \* the current worker, or NoWorker
          alive, stopping,
          restartTimer,   \* restart timers that are set
          restartCount,
          proc,      \* proc[w]: "unused", "running", or "dying" (its exit event not seen yet)
          call,      \* the calls
          forks,     \* (history) restarts since a worker last answered
          gaveUp,    \* (history) a restart could not fork
          promptExit \* (of the system) the exit of a killed worker is always seen
                     \* before RESTART_DELAY_MS is over

host == <<child, alive, stopping, restartTimer, restartCount>>
history == <<forks, gaveUp, promptExit>>
hostVars == <<host, proc, call, history>>

\* kind: "get" stands for every idempotent request and for the reads, "post" for
\* idempotent: false.  sent counts how often the request went out.
Entry(kind, st, at, trip) == [kind |-> kind, st |-> st, at |-> at, trip |-> trip, sent |-> 0]
NoCall == Entry("none", "idle", NoWorker, "none")

HostInit ==
  /\ \E w \in Workers :
       /\ child = w /\ alive = TRUE
       /\ proc = [v \in Workers |-> IF v = w THEN "running" ELSE "unused"]
  /\ stopping = FALSE
  /\ restartTimer = 0 /\ restartCount = 0
  /\ call = [c \in Calls |-> NoCall]
  /\ forks = 0 /\ gaveUp = FALSE /\ promptExit \in BOOLEAN
-----------------------------------------------------------------------------
\* httpJson and readVscdbItems of the host, when the worker went down under a call: a
\* request that may be repeated runs here, for another the error is passed on.
HostAfterDown(kind) == IF kind = "post" THEN "down" ELSE "local"

\* httpJson of the engine (http-client.js), whose transport the host is: whatever is
\* answered with engine_worker_down runs here.
EngineAfterDown(answer) == IF answer = "down" THEN "local" ELSE answer

AfterDown(kind) == EngineAfterDown(HostAfterDown(kind))

\* Mutant: the pending table is cleared without rejecting the callers.
FailedAllForgotten == [c \in Calls |->
  IF call[c].st = "rpc" THEN [call[c] EXCEPT !.st = "forgotten"] ELSE call[c]]

\* failAllPending: every pending call is rejected.
FailedAll == [c \in Calls |->
  IF call[c].st = "rpc" THEN [call[c] EXCEPT !.st = AfterDown(call[c].kind)] ELSE call[c]]

\* Mutant: one restart fewer.
MayScheduleLess == ~ stopping /\ restartCount + 1 < MaxRestarts /\ restartTimer = 0

\* shouldScheduleWorkerRestart, once alive is false.
MaySchedule == ~ stopping /\ restartCount < MaxRestarts /\ restartTimer = 0

ScheduleRestart == restartTimer' = restartTimer + (IF MaySchedule THEN 1 ELSE 0)

\* onWorkerExit, whichever worker the event is about.
OnWorkerExit ==
  /\ alive' = FALSE /\ child' = NoWorker
  /\ ScheduleRestart
  /\ UNCHANGED <<stopping, restartCount>>

\* child.kill()
Killed == [w \in Workers |-> IF w = child /\ proc[w] = "running" THEN "dying" ELSE proc[w]]
-----------------------------------------------------------------------------
(* Calls                                                                   *)

Rpc(c, kind) ==
  /\ call[c].st = "idle"
  /\ \/ /\ ~ alive
        /\ call' = [call EXCEPT ![c] = Entry(kind, "local", NoWorker, "none")]
     \/ /\ alive
        /\ call' = [call EXCEPT ![c] = Entry(kind, "rpc", child, "posted")]
     \/ \* postMessage throws: the error goes to the caller
        /\ alive
        /\ call' = [call EXCEPT ![c] = Entry(kind, "settled", NoWorker, "none")]
  /\ UNCHANGED <<host, proc, history>>

\* The timer of a pending call fires: abandonStuckWorker.
CallTimesOut(c) ==
  /\ call[c].st = "rpc"
  /\ alive' = FALSE /\ child' = NoWorker
  /\ call' = FailedAll
  /\ proc' = Killed
  /\ ScheduleRestart
  /\ UNCHANGED <<stopping, restartCount, history>>

\* Mutant: the host's caller runs once more what the host has run already.
RunsLocallyTwice(c) ==
  /\ call[c].st = "local"
  /\ call' = [call EXCEPT ![c].st = "settled",
                          ![c].sent = @ + (IF call[c].kind = "get" THEN 2 ELSE 1)]
  /\ UNCHANGED <<host, proc, history>>

\* httpJsonLocal or readVscdbItemRowsLocal, called by the host or by its caller.
RunsLocally(c) ==
  /\ call[c].st = "local"
  /\ call' = [call EXCEPT ![c].st = "settled", ![c].sent = @ + 1]
  /\ UNCHANGED <<host, proc, history>>

\* The caller is done with the call, and the worker too.
Forget(c) ==
  /\ call[c].st = "settled" /\ call[c].trip = "none"
  /\ call' = [call EXCEPT ![c] = NoCall]
  /\ UNCHANGED <<host, proc, history>>

\* The answer arrives, also from a worker that is not current any more and for a
\* call whose caller gave up.
OnMessage(c) ==
  /\ call[c].trip = "answered"
  /\ restartCount' = 0
  /\ forks' = 0
  /\ call' = [call EXCEPT ![c].trip = "none",
                          ![c].st = IF @ = "rpc" THEN "settled" ELSE @]
  /\ UNCHANGED <<child, alive, stopping, restartTimer, proc, gaveUp, promptExit>>
-----------------------------------------------------------------------------
(* The worker process (external but for its message handler)               *)

Sends(c) ==
  /\ call[c].trip = "posted" /\ proc[call[c].at] = "running"
  /\ call' = [call EXCEPT ![c].trip = "sent", ![c].sent = @ + 1]
  /\ UNCHANGED <<host, proc, history>>

WorkerAnswers(c) ==
  /\ call[c].trip = "sent" /\ proc[call[c].at] = "running"
  /\ call' = [call EXCEPT ![c].trip = "answered"]
  /\ UNCHANGED <<host, proc, history>>

Dies(w) ==
  /\ proc[w] = "running"
  /\ proc' = [proc EXCEPT ![w] = "dying"]
  /\ UNCHANGED <<host, call, history>>

\* A fatal error is reported before the exit is.
ErrorEvent(w) ==
  /\ proc[w] = "running"
  /\ proc' = [proc EXCEPT ![w] = "dying"]
  /\ call' = FailedAll
  /\ OnWorkerExit
  /\ UNCHANGED history

ExitEvent(w) ==
  /\ proc[w] = "dying"
  /\ proc' = [proc EXCEPT ![w] = "unused"]
  /\ call' = [c \in Calls |-> IF call[c].at = w
                              THEN [FailedAll[c] EXCEPT !.trip = "none", !.at = NoWorker]
                              ELSE FailedAll[c]]
  /\ OnWorkerExit
  /\ UNCHANGED history
-----------------------------------------------------------------------------
(* Restarting and stopping                                                 *)

Counted == restartCount + 1

Forked(w) ==
  /\ proc[w] = "unused"
  /\ child' = w /\ alive' = TRUE
  /\ proc' = [proc EXCEPT ![w] = "running"]
  /\ UNCHANGED gaveUp

ForkFails ==
  /\ child' = NoWorker /\ alive' = FALSE
  /\ gaveUp' = TRUE
  /\ UNCHANGED proc

\* The restart timer fires.
Restart ==
  /\ restartTimer > 0
  /\ promptExit => \A w \in Workers : proc[w] # "dying"
  /\ restartTimer' = restartTimer - 1
  /\ IF stopping \/ alive
     THEN UNCHANGED <<child, alive, restartCount, proc, history>>
     ELSE /\ restartCount' = Counted
          /\ forks' = IF forks > MaxRestarts THEN forks ELSE forks + 1
          /\ (\E w \in Workers : Forked(w)) \/ ForkFails
  /\ UNCHANGED <<stopping, call, promptExit>>

\* stopEngineWorker, before the app quits.
StopWorker ==
  /\ ~ stopping
  /\ stopping' = TRUE
  /\ restartTimer' = 0
  /\ alive' = FALSE /\ child' = NoWorker
  /\ call' = FailedAll
  /\ proc' = Killed
  /\ UNCHANGED <<restartCount, history>>
-----------------------------------------------------------------------------
CallStep(c) == \/ Rpc(c, "get") \/ Rpc(c, "post")
               \/ CallTimesOut(c) \/ RunsLocally(c) \/ Forget(c) \/ OnMessage(c)
               \/ Sends(c) \/ WorkerAnswers(c)

WorkerStep(w) == Dies(w) \/ ErrorEvent(w) \/ ExitEvent(w)

HostNext == \/ \E c \in Calls : CallStep(c)
            \/ \E w \in Workers : WorkerStep(w)
            \/ Restart \/ StopWorker

\* Timers fire, an HTTP request or a file read ends (both are timed), and the
\* operating system reports that a process has gone.
HostFairness == /\ \A c \in Calls : WF_hostVars(CallTimesOut(c)) /\ WF_hostVars(RunsLocally(c))
                /\ \A w \in Workers : WF_hostVars(ExitEvent(w))
                /\ WF_hostVars(Restart)

HostSpec == HostInit /\ [][HostNext]_hostVars
HostFairSpec == HostSpec /\ HostFairness
-----------------------------------------------------------------------------
CallState == [kind : {"none", "get", "post"},
         st : {"idle", "rpc", "local", "settled"},
         at : Workers \cup {NoWorker},
         trip : {"none", "posted", "sent", "answered"},
         sent : Nat]

\* The types of the variables; a pending call has a current worker.
HostTypeOK ==
  /\ child \in Workers \cup {NoWorker}
  /\ alive \in BOOLEAN /\ stopping \in BOOLEAN /\ gaveUp \in BOOLEAN /\ promptExit \in BOOLEAN
  /\ restartTimer \in 0..1
  /\ restartCount \in Nat /\ forks \in Nat
  /\ proc \in [Workers -> {"unused", "running", "dying"}]
  /\ call \in [Calls -> CallState]
  /\ alive <=> child # NoWorker
  /\ \A c \in Calls : call[c].st = "rpc" => alive /\ call[c].at = child

\* What the host's comment and the documents say: a token POST goes out at most once,
\* from the worker or from the main process, whatever happens to the worker meanwhile,
\* for a refresh token is single-use.
PostAtMostOnce == \A c \in Calls : call[c].kind = "post" => call[c].sent <= 1

\* Two layers fall back to the main process (the host's httpJson and the engine's), and
\* a worker nobody remembers may still run what it was sent: a request goes out at most
\* twice all the same, and not a second time while the worker may still answer it.
RepeatedOnce ==
  \A c \in Calls : call[c].sent <= 2 /\ (call[c].st = "rpc" => call[c].sent <= 1)

\* Every call is answered or rejected, though its worker hangs or dies.
EveryCallSettles ==
  \A c \in Calls : (call[c].st \in {"rpc", "local"}) ~> (call[c].st = "settled")

\* A worker that never answers is restarted at most MaxRestarts times, though one
\* death may be reported twice (error and exit, or a kill and its late exit).
RestartsBounded == forks <= MaxRestarts

\* When the exit of a killed worker is seen in time, the only running worker is the
\* current one: none is left that nobody will ever kill.
NoOrphan == promptExit => \A w \in Workers : proc[w] = "running" => w = child

\* When exits are seen in time, a worker that went down comes back as long as restarts
\* are left: one of the events about it always finds the timer set or sets it.
WorkerComesBack ==
  (promptExit /\ ~ alive /\ restartCount < MaxRestarts)
    ~> (alive \/ stopping \/ gaveUp \/ restartCount >= MaxRestarts)
=============================================================================
