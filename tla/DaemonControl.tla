--------------------------- MODULE DaemonControl ---------------------------
(***************************************************************************)
(* The background sync: its start, stop, timer, remembered setting and     *)
(* status (src/main/ipc-handlers.js registerIpcHandlers), around the pass  *)
(* over the accounts (engine/daemon.js runDaemonWorker).                   *)
(*                                                                         *)
(* A pass suspends at every account lock and every request, and start,     *)
(* stop and settings changes happen meanwhile; a pass belongs to the       *)
(* generation it began in.  What it does to the files of an account is in  *)
(* module CodexAuth; here the account is work that begins under its lock   *)
(* and ends by saving it.                                                  *)
(***************************************************************************)
EXTENDS Naturals, FiniteSets

CONSTANTS Accts,           \* saved accounts
          Runs,            \* passes that could be in progress together
          Minutes,         \* values of sync_interval_minutes
          MaxGeneration,   \* bound: starts and stops in one session
          Unset

ASSUME DaemonAssumption ==
  /\ Unset \notin Accts /\ Unset \notin Minutes /\ Unset \notin {"stopped", "auth_conflict"}
  /\ Minutes # {}
  /\ MaxGeneration \in Nat \ {0}

VARIABLES
  daemonTimer,          \* the interval of the timer, or Unset
  timers,               \* timers of the event loop that call runDaemon
  daemonInFlight, daemonRunRequested, daemonGeneration,
  run,                  \* the passes
  pausedReason,         \* what is shown: Unset, "stopped" or "auth_conflict"
  served,               \* (history) generation of the last pass that began
  cfg,                  \* auto-switch.json: enabled and minutes
  remembered            \* (history) the last toggle was saved, and read at the launch

timerVars == <<daemonTimer, timers>>
passVars == <<daemonInFlight, daemonRunRequested, run, served>>
disk == <<cfg, remembered>>
daemonVars == <<timerVars, passVars, daemonGeneration, pausedReason, disk>>

\* A pass: its generation, where it is, its stage, the accounts the stage has left, and
\* (history) what it did after it was cancelled: the accounts it began and the logins it
\* mirrored (late), the logins that a token request in progress then wrote (synced).
NoPass == [gen |-> 0, at |-> "none", stage |-> "none", left |-> {}, late |-> 0, synced |-> 0]

Running == daemonTimer # Unset
Cancelled(r) == run[r].gen # daemonGeneration \/ ~ Running
-----------------------------------------------------------------------------
Busy(inFlight) == inFlight

\* Mutant: a start while a pass is in flight asks for nothing.
RequestedNot(running, requested) == requested
Requested(running, requested) == running \/ requested

\* runDaemon up to its first await, in generation g while the timer runs, after
\* the passes were P, one was in flight or not, and one more requested or not.
RunDaemon(g, P, inFlight, requested) ==
  IF Busy(inFlight)
  THEN /\ daemonRunRequested' = Requested(TRUE, requested)
       /\ run' = P /\ daemonInFlight' = inFlight
       /\ UNCHANGED served
  ELSE /\ \E r \in Runs :
            /\ P[r].at = "none"
            /\ run' = [P EXCEPT ![r] = [NoPass EXCEPT !.gen = g, !.at = "inspect"]]
       /\ daemonInFlight' = TRUE
       /\ daemonRunRequested' = requested
       /\ served' = g

DaemonInit ==
  /\ daemonTimer = Unset /\ timers = 0
  /\ daemonInFlight = FALSE /\ daemonRunRequested = FALSE /\ daemonGeneration = 0
  /\ run = [r \in Runs |-> NoPass]
  /\ pausedReason = Unset /\ served = 0
  /\ cfg \in [enabled : {FALSE}, minutes : Minutes]
  /\ remembered = TRUE
-----------------------------------------------------------------------------
(* The setting and the switch                                              *)

\* persistDaemonEnabled: load, change and save in one turn; a failure is logged.
Persist(on) ==
  \/ cfg' = [cfg EXCEPT !.enabled = on] /\ remembered' = TRUE
  \/ UNCHANGED cfg /\ remembered' = (cfg.enabled = on)

\* daemon:start
StartDaemon ==
  /\ daemonGeneration < MaxGeneration
  /\ Persist(TRUE)
  /\ IF Running
     THEN UNCHANGED <<timerVars, passVars, daemonGeneration, pausedReason>>
     ELSE /\ pausedReason' = Unset
          /\ daemonGeneration' = daemonGeneration + 1
          /\ daemonTimer' = cfg.minutes /\ timers' = timers + 1
          /\ RunDaemon(daemonGeneration + 1, run, daemonInFlight, daemonRunRequested)

StillRequested == FALSE

\* daemon:stop
StopDaemon ==
  /\ daemonGeneration < MaxGeneration
  /\ Persist(FALSE)
  /\ IF ~ Running
     THEN UNCHANGED <<timerVars, passVars, daemonGeneration, pausedReason>>
     ELSE /\ daemonTimer' = Unset /\ timers' = timers - 1
          /\ daemonRunRequested' = StillRequested
          /\ daemonGeneration' = daemonGeneration + 1
          /\ pausedReason' = "stopped"
          /\ UNCHANGED <<daemonInFlight, run, served>>

\* Mutant: saving the interval drops the rest of the settings.
SavedConfigOnly(m) == [enabled |-> FALSE, minutes |-> m]
SavedConfig(m) == [cfg EXCEPT !.minutes = m]

\* daemon:config:save, and reloadDaemonTimer when the interval changed.
SaveConfig(m) ==
  /\ cfg' = SavedConfig(m)
  /\ IF m # cfg.minutes /\ Running
     THEN daemonTimer' = m /\ UNCHANGED timers
     ELSE UNCHANGED timerVars
  /\ UNCHANGED <<passVars, daemonGeneration, pausedReason, remembered>>

\* The timer fires; a cleared one does not.
Tick ==
  /\ timers > 0 /\ Running
  /\ RunDaemon(daemonGeneration, run, daemonInFlight, daemonRunRequested)
  /\ UNCHANGED <<timerVars, daemonGeneration, pausedReason, disk>>

\* The program ends, or is killed, and is launched again: memory is new, and
\* restoreDaemonFromConfig starts the daemon without saving the setting.
Relaunch ==
  LET fresh == [r \in Runs |-> NoPass] IN
  \/ /\ cfg.enabled
     /\ daemonTimer' = cfg.minutes /\ timers' = 1
     /\ daemonGeneration' = 1 /\ pausedReason' = Unset
     /\ RunDaemon(1, fresh, FALSE, FALSE)
     /\ remembered' = TRUE
     /\ UNCHANGED cfg
  \/ \* not enabled, or the setting could not be read
     /\ daemonTimer' = Unset /\ timers' = 0
     /\ daemonGeneration' = 0 /\ pausedReason' = Unset
     /\ run' = fresh /\ served' = 0
     /\ daemonInFlight' = FALSE /\ daemonRunRequested' = FALSE
     /\ remembered' = ~ cfg.enabled
     /\ UNCHANGED cfg
-----------------------------------------------------------------------------
(* The pass                                                                *)

Elsewhere == UNCHANGED <<timerVars, daemonInFlight, daemonRunRequested, served,
                         daemonGeneration, pausedReason, disk>>

Enters(r, stage) ==
  /\ run' = [run EXCEPT ![r].at = "list", ![r].stage = stage, ![r].left = Accts]
  /\ Elsewhere

\* Mutant: whoever ends last is shown.
MayPublishAny(r) == TRUE
MayPublish(r) == run[r].gen = daemonGeneration

\* The pass returns and runDaemon goes on in the same turn: publish the result,
\* leave, and begin again if that was requested meanwhile (queueMicrotask).
\* A pass that threw keeps what is shown.
PassEnds(r, result) ==
  LET over == [run EXCEPT ![r] = NoPass] IN
  /\ pausedReason' = IF MayPublish(r) /\ result # "error"
                     THEN (IF result = "done" THEN Unset ELSE result)
                     ELSE pausedReason
  /\ IF daemonRunRequested /\ Running
     THEN RunDaemon(daemonGeneration, over, FALSE, FALSE)
     ELSE /\ run' = over /\ daemonInFlight' = FALSE
          /\ UNCHANGED <<daemonRunRequested, served>>
  /\ UNCHANGED <<timerVars, daemonGeneration, disk>>

\* The auth state, read under the lock of the current account: a conflict, busy or
\* unreadable files end the pass.  The list of the accounts may throw.
Inspect(r) ==
  /\ run[r].at = "inspect"
  /\ \/ \E result \in {"auth_conflict", "done", "error"} : PassEnds(r, result)
     \/ Enters(r, "tokens")

NextStage == [tokens |-> "probes", probes |-> "current"]

\* Between two accounts: stop, ask for the lock of the next one, or go on to the
\* next stage.  The last stage has one account, the current one, or none.
BetweenAccounts(r) ==
  /\ run[r].at = "list"
  /\ IF Cancelled(r)
     THEN PassEnds(r, "stopped")
     ELSE \/ /\ run[r].left # {}
             /\ \E a \in run[r].left :
                  run' = [run EXCEPT ![r].at = "lock",
                            ![r].left = IF run[r].stage = "current" THEN {} ELSE @ \ {a}]
             /\ Elsewhere
          \/ /\ run[r].left = {} /\ run[r].stage # "current"
             /\ Enters(r, NextStage[run[r].stage])
          \/ /\ run[r].stage = "current"
             /\ PassEnds(r, "done") \/ PassEnds(r, "error")

\* Mutant: the stop is only looked for before the lock.
MayBeginAnyhow(r) == TRUE
MayBegin(r) == ~ Cancelled(r)

\* The current account is asked for its quota, after its token if that has expired.
FirstRequests == [tokens |-> {"token"}, probes |-> {"usage"}, current |-> {"token", "usage"}]

\* The lock is granted: a request is made for the account, or it is skipped.
UnderLock(r) ==
  /\ run[r].at = "lock"
  /\ \/ /\ MayBegin(r)
        /\ \E first \in FirstRequests[run[r].stage] :
             run' = [run EXCEPT ![r].at = first,
                                ![r].late = IF Cancelled(r) THEN @ + 1 ELSE @]
     \/ run' = [run EXCEPT ![r].at = "list"]
  /\ Elsewhere

\* Mutant: the mirror is written although the pass was stopped.
MayMirrorAnyhow(r) == run[r].stage = "current"
MayMirror(r) == run[r].stage = "current" /\ ~ Cancelled(r)

\* The account is done with and saved; the last stage then writes the official login,
\* unless the pass was stopped meanwhile; sync is 1 if a token request just wrote it.
LeavesAccount(r, sync) ==
  \E mirror \in {0, 1} :
    /\ mirror = 1 => MayMirror(r)
    /\ run' = [run EXCEPT ![r].at = "list",
                          ![r].late = IF Cancelled(r) THEN @ + mirror ELSE @,
                          ![r].synced = IF Cancelled(r) THEN @ + sync ELSE @]

\* What follows a fresh token: the quota, for which it was wanted, or nothing more.
AfterToken(r) == IF run[r].stage = "tokens" THEN "list"
                 ELSE IF run[r].at = "token" THEN "usage" ELSE "again"

\* refreshOneTok returns.  A fresh token is saved, and syncCurrentAuthIfNeeded writes
\* the official login with it when the account is current: a stop is not looked for.
\* The request, or what is done after it, may fail.
TokenAnswers(r) ==
  /\ run[r].at \in {"token", "repair"}
  /\ \E sync \in {0, 1} :
       \/ run' = [run EXCEPT ![r].at = AfterToken(r),
                             ![r].synced = IF Cancelled(r) THEN @ + sync ELSE @]
       \/ LeavesAccount(r, sync)
  /\ Elsewhere

\* The usage request returns.  In the last stage a rejected token is replaced, once, and
\* the request repeated (fetchQuotaWithTokenRepair), again without looking for a stop.
UsageAnswers(r) ==
  /\ run[r].at \in {"usage", "again"}
  /\ \/ /\ run[r].at = "usage" /\ run[r].stage = "current"
        /\ run' = [run EXCEPT ![r].at = "repair"]
     \/ LeavesAccount(r, 0)
  /\ Elsewhere
-----------------------------------------------------------------------------
PassStep(r) == \/ Inspect(r) \/ BetweenAccounts(r) \/ UnderLock(r)
               \/ TokenAnswers(r) \/ UsageAnswers(r)

DaemonNext ==
  \/ StartDaemon \/ StopDaemon \/ Tick \/ Relaunch
  \/ \E m \in Minutes : SaveConfig(m)
  \/ \E r \in Runs : PassStep(r)

\* Locks are granted (OperationLocks, EveryCallRuns) and requests are timed.
DaemonFairness == \A r \in Runs : WF_daemonVars(PassStep(r))

DaemonSpec == DaemonInit /\ [][DaemonNext]_daemonVars
DaemonFairSpec == DaemonSpec /\ DaemonFairness
-----------------------------------------------------------------------------
Pass == [gen : 0..MaxGeneration,
         at : {"none", "inspect", "list", "lock", "token", "usage", "repair", "again"},
         stage : {"none", "tokens", "probes", "current"},
         left : SUBSET Accts,
         late : Nat, synced : Nat]

\* The types of the variables.
DaemonTypeOK ==
  /\ daemonTimer \in Minutes \cup {Unset} /\ timers \in Nat
  /\ daemonInFlight \in BOOLEAN /\ daemonRunRequested \in BOOLEAN
  /\ daemonGeneration \in 0..MaxGeneration /\ served \in 0..MaxGeneration
  /\ run \in [Runs -> Pass]
  /\ pausedReason \in {Unset, "stopped", "auth_conflict"}
  /\ cfg \in [enabled : BOOLEAN, minutes : Minutes]
  /\ remembered \in BOOLEAN

\* There is one timer while the daemon runs, at the saved interval, and none otherwise,
\* whatever starts, stops and changes of the interval there were.
OneTimer ==
  /\ timers = IF Running THEN 1 ELSE 0
  /\ Running => daemonTimer = cfg.minutes

\* Two passes never overlap, however start, stop, ticks and requests for one more
\* pass interleave with the pass in flight.
OnePassAtATime ==
  \A r, s \in Runs : run[r].at # "none" /\ run[s].at # "none" => r = s

\* After a stop (or a stop and a new start) the pass begins no further account and
\* mirrors no login: it ends with the account in hand, whose token requests may still
\* write the official login, twice at most (a token that had expired, and its repair).
StoppedPassBeginsNothing == \A r \in Runs : run[r].late = 0 /\ run[r].synced <= 2

\* What is shown is the state of the daemon, not of a pass from before the last
\* start or stop.
StatusTellsTheTruth ==
  (pausedReason = "stopped") <=> (~ Running /\ daemonGeneration > 0)

\* The daemon runs as the user last left it, across launches and changes of the
\* interval, when the setting could be saved and read.
RunningAsRemembered == remembered => (Running <=> cfg.enabled)

\* A start is served by a pass of its own generation without waiting for the
\* timer, also when a pass from before the stop was still in flight.
StartIsServed == Running ~> (served = daemonGeneration \/ ~ Running)
=============================================================================
