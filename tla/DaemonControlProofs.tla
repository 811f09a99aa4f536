------------------------ MODULE DaemonControlProofs ------------------------
(***************************************************************************)
(* What the passes of the background sync keep, for any accounts,          *)
(* intervals, starts and stops (DaemonControl), and what the keyed lock    *)
(* keeps under which they and every other operation touch an account, for  *)
(* any tasks, keys and plans (OperationLocks).                             *)
(*                                                                         *)
(* Mutual exclusion of the lock is not inductive: that a resumed task is   *)
(* alone rests on the shape of the chain of promises.  Queues says that    *)
(* the tasks in line for a key can be numbered so that each awaits the one *)
(* just before it, the stored tail is the last, and only the first awaits  *)
(* nobody.  Along that numbering the recursion of LineOf comes to an end:  *)
(* its value is the one walk along the chain to the tail, to which a       *)
(* request appends and from which a release takes the first.  That nobody  *)
(* waits in a circle needs the order of keys besides (Uphill).             *)
(***************************************************************************)
EXTENDS DaemonControl, OperationLocks, WellFoundedInduction, TLAPS

\* TypeOK, taken apart: the flags and the rest.
Flags == daemonInFlight \in BOOLEAN /\ daemonRunRequested \in BOOLEAN /\ remembered \in BOOLEAN
Values == /\ daemonTimer \in Minutes \cup {Unset} /\ timers \in Nat
          /\ daemonGeneration \in 0..MaxGeneration /\ served \in 0..MaxGeneration
          /\ run \in [Runs -> Pass]
          /\ pausedReason \in {Unset, "stopped", "auth_conflict"}
          /\ cfg \in [enabled : BOOLEAN, minutes : Minutes]

LEMMA TypeParts == DaemonTypeOK <=> Flags /\ Values
  BY DEF DaemonTypeOK, Flags, Values

\* A pass is in flight; it began in a generation that has been, and as long as no
\* stop or start came after it the timer runs.
Belongs(r) ==
  run[r].at # "none" => /\ daemonInFlight
                        /\ 0 < run[r].gen /\ run[r].gen <= daemonGeneration
                        /\ (run[r].gen = daemonGeneration => Running)
                        /\ (run[r].at # "inspect" => run[r].stage # "none")
                        /\ (run[r].synced > 0 => run[r].gen # daemonGeneration)

\* A pass began nothing late, and leaves room for the logins its requests may still write.
Few(q) == /\ q.late = 0 /\ q.synced <= 2
          /\ q.at \in {"usage", "repair"} => q.synced <= 1
          /\ q.at = "token" => q.synced = 0
Harmless == \A r \in Runs : Few(run[r])

\* A daemon that runs was started in this session.
Own == Running => daemonGeneration > 0

IInv == /\ Flags /\ Values /\ Own /\ OneTimer /\ OnePassAtATime /\ Harmless
        /\ StatusTellsTheTruth /\ RunningAsRemembered
        /\ \A r \in Runs : Belongs(r)

\* The passes there may be in generation g: at most one, and none that wrote late.
Orderly(P, g) ==
  /\ P \in [Runs -> Pass]
  /\ \A r \in Runs : Few(P[r])
  /\ \A r, s \in Runs : P[r].at # "none" /\ P[s].at # "none" => r = s
  /\ \A r \in Runs : P[r].at # "none" => /\ 0 < P[r].gen /\ P[r].gen <= g
                                         /\ (P[r].at # "inspect" => P[r].stage # "none")
                                         /\ (P[r].synced > 0 => P[r].gen # g)
NoneIn(P) == \A r \in Runs : P[r].at = "none"

LEMMA BegunPass ==
  ASSUME NEW g \in 1..MaxGeneration
  PROVE  /\ [NoPass EXCEPT !.gen = g, !.at = "inspect"] \in Pass
         /\ Few([NoPass EXCEPT !.gen = g, !.at = "inspect"])
         /\ [NoPass EXCEPT !.gen = g, !.at = "inspect"].synced = 0
         /\ [NoPass EXCEPT !.gen = g, !.at = "inspect"].gen = g
         /\ [NoPass EXCEPT !.gen = g, !.at = "inspect"].at = "inspect"
<1>1. g \in 0..MaxGeneration
  BY DaemonAssumption
<1>2. NoPass \in Pass /\ NoPass.late = 0 /\ NoPass.synced = 0
  BY DaemonAssumption DEF NoPass, Pass
<1> DEFINE begun == [NoPass EXCEPT !.gen = g, !.at = "inspect"]
<1>3. begun \in Pass /\ begun.late = 0 /\ begun.synced = 0 /\ begun.gen = g /\ begun.at = "inspect"
  BY <1>1, <1>2 DEF Pass
<1> HIDE DEF begun
<1>4. Few(begun)
  BY <1>3 DEF Few
<1> QED
  BY <1>3, <1>4 DEF begun

\* A pass is begun where there is none.
LEMMA Begins ==
  ASSUME NEW g \in 1..MaxGeneration, NEW P, NEW r \in Runs, Orderly(P, g), NoneIn(P)
  PROVE  Orderly([P EXCEPT ![r] = [NoPass EXCEPT !.gen = g, !.at = "inspect"]], g)
<1> DEFINE begun == [NoPass EXCEPT !.gen = g, !.at = "inspect"]
           Q == [P EXCEPT ![r] = begun]
<1>1. begun \in Pass /\ Few(begun) /\ begun.synced = 0 /\ begun.gen = g /\ begun.at = "inspect"
  BY BegunPass
<1> HIDE DEF begun
<1>2. Q \in [Runs -> Pass] /\ \A s \in Runs : Q[s] = IF s = r THEN begun ELSE P[s]
  BY <1>1 DEF Orderly
<1> HIDE DEF Q
<1>3. Orderly(Q, g)
  BY <1>1, <1>2 DEF Orderly, NoneIn
<1> QED
  BY <1>3 DEF Q, begun

\* Either way a pass is in flight after RunDaemon, and only the flags tell which.
LEMMA RunDaemonOrderly ==
  ASSUME NEW g \in 1..MaxGeneration, NEW P, NEW inFlight, NEW requested,
         Orderly(P, g), inFlight \/ NoneIn(P), RunDaemon(g, P, inFlight, requested)
  PROVE  Orderly(run', g) /\ served' \in {served, g}
<1>1. CASE inFlight
  BY <1>1 DEF RunDaemon, Busy
<1>2. CASE ~ inFlight
  <2>1. PICK r \in Runs : run' = [P EXCEPT ![r] = [NoPass EXCEPT !.gen = g, !.at = "inspect"]]
    BY <1>2, Zenon DEF RunDaemon, Busy
  <2>2. Orderly(run', g)
    BY <1>2, <2>1, Begins
  <2> QED
    BY <1>2, <2>2, Zenon DEF RunDaemon, Busy
<1> QED
  BY <1>1, <1>2

LEMMA RunDaemonFlags ==
  ASSUME NEW g, NEW P, NEW inFlight \in BOOLEAN, NEW requested \in BOOLEAN,
         RunDaemon(g, P, inFlight, requested)
  PROVE  daemonInFlight' = TRUE /\ daemonRunRequested' \in BOOLEAN
<1>1. CASE inFlight = TRUE
  BY <1>1, Zenon DEF RunDaemon, Busy, Requested
<1>2. CASE inFlight = FALSE
  BY <1>2, Zenon DEF RunDaemon, Busy
<1> QED
  BY <1>1, <1>2

LEMMA NowOrderly ==
  IInv => Orderly(run, daemonGeneration) /\ (daemonInFlight \/ NoneIn(run))
<1> SUFFICES ASSUME IInv PROVE Orderly(run, daemonGeneration) /\ (daemonInFlight \/ NoneIn(run))
  OBVIOUS
<1>1. daemonInFlight \/ NoneIn(run)
  BY Zenon DEF IInv, Belongs, NoneIn
<1>2. \A r \in Runs : run[r].at # "none" => /\ 0 < run[r].gen /\ run[r].gen <= daemonGeneration
                                           /\ (run[r].at # "inspect" => run[r].stage # "none")
                                           /\ (run[r].synced > 0 => run[r].gen # daemonGeneration)
  BY Zenon DEF IInv, Belongs
<1> QED
  BY <1>1, <1>2 DEF IInv, Values, OnePassAtATime, Harmless, Orderly

\* An orderly set of passes, with the timer running, is what IInv says of them.
LEMMA OrderlyBelongs ==
  ASSUME Orderly(run', daemonGeneration'), daemonInFlight' \/ NoneIn(run'),
         \A r \in Runs : run'[r].at # "none" /\ run'[r].gen = daemonGeneration' => Running'
  PROVE  /\ run' \in [Runs -> Pass]
         /\ OnePassAtATime' /\ Harmless' /\ \A r \in Runs : Belongs(r)'
<1>1. run' \in [Runs -> Pass] /\ OnePassAtATime' /\ Harmless'
  BY DEF Orderly, OnePassAtATime, Harmless
<1>2. \A r \in Runs : Belongs(r)'
  BY Zenon DEF Orderly, NoneIn, Belongs
<1> QED
  BY <1>1, <1>2

LEMMA InitIInv == DaemonInit => IInv
<1> SUFFICES ASSUME DaemonInit PROVE IInv
  OBVIOUS
<1>1. \A r \in Runs : run[r] = NoPass
  BY DEF DaemonInit
<1>2. NoPass \in Pass
  BY DaemonAssumption DEF NoPass, Pass
<1>3. Flags
  BY DEF DaemonInit, Flags
<1>7. Values
  <2>1. run \in [Runs -> Pass]
    BY <1>2 DEF DaemonInit
  <2>2. /\ daemonTimer = Unset /\ timers = 0 /\ daemonGeneration = 0 /\ pausedReason = Unset /\ served = 0
        /\ cfg \in [enabled : {FALSE}, minutes : Minutes]
    BY Zenon DEF DaemonInit
  <2>3. cfg \in [enabled : BOOLEAN, minutes : Minutes]
    BY <2>2
  <2> QED
    BY <2>1, <2>2, <2>3, DaemonAssumption DEF Values
<1>6. OneTimer
  BY DEF DaemonInit, OneTimer, Running
<1>4. StatusTellsTheTruth
  BY DaemonAssumption DEF DaemonInit, StatusTellsTheTruth, Running
<1>5. RunningAsRemembered
  BY DEF DaemonInit, RunningAsRemembered, Running
<1>8. Own
  BY DEF DaemonInit, Own, Running
<1>9. Harmless
  BY <1>1 DEF Harmless, Few, NoPass
<1> QED
  BY <1>1, <1>3, <1>4, <1>5, <1>6, <1>7, <1>8, <1>9 DEF IInv, OnePassAtATime, Belongs, NoPass

\* Nothing of a pass changes.
LEMMA PassesStay ==
  ASSUME IInv, run' = run, daemonInFlight' = daemonInFlight,
         daemonGeneration' \in {daemonGeneration, daemonGeneration + 1},
         daemonGeneration' = daemonGeneration => Running' = Running
  PROVE  /\ run' \in [Runs -> Pass]
         /\ OnePassAtATime' /\ Harmless' /\ \A r \in Runs : Belongs(r)'
<1>1. run' \in [Runs -> Pass] /\ OnePassAtATime' /\ Harmless'
  BY DEF IInv, Values, OnePassAtATime, Harmless
<1>2. ASSUME NEW r \in Runs, run[r].at # "none" PROVE Belongs(r)'
  <2>1. /\ daemonInFlight /\ 0 < run[r].gen /\ run[r].gen <= daemonGeneration
        /\ (run[r].gen = daemonGeneration => Running) /\ (run[r].at # "inspect" => run[r].stage # "none")
        /\ (run[r].synced > 0 => run[r].gen # daemonGeneration)
    BY <1>2 DEF IInv, Belongs
  <2>2. run[r].gen \in Nat /\ daemonGeneration \in Nat
    BY DaemonAssumption DEF IInv, Values, Pass
  <2>3. 0 < run'[r].gen /\ run'[r].gen <= daemonGeneration'
    BY <2>1, <2>2
  <2>4. ASSUME run'[r].gen = daemonGeneration' PROVE Running'
    <3>1. daemonGeneration' = daemonGeneration /\ run[r].gen = daemonGeneration
      BY <2>1, <2>2, <2>4
    <3> QED
      BY <2>1, <3>1
  <2>5. run'[r].synced > 0 => run'[r].gen # daemonGeneration'
    BY <2>1, <2>2
  <2> QED
    BY <2>1, <2>3, <2>4, <2>5 DEF Belongs
<1> QED
  BY <1>1, <1>2 DEF Belongs

LEMMA PersistKeeps ==
  ASSUME Flags, Values, NEW on \in BOOLEAN, Persist(on)
  PROVE  /\ cfg' \in [enabled : BOOLEAN, minutes : Minutes] /\ cfg'.minutes = cfg.minutes
         /\ remembered' \in BOOLEAN
         /\ remembered' => cfg'.enabled = on
  BY DEF Flags, Values, Persist

LEMMA StartKeeps == IInv /\ StartDaemon => IInv'
<1> SUFFICES ASSUME IInv, StartDaemon PROVE IInv'
  OBVIOUS
<1>1. /\ cfg' \in [enabled : BOOLEAN, minutes : Minutes] /\ cfg'.minutes = cfg.minutes
      /\ remembered' \in BOOLEAN
      /\ remembered' => cfg'.enabled = TRUE
  BY PersistKeeps DEF IInv, StartDaemon
<1>2. CASE Running
  <2>1. /\ daemonTimer' = daemonTimer /\ timers' = timers /\ daemonInFlight' = daemonInFlight
        /\ daemonRunRequested' = daemonRunRequested /\ run' = run /\ served' = served
        /\ daemonGeneration' = daemonGeneration /\ pausedReason' = pausedReason
    BY <1>2 DEF StartDaemon, timerVars, passVars
  <2>2. Running' = Running
    BY <2>1 DEF Running
  <2>3. Flags'
    BY <1>1, <2>1 DEF IInv, Flags
  <2>4. Values'
    BY <1>1, <2>1 DEF IInv, Values
  <2>5. OneTimer'
    BY <1>1, <2>1, <2>2 DEF IInv, OneTimer
  <2>6. run' \in [Runs -> Pass] /\ OnePassAtATime' /\ Harmless' /\ \A r \in Runs : Belongs(r)'
    BY <2>1, <2>2, PassesStay
  <2>7. StatusTellsTheTruth'
    BY <2>1, <2>2 DEF IInv, StatusTellsTheTruth
  <2>8. RunningAsRemembered'
    BY <1>1, <1>2, <2>2 DEF RunningAsRemembered
  <2>9. Own'
    BY <2>1, <2>2 DEF IInv, Own
  <2> QED
    BY <2>3, <2>4, <2>5, <2>6, <2>7, <2>8, <2>9 DEF IInv
<1>3. CASE ~ Running
  <2>1. /\ pausedReason' = Unset /\ daemonGeneration' = daemonGeneration + 1
        /\ daemonTimer' = cfg.minutes /\ timers' = timers + 1
        /\ RunDaemon(daemonGeneration + 1, run, daemonInFlight, daemonRunRequested)
    BY <1>3 DEF StartDaemon
  <2>2. daemonGeneration + 1 \in 1..MaxGeneration
    BY DaemonAssumption DEF StartDaemon, IInv, Values
  <2>3. Orderly(run, daemonGeneration + 1) /\ (daemonInFlight \/ NoneIn(run))
    <3>1. Orderly(run, daemonGeneration) /\ (daemonInFlight \/ NoneIn(run))
      BY NowOrderly
    <3>2. daemonGeneration \in Nat /\ \A r \in Runs : run[r].gen \in Nat
      BY DaemonAssumption DEF IInv, Values, Pass
    <3>3. \A r \in Runs : run[r].gen <= daemonGeneration =>
             run[r].gen <= daemonGeneration + 1 /\ run[r].gen # daemonGeneration + 1
      BY <3>2
    <3> QED
      BY <3>1, <3>3, Zenon DEF Orderly
  <2>4. Orderly(run', daemonGeneration + 1) /\ served' \in {served, daemonGeneration + 1}
    BY <2>1, <2>2, <2>3, RunDaemonOrderly
  <2>12. daemonInFlight' = TRUE /\ daemonRunRequested' \in BOOLEAN
    BY <2>1, RunDaemonFlags DEF IInv, Flags
  <2>5. Running'
    BY <2>1, DaemonAssumption DEF Running, IInv, Values
  <2>6. run' \in [Runs -> Pass] /\ OnePassAtATime' /\ Harmless' /\ \A r \in Runs : Belongs(r)'
    BY <2>1, <2>4, <2>5, <2>12, OrderlyBelongs
  <2>7. Flags'
    BY <1>1, <2>12 DEF Flags
  <2>8. Values'
    BY <1>1, <2>1, <2>2, <2>4, <2>6 DEF IInv, Values
  <2>9. OneTimer'
    BY <1>1, <1>3, <2>1, <2>5 DEF IInv, OneTimer
  <2>10. StatusTellsTheTruth'
    BY <2>1, <2>5, DaemonAssumption DEF StatusTellsTheTruth
  <2>11. RunningAsRemembered'
    BY <1>1, <2>5 DEF RunningAsRemembered
  <2>13. Own'
    BY <2>1, <2>2 DEF Own
  <2> QED
    BY <2>6, <2>7, <2>8, <2>9, <2>10, <2>11, <2>13 DEF IInv
<1> QED
  BY <1>2, <1>3

LEMMA StopKeeps == IInv /\ StopDaemon => IInv'
<1> SUFFICES ASSUME IInv, StopDaemon PROVE IInv'
  OBVIOUS
<1>1. /\ cfg' \in [enabled : BOOLEAN, minutes : Minutes] /\ cfg'.minutes = cfg.minutes
      /\ remembered' \in BOOLEAN
      /\ remembered' => cfg'.enabled = FALSE
  BY PersistKeeps DEF IInv, StopDaemon
<1>2. CASE ~ Running
  <2>1. /\ daemonTimer' = daemonTimer /\ timers' = timers /\ daemonInFlight' = daemonInFlight
        /\ daemonRunRequested' = daemonRunRequested /\ run' = run /\ served' = served
        /\ daemonGeneration' = daemonGeneration /\ pausedReason' = pausedReason
    BY <1>2 DEF StopDaemon, timerVars, passVars
  <2>2. Running' = Running
    BY <2>1 DEF Running
  <2>3. Flags'
    BY <1>1, <2>1 DEF IInv, Flags
  <2>4. Values'
    BY <1>1, <2>1 DEF IInv, Values
  <2>5. OneTimer'
    BY <1>1, <2>1, <2>2 DEF IInv, OneTimer
  <2>6. run' \in [Runs -> Pass] /\ OnePassAtATime' /\ Harmless' /\ \A r \in Runs : Belongs(r)'
    BY <2>1, <2>2, PassesStay
  <2>7. StatusTellsTheTruth'
    BY <2>1, <2>2 DEF IInv, StatusTellsTheTruth
  <2>8. RunningAsRemembered'
    BY <1>1, <1>2, <2>2 DEF RunningAsRemembered
  <2>9. Own'
    BY <2>1, <2>2 DEF IInv, Own
  <2> QED
    BY <2>3, <2>4, <2>5, <2>6, <2>7, <2>8, <2>9 DEF IInv
<1>3. CASE Running
  <2>1. /\ daemonTimer' = Unset /\ timers' = timers - 1 /\ daemonInFlight' = daemonInFlight
        /\ run' = run /\ served' = served
        /\ daemonGeneration' = daemonGeneration + 1 /\ pausedReason' = "stopped"
        /\ daemonGeneration < MaxGeneration
    BY <1>3 DEF StopDaemon
  <2>2. daemonRunRequested' = FALSE
    BY <1>3 DEF StopDaemon, StillRequested
  <2>3. ~ Running'
    BY <2>1 DEF Running
  <2>4. daemonGeneration' \in 0..MaxGeneration /\ daemonGeneration' > 0 /\ daemonGeneration' # daemonGeneration
    BY <2>1, DaemonAssumption DEF IInv, Values
  <2>5. Flags'
    BY <1>1, <2>1, <2>2 DEF IInv, Flags
  <2>6. timers = 1 /\ timers' = 0
    BY <1>3, <2>1 DEF IInv, OneTimer
  <2>7. run' \in [Runs -> Pass] /\ OnePassAtATime' /\ Harmless' /\ \A r \in Runs : Belongs(r)'
    BY <2>1, <2>4, PassesStay
  <2>8. Values'
    BY <1>1, <2>1, <2>4, <2>6, <2>7 DEF IInv, Values
  <2>9. OneTimer'
    BY <2>3, <2>6 DEF OneTimer
  <2>10. StatusTellsTheTruth'
    BY <2>1, <2>3, <2>4 DEF StatusTellsTheTruth
  <2>11. RunningAsRemembered'
    BY <1>1, <2>3 DEF RunningAsRemembered
  <2> QED
    BY <2>3, <2>5, <2>7, <2>8, <2>9, <2>10, <2>11 DEF IInv, Own
<1> QED
  BY <1>2, <1>3

LEMMA SaveConfigKeeps == ASSUME NEW m \in Minutes, IInv, SaveConfig(m) PROVE IInv'
<1>1. /\ daemonInFlight' = daemonInFlight /\ daemonRunRequested' = daemonRunRequested
      /\ run' = run /\ served' = served /\ daemonGeneration' = daemonGeneration
      /\ pausedReason' = pausedReason /\ remembered' = remembered
      /\ cfg' = [cfg EXCEPT !.minutes = m]
      /\ timers' = timers
      /\ daemonTimer' \in {daemonTimer, m} /\ (daemonTimer' # daemonTimer => Running)
      /\ Running /\ m # cfg.minutes => daemonTimer' = m
      /\ m = cfg.minutes => daemonTimer' = daemonTimer
  BY DEF SaveConfig, SavedConfig, timerVars, passVars
<1>2. cfg' \in [enabled : BOOLEAN, minutes : Minutes] /\ cfg'.enabled = cfg.enabled /\ cfg'.minutes = m
  BY <1>1 DEF IInv, Values
<1>3. Running' = Running
  BY <1>1, DaemonAssumption DEF Running
<1>4. Flags'
  BY <1>1 DEF IInv, Flags
<1>5. Values'
  BY <1>1, <1>2 DEF IInv, Values
<1>6. OneTimer'
  BY <1>1, <1>2, <1>3 DEF IInv, OneTimer
<1>7. run' \in [Runs -> Pass] /\ OnePassAtATime' /\ Harmless' /\ \A r \in Runs : Belongs(r)'
  BY <1>1, <1>3, PassesStay
<1>8. StatusTellsTheTruth'
  BY <1>1, <1>3 DEF IInv, StatusTellsTheTruth
<1>9. RunningAsRemembered'
  BY <1>1, <1>2, <1>3 DEF IInv, RunningAsRemembered
<1>10. Own'
  BY <1>1, <1>3 DEF IInv, Own
<1> QED
  BY <1>4, <1>5, <1>6, <1>7, <1>8, <1>9, <1>10 DEF IInv

LEMMA TickKeeps == IInv /\ Tick => IInv'
<1> SUFFICES ASSUME IInv, Tick PROVE IInv'
  OBVIOUS
<1>1. /\ daemonTimer' = daemonTimer /\ timers' = timers /\ daemonGeneration' = daemonGeneration
      /\ pausedReason' = pausedReason /\ cfg' = cfg /\ remembered' = remembered /\ Running
      /\ RunDaemon(daemonGeneration, run, daemonInFlight, daemonRunRequested)
  BY DEF Tick, timerVars, disk
<1>2. Running' /\ Running' = Running
  BY <1>1 DEF Running
<1>3. daemonGeneration \in 1..MaxGeneration
  BY <1>1 DEF IInv, Values, Own
<1>4. Orderly(run', daemonGeneration) /\ served' \in {served, daemonGeneration}
  BY <1>1, <1>3, NowOrderly, RunDaemonOrderly
<1>5. daemonInFlight' = TRUE /\ daemonRunRequested' \in BOOLEAN
  BY <1>1, RunDaemonFlags DEF IInv, Flags
<1>6. run' \in [Runs -> Pass] /\ OnePassAtATime' /\ Harmless' /\ \A r \in Runs : Belongs(r)'
  BY <1>1, <1>2, <1>4, <1>5, OrderlyBelongs
<1>7. Flags'
  BY <1>1, <1>5 DEF IInv, Flags
<1>8. Values'
  BY <1>1, <1>3, <1>4, <1>6, DaemonAssumption DEF IInv, Values
<1>9. OneTimer'
  BY <1>1, <1>2 DEF IInv, OneTimer
<1>10. StatusTellsTheTruth'
  BY <1>1, <1>2 DEF IInv, StatusTellsTheTruth
<1>11. RunningAsRemembered'
  BY <1>1, <1>2 DEF IInv, RunningAsRemembered
<1>12. Own'
  BY <1>1, <1>2 DEF IInv, Own
<1> QED
  BY <1>6, <1>7, <1>8, <1>9, <1>10, <1>11, <1>12 DEF IInv

LEMMA RelaunchKeeps == IInv /\ Relaunch => IInv'
<1> SUFFICES ASSUME IInv, Relaunch PROVE IInv'
  OBVIOUS
<1> DEFINE fresh == [r \in Runs |-> NoPass]
<1>1. NoPass \in Pass /\ Few(NoPass) /\ NoPass.at = "none"
  BY DaemonAssumption DEF NoPass, Pass, Few
<1>2. Orderly(fresh, 1) /\ NoneIn(fresh)
  BY <1>1 DEF Orderly, NoneIn
<1>6. 1 \in 1..MaxGeneration
  BY DaemonAssumption
<1> HIDE DEF fresh
<1>3. cfg' = cfg /\ cfg \in [enabled : BOOLEAN, minutes : Minutes]
  BY Zenon DEF Relaunch, IInv, Values
<1>4. CASE /\ cfg.enabled
           /\ daemonTimer' = cfg.minutes /\ timers' = 1
           /\ daemonGeneration' = 1 /\ pausedReason' = Unset
           /\ RunDaemon(1, fresh, FALSE, FALSE)
           /\ remembered' = TRUE
  <2>1. Running'
    BY <1>3, <1>4, DaemonAssumption DEF Running
  <2>2. Orderly(run', 1) /\ served' \in {served, 1}
    BY <1>2, <1>4, <1>6, RunDaemonOrderly
  <2>3. daemonInFlight' = TRUE /\ daemonRunRequested' \in BOOLEAN
    BY <1>4, RunDaemonFlags
  <2>4. run' \in [Runs -> Pass] /\ OnePassAtATime' /\ Harmless' /\ \A r \in Runs : Belongs(r)'
    BY <1>4, <2>1, <2>2, <2>3, OrderlyBelongs
  <2>5. Flags'
    BY <1>4, <2>3 DEF Flags
  <2>6. daemonTimer' \in Minutes /\ timers' = 1 /\ daemonGeneration' = 1 /\ pausedReason' = Unset
    BY <1>3, <1>4
  <2>7. Values'
    BY <1>3, <2>2, <2>4, <2>6, DaemonAssumption DEF IInv, Values
  <2>8. OneTimer' /\ Own'
    BY <1>3, <1>4, <2>1 DEF OneTimer, Own
  <2>9. StatusTellsTheTruth'
    BY <1>4, <2>1, DaemonAssumption DEF StatusTellsTheTruth
  <2>10. RunningAsRemembered'
    BY <1>3, <1>4, <2>1 DEF RunningAsRemembered
  <2> QED
    BY <2>4, <2>5, <2>7, <2>8, <2>9, <2>10 DEF IInv
<1>5. CASE /\ daemonTimer' = Unset /\ timers' = 0
           /\ daemonGeneration' = 0 /\ pausedReason' = Unset
           /\ run' = fresh /\ served' = 0
           /\ daemonInFlight' = FALSE /\ daemonRunRequested' = FALSE
           /\ remembered' = ~ cfg.enabled
  <2>1. ~ Running'
    BY <1>5 DEF Running
  <2>2. run' \in [Runs -> Pass] /\ (\A r \in Runs : run'[r].at = "none" /\ Few(run'[r]))
    BY <1>1, <1>5 DEF fresh
  <2>3. OnePassAtATime' /\ Harmless' /\ \A r \in Runs : Belongs(r)'
    BY <2>2, Zenon DEF OnePassAtATime, Harmless, Belongs
  <2>4. Flags'
    BY <1>5 DEF Flags
  <2>5. daemonTimer' = Unset /\ timers' = 0 /\ daemonGeneration' = 0 /\ pausedReason' = Unset /\ served' = 0
    BY <1>5
  <2>6. Values'
    BY <1>3, <2>2, <2>5, DaemonAssumption DEF Values
  <2>7. OneTimer' /\ Own'
    BY <2>1, <2>5 DEF OneTimer, Own
  <2>8. StatusTellsTheTruth'
    BY <2>1, <2>5, DaemonAssumption DEF StatusTellsTheTruth
  <2>9. RunningAsRemembered'
    BY <1>3, <1>5, <2>1 DEF RunningAsRemembered
  <2> QED
    BY <2>3, <2>4, <2>6, <2>7, <2>8, <2>9 DEF IInv
<1> QED
  BY <1>4, <1>5, Zenon DEF Relaunch, fresh
-----------------------------------------------------------------------------
(* The steps of a pass                                                     *)

\* Where a pass goes on, in its generation, it has begun nothing late.
GoesOn(r, q) == /\ q \in Pass /\ Few(q) /\ q.gen = run[r].gen /\ run[r].at # "none"
                /\ (q.at # "inspect" => q.stage # "none")
                /\ (q.synced > 0 => q.gen # daemonGeneration)

LEMMA ElsewhereKeeps ==
  ASSUME IInv, NEW r \in Runs, NEW q, GoesOn(r, q), run' = [run EXCEPT ![r] = q], Elsewhere
  PROVE  IInv'
<1>1. /\ daemonTimer' = daemonTimer /\ timers' = timers /\ daemonInFlight' = daemonInFlight
      /\ daemonRunRequested' = daemonRunRequested /\ served' = served
      /\ daemonGeneration' = daemonGeneration /\ pausedReason' = pausedReason
      /\ cfg' = cfg /\ remembered' = remembered
  BY DEF Elsewhere, timerVars, disk
<1>2. Running' = Running
  BY <1>1 DEF Running
<1>3. Flags'
  BY <1>1 DEF IInv, Flags
<1>4. run' \in [Runs -> Pass] /\ \A s \in Runs : run'[s] = IF s = r THEN q ELSE run[s]
  BY DEF IInv, Values, GoesOn
<1>5. Values'
  BY <1>1, <1>4 DEF IInv, Values
<1>6. OneTimer' /\ Own'
  BY <1>1, <1>2 DEF IInv, OneTimer, Own
<1>7. StatusTellsTheTruth' /\ RunningAsRemembered'
  BY <1>1, <1>2, Zenon DEF IInv, StatusTellsTheTruth, RunningAsRemembered
<1>8. OnePassAtATime' /\ Harmless'
  BY <1>4, Zenon DEF IInv, OnePassAtATime, Harmless, GoesOn
<1>9. \A s \in Runs : Belongs(s)'
  <2> SUFFICES ASSUME NEW s \in Runs, run'[s].at # "none" PROVE Belongs(s)'
    BY Zenon DEF Belongs
  <2>1. run'[s].gen = run[s].gen /\ run[s].at # "none"
    BY <1>4, Zenon DEF GoesOn
  <2>2. Belongs(s)
    BY DEF IInv
  <2>3. /\ run'[s].at # "inspect" => run'[s].stage # "none"
        /\ run'[s].synced > 0 => run'[s].gen # daemonGeneration
    BY <1>4, <2>1, <2>2, Zenon DEF Belongs, GoesOn
  <2> QED
    BY <1>1, <1>2, <2>1, <2>2, <2>3, Zenon DEF Belongs
<1> QED
  BY <1>3, <1>5, <1>6, <1>7, <1>8, <1>9 DEF IInv

\* A pass ends: it is told to the user only if it belongs to this generation, in which
\* case the daemon has not been stopped since it began.
LEMMA EndsKeeps ==
  ASSUME IInv, NEW r \in Runs, run[r].at # "none",
         NEW result \in {"done", "error", "auth_conflict", "stopped"},
         result = "stopped" => Cancelled(r), PassEnds(r, result)
  PROVE  IInv'
<1> DEFINE over == [run EXCEPT ![r] = NoPass]
<1>1. /\ daemonTimer' = daemonTimer /\ timers' = timers /\ daemonGeneration' = daemonGeneration
      /\ cfg' = cfg /\ remembered' = remembered
  BY Zenon DEF PassEnds, timerVars, disk
<1>2. Running' = Running
  BY <1>1 DEF Running
<1>3. NoPass \in Pass /\ Few(NoPass) /\ NoPass.at = "none"
  BY DaemonAssumption DEF NoPass, Pass, Few
<1>4. over \in [Runs -> Pass] /\ \A s \in Runs : over[s] = IF s = r THEN NoPass ELSE run[s]
  BY <1>3 DEF IInv, Values
<1>5. \A s \in Runs : s # r => run[s].at = "none"
  BY Zenon DEF IInv, OnePassAtATime
<1> HIDE DEF over
<1>6. NoneIn(over)
  BY <1>3, <1>4, <1>5, Zenon DEF NoneIn
<1>7. ASSUME NEW g PROVE Orderly(over, g)
  BY <1>3, <1>4, <1>6, Zenon DEF Orderly, NoneIn, IInv, Harmless
<1>8. /\ run' \in [Runs -> Pass] /\ OnePassAtATime' /\ Harmless' /\ \A s \in Runs : Belongs(s)'
      /\ daemonInFlight' \in BOOLEAN /\ daemonRunRequested' \in BOOLEAN
      /\ served' \in {served, daemonGeneration}
  <2>1. CASE daemonRunRequested /\ Running
    <3>1. RunDaemon(daemonGeneration, over, FALSE, FALSE)
      BY <2>1, Zenon DEF PassEnds, over
    <3>2. daemonGeneration \in 1..MaxGeneration
      BY <2>1 DEF IInv, Values, Own
    <3>3. Orderly(run', daemonGeneration) /\ served' \in {served, daemonGeneration}
      BY <1>6, <1>7, <3>1, <3>2, RunDaemonOrderly
    <3>4. daemonInFlight' = TRUE /\ daemonRunRequested' \in BOOLEAN
      BY <3>1, RunDaemonFlags
    <3> QED
      BY <1>1, <1>2, <2>1, <3>3, <3>4, OrderlyBelongs
  <2>2. CASE ~ (daemonRunRequested /\ Running)
    <3>1. run' = over /\ daemonInFlight' = FALSE /\ daemonRunRequested' = daemonRunRequested /\ served' = served
      BY <2>2, Zenon DEF PassEnds, over
    <3>2. Orderly(run', daemonGeneration') /\ NoneIn(run')
      BY <1>6, <1>7, <3>1
    <3>3. daemonRunRequested' \in BOOLEAN
      BY <3>1, Zenon DEF IInv, Flags
    <3>4. \A s \in Runs : run'[s].at # "none" /\ run'[s].gen = daemonGeneration' => Running'
      BY <3>2, Zenon DEF NoneIn
    <3> QED
      BY <3>1, <3>2, <3>3, <3>4, OrderlyBelongs
  <2> QED
    BY <2>1, <2>2
<1>9. Flags'
  BY <1>1, <1>8, Zenon DEF IInv, Flags
<1>10. run[r].gen = daemonGeneration => Running
  BY Zenon DEF IInv, Belongs
<1>11. MayPublish(r) => Running /\ result # "stopped"
  BY <1>10, Zenon DEF MayPublish, Cancelled
<1>12. pausedReason' = pausedReason \/ (Running /\ pausedReason' \in {Unset, "auth_conflict"})
  BY <1>11, Zenon DEF PassEnds
<1>13. Values'
  BY <1>1, <1>8, <1>12, DaemonAssumption DEF IInv, Values
<1>14. OneTimer' /\ Own'
  BY <1>1, <1>2 DEF IInv, OneTimer, Own
<1>15. StatusTellsTheTruth'
  BY <1>1, <1>2, <1>12, DaemonAssumption DEF IInv, StatusTellsTheTruth
<1>16. RunningAsRemembered'
  BY <1>1, <1>2, Zenon DEF IInv, RunningAsRemembered
<1> QED
  BY <1>8, <1>9, <1>13, <1>14, <1>15, <1>16 DEF IInv

LEMMA PassStepKeeps == ASSUME NEW r \in Runs, IInv, PassStep(r) PROVE IInv'
<1>1. run[r] \in Pass /\ Few(run[r])
  BY DEF IInv, Values, Harmless
<1>7. /\ run[r].at \notin {"none", "inspect"} => run[r].stage # "none"
      /\ run[r].at # "none" => (run[r].synced > 0 => run[r].gen # daemonGeneration)
      /\ run[r].at # "none" => (Cancelled(r) <=> run[r].gen # daemonGeneration)
  BY Zenon DEF IInv, Belongs, Cancelled
<1>2. ASSUME NEW stage \in {"tokens", "probes", "current"}, run[r].at # "none", Enters(r, stage) PROVE IInv'
  <2> DEFINE q == [run[r] EXCEPT !.at = "list", !.stage = stage, !.left = Accts]
  <2>1. run' = [run EXCEPT ![r] = q] /\ Elsewhere
    BY <1>2 DEF Enters, IInv, Values
  <2>2. GoesOn(r, q)
    BY <1>1, <1>2, <1>7 DEF GoesOn, Pass, Few
  <2> QED
    BY <2>1, <2>2, ElsewhereKeeps
<1>3. CASE Inspect(r)
  BY <1>2, <1>3, EndsKeeps DEF Inspect
<1>4. CASE BetweenAccounts(r)
  <2>1. run[r].at = "list"
    BY <1>4 DEF BetweenAccounts
  <2>2. CASE Cancelled(r)
    BY <1>4, <2>1, <2>2, EndsKeeps DEF BetweenAccounts
  <2>3. ASSUME NEW a \in run[r].left,
               run' = [run EXCEPT ![r].at = "lock",
                         ![r].left = IF run[r].stage = "current" THEN {} ELSE @ \ {a}],
               Elsewhere
        PROVE  IInv'
    <3> DEFINE q == [run[r] EXCEPT !.at = "lock",
                       !.left = IF run[r].stage = "current" THEN {} ELSE run[r].left \ {a}]
    <3>1. run' = [run EXCEPT ![r] = q]
      BY <2>3 DEF IInv, Values
    <3>2. GoesOn(r, q)
      BY <1>1, <1>7, <2>1 DEF GoesOn, Pass, Few
    <3> QED
      BY <2>3, <3>1, <3>2, ElsewhereKeeps
  <2>4. ASSUME run[r].stage # "current", Enters(r, NextStage[run[r].stage]) PROVE IInv'
    <3>1. CASE run[r].stage \in {"tokens", "probes"}
      BY <1>2, <2>1, <2>4, <3>1 DEF NextStage
    <3>2. CASE run[r].stage = "none"
      BY <2>1, <3>2 DEF IInv, Belongs
    <3> QED
      BY <1>1, <2>4, <3>1, <3>2 DEF Pass
  <2>5. CASE run[r].stage = "current" /\ (PassEnds(r, "done") \/ PassEnds(r, "error"))
    BY <2>1, <2>5, EndsKeeps
  <2> QED
    BY <1>4, <2>2, <2>3, <2>4, <2>5, Zenon DEF BetweenAccounts
<1>5. CASE UnderLock(r)
  <2>1. run[r].at = "lock" /\ Elsewhere
    BY <1>5 DEF UnderLock
  <2>2. ASSUME NEW first \in {"token", "usage"}, ~ Cancelled(r),
               run' = [run EXCEPT ![r].at = first,
                                  ![r].late = IF Cancelled(r) THEN @ + 1 ELSE @]
        PROVE  IInv'
    <3> DEFINE q == [run[r] EXCEPT !.at = first]
    <3>1. run' = [run EXCEPT ![r] = q]
      BY <1>1, <2>2 DEF IInv, Values, Pass
    <3>2. run[r].synced = 0
      BY <1>1, <1>7, <2>1, <2>2 DEF Pass
    <3>3. GoesOn(r, q)
      BY <1>1, <1>7, <2>1, <2>2, <3>2 DEF GoesOn, Pass, Few
    <3> QED
      BY <2>1, <3>1, <3>3, ElsewhereKeeps
  <2>3. CASE run' = [run EXCEPT ![r].at = "list"]
    <3> DEFINE q == [run[r] EXCEPT !.at = "list"]
    <3>1. run' = [run EXCEPT ![r] = q]
      BY <2>3 DEF IInv, Values
    <3>2. GoesOn(r, q)
      BY <1>1, <1>7, <2>1 DEF GoesOn, Pass, Few
    <3> QED
      BY <2>1, <3>1, <3>2, ElsewhereKeeps
  <2>4. \A first \in FirstRequests[run[r].stage] : first \in {"token", "usage"}
    BY <1>1, <1>7, <2>1 DEF FirstRequests, Pass
  <2> QED
    BY <1>5, <2>2, <2>3, <2>4, Zenon DEF UnderLock, MayBegin
<1>6. ASSUME NEW sync \in {0, 1}, LeavesAccount(r, sync), Elsewhere,
             \/ run[r].at \in {"token", "repair"}
             \/ run[r].at \in {"usage", "again"} /\ sync = 0
      PROVE  IInv'
  <2>1. PICK mirror \in {0, 1} :
          /\ mirror = 1 => MayMirror(r)
          /\ run' = [run EXCEPT ![r].at = "list",
                                ![r].late = IF Cancelled(r) THEN @ + mirror ELSE @,
                                ![r].synced = IF Cancelled(r) THEN @ + sync ELSE @]
    BY <1>6 DEF LeavesAccount
  <2>2. Cancelled(r) => mirror = 0
    BY <2>1 DEF MayMirror
  <2> DEFINE q == [run[r] EXCEPT !.at = "list",
                     !.late = IF Cancelled(r) THEN run[r].late + mirror ELSE run[r].late,
                     !.synced = IF Cancelled(r) THEN run[r].synced + sync ELSE run[r].synced]
  <2>3. run' = [run EXCEPT ![r] = q]
    BY <2>1 DEF IInv, Values
  <2>4. GoesOn(r, q)
    <3>1. run[r].synced + sync <= 2 /\ run[r].late = 0 /\ run[r].synced \in Nat
      BY <1>1, <1>6 DEF Few, Pass
    <3>7. /\ q.synced \in Nat /\ q.synced <= run[r].synced + sync
          /\ q.at = "list" /\ q.gen = run[r].gen /\ q.stage = run[r].stage
      BY <1>1, <3>1 DEF Pass
    <3>8. q.late = 0
      <4>1. CASE Cancelled(r)
        BY <1>1, <2>2, <3>1, <4>1 DEF Pass
      <4>2. CASE ~ Cancelled(r)
        BY <1>1, <3>1, <4>2 DEF Pass
      <4> QED
        BY <4>1, <4>2
    <3>2. /\ q.late = 0 /\ q.synced \in Nat /\ q.synced <= run[r].synced + sync
          /\ q.at = "list" /\ q.gen = run[r].gen /\ q.stage = run[r].stage
      BY <3>7, <3>8
    <3>9. /\ (IF Cancelled(r) THEN run[r].late + mirror ELSE run[r].late) \in Nat
          /\ (IF Cancelled(r) THEN run[r].synced + sync ELSE run[r].synced) \in Nat
      <4>1. run[r].late \in Nat /\ run[r].synced \in Nat
        BY <1>1 DEF Pass
      <4> QED
        BY <4>1
    <3>3. q \in Pass
      BY <1>1, <3>9 DEF Pass
    <3>4. run[r].at # "none" /\ run[r].stage # "none"
      BY <1>6, <1>7
    <3>5. q.synced > 0 => run[r].gen # daemonGeneration
      BY <1>1, <1>7, <3>1, <3>4 DEF Pass
    <3> HIDE DEF q
    <3>6. Few(q)
      BY <3>1, <3>2 DEF Few
    <3> QED
      BY <3>2, <3>3, <3>4, <3>5, <3>6 DEF GoesOn
  <2> QED
    BY <1>6, <2>3, <2>4, ElsewhereKeeps
<1>8. CASE TokenAnswers(r)
  <2>1. run[r].at \in {"token", "repair"} /\ Elsewhere
    BY <1>8 DEF TokenAnswers
  <2>2. ASSUME NEW sync \in {0, 1},
               run' = [run EXCEPT ![r].at = AfterToken(r),
                                  ![r].synced = IF Cancelled(r) THEN @ + sync ELSE @]
        PROVE  IInv'
    <3> DEFINE q == [run[r] EXCEPT !.at = AfterToken(r),
                       !.synced = IF Cancelled(r) THEN run[r].synced + sync ELSE run[r].synced]
    <3>1. run' = [run EXCEPT ![r] = q]
      BY <2>2 DEF IInv, Values
    <3>2. /\ AfterToken(r) \in {"list", "usage", "again"}
          /\ AfterToken(r) = "usage" => run[r].at = "token"
      BY <2>1 DEF AfterToken
    <3>3. run[r].synced + sync <= 2 /\ run[r].synced \in Nat /\ run[r].late = 0
      BY <1>1, <2>1 DEF Few, Pass
    <3> HIDE DEF AfterToken
    <3>4. AfterToken(r) = "usage" => run[r].synced + sync <= 1
      BY <1>1, <3>2 DEF Few, Pass
    <3>5. /\ q.late = 0 /\ q.synced \in Nat /\ q.synced <= run[r].synced + sync
          /\ q.at = AfterToken(r) /\ q.gen = run[r].gen /\ q.stage = run[r].stage
      BY <1>1, <3>3 DEF Pass
    <3>6. q \in Pass
      BY <1>1, <3>2, <3>5 DEF Pass
    <3>7. run[r].at # "none" /\ run[r].stage # "none"
      BY <1>7, <2>1
    <3>8. q.synced > 0 => run[r].gen # daemonGeneration
      BY <1>1, <1>7, <3>3, <3>7 DEF Pass
    <3> HIDE DEF q
    <3>9. Few(q)
      BY <3>2, <3>3, <3>4, <3>5 DEF Few
    <3>10. GoesOn(r, q)
      BY <3>5, <3>6, <3>7, <3>8, <3>9 DEF GoesOn
    <3> QED
      BY <2>1, <3>1, <3>10, ElsewhereKeeps DEF q
  <2> QED
    BY <1>6, <1>8, <2>1, <2>2 DEF TokenAnswers
<1>9. CASE UsageAnswers(r)
  <2>1. run[r].at \in {"usage", "again"} /\ Elsewhere
    BY <1>9 DEF UsageAnswers
  <2>2. CASE run[r].at = "usage" /\ run' = [run EXCEPT ![r].at = "repair"]
    <3> DEFINE q == [run[r] EXCEPT !.at = "repair"]
    <3>1. run' = [run EXCEPT ![r] = q]
      BY <2>2 DEF IInv, Values
    <3>2. GoesOn(r, q)
      BY <1>1, <1>7, <2>2 DEF GoesOn, Pass, Few
    <3> QED
      BY <2>1, <3>1, <3>2, ElsewhereKeeps
  <2> QED
    BY <1>6, <1>9, <2>1, <2>2 DEF UsageAnswers
<1> QED
  BY <1>3, <1>4, <1>5, <1>8, <1>9 DEF PassStep
-----------------------------------------------------------------------------
(* The theorems                                                            *)

LEMMA NextKeeps == IInv /\ [DaemonNext]_daemonVars => IInv'
<1> SUFFICES ASSUME IInv, [DaemonNext]_daemonVars PROVE IInv'
  OBVIOUS
<1>1. CASE DaemonNext
  BY <1>1, StartKeeps, StopKeeps, TickKeeps, RelaunchKeeps, SaveConfigKeeps, PassStepKeeps DEF DaemonNext
<1>2. CASE UNCHANGED daemonVars
  <2>1. /\ daemonTimer' = daemonTimer /\ timers' = timers /\ daemonInFlight' = daemonInFlight
        /\ daemonRunRequested' = daemonRunRequested /\ served' = served /\ run' = run
        /\ daemonGeneration' = daemonGeneration /\ pausedReason' = pausedReason
        /\ cfg' = cfg /\ remembered' = remembered
    BY <1>2 DEF daemonVars, timerVars, passVars, disk
  <2>2. Running' = Running
    BY <2>1 DEF Running
  <2>3. run' \in [Runs -> Pass] /\ OnePassAtATime' /\ Harmless' /\ \A r \in Runs : Belongs(r)'
    BY <2>1, <2>2, PassesStay
  <2>4. Flags'
    BY <2>1 DEF IInv, Flags
  <2>5. Values'
    BY <2>1 DEF IInv, Values
  <2>6. OneTimer' /\ Own'
    BY <2>1, <2>2 DEF IInv, OneTimer, Own
  <2>7. StatusTellsTheTruth' /\ RunningAsRemembered'
    BY <2>1, <2>2, Zenon DEF IInv, StatusTellsTheTruth, RunningAsRemembered
  <2> QED
    BY <2>3, <2>4, <2>5, <2>6, <2>7 DEF IInv
<1> QED
  BY <1>1, <1>2

THEOREM DaemonInvariant == DaemonSpec => []IInv
  BY InitIInv, NextKeeps, PTL DEF DaemonSpec

\* The variables keep their types.
THEOREM DaemonTypes == DaemonSpec => []DaemonTypeOK
<1>1. IInv => DaemonTypeOK
  BY TypeParts DEF IInv
<1> QED
  BY <1>1, DaemonInvariant, PTL

\* The timer is set exactly while the daemon runs, once, at the saved interval.
THEOREM DaemonOneTimer == DaemonSpec => []OneTimer
<1>1. IInv => OneTimer
  BY DEF IInv
<1> QED
  BY <1>1, DaemonInvariant, PTL

\* However starts, stops, ticks and requests for one more interleave, two passes never
\* overlap (runDaemon's daemonInFlight).
THEOREM PassesNeverOverlap == DaemonSpec => []OnePassAtATime
<1>1. IInv => OnePassAtATime
  BY DEF IInv
<1> QED
  BY <1>1, DaemonInvariant, PTL

\* A stopped pass begins no account and mirrors no login; its token requests in progress
\* write the official login twice at most.
THEOREM StoppedPassIsHarmless == DaemonSpec => []StoppedPassBeginsNothing
<1>1. IInv => StoppedPassBeginsNothing
  BY DEF IInv, Harmless, Few, StoppedPassBeginsNothing
<1> QED
  BY <1>1, DaemonInvariant, PTL

\* What is shown is the state of the daemon, never that of an older pass.
THEOREM StatusIsTrue == DaemonSpec => []StatusTellsTheTruth
<1>1. IInv => StatusTellsTheTruth
  BY DEF IInv
<1> QED
  BY <1>1, DaemonInvariant, PTL

\* The daemon runs as the user last left it, across launches.
THEOREM DaemonIsRemembered == DaemonSpec => []RunningAsRemembered
<1>1. IInv => RunningAsRemembered
  BY DEF IInv
<1> QED
  BY <1>1, DaemonInvariant, PTL
-----------------------------------------------------------------------------
(* The keyed lock                                                          *)

Below == {ss \in Nat \X Nat : ss[1] < ss[2]}

\* A set of natural numbers that is not empty has a least element.
LEMMA LeastNatural ==
  ASSUME NEW S \in SUBSET Nat, S # {}
  PROVE  \E x \in S : \A y \in S : x <= y
<1>1. IsWellFoundedOn(Below, Nat)
  BY NatLessThanWellFounded, Zenon DEF OpToRel, Below
<1>2. \E x \in S : \A y \in S : <<y, x>> \notin Below
  BY <1>1, WFMin, Zenon
<1>3. \A x, y \in S : <<y, x>> \notin Below => x <= y
  BY SMT DEF Below
<1> QED BY <1>2, <1>3

\* Sorting a group of keys yields a first one.
LEMMA LeastIsMember ==
  ASSUME NEW S \in SUBSET Keys, S # {}
  PROVE  Least(S) \in S
<1> DEFINE R == {Rank[k] : k \in S}
<1>1. R \in SUBSET Nat /\ R # {}
  BY RankAssumption
<1>2. PICK x \in R : \A y \in R : x <= y
  BY <1>1, LeastNatural
<1>3. PICK k \in S : x = Rank[k]
  BY <1>2
<1>4. \A j \in S : Rank[k] <= Rank[j]
  BY <1>2, <1>3
<1> QED BY <1>4 DEF Least

\* The keys a task holds, awaits and will ask for are all different.
KeysApart ==
  \A t \in Tasks :
    /\ phase[t] = "waiting" => want[t] \notin held[t] \cup todo[t]
    /\ phase[t] # "waiting" => todo[t] = {}
    /\ todo[t] \cap held[t] = {}
    /\ \A n \in 1..Len(rest[t]) :
         rest[t][n] \cap (held[t] \cup todo[t] \cup {want[t]}) = {}
    /\ \A m, n \in 1..Len(rest[t]) : m < n => rest[t][m] \cap rest[t][n] = {}

\* The tasks in line for k are numbered by r: the one awaited comes just
\* before, the tail is last, and a task that awaits nobody is first.
Numbered(k, r) ==
  /\ \A t, u \in Tasks :
       InLine(t, k) /\ InLine(u, k) /\ r[t] = r[u] => t = u
  /\ \A t \in Tasks :
       InLine(t, k) /\ t # tail[k] => r[t] < r[tail[k]]
  /\ \A t, u \in Tasks :
       InLine(t, k) /\ prev[t][k] = Nothing /\ InLine(u, k) => r[t] <= r[u]
  /\ \A t, u \in Tasks :
       InLine(t, k) /\ prev[t][k] # Nothing /\ InLine(u, k)
         => /\ r[prev[t][k]] < r[t]
            /\ r[u] <= r[prev[t][k]] \/ r[t] <= r[u]

Queue(k) ==
  /\ tail[k] # Nothing => InLine(tail[k], k)
  /\ \A t \in Tasks : InLine(t, k) => tail[k] # Nothing
  /\ \A t \in Tasks : prev[t][k] # Nothing
        => InLine(t, k) /\ k \notin held[t] /\ InLine(prev[t][k], k)
  /\ \E r \in [Tasks -> Nat] : Numbered(k, r)

Queues == \A k \in Keys : Queue(k)

ChainInv == LocksTypeOK /\ KeysApart /\ Queues

\* Initially nothing is in line.
LEMMA InitChain == LocksInit => ChainInv
<1> SUFFICES ASSUME LocksInit PROVE ChainInv
  OBVIOUS
<1>1. LocksTypeOK
  BY NoneAssumption DEF LocksInit, LocksTypeOK
<1>2. KeysApart
  <2>1. Len(<< >>) = 0 /\ 1..0 = {}
    OBVIOUS
  <2>2. ASSUME NEW t \in Tasks
        PROVE  /\ rest[t] = << >> /\ held[t] = {} /\ todo[t] = {}
               /\ phase[t] = "idle"
    BY DEF LocksInit
  <2> QED BY <2>1, <2>2 DEF KeysApart
<1>3. ASSUME NEW k \in Keys PROVE Queue(k)
  <2>1. [t \in Tasks |-> 0] \in [Tasks -> Nat]
    OBVIOUS
  <2>2. \A t \in Tasks : ~ InLine(t, k)
    BY DEF LocksInit, InLine
  <2>3. Numbered(k, [t \in Tasks |-> 0])
    BY <2>2 DEF Numbered
  <2> QED BY <1>3, <2>1, <2>2, <2>3 DEF LocksInit, Queue
<1> QED BY <1>1, <1>2, <1>3 DEF ChainInv, Queues

\* A task alone is first in line: mutual exclusion from the shape of the chain.
LEMMA ChainExcludes == ChainInv => MutualExclusion
<1> SUFFICES ASSUME ChainInv, NEW t \in Tasks, NEW u \in Tasks, t # u,
                    NEW k \in held[t] \cap held[u]
             PROVE  FALSE
  BY DEF MutualExclusion
<1>1. k \in Keys
  BY DEF ChainInv, LocksTypeOK
<1>2. PICK r \in [Tasks -> Nat] : Numbered(k, r)
  BY <1>1 DEF ChainInv, Queues, Queue
<1>3. /\ InLine(t, k) /\ prev[t][k] = Nothing
      /\ InLine(u, k) /\ prev[u][k] = Nothing
  BY <1>1 DEF ChainInv, Queues, Queue, InLine
<1>4. r[t] <= r[u] /\ r[u] <= r[t]
  BY <1>2, <1>3 DEF Numbered
<1>5. r[t] = r[u]
  BY <1>4
<1> QED BY <1>2, <1>3, <1>5 DEF Numbered

-----------------------------------------------------------------------------
\* Taking a place in line for keys of one's own: the step Call, Resume and Nest
\* share.  H are the keys held and Q the groups left after the step.
LEMMA AskNextKeepsTypes ==
  ASSUME LocksTypeOK, NEW t \in Tasks, NEW S \in SUBSET Keys, S # {}, AskNext(t, S),
         NEW H \in SUBSET Keys, held' = [held EXCEPT ![t] = H],
         NEW Q \in Seq((SUBSET Keys) \ {{}}), rest' = [rest EXCEPT ![t] = Q]
  PROVE  LocksTypeOK'
<1> DEFINE k == Least(S)
<1>1. k \in Keys
  BY LeastIsMember
<1> HIDE DEF k
<1>2. /\ tail' = [tail EXCEPT ![k] = t]
      /\ prev' = [prev EXCEPT ![t][k] = tail[k]]
      /\ want' = [want EXCEPT ![t] = k]
      /\ todo' = [todo EXCEPT ![t] = S \ {k}]
      /\ phase' = [phase EXCEPT ![t] = "waiting"]
  BY DEF AskNext, Chain, k
<1>3. /\ tail' \in [Keys -> Tasks \cup {Nothing}]
      /\ prev' \in [Tasks -> [Keys -> Tasks \cup {Nothing}]]
      /\ want' \in [Tasks -> Keys \cup {Nothing}]
      /\ todo' \in [Tasks -> SUBSET Keys]
      /\ phase' \in [Tasks -> {"idle", "waiting", "body", "unwinding"}]
      /\ rest' \in [Tasks -> Seq((SUBSET Keys) \ {{}})]
      /\ held' \in [Tasks -> SUBSET Keys]
  BY <1>1, <1>2 DEF LocksTypeOK
<1>4. ASSUME NEW u \in Tasks
      PROVE  /\ phase'[u] = "waiting" <=> want'[u] # Nothing
             /\ phase'[u] = "idle" => held'[u] = {}
             /\ phase'[u] \in {"body", "unwinding"} => held'[u] # {}
  <2>1. CASE u = t
    BY <2>1, <1>1, <1>2, NoneAssumption DEF LocksTypeOK
  <2>2. CASE u # t
    BY <2>2, <1>2 DEF LocksTypeOK
  <2> QED BY <2>1, <2>2
<1> QED BY <1>3, <1>4 DEF LocksTypeOK

\* Asking for the next key of the group keeps what a task asked for apart from the rest.
LEMMA AskNextKeepsKeysApart ==
  ASSUME LocksTypeOK, KeysApart,
         NEW t \in Tasks, NEW S \in SUBSET Keys, S # {}, AskNext(t, S),
         NEW H \in SUBSET Keys, held' = [held EXCEPT ![t] = H],
         NEW Q \in Seq((SUBSET Keys) \ {{}}), rest' = [rest EXCEPT ![t] = Q],
         S \cap H = {},
         \A n \in 1..Len(Q) : Q[n] \cap (H \cup S) = {},
         \A m, n \in 1..Len(Q) : m < n => Q[m] \cap Q[n] = {}
  PROVE  KeysApart'
<1> DEFINE k == Least(S)
<1>1. k \in S
  BY LeastIsMember
<1> HIDE DEF k
<1>2. /\ want' = [want EXCEPT ![t] = k]
      /\ todo' = [todo EXCEPT ![t] = S \ {k}]
      /\ phase' = [phase EXCEPT ![t] = "waiting"]
  BY DEF AskNext, k
<1>3. ASSUME NEW u \in Tasks, u # t
      PROVE  /\ phase'[u] = phase[u] /\ want'[u] = want[u] /\ held'[u] = held[u]
             /\ todo'[u] = todo[u] /\ rest'[u] = rest[u]
  BY <1>2, <1>3 DEF LocksTypeOK
<1>4. /\ phase'[t] = "waiting" /\ want'[t] = k /\ held'[t] = H
      /\ todo'[t] = S \ {k} /\ rest'[t] = Q
  BY <1>2 DEF LocksTypeOK
<1>5. \A n \in 1..Len(Q) : Q[n] \cap (H \cup (S \ {k}) \cup {k}) = {}
  BY <1>1
<1> QED BY <1>1, <1>3, <1>4, <1>5 DEF KeysApart

\* The queue of a key nobody joined or left in the step is as before.
LEMMA SameQueue ==
  ASSUME NEW k \in Keys, Queue(k), tail'[k] = tail[k],
         \A u \in Tasks : prev'[u][k] = prev[u][k],
         \A u \in Tasks : InLine(u, k)' <=> InLine(u, k),
         \A u \in Tasks : k \in held'[u] /\ k \notin held[u] => prev[u][k] = Nothing,
         tail[k] \in Tasks \cup {Nothing},
         \A u \in Tasks : prev[u][k] \in Tasks \cup {Nothing}
  PROVE  Queue(k)'
<1>1. PICK r \in [Tasks -> Nat] : Numbered(k, r)
  BY DEF Queue
<1>2. Numbered(k, r)'
  BY <1>1 DEF Numbered
<1>3. tail'[k] # Nothing => InLine(tail[k], k)'
  BY NoneAssumption DEF Queue
<1>4. ASSUME NEW u \in Tasks, prev'[u][k] # Nothing
      PROVE  InLine(u, k)' /\ k \notin held'[u] /\ InLine(prev[u][k], k)'
  BY <1>4 DEF Queue
<1> QED BY <1>2, <1>3, <1>4 DEF Queue

\* Joining the line of one key at its end, with everything asked for so far held.
LEMMA AskNextKeepsQueues ==
  ASSUME LocksTypeOK, Queues,
         NEW t \in Tasks, NEW S \in SUBSET Keys, S # {}, AskNext(t, S),
         NEW H \in SUBSET Keys, held' = [held EXCEPT ![t] = H],
         S \cap H = {},
         \A j \in Keys : InLine(t, j) <=> j \in H,
         \A j \in Keys : prev[t][j] = Nothing
  PROVE  Queues'
<1> DEFINE k == Least(S)
<1>1. k \in S /\ k \in Keys
  BY LeastIsMember
<1> HIDE DEF k
<1>2. /\ tail' = [tail EXCEPT ![k] = t]
      /\ prev' = [prev EXCEPT ![t][k] = tail[k]]
      /\ want' = [want EXCEPT ![t] = k]
      /\ phase' = [phase EXCEPT ![t] = "waiting"]
  BY DEF AskNext, Chain, k
<1>3. \A u \in Tasks, j \in Keys :
         InLine(u, j)' <=> InLine(u, j) \/ (u = t /\ j = k)
  BY <1>1, <1>2 DEF InLine, LocksTypeOK
<1>4. ~ InLine(t, k)
  BY <1>1
<1>5. ASSUME NEW j \in Keys, j # k PROVE Queue(j)'
  <2>1. /\ tail'[j] = tail[j]
        /\ \A u \in Tasks : prev'[u][j] = prev[u][j]
        /\ \A u \in Tasks : InLine(u, j)' <=> InLine(u, j)
        /\ \A u \in Tasks : j \in held'[u] /\ j \notin held[u] => prev[u][j] = Nothing
        /\ tail[j] \in Tasks \cup {Nothing}
        /\ \A u \in Tasks : prev[u][j] \in Tasks \cup {Nothing}
    BY <1>2, <1>3, <1>5 DEF LocksTypeOK
  <2> QED BY <2>1, SameQueue DEF Queues
<1>6. Queue(k)'
  <2>1. PICK r \in [Tasks -> Nat] : Numbered(k, r)
    BY <1>1 DEF Queues, Queue
  <2>0. /\ tail[k] \in Tasks \cup {Nothing}
        /\ \A u \in Tasks : prev[u][k] \in Tasks \cup {Nothing}
    BY <1>1 DEF LocksTypeOK
  <2>a. PICK n \in Nat : n = IF tail[k] = Nothing THEN 0 ELSE r[tail[k]] + 1
    BY <2>0, <2>1
  <2>b. PICK s \in [Tasks -> Nat] : s = [r EXCEPT ![t] = n]
    OBVIOUS
  <2>2. /\ tail[k] \in Tasks \cup {Nothing} /\ n \in Nat /\ s \in [Tasks -> Nat]
        /\ \A u \in Tasks : prev[u][k] \in Tasks \cup {Nothing}
    BY <2>0
  <2>3. /\ s[t] = n
        /\ \A u \in Tasks : u # t => s[u] = r[u]
    BY <2>b
  <2>4. \A u \in Tasks : InLine(u, k) => u # t /\ tail[k] # Nothing /\ tail[k] # t
    BY <1>1, <1>4 DEF Queues, Queue
  <2>5. \A u \in Tasks : InLine(u, k) => r[u] <= r[tail[k]] /\ r[u] < n
    BY <2>1, <2>2, <2>4, <2>a DEF Numbered
  <2>6. tail[k] # Nothing => InLine(tail[k], k) /\ n = r[tail[k]] + 1
    BY <1>1, <2>a DEF Queues, Queue
  <2>7. \A u \in Tasks : prev[u][k] # Nothing
           => InLine(u, k) /\ k \notin held[u] /\ InLine(prev[u][k], k)
    BY <1>1 DEF Queues, Queue
  <2>8. /\ tail'[k] = t /\ prev'[t][k] = tail[k]
        /\ \A u \in Tasks : u # t => prev'[u][k] = prev[u][k]
    BY <1>1, <1>2 DEF LocksTypeOK
  <2>9. \A u \in Tasks : InLine(u, k)' <=> u = t \/ InLine(u, k)
    BY <1>1, <1>3
  <2>10. Numbered(k, s)'
    <3>1. ASSUME NEW u \in Tasks, NEW v \in Tasks,
                 InLine(u, k)', InLine(v, k)', s[u] = s[v]
          PROVE  u = v
      BY <2>1, <2>2, <2>3, <2>5, <2>9, <3>1 DEF Numbered
    <3>2. ASSUME NEW u \in Tasks, InLine(u, k)', u # t
          PROVE  s[u] < s[t]
      BY <2>3, <2>5, <2>9, <3>2
    <3>3. ASSUME NEW u \in Tasks, NEW v \in Tasks,
                 InLine(u, k)', prev'[u][k] = Nothing, InLine(v, k)'
          PROVE  s[u] <= s[v]
      <4>1. CASE u = t
        BY <2>2, <2>3, <2>4, <2>8, <2>9, <3>3, <4>1
      <4>2. CASE u # t /\ v = t
        BY <2>1, <2>2, <2>3, <2>5, <2>9, <3>3, <4>2
      <4>3. CASE u # t /\ v # t
        BY <2>1, <2>2, <2>3, <2>8, <2>9, <3>3, <4>3 DEF Numbered
      <4> QED BY <4>1, <4>2, <4>3
    <3>4. ASSUME NEW u \in Tasks, NEW v \in Tasks,
                 InLine(u, k)', prev'[u][k] # Nothing, InLine(v, k)'
          PROVE  /\ s[prev'[u][k]] < s[u]
                 /\ s[v] <= s[prev'[u][k]] \/ s[u] <= s[v]
      <4>1. CASE u = t
        <5>1. prev'[u][k] = tail[k] /\ tail[k] # Nothing /\ tail[k] \in Tasks
          BY <2>2, <2>8, <3>4, <4>1
        <5>2. s[tail[k]] = r[tail[k]] /\ s[u] = r[tail[k]] + 1
          BY <2>3, <2>4, <2>6, <4>1, <5>1
        <5>3. CASE v = t
          BY <2>1, <4>1, <5>1, <5>2, <5>3
        <5>4. CASE v # t
          BY <2>1, <2>3, <2>5, <2>9, <3>4, <5>1, <5>2, <5>4
        <5> QED BY <5>3, <5>4
      <4>2. CASE u # t
        <5>1. /\ InLine(u, k) /\ prev'[u][k] = prev[u][k]
              /\ InLine(prev[u][k], k) /\ prev[u][k] \in Tasks /\ prev[u][k] # t
          BY <1>4, <2>2, <2>7, <2>8, <2>9, <3>4, <4>2
        <5>2. s[u] = r[u] /\ s[prev'[u][k]] = r[prev[u][k]]
          BY <2>3, <4>2, <5>1
        <5>3. r[prev[u][k]] < r[u]
          BY <2>1, <3>4, <5>1 DEF Numbered
        <5>4. CASE v = t
          BY <2>1, <2>2, <2>3, <2>5, <5>1, <5>2, <5>3, <5>4
        <5>5. CASE v # t
          BY <2>1, <2>3, <2>9, <3>4, <5>1, <5>2, <5>3, <5>5 DEF Numbered
        <5> QED BY <5>4, <5>5
      <4> QED BY <4>1, <4>2
    <3> QED BY <2>8, <3>1, <3>2, <3>3, <3>4 DEF Numbered
  <2>11. \A u \in Tasks : prev'[u][k] # Nothing
           => InLine(u, k)' /\ k \notin held'[u] /\ InLine(prev[u][k], k)'
    <3>1. ASSUME NEW u \in Tasks, prev'[u][k] # Nothing
          PROVE  InLine(u, k)' /\ k \notin held'[u] /\ InLine(prev[u][k], k)'
      <4>1. held'[t] = H /\ (u # t => held'[u] = held[u])
        BY DEF LocksTypeOK
      <4>2. CASE u = t
        <5>1. prev'[u][k] = tail[k] /\ tail[k] \in Tasks /\ InLine(tail[k], k)
          BY <2>2, <2>6, <2>8, <3>1, <4>2
        <5> QED BY <1>1, <2>9, <4>1, <4>2, <5>1
      <4>3. CASE u # t
        <5>1. prev'[u][k] = prev[u][k] /\ prev[u][k] \in Tasks
          BY <2>2, <2>8, <3>1, <4>3
        <5> QED BY <2>7, <2>9, <3>1, <4>1, <4>3, <5>1
      <4> QED BY <4>2, <4>3
    <3> QED BY <3>1
  <2>12. t # Nothing
    BY NoneAssumption
  <2> QED BY <2>2, <2>8, <2>9, <2>10, <2>11, <2>12 DEF Queue
<1> QED BY <1>5, <1>6 DEF Queues

-----------------------------------------------------------------------------
\* What holds of a task outside its waits: it is in line just for what it holds.
LEMMA InLineIsHeld ==
  ASSUME LocksTypeOK, Queues, NEW t \in Tasks, phase[t] # "waiting", NEW k \in Keys
  PROVE  (InLine(t, k) <=> k \in held[t]) /\ prev[t][k] = Nothing
BY DEF Queues, Queue, InLine

\* A call of withAccountLocks keeps the invariant.
LEMMA CallKeeps ==
  ASSUME ChainInv, NEW t \in Tasks, Call(t)
  PROVE  ChainInv'
<1>1. PICK p \in Plans : /\ AskNext(t, Head(p))
                         /\ rest' = [rest EXCEPT ![t] = Tail(p)]
  BY DEF Call
<1>2. /\ p \in Seq((SUBSET Keys) \ {{}}) /\ p # << >>
      /\ \A m, n \in 1..Len(p) : m < n =>
           \A j \in p[m], k \in p[n] : Rank[j] < Rank[k]
  BY <1>1, PlansAssumption
<1>3. /\ Head(p) = p[1] /\ Head(p) \in SUBSET Keys /\ Head(p) # {}
      /\ Tail(p) \in Seq((SUBSET Keys) \ {{}})
      /\ Len(Tail(p)) = Len(p) - 1 /\ Len(p) \in Nat \ {0}
      /\ \A n \in 1..Len(Tail(p)) : Tail(p)[n] = p[n + 1]
  BY <1>2
<1>4. \A m, n \in 1..Len(p) : m < n => p[m] \cap p[n] = {}
  <2>1. \A m \in 1..Len(p) : p[m] \subseteq Keys
    BY <1>2
  <2> QED BY <1>2, <2>1, RankAssumption
<1>5. /\ \A n \in 1..Len(Tail(p)) : Tail(p)[n] \cap ({} \cup Head(p)) = {}
      /\ \A m, n \in 1..Len(Tail(p)) : m < n => Tail(p)[m] \cap Tail(p)[n] = {}
  BY <1>3, <1>4
<1>6. held[t] = {} /\ held' = [held EXCEPT ![t] = {}] /\ phase[t] # "waiting"
  BY DEF Call, ChainInv, LocksTypeOK
<1>a. /\ \A j \in Keys : (InLine(t, j) <=> j \in {}) /\ prev[t][j] = Nothing
      /\ Head(p) \cap {} = {} /\ {} \in SUBSET Keys
  BY <1>6, InLineIsHeld DEF ChainInv
<1>7. LocksTypeOK'
  BY <1>1, <1>3, <1>6, AskNextKeepsTypes DEF ChainInv
<1>8. KeysApart'
  BY <1>1, <1>3, <1>5, <1>6, <1>a, AskNextKeepsKeysApart DEF ChainInv
<1>9. Queues'
  BY <1>1, <1>3, <1>6, <1>a, AskNextKeepsQueues DEF ChainInv
<1> QED BY <1>7, <1>8, <1>9 DEF ChainInv

\* A nested call, made under the first group, keeps it.
LEMMA NestKeeps ==
  ASSUME ChainInv, NEW t \in Tasks, Nest(t)
  PROVE  ChainInv'
<1> DEFINE q == rest[t]
           H == held[t]
<1>1. /\ AskNext(t, Head(q)) /\ rest' = [rest EXCEPT ![t] = Tail(q)]
      /\ phase[t] = "body" /\ q # << >> /\ todo[t] = {}
      /\ q \in Seq((SUBSET Keys) \ {{}}) /\ H \in SUBSET Keys
      /\ held' = [held EXCEPT ![t] = H]
  BY DEF Nest, ChainInv, LocksTypeOK, KeysApart
<1>2. /\ \A n \in 1..Len(q) : q[n] \cap H = {}
      /\ \A m, n \in 1..Len(q) : m < n => q[m] \cap q[n] = {}
  BY DEF ChainInv, KeysApart
<1>a. \A j \in Keys : InLine(t, j) <=> j \in H
  BY <1>1, InLineIsHeld DEF ChainInv
<1>b. \A j \in Keys : prev[t][j] = Nothing
  BY <1>1, InLineIsHeld DEF ChainInv
<1> HIDE DEF q, H
<1>3. /\ Head(q) = q[1] /\ Head(q) \in SUBSET Keys /\ Head(q) # {}
      /\ Tail(q) \in Seq((SUBSET Keys) \ {{}})
      /\ Len(Tail(q)) = Len(q) - 1 /\ Len(q) \in Nat \ {0}
      /\ \A n \in 1..Len(Tail(q)) : Tail(q)[n] = q[n + 1]
  BY <1>1
<1>4. /\ Head(q) \cap H = {}
      /\ \A n \in 1..Len(Tail(q)) : Tail(q)[n] \cap (H \cup Head(q)) = {}
      /\ \A m, n \in 1..Len(Tail(q)) : m < n => Tail(q)[m] \cap Tail(q)[n] = {}
  BY <1>2, <1>3
<1>5. LocksTypeOK'
  BY <1>1, <1>3, AskNextKeepsTypes DEF ChainInv
<1>6. KeysApart'
  BY <1>1, <1>3, <1>4, AskNextKeepsKeysApart DEF ChainInv
<1>7. Queues'
  BY <1>1, <1>3, <1>4, <1>a, <1>b, AskNextKeepsQueues DEF ChainInv
<1> QED BY <1>5, <1>6, <1>7 DEF ChainInv

\* A resolved await keeps it: the task is first in line for the key it awaited.
LEMMA ResumeKeeps ==
  ASSUME ChainInv, NEW t \in Tasks, Resume(t)
  PROVE  ChainInv'
<1> DEFINE H == held[t] \cup {want[t]}
<1>1. /\ phase[t] = "waiting" /\ prev[t][want[t]] = Nothing /\ want[t] \in Keys
      /\ H \in SUBSET Keys /\ held' = [held EXCEPT ![t] = H]
      /\ rest' = rest
  BY DEF Resume, ChainInv, LocksTypeOK
<1>2. /\ todo[t] \in SUBSET Keys /\ todo[t] \cap H = {}
      /\ \A n \in 1..Len(rest[t]) : rest[t][n] \cap (H \cup todo[t]) = {}
      /\ \A m, n \in 1..Len(rest[t]) : m < n => rest[t][m] \cap rest[t][n] = {}
      /\ rest[t] \in Seq((SUBSET Keys) \ {{}})
      /\ rest' = [rest EXCEPT ![t] = rest[t]]
  BY <1>1 DEF ChainInv, LocksTypeOK, KeysApart
<1>3. /\ \A j \in Keys : InLine(t, j) <=> j \in H
      /\ \A j \in Keys : prev[t][j] = Nothing
  BY <1>1 DEF ChainInv, Queues, Queue, InLine
<1>4. CASE todo[t] # {} /\ AskNext(t, todo[t])
  <2> DEFINE S == todo[t]
             Q == rest[t]
  <2>0. /\ S \in SUBSET Keys /\ S # {} /\ AskNext(t, S) /\ S \cap H = {}
        /\ Q \in Seq((SUBSET Keys) \ {{}}) /\ rest' = [rest EXCEPT ![t] = Q]
        /\ \A n \in 1..Len(Q) : Q[n] \cap (H \cup S) = {}
        /\ \A m, n \in 1..Len(Q) : m < n => Q[m] \cap Q[n] = {}
    BY <1>2, <1>4
  <2> HIDE DEF H, S, Q
  <2>1. LocksTypeOK'
    BY <1>1, <2>0, AskNextKeepsTypes DEF ChainInv
  <2>2. KeysApart'
    BY <1>1, <2>0, AskNextKeepsKeysApart DEF ChainInv
  <2>3. Queues'
    BY <1>1, <1>3, <2>0, AskNextKeepsQueues DEF ChainInv
  <2> QED BY <2>1, <2>2, <2>3 DEF ChainInv
<1>5. CASE /\ todo[t] = {}
           /\ phase' = [phase EXCEPT ![t] = "body"]
           /\ want' = [want EXCEPT ![t] = Nothing]
           /\ UNCHANGED <<tail, prev, todo>>
  <2>1. LocksTypeOK'
    BY <1>1, <1>5, NoneAssumption DEF ChainInv, LocksTypeOK
  <2>2. KeysApart'
    <3>1. ASSUME NEW u \in Tasks, u # t
          PROVE  /\ phase'[u] = phase[u] /\ want'[u] = want[u]
                 /\ held'[u] = held[u] /\ todo'[u] = todo[u] /\ rest'[u] = rest[u]
      BY <1>1, <1>5, <3>1 DEF ChainInv, LocksTypeOK
    <3>2. /\ phase'[t] = "body" /\ want'[t] = Nothing /\ held'[t] = H
          /\ todo'[t] = {} /\ rest'[t] = rest[t]
      BY <1>1, <1>5 DEF ChainInv, LocksTypeOK
    <3>3. \A n \in 1..Len(rest[t]) : Nothing \notin rest[t][n]
      BY <1>2, NoneAssumption
    <3> HIDE DEF H
    <3>4. /\ todo'[t] \cap held'[t] = {}
          /\ \A n \in 1..Len(rest[t]) : rest[t][n] \cap (H \cup {} \cup {Nothing}) = {}
      BY <1>2, <3>2, <3>3
    <3>5. ASSUME NEW u \in Tasks, u # t
          PROVE  /\ phase'[u] = "waiting" => want'[u] \notin held'[u] \cup todo'[u]
                 /\ phase'[u] # "waiting" => todo'[u] = {}
                 /\ todo'[u] \cap held'[u] = {}
                 /\ \A n \in 1..Len(rest'[u]) :
                      rest'[u][n] \cap (held'[u] \cup todo'[u] \cup {want'[u]}) = {}
                 /\ \A m, n \in 1..Len(rest'[u]) :
                      m < n => rest'[u][m] \cap rest'[u][n] = {}
      BY <3>1, <3>5 DEF ChainInv, KeysApart
    <3>6. /\ phase'[t] # "waiting" /\ todo'[t] = {}
          /\ \A n \in 1..Len(rest'[t]) :
               rest'[t][n] \cap (held'[t] \cup todo'[t] \cup {want'[t]}) = {}
          /\ \A m, n \in 1..Len(rest'[t]) :
               m < n => rest'[t][m] \cap rest'[t][n] = {}
      BY <1>2, <3>2, <3>4
    <3>7. phase'[t] = "waiting" => want'[t] \notin held'[t] \cup todo'[t]
      BY <3>6
    <3> QED BY <3>4, <3>5, <3>6, <3>7, Zenon DEF KeysApart
  <2>3. ASSUME NEW k \in Keys PROVE Queue(k)'
    <3>1. \A u \in Tasks : InLine(u, k)' <=> InLine(u, k)
      BY <1>1, <1>5, NoneAssumption DEF InLine, ChainInv, LocksTypeOK
    <3>2. \A u \in Tasks : k \in held'[u] /\ k \notin held[u] => prev[u][k] = Nothing
      BY <1>1 DEF ChainInv, LocksTypeOK
    <3>3. /\ tail[k] \in Tasks \cup {Nothing}
          /\ \A u \in Tasks : prev[u][k] \in Tasks \cup {Nothing}
      BY DEF ChainInv, LocksTypeOK
    <3> QED BY <1>5, <3>1, <3>2, <3>3, SameQueue DEF ChainInv, Queues
  <2> QED BY <2>1, <2>2, <2>3 DEF ChainInv, Queues
<1> QED BY <1>4, <1>5 DEF Resume

\* Leaving a key: the release resolves one promise, so the next in line, if
\* any, becomes the first.
LEMMA ReleaseKeeps ==
  ASSUME ChainInv, NEW t \in Tasks, Release(t)
  PROVE  ChainInv'
<1>0. PICK k : k = Greatest(held[t])
  OBVIOUS
<1>1. /\ phase[t] \in {"body", "unwinding"}
      /\ held' = [held EXCEPT ![t] = @ \ {k}]
      /\ prev' = [u \in Tasks |-> [prev[u] EXCEPT ![k] = IF @ = t THEN Nothing ELSE @]]
      /\ tail' = IF tail[k] = t THEN [tail EXCEPT ![k] = Nothing] ELSE tail
      /\ phase' = [phase EXCEPT ![t] = IF held[t] = {k} THEN "idle" ELSE "unwinding"]
      /\ rest' = [rest EXCEPT ![t] = << >>]
      /\ want' = want /\ todo' = todo
  BY <1>0 DEF Release, Resolved, Dropped, PhaseAfter
<1>2. LocksTypeOK'
  <2>0. tail' \in [Keys -> Tasks \cup {Nothing}]
    <3>1. CASE tail[k] = t
      BY <1>1, <3>1 DEF ChainInv, LocksTypeOK
    <3>2. CASE tail[k] # t
      BY <1>1, <3>2 DEF ChainInv, LocksTypeOK
    <3> QED BY <3>1, <3>2
  <2>1. /\ phase' \in [Tasks -> {"idle", "waiting", "body", "unwinding"}]
        /\ held' \in [Tasks -> SUBSET Keys]
        /\ want' \in [Tasks -> Keys \cup {Nothing}]
        /\ todo' \in [Tasks -> SUBSET Keys]
    BY <1>1 DEF ChainInv, LocksTypeOK
  <2>4. rest' \in [Tasks -> Seq((SUBSET Keys) \ {{}})]
    <3>1. << >> \in Seq((SUBSET Keys) \ {{}})
      OBVIOUS
    <3> QED BY <1>1, <3>1 DEF ChainInv, LocksTypeOK
  <2>2. prev' \in [Tasks -> [Keys -> Tasks \cup {Nothing}]]
    BY <1>1 DEF ChainInv, LocksTypeOK
  <2>3. ASSUME NEW u \in Tasks
        PROVE  /\ phase'[u] = "waiting" <=> want'[u] # Nothing
               /\ phase'[u] = "idle" => held'[u] = {}
               /\ phase'[u] \in {"body", "unwinding"} => held'[u] # {}
    BY <1>1 DEF ChainInv, LocksTypeOK
  <2> QED BY <2>0, <2>1, <2>2, <2>3, <2>4 DEF LocksTypeOK
<1>3. KeysApart'
  <2>1. Len(<< >>) = 0 /\ 1..0 = {}
    OBVIOUS
  <2>2. ASSUME NEW u \in Tasks, u # t
        PROVE  /\ phase'[u] = phase[u] /\ want'[u] = want[u]
               /\ held'[u] = held[u] /\ todo'[u] = todo[u] /\ rest'[u] = rest[u]
    BY <1>1, <2>2 DEF ChainInv, LocksTypeOK
  <2>3. /\ phase'[t] # "waiting" /\ held'[t] \subseteq held[t]
        /\ todo'[t] = {} /\ rest'[t] = << >>
    BY <1>1 DEF ChainInv, LocksTypeOK, KeysApart
  <2>4. ASSUME NEW u \in Tasks, u # t
        PROVE  /\ phase'[u] = "waiting" => want'[u] \notin held'[u] \cup todo'[u]
               /\ phase'[u] # "waiting" => todo'[u] = {}
               /\ todo'[u] \cap held'[u] = {}
               /\ \A n \in 1..Len(rest'[u]) :
                    rest'[u][n] \cap (held'[u] \cup todo'[u] \cup {want'[u]}) = {}
               /\ \A m, n \in 1..Len(rest'[u]) :
                    m < n => rest'[u][m] \cap rest'[u][n] = {}
    BY <2>2, <2>4 DEF ChainInv, KeysApart
  <2>5. /\ phase'[t] = "waiting" => want'[t] \notin held'[t] \cup todo'[t]
        /\ todo'[t] \cap held'[t] = {}
        /\ \A n \in 1..Len(rest'[t]) :
             rest'[t][n] \cap (held'[t] \cup todo'[t] \cup {want'[t]}) = {}
        /\ \A m, n \in 1..Len(rest'[t]) : m < n => rest'[t][m] \cap rest'[t][n] = {}
    BY <2>1, <2>3
  <2> QED BY <2>3, <2>4, <2>5, Zenon DEF KeysApart
<1>4. \A u \in Tasks, j \in Keys :
        InLine(u, j)' <=> InLine(u, j) /\ ~ (u = t /\ j = k)
  BY <1>1 DEF InLine, ChainInv, LocksTypeOK
<1>5. ASSUME NEW j \in Keys, j # k \/ k \notin held[t]
      PROVE  Queue(j)'
  <2>a. t # Nothing
    BY NoneAssumption
  <2>b. j = k => ~ InLine(t, j)
    BY <1>1, <1>5 DEF InLine
  <2>c. Queue(j)
    BY DEF ChainInv, Queues
  <2>1. j = k => \A u \in Tasks : prev[u][j] # t
    BY <2>a, <2>b, <2>c DEF Queue
  <2>2. j = k => tail[j] # t
    BY <2>a, <2>b, <2>c DEF Queue
  <2>3. /\ tail'[j] = tail[j]
        /\ \A u \in Tasks : prev'[u][j] = prev[u][j]
    BY <1>1, <2>1, <2>2 DEF ChainInv, LocksTypeOK
  <2>4. \A u \in Tasks : InLine(u, j)' <=> InLine(u, j)
    BY <1>1, <1>4, <1>5 DEF InLine
  <2>5. /\ \A u \in Tasks : j \in held'[u] /\ j \notin held[u] => prev[u][j] = Nothing
        /\ tail[j] \in Tasks \cup {Nothing}
        /\ \A u \in Tasks : prev[u][j] \in Tasks \cup {Nothing}
    BY <1>1 DEF ChainInv, LocksTypeOK
  <2> QED BY <2>3, <2>4, <2>5, SameQueue DEF ChainInv, Queues
<1>6. ASSUME k \in held[t], k \in Keys
      PROVE  Queue(k)'
  <2>1. PICK r \in [Tasks -> Nat] : Numbered(k, r)
    BY <1>6 DEF ChainInv, Queues, Queue
  <2>2. /\ tail[k] # Nothing => InLine(tail[k], k)
        /\ \A u \in Tasks : InLine(u, k) => tail[k] # Nothing
        /\ \A u \in Tasks : prev[u][k] # Nothing
              => InLine(u, k) /\ k \notin held[u] /\ InLine(prev[u][k], k)
        /\ tail[k] \in Tasks \cup {Nothing}
        /\ \A u \in Tasks : prev[u][k] \in Tasks \cup {Nothing}
    BY <1>6 DEF ChainInv, Queues, Queue, LocksTypeOK
  <2>3. InLine(t, k) /\ prev[t][k] = Nothing
    BY <1>6, <2>2 DEF InLine
  <2>4. /\ tail'[k] = IF tail[k] = t THEN Nothing ELSE tail[k]
        /\ \A u \in Tasks : prev'[u][k] = IF prev[u][k] = t THEN Nothing ELSE prev[u][k]
        /\ \A u \in Tasks : u # t => held'[u] = held[u]
    BY <1>1, <1>6 DEF ChainInv, LocksTypeOK
  <2>5. \A u \in Tasks : InLine(u, k)' <=> InLine(u, k) /\ u # t
    BY <1>4, <1>6
  <2>6. \A u \in Tasks : InLine(u, k) => r[t] <= r[u]
    BY <2>1, <2>3 DEF Numbered
  <2>7. \A u \in Tasks : InLine(u, k) /\ u # t => r[t] < r[u]
    BY <2>1, <2>3, <2>6 DEF Numbered
  <2>8. \A u \in Tasks : InLine(u, k) /\ u # t => tail[k] # t
    BY <2>1, <2>3, <2>7 DEF Numbered
  <2>9. Numbered(k, r)'
    <3>1. ASSUME NEW u \in Tasks, NEW v \in Tasks,
                 InLine(u, k)', InLine(v, k)', r[u] = r[v]
          PROVE  u = v
      BY <2>1, <2>5, <3>1 DEF Numbered
    <3>2. ASSUME NEW u \in Tasks, InLine(u, k)', u # tail'[k]
          PROVE  r[u] < r[tail'[k]]
      BY <2>1, <2>4, <2>5, <2>8, <3>2 DEF Numbered
    <3>3. ASSUME NEW u \in Tasks, NEW v \in Tasks,
                 InLine(u, k)', prev'[u][k] = Nothing, InLine(v, k)'
          PROVE  r[u] <= r[v]
      <4>1. CASE prev[u][k] = Nothing
        BY <2>1, <2>5, <3>3, <4>1 DEF Numbered
      <4>2. CASE prev[u][k] = t
        BY <2>1, <2>5, <2>7, <3>3, <4>2, NoneAssumption DEF Numbered
      <4> QED BY <2>4, <3>3, <4>1, <4>2
    <3>4. ASSUME NEW u \in Tasks, NEW v \in Tasks,
                 InLine(u, k)', prev'[u][k] # Nothing, InLine(v, k)'
          PROVE  /\ r[prev'[u][k]] < r[u]
                 /\ r[v] <= r[prev'[u][k]] \/ r[u] <= r[v]
      BY <2>1, <2>4, <2>5, <3>4 DEF Numbered
    <3> QED BY <3>1, <3>2, <3>3, <3>4 DEF Numbered
  <2>10. ASSUME NEW u \in Tasks, prev'[u][k] # Nothing
         PROVE  InLine(u, k)' /\ k \notin held'[u] /\ InLine(prev[u][k], k)'
    <3>1. prev'[u][k] = prev[u][k] /\ prev[u][k] # t /\ prev[u][k] \in Tasks
      BY <2>2, <2>4, <2>10
    <3>2. u # t
      BY <2>3, <2>10, <3>1
    <3> QED BY <2>2, <2>4, <2>5, <2>10, <3>1, <3>2
  <2>11. tail'[k] # Nothing => InLine(tail[k], k)'
    BY <2>2, <2>4, <2>5
  <2>12. \A u \in Tasks : InLine(u, k)' => tail'[k] # Nothing
    BY <2>2, <2>4, <2>5, <2>8
  <2> QED BY <2>9, <2>10, <2>11, <2>12 DEF Queue
<1> QED BY <1>2, <1>3, <1>5, <1>6 DEF ChainInv, Queues

-----------------------------------------------------------------------------
\* The chain keeps its shape in every step.
LEMMA ChainGoesOn == ChainInv /\ [LocksNext]_lockVars => ChainInv'
<1>1. ASSUME ChainInv, UNCHANGED lockVars
      PROVE  ChainInv'
  <2>1. LocksTypeOK' /\ KeysApart'
    BY <1>1 DEF lockVars, ChainInv, LocksTypeOK, KeysApart
  <2>2. ASSUME NEW k \in Keys PROVE Queue(k)'
    <3>1. /\ \A u \in Tasks : InLine(u, k)' <=> InLine(u, k)
          /\ tail' = tail /\ prev' = prev /\ held' = held
      BY <1>1 DEF lockVars, InLine
    <3>2. /\ tail[k] \in Tasks \cup {Nothing}
          /\ \A u \in Tasks : prev[u][k] \in Tasks \cup {Nothing}
      BY <1>1 DEF ChainInv, LocksTypeOK
    <3> QED BY <1>1, <3>1, <3>2, SameQueue DEF ChainInv, Queues
  <2> QED BY <2>1, <2>2 DEF ChainInv, Queues
<1> QED
  BY <1>1, CallKeeps, ResumeKeeps, NestKeeps, ReleaseKeeps DEF LocksNext

\* The inductive invariant holds throughout.
THEOREM ChainShape == LocksSpec => []ChainInv
BY InitChain, ChainGoesOn, PTL DEF LocksSpec

\* Every variable keeps its type, and the phase of a task agrees with its keys.
THEOREM LockTypes == LocksSpec => []LocksTypeOK
<1>1. ChainInv => LocksTypeOK
  BY DEF ChainInv
<1> QED BY <1>1, ChainShape, PTL

\* withLock excludes: for any tasks, keys and plans that respect the order of
\* keys, two operations are never under the same key.
THEOREM LocksExclude == LocksSpec => []MutualExclusion
BY ChainExcludes, ChainShape, PTL
-----------------------------------------------------------------------------
(* The line for a key, read off the chain, and the refinement of the FIFO lock *)

\* What each request awaits.
Awaits == [Tasks -> [Keys -> Tasks \cup {Nothing}]]

\* s goes along the chain for k, from the promise nobody is awaited before to that of t.
Walk(P, k, t, s) ==
  /\ s \in Seq(Tasks) /\ s # <<>>
  /\ s[Len(s)] = t
  /\ P[s[1]][k] = Nothing
  /\ \A i \in 1..(Len(s) - 1) : P[s[i + 1]][k] = s[i]

\* Nobody awaits himself, however far the chain is followed.
Ranked(P, k) ==
  \E r \in [Tasks -> Nat] :
     \A t \in Tasks : P[t][k] # Nothing => r[P[t][k]] < r[t]

\* f is the function by which LineOf reads off the chain for k.
Reads(P, k, f) ==
  f = [t \in Tasks |-> IF P[t][k] = Nothing THEN <<t>> ELSE Append(f[P[t][k]], t)]

\* One promise further.
LEMMA WalkOn ==
  ASSUME NEW P \in Awaits, NEW k \in Keys, NEW t \in Tasks, P[t][k] # Nothing,
         NEW s, Walk(P, k, P[t][k], s)
  PROVE  Walk(P, k, t, Append(s, t))
<1> DEFINE u == Append(s, t)
<1>1. /\ s \in Seq(Tasks) /\ Len(s) \in Nat \ {0} /\ s[Len(s)] = P[t][k]
      /\ P[s[1]][k] = Nothing
      /\ \A i \in 1..(Len(s) - 1) : P[s[i + 1]][k] = s[i]
  BY DEF Walk
<1>2. /\ u \in Seq(Tasks) /\ Len(u) = Len(s) + 1 /\ u[Len(s) + 1] = t
      /\ \A i \in 1..Len(s) : u[i] = s[i]
  BY <1>1
<1> HIDE DEF u
<1>3. u # <<>> /\ u[Len(u)] = t /\ u[1] = s[1]
  BY <1>1, <1>2
<1>4. ASSUME NEW i \in 1..(Len(u) - 1) PROVE P[u[i + 1]][k] = u[i]
  <2>1. CASE i = Len(s)
    BY <1>1, <1>2, <2>1
  <2>2. CASE i \in 1..(Len(s) - 1)
    <3>1. i \in 1..Len(s) /\ i + 1 \in 1..Len(s)
      BY <1>1, <2>2
    <3> QED BY <1>1, <1>2, <2>2, <3>1
  <2> QED BY <1>1, <1>2, <2>1, <2>2
<1>5. Walk(P, k, t, u)
  BY <1>1, <1>2, <1>3, <1>4 DEF Walk
<1> QED BY <1>5 DEF u

\* There is one way only to come to a promise.
LEMMA OneWalk ==
  ASSUME NEW P \in Awaits, NEW k \in Keys, NEW t \in Tasks,
         NEW s, NEW u, Walk(P, k, t, s), Walk(P, k, t, u)
  PROVE  s = u
<1> DEFINE Two(n) == \E x \in Tasks : \E v, w \in Seq(Tasks) :
                        Walk(P, k, x, v) /\ Walk(P, k, x, w) /\ v # w /\ Len(v) = n
           Bad == {n \in Nat : Two(n)}
<1> SUFFICES ASSUME Bad # {} PROVE FALSE
  BY DEF Walk
<1>1. PICK n \in Bad : \A m \in Bad : n <= m
  <2>1. Bad \in SUBSET Nat
    OBVIOUS
  <2> QED BY <2>1, LeastNatural
<1>2. n \in Nat /\ Two(n)
  BY <1>1
<1>3. \A m \in Nat : m < n => ~ Two(m)
  BY <1>1
<1> HIDE DEF Bad
<1>4. PICK x \in Tasks, v \in Seq(Tasks), w \in Seq(Tasks) :
         Walk(P, k, x, v) /\ Walk(P, k, x, w) /\ v # w /\ Len(v) = n
  BY <1>2
<1> HIDE DEF Two
<1>5. /\ Len(v) \in Nat \ {0} /\ v[Len(v)] = x /\ P[v[1]][k] = Nothing
      /\ \A i \in 1..(Len(v) - 1) : P[v[i + 1]][k] = v[i]
      /\ Len(w) \in Nat \ {0} /\ w[Len(w)] = x /\ P[w[1]][k] = Nothing
      /\ \A i \in 1..(Len(w) - 1) : P[w[i + 1]][k] = w[i]
  BY <1>4 DEF Walk
<1>6. Nothing \notin Tasks
  BY NoneAssumption
<1>7. CASE P[x][k] = Nothing
  <2>1. ASSUME NEW z \in Seq(Tasks), Len(z) \in Nat \ {0}, z[Len(z)] = x,
               \A i \in 1..(Len(z) - 1) : P[z[i + 1]][k] = z[i]
        PROVE  Len(z) = 1
    <3> SUFFICES ASSUME Len(z) # 1 PROVE FALSE
      OBVIOUS
    <3>1. Len(z) - 1 \in 1..(Len(z) - 1) /\ (Len(z) - 1) + 1 = Len(z)
      <4> DEFINE l == Len(z)
      <4>1. l \in Nat /\ l # 0 /\ l # 1
        BY <2>1
      <4> HIDE DEF l
      <4>2. l - 1 \in 1..(l - 1) /\ (l - 1) + 1 = l
        BY <4>1
      <4> QED BY <4>2 DEF l
    <3>2. P[x][k] = z[Len(z) - 1] /\ z[Len(z) - 1] \in Tasks
      BY <2>1, <3>1
    <3> QED BY <1>6, <1>7, <3>2
  <2>2. Len(v) = 1 /\ Len(w) = 1
    BY <1>5, <2>1
  <2>3. v = w
    BY <1>5, <2>2
  <2> QED BY <1>4, <2>3
<1>8. CASE P[x][k] # Nothing
  <2>1. ASSUME NEW z \in Seq(Tasks), Walk(P, k, x, z)
        PROVE  LET y == SubSeq(z, 1, Len(z) - 1)
               IN  y \in Seq(Tasks) /\ Walk(P, k, P[x][k], y) /\ z = Append(y, x) /\ Len(y) = Len(z) - 1
    <3> DEFINE y == SubSeq(z, 1, Len(z) - 1)
    <3>1. /\ Len(z) \in Nat \ {0} /\ z[Len(z)] = x /\ P[z[1]][k] = Nothing
          /\ \A i \in 1..(Len(z) - 1) : P[z[i + 1]][k] = z[i]
      BY <2>1 DEF Walk
    <3>2. Len(z) > 1
      BY <3>1, <1>8
    <3>3. /\ y \in Seq(Tasks) /\ Len(y) = Len(z) - 1 /\ Len(y) \in Nat \ {0}
          /\ \A i \in 1..Len(y) : y[i] = z[i]
      BY <3>1, <3>2
    <3> HIDE DEF y
    <3>4. y[Len(y)] = P[x][k]
      <4>1. Len(y) \in 1..(Len(z) - 1) /\ Len(y) + 1 = Len(z)
        BY <3>3, <3>1
      <4> QED BY <3>1, <3>3, <4>1
    <3>5. P[y[1]][k] = Nothing
      BY <3>1, <3>3
    <3>6. ASSUME NEW i \in 1..(Len(y) - 1) PROVE P[y[i + 1]][k] = y[i]
      <4>1. i \in 1..(Len(z) - 1) /\ i \in 1..Len(y) /\ i + 1 \in 1..Len(y)
        BY <3>1, <3>3
      <4> QED BY <3>1, <3>3, <4>1
    <3>7. Walk(P, k, P[x][k], y)
      BY <3>3, <3>4, <3>5, <3>6 DEF Walk
    <3>8. z = Append(y, x)
      <4> DEFINE a == Append(y, x)
      <4>1. /\ a \in Seq(Tasks) /\ Len(a) = Len(z) /\ a[Len(z)] = x
            /\ \A i \in 1..Len(y) : a[i] = y[i]
        BY <3>3, <3>1
      <4> HIDE DEF a
      <4>2. \A i \in 1..Len(z) : i = Len(z) \/ i \in 1..Len(y)
        BY <3>1, <3>3
      <4>4. \A i \in 1..Len(z) : a[i] = z[i]
        BY <4>1, <4>2, <3>1, <3>3
      <4>3. a = z
        BY <4>1, <4>4
      <4> QED BY <4>3 DEF a
    <3> QED BY <3>3, <3>7, <3>8 DEF y
  <2>2. PICK y \in Seq(Tasks) : Walk(P, k, P[x][k], y) /\ v = Append(y, x) /\ Len(y) = n - 1
    BY <1>4, <2>1
  <2>3. PICK z \in Seq(Tasks) : Walk(P, k, P[x][k], z) /\ w = Append(z, x)
    BY <1>4, <2>1
  <2>4. P[x][k] \in Tasks
    BY <1>8 DEF Awaits
  <2>5. n - 1 \in Nat /\ n - 1 < n
    BY <1>4, <1>5
  <2>6. Two(n - 1)
    BY <1>4, <2>2, <2>3, <2>4, Zenon DEF Two
  <2> QED BY <1>3, <2>5, <2>6
<1> QED BY <1>7, <1>8

\* Where nobody awaits himself there is a way to every promise.
LEMMA SomeWalk ==
  ASSUME NEW P \in Awaits, NEW k \in Keys, Ranked(P, k), NEW t \in Tasks
  PROVE  \E s : Walk(P, k, t, s)
<1>1. PICK r \in [Tasks -> Nat] : \A x \in Tasks : P[x][k] # Nothing => r[P[x][k]] < r[x]
  BY DEF Ranked
<1> DEFINE Lost == {x \in Tasks : ~ \E s : Walk(P, k, x, s)}
           Bad == {r[x] : x \in Lost}
<1> SUFFICES ASSUME Lost # {} PROVE FALSE
  OBVIOUS
<1>2. PICK x \in Lost : \A y \in Lost : r[x] <= r[y]
  <2>1. Bad \in SUBSET Nat /\ Bad # {}
    OBVIOUS
  <2>2. PICK n \in Bad : \A m \in Bad : n <= m
    BY <2>1, LeastNatural
  <2> QED BY <2>2
<1>3. x \in Tasks /\ ~ \E s : Walk(P, k, x, s)
  BY <1>2
<1>4. \A y \in Tasks : r[y] < r[x] => \E s : Walk(P, k, y, s)
  <2> SUFFICES ASSUME NEW y \in Tasks, r[y] < r[x] PROVE y \notin Lost
    BY Zenon
  <2>1. r[x] \in Nat /\ r[y] \in Nat
    BY <1>3
  <2>2. ~ (r[x] <= r[y])
    BY <2>1
  <2> QED BY <1>2, <2>2, Zenon
<1> HIDE DEF Lost, Bad
<1>5. CASE P[x][k] = Nothing
  <2>1. Walk(P, k, x, <<x>>)
    BY <1>3, <1>5 DEF Walk
  <2> QED BY <1>3, <2>1
<1>6. CASE P[x][k] # Nothing
  <2>1. P[x][k] \in Tasks
    BY <1>3, <1>6 DEF Awaits
  <2>2. PICK s : Walk(P, k, P[x][k], s)
    BY <1>1, <1>3, <1>4, <1>6, <2>1
  <2>3. Walk(P, k, x, Append(s, x))
    BY <1>3, <1>6, <2>2, WalkOn
  <2> QED BY <1>3, <2>3
<1> QED BY <1>5, <1>6

\* The function that LineOf defines by recursion exists, and its values are the walks.
LEMMA LineRead ==
  ASSUME NEW P \in Awaits, NEW k \in Keys, Ranked(P, k), NEW t \in Tasks
  PROVE  Walk(P, k, t, (CHOOSE f : Reads(P, k, f))[t])
<1> DEFINE U == [x \in Tasks |-> CHOOSE s : Walk(P, k, x, s)]
           F == CHOOSE f : Reads(P, k, f)
<1>1. \A x \in Tasks : Walk(P, k, x, U[x])
  BY SomeWalk, Zenon
<1> HIDE DEF U
<1>2. Reads(P, k, [x \in Tasks |-> U[x]])
  <2> DEFINE V == [x \in Tasks |-> U[x]]
  <2>1. ASSUME NEW x \in Tasks
        PROVE  U[x] = IF P[x][k] = Nothing THEN <<x>> ELSE Append(V[P[x][k]], x)
    <3>1. CASE P[x][k] = Nothing
      <4>1. Walk(P, k, x, <<x>>)
        BY <3>1 DEF Walk
      <4>2. U[x] = <<x>>
        BY <4>1, <1>1, OneWalk
      <4> QED BY <3>1, <4>2
    <3>2. CASE P[x][k] # Nothing
      <4>1. P[x][k] \in Tasks
        BY <3>2 DEF Awaits
      <4>2. V[P[x][k]] = U[P[x][k]]
        BY <4>1
      <4>3. Walk(P, k, x, Append(U[P[x][k]], x))
        BY <1>1, <3>2, <4>1, WalkOn
      <4>4. U[x] = Append(U[P[x][k]], x)
        BY <4>3, <1>1, OneWalk
      <4> QED BY <3>2, <4>2, <4>4
    <3> QED BY <3>1, <3>2
  <2>2. V = [x \in Tasks |-> IF P[x][k] = Nothing THEN <<x>> ELSE Append(V[P[x][k]], x)]
    BY <2>1, Zenon
  <2> QED BY <2>2, Zenon DEF Reads
<1>3. Reads(P, k, F)
  BY <1>2, Zenon
<1> HIDE DEF F
<1>4. \A x \in Tasks : F[x] = IF P[x][k] = Nothing THEN <<x>> ELSE Append(F[P[x][k]], x)
  <2>1. F = [x \in Tasks |-> IF P[x][k] = Nothing THEN <<x>> ELSE Append(F[P[x][k]], x)]
    BY <1>3, Zenon DEF Reads
  <2> DEFINE e(x) == IF P[x][k] = Nothing THEN <<x>> ELSE Append(F[P[x][k]], x)
  <2> SUFFICES ASSUME NEW x \in Tasks PROVE F[x] = e(x)
    BY Zenon
  <2> HIDE DEF e
  <2>2. F = [y \in Tasks |-> e(y)]
    BY <2>1, Zenon DEF e
  <2> QED BY <2>2
<1>5. PICK r \in [Tasks -> Nat] : \A x \in Tasks : P[x][k] # Nothing => r[P[x][k]] < r[x]
  BY DEF Ranked
<1> DEFINE Off == {x \in Tasks : ~ Walk(P, k, x, F[x])}
           Bad == {r[x] : x \in Off}
<1> SUFFICES ASSUME Off # {} PROVE FALSE
  BY DEF F
<1>6. PICK x \in Off : \A y \in Off : r[x] <= r[y]
  <2>1. Bad \in SUBSET Nat /\ Bad # {}
    OBVIOUS
  <2>2. PICK n \in Bad : \A m \in Bad : n <= m
    BY <2>1, LeastNatural
  <2> QED BY <2>2
<1>7. x \in Tasks /\ ~ Walk(P, k, x, F[x])
  BY <1>6
<1>8. \A y \in Tasks : r[y] < r[x] => Walk(P, k, y, F[y])
  <2> SUFFICES ASSUME NEW y \in Tasks, r[y] < r[x] PROVE y \notin Off
    BY Zenon
  <2>1. r[x] \in Nat /\ r[y] \in Nat
    BY <1>7
  <2>2. ~ (r[x] <= r[y])
    BY <2>1
  <2> QED BY <1>6, <2>2, Zenon
<1> HIDE DEF Off, Bad
<1>9. CASE P[x][k] = Nothing
  <2>1. F[x] = <<x>>
    BY <1>4, <1>7, <1>9
  <2>2. Walk(P, k, x, <<x>>)
    BY <1>7, <1>9 DEF Walk
  <2> QED BY <1>7, <2>1, <2>2
<1>10. CASE P[x][k] # Nothing
  <2>1. P[x][k] \in Tasks
    BY <1>7, <1>10 DEF Awaits
  <2>2. Walk(P, k, P[x][k], F[P[x][k]])
    BY <1>5, <1>7, <1>8, <1>10, <2>1
  <2>3. Walk(P, k, x, Append(F[P[x][k]], x))
    BY <1>7, <1>10, <2>2, WalkOn
  <2>4. F[x] = Append(F[P[x][k]], x)
    BY <1>4, <1>7, <1>10
  <2> QED BY <1>7, <2>3, <2>4
<1> QED BY <1>9, <1>10

\* The line for a key is the walk to its tail.
LEMMA LineIsWalk ==
  ASSUME prev \in Awaits, NEW k \in Keys, Ranked(prev, k), tail[k] \in Tasks
  PROVE  Walk(prev, k, tail[k], LineOf(k))
<1>1. LineOf(k) = (CHOOSE f : Reads(prev, k, f))[tail[k]]
  BY NoneAssumption, Zenon DEF LineOf, Reads
<1> QED BY <1>1, LineRead

\* And so it is after a step.
LEMMA LineIsWalkAfter ==
  ASSUME prev' \in Awaits, NEW k \in Keys, Ranked(prev', k), tail'[k] \in Tasks
  PROVE  Walk(prev', k, tail'[k], LineOf(k)')
<1>1. LineOf(k)' = (CHOOSE f : Reads(prev', k, f))[tail'[k]]
  BY NoneAssumption, Zenon DEF LineOf, Reads
<1> QED BY <1>1, LineRead

\* The chains are walked along in their numbering.
LEMMA ChainRanked == ChainInv => prev \in Awaits /\ \A k \in Keys : Ranked(prev, k)
<1> SUFFICES ASSUME ChainInv PROVE prev \in Awaits /\ \A k \in Keys : Ranked(prev, k)
  OBVIOUS
<1>1. prev \in Awaits
  BY DEF ChainInv, LocksTypeOK, Awaits
<1>2. ASSUME NEW k \in Keys PROVE Ranked(prev, k)
  <2>1. PICK r \in [Tasks -> Nat] : Numbered(k, r)
    BY DEF ChainInv, Queues, Queue
  <2>2. ASSUME NEW t \in Tasks, prev[t][k] # Nothing PROVE r[prev[t][k]] < r[t]
    <3>1. InLine(t, k)
      BY <2>2 DEF ChainInv, Queues, Queue
    <3> QED BY <2>1, <2>2, <3>1, Zenon DEF Numbered
  <2> QED BY <2>2 DEF Ranked
<1> QED BY <1>1, <1>2

\* And so it is after a step.
LEMMA ChainRankedAfter == ChainInv' => prev' \in Awaits /\ \A k \in Keys : Ranked(prev', k)
<1>1. ChainInv' => (prev \in Awaits /\ \A k \in Keys : Ranked(prev, k))'
  BY ChainRanked, PTL
<1> QED BY <1>1 DEF Ranked

\* Who is in the line stands in line, whoever awaits nobody is at its head, and
\* with no promise stored it is empty.
LEMMA LineFacts ==
  ASSUME ChainInv, NEW k \in Keys
  PROVE  /\ LineOf(k) \in Seq(Tasks)
         /\ tail[k] = Nothing => LineOf(k) = <<>>
         /\ tail[k] # Nothing => Walk(prev, k, tail[k], LineOf(k))
         /\ \A i \in 1..Len(LineOf(k)) : InLine(LineOf(k)[i], k)
         /\ \A t \in Tasks : InLine(t, k) /\ prev[t][k] = Nothing
               => LineOf(k) # <<>> /\ LineOf(k)[1] = t
<1> DEFINE L == LineOf(k)
<1>1. prev \in Awaits /\ Ranked(prev, k) /\ tail[k] \in Tasks \cup {Nothing}
  BY ChainRanked DEF ChainInv, LocksTypeOK
<1>2. CASE tail[k] = Nothing
  <2>1. L = <<>>
    BY <1>2, Zenon DEF LineOf
  <2>2. \A t \in Tasks : ~ InLine(t, k)
    BY <1>2 DEF ChainInv, Queues, Queue
  <2> QED BY <1>2, <2>1, <2>2
<1>3. CASE tail[k] # Nothing
  <2>1. tail[k] \in Tasks /\ Walk(prev, k, tail[k], L)
    BY <1>1, <1>3, LineIsWalk
  <2> HIDE DEF L
  <2>2. /\ L \in Seq(Tasks) /\ L # <<>> /\ Len(L) \in Nat \ {0} /\ L[Len(L)] = tail[k]
        /\ prev[L[1]][k] = Nothing
        /\ \A i \in 1..(Len(L) - 1) : prev[L[i + 1]][k] = L[i]
    BY <2>1 DEF Walk
  <2>3. /\ InLine(tail[k], k)
        /\ \A t \in Tasks : prev[t][k] # Nothing => InLine(prev[t][k], k)
    BY <1>3 DEF ChainInv, Queues, Queue
  <2>4. ASSUME NEW i \in 1..Len(L) PROVE InLine(L[i], k)
    <3>1. CASE i = Len(L)
      BY <2>2, <2>3, <3>1
    <3>2. CASE i # Len(L)
      <4>1. i \in 1..(Len(L) - 1) /\ i + 1 \in 1..Len(L)
        BY <2>2, <3>2
      <4>2. L[i] \in Tasks /\ L[i + 1] \in Tasks /\ prev[L[i + 1]][k] = L[i]
        BY <2>2, <4>1
      <4> QED BY <2>3, <4>2, NoneAssumption
    <3> QED BY <3>1, <3>2
  <2>5. ASSUME NEW t \in Tasks, InLine(t, k), prev[t][k] = Nothing PROVE L[1] = t
    <3>1. PICK r \in [Tasks -> Nat] : Numbered(k, r)
      BY DEF ChainInv, Queues, Queue
    <3>2. L[1] \in Tasks /\ InLine(L[1], k)
      BY <2>2, <2>4
    <3>3. r[t] <= r[L[1]] /\ r[L[1]] <= r[t]
      BY <2>2, <2>5, <3>1, <3>2 DEF Numbered
    <3>4. r[t] = r[L[1]]
      BY <3>2, <3>3
    <3> QED BY <2>5, <3>1, <3>2, <3>4 DEF Numbered
  <2>6. /\ L \in Seq(Tasks) /\ Walk(prev, k, tail[k], L) /\ \A i \in 1..Len(L) : InLine(L[i], k)
        /\ \A t \in Tasks : InLine(t, k) /\ prev[t][k] = Nothing => L # <<>> /\ L[1] = t
    BY <2>1, <2>2, <2>4, <2>5
  <2> QED BY <1>3, <2>6, Zenon DEF L
<1> QED BY <1>2, <1>3

\* The line after a step is the walk along the promises after it.
LEMMA LineAfter ==
  ASSUME ChainInv', NEW k \in Keys
  PROVE  /\ tail'[k] = Nothing => LineOf(k)' = <<>>
         /\ \A s : tail'[k] # Nothing /\ Walk(prev', k, tail'[k], s) => LineOf(k)' = s
<1>1. prev' \in Awaits /\ Ranked(prev', k) /\ tail'[k] \in Tasks \cup {Nothing}
  BY ChainRankedAfter DEF ChainInv, LocksTypeOK
<1>2. tail'[k] = Nothing => LineOf(k)' = <<>>
  BY Zenon DEF LineOf
<1>3. ASSUME NEW s, tail'[k] # Nothing, Walk(prev', k, tail'[k], s) PROVE LineOf(k)' = s
  <2>1. Walk(prev', k, tail'[k], LineOf(k)')
    BY <1>1, <1>3, LineIsWalkAfter
  <2> QED BY <1>1, <1>3, <2>1, OneWalk
<1> QED BY <1>2, <1>3

\* A key whose promises a step leaves alone keeps its line.
LEMMA LineStays ==
  ASSUME ChainInv, ChainInv', NEW k \in Keys,
         tail'[k] = tail[k], \A u \in Tasks : prev'[u][k] = prev[u][k]
  PROVE  LineOf(k)' = LineOf(k)
<1>1. CASE tail[k] = Nothing
  BY <1>1, LineFacts, LineAfter
<1>2. CASE tail[k] # Nothing
  <2> DEFINE L == LineOf(k)
  <2>1. Walk(prev, k, tail[k], L)
    BY <1>2, LineFacts
  <2> HIDE DEF L
  <2>2. /\ L \in Seq(Tasks) /\ L # <<>> /\ Len(L) \in Nat \ {0} /\ L[Len(L)] = tail[k]
        /\ prev[L[1]][k] = Nothing
        /\ \A i \in 1..(Len(L) - 1) : prev[L[i + 1]][k] = L[i]
    BY <2>1 DEF Walk
  <2>3. L[1] \in Tasks /\ \A i \in 1..(Len(L) - 1) : L[i + 1] \in Tasks
    BY <2>2
  <2>4. Walk(prev', k, tail'[k], L)
    BY <2>2, <2>3 DEF Walk
  <2> QED BY <1>2, <2>4, LineAfter DEF L
<1> QED BY <1>1, <1>2

\* A request is appended to the line of its key, and to no other.
LEMMA AskAppends ==
  ASSUME ChainInv, ChainInv', NEW t \in Tasks, NEW S \in SUBSET Keys, S # {}, AskNext(t, S),
         ~ InLine(t, Least(S))
  PROVE  /\ Least(S) \in Keys
         /\ LineOf(Least(S))' = Append(LineOf(Least(S)), t)
         /\ \A j \in Keys : j # Least(S) => LineOf(j)' = LineOf(j)
<1> DEFINE k == Least(S)
<1>1. k \in Keys
  BY LeastIsMember
<1>0. /\ tail' = [tail EXCEPT ![k] = t]
      /\ prev' = [prev EXCEPT ![t][k] = tail[k]]
      /\ ~ InLine(t, k)
  BY DEF AskNext, Chain
<1> HIDE DEF k
<1>2. /\ tail'[k] = t /\ prev'[t][k] = tail[k] /\ t # Nothing
      /\ \A u \in Tasks : u # t => prev'[u][k] = prev[u][k]
      /\ \A j \in Keys : j # k => tail'[j] = tail[j] /\ \A u \in Tasks : prev'[u][j] = prev[u][j]
  BY <1>0, <1>1, NoneAssumption DEF ChainInv, LocksTypeOK
<1>3. ASSUME NEW j \in Keys, j # k PROVE LineOf(j)' = LineOf(j)
  BY <1>2, <1>3, LineStays
<1>4. LineOf(k)' = Append(LineOf(k), t)
  <2> DEFINE L == LineOf(k)
  <2>1. CASE tail[k] = Nothing
    <3>1. Walk(prev', k, t, <<t>>)
      BY <1>2, <2>1 DEF Walk
    <3>2. LineOf(k)' = <<t>>
      BY <1>1, <1>2, <3>1, LineAfter
    <3>3. LineOf(k) = <<>>
      BY <1>1, <2>1, LineFacts
    <3> QED BY <3>2, <3>3
  <2>2. CASE tail[k] # Nothing
    <3>1. Walk(prev, k, tail[k], L) /\ \A i \in 1..Len(L) : InLine(L[i], k)
      BY <1>1, <2>2, LineFacts
    <3> HIDE DEF L
    <3>2. /\ L \in Seq(Tasks) /\ L # <<>> /\ Len(L) \in Nat \ {0} /\ L[Len(L)] = tail[k]
          /\ prev[L[1]][k] = Nothing
          /\ \A i \in 1..(Len(L) - 1) : prev[L[i + 1]][k] = L[i]
      BY <3>1 DEF Walk
    <3>3. \A i \in 1..Len(L) : L[i] \in Tasks /\ L[i] # t
      BY <1>0, <3>1, <3>2
    <3>4. L[1] \in Tasks /\ L[1] # t /\ \A i \in 1..(Len(L) - 1) : L[i + 1] \in Tasks /\ L[i + 1] # t
      BY <3>2, <3>3
    <3>5. Walk(prev', k, prev'[t][k], L)
      BY <1>2, <3>2, <3>4 DEF Walk
    <3>6. prev' \in Awaits
      BY ChainRankedAfter
    <3>7. Walk(prev', k, t, Append(L, t))
      BY <1>1, <1>2, <2>2, <3>5, <3>6, WalkOn
    <3>8. LineOf(k)' = Append(L, t)
      BY <1>1, <1>2, <3>7, LineAfter
    <3> QED BY <3>8 DEF L
  <2> QED BY <2>1, <2>2
<1>5. /\ k \in Keys /\ LineOf(k)' = Append(LineOf(k), t)
      /\ \A j \in Keys : j # k => LineOf(j)' = LineOf(j)
  BY <1>1, <1>3, <1>4
<1> QED BY <1>5 DEF k

\* A release takes the first out of the line of its key, and nobody out of another.
LEMMA LeaveShortens ==
  ASSUME ChainInv, ChainInv', NEW t \in Tasks, NEW k \in held[t],
         prev' = Resolved(t, k), tail' = Dropped(t, k)
  PROVE  /\ k \in Keys
         /\ LineOf(k)' = Tail(LineOf(k))
         /\ \A j \in Keys : j # k => LineOf(j)' = LineOf(j)
<1>1. k \in Keys
  BY DEF ChainInv, LocksTypeOK
<1>2. /\ t # Nothing
      /\ \A u \in Tasks : prev[u][k] \in Tasks \cup {Nothing}
      /\ tail[k] \in Tasks \cup {Nothing}
      /\ tail'[k] = IF tail[k] = t THEN Nothing ELSE tail[k]
      /\ \A u \in Tasks : prev'[u][k] = IF prev[u][k] = t THEN Nothing ELSE prev[u][k]
      /\ \A j \in Keys : j # k => tail'[j] = tail[j] /\ \A u \in Tasks : prev'[u][j] = prev[u][j]
  BY <1>1, NoneAssumption DEF Resolved, Dropped, ChainInv, LocksTypeOK
<1>3. ASSUME NEW j \in Keys, j # k PROVE LineOf(j)' = LineOf(j)
  BY <1>2, <1>3, LineStays
<1>4. InLine(t, k) /\ prev[t][k] = Nothing /\ tail[k] # Nothing
  BY <1>1 DEF InLine, ChainInv, Queues, Queue
<1>5. LineOf(k)' = Tail(LineOf(k))
  <2> DEFINE L == LineOf(k)
  <2>1. /\ Walk(prev, k, tail[k], L)
        /\ L[1] = t
    BY <1>1, <1>4, LineFacts
  <2> HIDE DEF L
  <2>2. /\ L \in Seq(Tasks) /\ L # <<>> /\ Len(L) \in Nat \ {0} /\ L[Len(L)] = tail[k]
        /\ prev[L[1]][k] = Nothing
        /\ \A i \in 1..(Len(L) - 1) : prev[L[i + 1]][k] = L[i]
    BY <2>1 DEF Walk
  <2>3. CASE tail[k] = t
    <3>1. Walk(prev, k, tail[k], <<t>>)
      BY <1>4, <2>3 DEF Walk
    <3>2. L = <<t>>
      <4>1. prev \in Awaits
        BY ChainRanked
      <4> QED BY <1>1, <2>1, <2>3, <3>1, <4>1, OneWalk
    <3>3. LineOf(k)' = <<>>
      BY <1>1, <1>2, <2>3, LineAfter
    <3> QED BY <3>2, <3>3 DEF L
  <2>4. CASE tail[k] # t
    <3> DEFINE T == Tail(L)
    <3>1. Len(L) > 1
      BY <2>1, <2>2, <2>4
    <3>2. /\ T \in Seq(Tasks) /\ Len(T) = Len(L) - 1 /\ Len(T) \in Nat \ {0}
          /\ \A i \in 1..Len(T) : T[i] = L[i + 1]
      BY <2>2, <3>1
    <3> HIDE DEF T
    <3>3. T # <<>> /\ T[Len(T)] = tail[k]
      BY <2>2, <3>1, <3>2
    <3>4. prev'[T[1]][k] = Nothing
      <4>1. 1 \in 1..(Len(L) - 1) /\ 1 \in 1..Len(T) /\ T[1] = L[2] /\ T[1] \in Tasks
        BY <2>2, <3>1, <3>2
      <4>2. prev[T[1]][k] = t
        BY <2>1, <2>2, <4>1
      <4> QED BY <1>2, <4>1, <4>2
    <3>5. ASSUME NEW i \in 1..(Len(T) - 1) PROVE prev'[T[i + 1]][k] = T[i]
      <4>1. /\ i \in 1..Len(T) /\ i + 1 \in 1..Len(T) /\ i + 1 \in 1..(Len(L) - 1)
            /\ i \in 1..(Len(L) - 1)
        BY <2>2, <3>2
      <4>2. T[i] = L[i + 1] /\ T[i + 1] = L[(i + 1) + 1] /\ T[i] \in Tasks /\ T[i + 1] \in Tasks
        BY <3>2, <4>1
      <4>3. prev[T[i + 1]][k] = T[i]
        BY <2>2, <4>1, <4>2
      <4>4. prev[T[i]][k] = L[i] /\ L[i] \in Tasks
        BY <2>2, <4>1, <4>2
      <4>5. T[i] # t
        BY <1>4, <4>4, NoneAssumption
      <4> QED BY <1>2, <4>2, <4>3, <4>5
    <3>6. Walk(prev', k, tail'[k], T)
      BY <1>2, <2>4, <3>2, <3>3, <3>4, <3>5 DEF Walk
    <3>7. LineOf(k)' = T
      BY <1>1, <1>2, <1>4, <2>4, <3>6, LineAfter
    <3> QED BY <3>7 DEF T, L
  <2> QED BY <2>3, <2>4
<1> QED BY <1>1, <1>3, <1>5

\* The owner of a key is the task that holds it.
LEMMA OwnerIs ==
  ASSUME ChainInv, NEW k \in Keys
  PROVE  /\ \A t \in Tasks : k \in held[t] => OwnerOf(k) = t
         /\ (\A t \in Tasks : k \notin held[t]) => OwnerOf(k) = Nothing
<1>1. ASSUME NEW t \in Tasks, k \in held[t] PROVE OwnerOf(k) = t
  <2> DEFINE u == CHOOSE u \in Tasks : k \in held[u]
  <2>1. u \in Tasks /\ k \in held[u] /\ OwnerOf(k) = u
    BY <1>1, Zenon DEF OwnerOf
  <2> HIDE DEF u
  <2>2. u = t
    BY <1>1, <2>1, ChainExcludes DEF MutualExclusion
  <2> QED BY <2>1, <2>2
<1>2. (\A t \in Tasks : k \notin held[t]) => OwnerOf(k) = Nothing
  BY Zenon DEF OwnerOf
<1> QED BY <1>1, <1>2

\* And so it is after a step.
LEMMA OwnerAfter ==
  ASSUME ChainInv', NEW k \in Keys
  PROVE  /\ \A t \in Tasks : k \in held'[t] => OwnerOf(k)' = t
         /\ (\A t \in Tasks : k \notin held'[t]) => OwnerOf(k)' = Nothing
<1>1. ASSUME NEW t \in Tasks, k \in held'[t] PROVE OwnerOf(k)' = t
  <2> DEFINE u == CHOOSE u \in Tasks : k \in held'[u]
  <2>1. u \in Tasks /\ k \in held'[u] /\ OwnerOf(k)' = u
    BY <1>1, Zenon DEF OwnerOf
  <2> HIDE DEF u
  <2>2. MutualExclusion'
    BY ChainExcludes, PTL
  <2>3. u = t
    BY <1>1, <2>1, <2>2 DEF MutualExclusion
  <2> QED BY <2>1, <2>3
<1>2. (\A t \in Tasks : k \notin held'[t]) => OwnerOf(k)' = Nothing
  BY Zenon DEF OwnerOf
<1> QED BY <1>1, <1>2

\* A key nobody enters or leaves keeps its owner.
LEMMA OwnerStays ==
  ASSUME ChainInv, ChainInv', NEW k \in Keys, \A t \in Tasks : k \in held'[t] <=> k \in held[t]
  PROVE  OwnerOf(k)' = OwnerOf(k)
<1>1. CASE \E t \in Tasks : k \in held[t]
  BY <1>1, OwnerIs, OwnerAfter
<1>2. CASE \A t \in Tasks : k \notin held[t]
  BY <1>2, OwnerIs, OwnerAfter
<1> QED BY <1>1, <1>2

-----------------------------------------------------------------------------
\* A request is the abstract lock's Ask.
LEMMA AskImplements ==
  ASSUME ChainInv, ChainInv', NEW t \in Tasks, NEW S \in SUBSET Keys, S # {}, AskNext(t, S),
         ~ InLine(t, Least(S)), UNCHANGED held
  PROVE  Least(S) \in Keys /\ Fifo!Ask(t, Least(S))
<1> DEFINE k == Least(S)
<1>1. /\ k \in Keys /\ ~ InLine(t, k)
      /\ LineOf(k)' = Append(LineOf(k), t)
      /\ \A j \in Keys : j # k => LineOf(j)' = LineOf(j)
  BY AskAppends
<1> HIDE DEF k
<1>2. ~ Fifo!InQueue(t, k)
  BY <1>1, LineFacts DEF Fifo!InQueue
<1>3. [j \in Keys |-> LineOf(j)]' = [[j \in Keys |-> LineOf(j)] EXCEPT ![k] = Append(@, t)]
  BY <1>1
<1>4. \A j \in Keys : OwnerOf(j)' = OwnerOf(j)
  BY OwnerStays
<1>5. [j \in Keys |-> OwnerOf(j)]' = [j \in Keys |-> OwnerOf(j)]
  BY <1>4
<1>6. Fifo!Ask(t, k)
  BY <1>2, <1>3, <1>5 DEF Fifo!Ask
<1> QED BY <1>1, <1>6 DEF k

\* A resolved await is its Enter, with the next Ask where the group has keys left.
LEMMA ResumeImplements ==
  ASSUME ChainInv, ChainInv', NEW t \in Tasks, Resume(t)
  PROVE  Fifo!Next
<1>0. PICK k : k = want[t]
  OBVIOUS
<1>1. /\ phase[t] = "waiting" /\ prev[t][k] = Nothing /\ k \in Keys /\ InLine(t, k)
      /\ held' = [held EXCEPT ![t] = held[t] \cup {k}]
      /\ held \in [Tasks -> SUBSET Keys]
      /\ todo[t] \in SUBSET Keys /\ k \notin held[t] /\ k \notin todo[t] /\ todo[t] \cap held[t] = {}
  BY <1>0 DEF Resume, InLine, ChainInv, LocksTypeOK, KeysApart
<1>a. \A j \in Keys : j # k /\ j \notin held[t] => ~ InLine(t, j)
  BY <1>0 DEF InLine
<1>2. LineOf(k) # <<>> /\ Head(LineOf(k)) = t
  <2>1. LineOf(k) \in Seq(Tasks) /\ LineOf(k) # <<>> /\ LineOf(k)[1] = t
    BY <1>1, LineFacts
  <2> QED BY <2>1
<1>3. k \in held'[t] /\ OwnerOf(k)' = t
  BY <1>1, OwnerAfter
<1>4. OwnerOf(k) = Nothing
  <2> SUFFICES ASSUME NEW u \in Tasks, k \in held[u] PROVE FALSE
    BY <1>1, OwnerIs
  <2>1. k \in held'[u] /\ u # t
    BY <1>1
  <2>2. MutualExclusion'
    BY ChainExcludes, PTL
  <2> QED BY <1>3, <2>1, <2>2 DEF MutualExclusion
<1>5. \A j \in Keys : j # k => OwnerOf(j)' = OwnerOf(j)
  <2> SUFFICES ASSUME NEW j \in Keys, j # k PROVE OwnerOf(j)' = OwnerOf(j)
    OBVIOUS
  <2>1. \A u \in Tasks : j \in held'[u] <=> j \in held[u]
    BY <1>1
  <2> QED BY <2>1, OwnerStays
<1>6. [j \in Keys |-> OwnerOf(j)]' = [[j \in Keys |-> OwnerOf(j)] EXCEPT ![k] = t]
  BY <1>1, <1>3, <1>5
<1>7. CASE todo[t] # {} /\ AskNext(t, todo[t])
  <2>0. PICK i : i = Least(todo[t])
    OBVIOUS
  <2>1. i \in todo[t] /\ i \in Keys /\ i # k /\ i \notin held[t]
    BY <1>1, <1>7, <2>0, LeastIsMember
  <2>2. ~ InLine(t, i)
    BY <1>a, <2>1
  <2>3. /\ LineOf(i)' = Append(LineOf(i), t)
        /\ \A j \in Keys : j # i => LineOf(j)' = LineOf(j)
    BY <1>1, <1>7, <2>0, <2>2, AskAppends
  <2>4. ~ Fifo!InQueue(t, i)
    BY <2>1, <2>2, LineFacts DEF Fifo!InQueue
  <2>5. [j \in Keys |-> LineOf(j)]' = [[j \in Keys |-> LineOf(j)] EXCEPT ![i] = Append(@, t)]
    BY <2>1, <2>3
  <2>6. Fifo!EnterAndAsk(t, k, i)
    BY <1>1, <1>2, <1>4, <1>6, <2>1, <2>4, <2>5 DEF Fifo!EnterAndAsk
  <2> QED BY <1>1, <2>1, <2>6, Zenon DEF Fifo!Next
<1>8. CASE UNCHANGED <<tail, prev>>
  <2>1. \A j \in Keys : LineOf(j)' = LineOf(j)
    BY <1>8, LineStays
  <2>2. [j \in Keys |-> LineOf(j)]' = [j \in Keys |-> LineOf(j)]
    BY <2>1
  <2>3. Fifo!Enter(t, k)
    BY <1>1, <1>2, <1>4, <1>6, <2>2 DEF Fifo!Enter
  <2> QED BY <1>1, <2>3, Zenon DEF Fifo!Next
<1> QED BY <1>7, <1>8 DEF Resume

\* A release is its Leave.
LEMMA ReleaseImplements ==
  ASSUME ChainInv, ChainInv', NEW t \in Tasks, Release(t), Greatest(held[t]) \in held[t]
  PROVE  Fifo!Next
<1>0. PICK k \in held[t] : k = Greatest(held[t])
  OBVIOUS
<1>1. /\ held' = [held EXCEPT ![t] = @ \ {k}] /\ prev' = Resolved(t, k) /\ tail' = Dropped(t, k)
      /\ held \in [Tasks -> SUBSET Keys]
  BY <1>0 DEF Release, ChainInv, LocksTypeOK
<1>2. /\ k \in Keys /\ LineOf(k)' = Tail(LineOf(k))
      /\ \A j \in Keys : j # k => LineOf(j)' = LineOf(j)
  BY <1>1, LeaveShortens
<1>3. OwnerOf(k) = t
  BY <1>2, OwnerIs
<1>4. OwnerOf(k)' = Nothing
  <2>1. \A u \in Tasks : u # t => k \notin held[u]
    BY ChainExcludes DEF MutualExclusion
  <2>2. \A u \in Tasks : k \notin held'[u]
    BY <1>1, <2>1
  <2> QED BY <1>2, <2>2, OwnerAfter
<1>5. \A j \in Keys : j # k => OwnerOf(j)' = OwnerOf(j)
  <2> SUFFICES ASSUME NEW j \in Keys, j # k PROVE OwnerOf(j)' = OwnerOf(j)
    OBVIOUS
  <2>1. \A u \in Tasks : j \in held'[u] <=> j \in held[u]
    BY <1>1
  <2> QED BY <2>1, OwnerStays
<1>6. /\ [j \in Keys |-> OwnerOf(j)]' = [[j \in Keys |-> OwnerOf(j)] EXCEPT ![k] = Nothing]
      /\ [j \in Keys |-> LineOf(j)]' = [[j \in Keys |-> LineOf(j)] EXCEPT ![k] = Tail(@)]
  BY <1>2, <1>4, <1>5
<1>7. Fifo!Leave(t, k)
  BY <1>2, <1>3, <1>6 DEF Fifo!Leave
<1> QED BY <1>2, <1>7, Zenon DEF Fifo!Next

\* At any time only finitely many keys have a line: their ranks have a bound.
Bounded == \E n \in Nat : \A t \in Tasks, k \in Keys : InLine(t, k) => Rank[k] <= n

\* So there is an innermost one to release first.
LEMMA GreatestIsMember ==
  ASSUME NEW S \in SUBSET Keys, S # {}, NEW n \in Nat, \A k \in S : Rank[k] <= n
  PROVE  Greatest(S) \in S
<1> DEFINE U == {m \in Nat : \A k \in S : Rank[k] <= m}
<1>1. PICK m \in U : \A x \in U : m <= x
  <2>1. U \in SUBSET Nat /\ U # {}
    OBVIOUS
  <2> QED BY <2>1, LeastNatural
<1>2. \A k \in S : Rank[k] \in Nat
  BY RankAssumption
<1>3. \E k \in S : Rank[k] = m
  <2> SUFFICES ASSUME \A k \in S : Rank[k] # m PROVE FALSE
    OBVIOUS
  <2>1. m \in Nat /\ \A k \in S : Rank[k] <= m
    BY <1>1
  <2>2. \A k \in S : Rank[k] <= m - 1
    BY <1>2, <2>1
  <2>3. m - 1 \in Nat
    BY <1>2, <2>1, <2>2
  <2>4. m - 1 \in U
    BY <2>2, <2>3
  <2>5. m <= m - 1
    BY <1>1, <2>4
  <2> QED BY <2>1, <2>5
<1>4. \E k \in S : \A j \in S : Rank[j] <= Rank[k]
  BY <1>1, <1>3
<1> QED BY <1>4, Zenon DEF Greatest

\* A step puts a task in line for one more key at most.
LEMMA BoundedGoesOn == ChainInv /\ Bounded /\ [LocksNext]_lockVars => Bounded'
<1> SUFFICES ASSUME ChainInv, Bounded, [LocksNext]_lockVars PROVE Bounded'
  OBVIOUS
<1>0. \A k \in Keys : Rank[k] \in Nat
  BY RankAssumption
<1>1. ASSUME NEW i \in Keys, \A t \in Tasks, k \in Keys : InLine(t, k)' => InLine(t, k) \/ k = i
      PROVE  Bounded'
  <2>1. PICK n \in Nat : \A t \in Tasks, k \in Keys : InLine(t, k) => Rank[k] <= n
    BY DEF Bounded
  <2>2. PICK m \in Nat : n <= m /\ Rank[i] <= m
    <3>1. CASE n <= Rank[i]
      BY <1>0, <3>1
    <3>2. CASE Rank[i] <= n
      BY <2>1, <3>2
    <3> QED BY <1>0, <2>1, <3>1, <3>2
  <2>3. ASSUME NEW t \in Tasks, NEW k \in Keys, InLine(t, k)' PROVE Rank[k] <= m
    <3>1. CASE InLine(t, k)
      <4>1. Rank[k] <= n /\ Rank[k] \in Nat
        BY <1>0, <2>1, <3>1
      <4> QED BY <2>1, <2>2, <4>1
    <3>2. CASE k = i
      BY <2>2, <3>2
    <3> QED BY <1>1, <2>3, <3>1, <3>2
  <2> QED BY <2>2, <2>3 DEF Bounded
<1>2. ASSUME \A t \in Tasks, k \in Keys : InLine(t, k)' => InLine(t, k) PROVE Bounded'
  BY <1>2, Zenon DEF Bounded
<1>3. ASSUME NEW t \in Tasks, NEW S \in SUBSET Keys, S # {}, AskNext(t, S),
             \A u \in Tasks, k \in Keys : k \in held'[u] => InLine(u, k)
      PROVE  Bounded'
  <2>1. Least(S) \in Keys
    BY <1>3, LeastIsMember
  <2>2. \A u \in Tasks : u # t => phase'[u] = phase[u] /\ want'[u] = want[u]
    BY <1>3 DEF AskNext, ChainInv, LocksTypeOK
  <2>3. want'[t] = Least(S)
    BY <1>3 DEF AskNext, ChainInv, LocksTypeOK
  <2>4. \A u \in Tasks, k \in Keys : InLine(u, k)' => InLine(u, k) \/ k = Least(S)
    BY <1>3, <2>2, <2>3 DEF InLine
  <2> QED BY <1>1, <2>1, <2>4
<1>4. ASSUME NEW t \in Tasks, Call(t) PROVE Bounded'
  <2>1. PICK p \in Plans : AskNext(t, Head(p))
    BY <1>4 DEF Call
  <2>2. Head(p) \in SUBSET Keys /\ Head(p) # {}
    BY PlansAssumption
  <2> QED BY <1>3, <1>4, <2>1, <2>2 DEF Call, InLine
<1>5. ASSUME NEW t \in Tasks, Nest(t) PROVE Bounded'
  <2>0. PICK S : S = Head(rest[t])
    OBVIOUS
  <2>1. AskNext(t, S) /\ UNCHANGED held /\ rest[t] # <<>> /\ rest[t] \in Seq((SUBSET Keys) \ {{}})
    BY <1>5, <2>0 DEF Nest, ChainInv, LocksTypeOK
  <2>2. S \in SUBSET Keys /\ S # {}
    BY <2>0, <2>1
  <2> QED BY <1>3, <2>1, <2>2 DEF InLine
<1>6. ASSUME NEW t \in Tasks, Resume(t) PROVE Bounded'
  <2>1. \A u \in Tasks, k \in Keys : k \in held'[u] => InLine(u, k)
    BY <1>6 DEF Resume, InLine, ChainInv, LocksTypeOK
  <2>2. CASE todo[t] # {} /\ AskNext(t, todo[t])
    <3>1. PICK S : S = todo[t]
      OBVIOUS
    <3>2. S \in SUBSET Keys /\ S # {} /\ AskNext(t, S)
      BY <2>2, <3>1 DEF ChainInv, LocksTypeOK
    <3> QED BY <1>3, <2>1, <3>2
  <2>3. CASE phase' = [phase EXCEPT ![t] = "body"] /\ want' = [want EXCEPT ![t] = Nothing]
    BY <1>2, <2>1, <2>3, NoneAssumption DEF InLine, ChainInv, LocksTypeOK
  <2> QED BY <1>6, <2>2, <2>3 DEF Resume
<1>7. ASSUME NEW t \in Tasks, Release(t) PROVE Bounded'
  BY <1>2, <1>7 DEF Release, PhaseAfter, InLine, ChainInv, LocksTypeOK
<1>8. CASE UNCHANGED lockVars
  BY <1>2, <1>8 DEF lockVars, InLine
<1> QED BY <1>4, <1>5, <1>6, <1>7, <1>8 DEF LocksNext

\* So it holds throughout.
LEMMA BoundedHolds == LocksSpec => []Bounded
<1>1. LocksInit => Bounded
  <2> SUFFICES ASSUME LocksInit PROVE Bounded
    OBVIOUS
  <2>1. \A t \in Tasks, k \in Keys : ~ InLine(t, k)
    BY DEF LocksInit, InLine
  <2> QED BY <2>1 DEF Bounded
<1> QED BY <1>1, BoundedGoesOn, ChainShape, PTL DEF LocksSpec

\* A call is an Ask.
LEMMA CallImplements ==
  ASSUME ChainInv, ChainInv', NEW t \in Tasks, Call(t)
  PROVE  Fifo!Next
<1>1. PICK p \in Plans : AskNext(t, Head(p))
  BY DEF Call
<1>2. Head(p) \in SUBSET Keys /\ Head(p) # {}
  BY PlansAssumption
<1>3. ~ InLine(t, Least(Head(p))) /\ UNCHANGED held
  BY DEF Call, InLine, ChainInv, LocksTypeOK
<1>4. Least(Head(p)) \in Keys /\ Fifo!Ask(t, Least(Head(p)))
  BY <1>1, <1>2, <1>3, AskImplements
<1> QED BY <1>4, Zenon DEF Fifo!Next

\* So is a nested call.
LEMMA NestImplements ==
  ASSUME ChainInv, ChainInv', NEW t \in Tasks, Nest(t)
  PROVE  Fifo!Next
<1>1. PICK S : S = Head(rest[t])
  OBVIOUS
<1>2. /\ AskNext(t, S) /\ phase[t] = "body" /\ rest[t] # <<>> /\ UNCHANGED held
      /\ rest[t] \in Seq((SUBSET Keys) \ {{}})
  BY <1>1 DEF Nest, ChainInv, LocksTypeOK
<1>3. S \in SUBSET Keys /\ S # {} /\ 1 \in 1..Len(rest[t]) /\ S = rest[t][1]
  BY <1>1, <1>2
<1>4. S \cap held[t] = {}
  BY <1>3 DEF ChainInv, KeysApart
<1>5. Least(S) \in S
  BY <1>3, LeastIsMember
<1>6. ~ InLine(t, Least(S))
  BY <1>2, <1>4, <1>5 DEF InLine
<1>7. Least(S) \in Keys /\ Fifo!Ask(t, Least(S))
  BY <1>2, <1>3, <1>6, AskImplements
<1> QED BY <1>7, Zenon DEF Fifo!Next

\* Every step of the promise chain is a step of the abstract lock, or none.
LEMMA ChainStepImplements ==
  ASSUME ChainInv, ChainInv', Bounded, [LocksNext]_lockVars
  PROVE  [Fifo!Next]_(Fifo!vars)
<1>1. ASSUME NEW t \in Tasks, Release(t) PROVE Fifo!Next
  <2>1. held[t] # {} /\ held[t] \in SUBSET Keys
    BY <1>1 DEF Release, ChainInv, LocksTypeOK
  <2>2. PICK n \in Nat : \A k \in held[t] : Rank[k] <= n
    BY <2>1 DEF Bounded, InLine
  <2>3. Greatest(held[t]) \in held[t]
    BY <2>1, <2>2, GreatestIsMember
  <2> QED BY <1>1, <2>3, ReleaseImplements
<1>2. CASE UNCHANGED lockVars
  <2>1. tail' = tail /\ prev' = prev /\ held' = held
    BY <1>2 DEF lockVars
  <2>2. \A j \in Keys : LineOf(j)' = LineOf(j) /\ OwnerOf(j)' = OwnerOf(j)
    BY <2>1, LineStays, OwnerStays
  <2>3. [j \in Keys |-> LineOf(j)]' = [j \in Keys |-> LineOf(j)] /\ [j \in Keys |-> OwnerOf(j)]' = [j \in Keys |-> OwnerOf(j)]
    BY <2>2
  <2> QED BY <2>3, Zenon DEF Fifo!vars
<1> QED BY <1>1, <1>2, CallImplements, NestImplements, ResumeImplements DEF LocksNext

\* The promise chain implements a first-in-first-out lock per key, for any tasks, keys
\* and plans that respect the order of keys: requests enter in the order they were made.
THEOREM LocksAreFifo == LocksSpec => ImplementsFifo
<1>1. LocksInit => Fifo!Init
  <2> SUFFICES ASSUME LocksInit PROVE Fifo!Init
    OBVIOUS
  <2>1. ASSUME NEW k \in Keys PROVE LineOf(k) = <<>> /\ OwnerOf(k) = Nothing
    <3>1. tail[k] = Nothing /\ \A t \in Tasks : k \notin held[t]
      BY DEF LocksInit
    <3> QED BY <3>1, Zenon DEF LineOf, OwnerOf
  <2> QED BY <2>1 DEF Fifo!Init
<1>2. LocksSpec => []ChainInv /\ []Bounded
  BY ChainShape, BoundedHolds, PTL
<1> QED BY <1>1, <1>2, ChainStepImplements, PTL DEF LocksSpec, ImplementsFifo, Fifo!Spec

-----------------------------------------------------------------------------
\* Under keys H, with T still to be asked for in the same group and the groups Q to
\* be asked for later, every key comes after all the keys before it.
Climbs(H, T, Q) ==
  /\ \A j \in H, k \in T : Rank[j] < Rank[k]
  /\ \A n \in 1..Len(Q) : \A j \in H \cup T, k \in Q[n] : Rank[j] < Rank[k]
  /\ \A m, n \in 1..Len(Q) : m < n => \A j \in Q[m], k \in Q[n] : Rank[j] < Rank[k]

\* Every task goes up the order of keys.
Uphill ==
  \A t \in Tasks :
     IF phase[t] = "waiting"
     THEN /\ Climbs(held[t] \cup {want[t]}, todo[t], rest[t])
          /\ \A k \in held[t] : Rank[k] < Rank[want[t]]
     ELSE Climbs(held[t], todo[t], rest[t])

\* No operations wait only for one another: of any tasks, one does not wait for
\* the promise of another of them.
NoCircularWait ==
  \A D \in SUBSET Tasks : D # {} =>
     \E t \in D : ~ (phase[t] = "waiting" /\ prev[t][want[t]] \in D)

\* The first key of a group comes before its others.
LEMMA LeastIsFirst ==
  ASSUME NEW S \in SUBSET Keys, S # {}
  PROVE  /\ Least(S) \in S
         /\ \A j \in S \ {Least(S)} : Rank[Least(S)] < Rank[j]
<1> DEFINE R == {Rank[k] : k \in S}
<1>1. R \in SUBSET Nat /\ R # {}
  BY RankAssumption
<1>2. PICK x \in R : \A y \in R : x <= y
  BY <1>1, LeastNatural
<1>3. \E k \in S : \A j \in S : Rank[k] <= Rank[j]
  BY <1>2
<1>4. PICK k \in S : k = Least(S) /\ \A j \in S : Rank[k] <= Rank[j]
  BY <1>3, Zenon DEF Least
<1>5. ASSUME NEW j \in S, j # k PROVE Rank[k] < Rank[j]
  <2>1. Rank[k] \in Nat /\ Rank[j] \in Nat /\ Rank[k] # Rank[j]
    BY <1>5, RankAssumption
  <2> QED BY <1>4, <2>1
<1> QED BY <1>4, <1>5

\* Asking for the first of a group leaves the rest of it above.
LEMMA AskClimbs ==
  ASSUME NEW H \in SUBSET Keys, NEW S \in SUBSET Keys, S # {},
         NEW Q \in Seq((SUBSET Keys) \ {{}}), Climbs(H, S, Q)
  PROVE  /\ Climbs(H \cup {Least(S)}, S \ {Least(S)}, Q)
         /\ \A k \in H : Rank[k] < Rank[Least(S)]
<1>1. PICK i \in S : i = Least(S) /\ \A j \in S \ {i} : Rank[i] < Rank[j]
  BY LeastIsFirst
<1>2. \A k \in H : Rank[k] < Rank[i]
  BY DEF Climbs
<1>3. Climbs(H \cup {i}, S \ {i}, Q)
  <2>1. \A j \in H \cup {i}, k \in S \ {i} : Rank[j] < Rank[k]
    BY <1>1 DEF Climbs
  <2>2. \A n \in 1..Len(Q) : \A j \in (H \cup {i}) \cup (S \ {i}), k \in Q[n] : Rank[j] < Rank[k]
    BY <1>1 DEF Climbs
  <2> QED BY <2>1, <2>2 DEF Climbs
<1> QED BY <1>1, <1>2, <1>3

\* Asking for the next key, from keys that climb.
LEMMA AskKeepsUphill ==
  ASSUME ChainInv, Uphill, NEW t \in Tasks, NEW S \in SUBSET Keys, S # {}, AskNext(t, S),
         NEW H \in SUBSET Keys, held' = [held EXCEPT ![t] = H],
         NEW Q \in Seq((SUBSET Keys) \ {{}}), rest' = [rest EXCEPT ![t] = Q],
         Climbs(H, S, Q)
  PROVE  Uphill'
<1>1. PICK i : i = Least(S)
  OBVIOUS
<1>2. /\ want' = [want EXCEPT ![t] = i] /\ todo' = [todo EXCEPT ![t] = S \ {i}]
      /\ phase' = [phase EXCEPT ![t] = "waiting"]
  BY <1>1 DEF AskNext
<1>3. Climbs(H \cup {i}, S \ {i}, Q) /\ \A k \in H : Rank[k] < Rank[i]
  BY <1>1, AskClimbs
<1>4. ASSUME NEW u \in Tasks, u # t
      PROVE  /\ phase'[u] = phase[u] /\ want'[u] = want[u] /\ held'[u] = held[u]
             /\ todo'[u] = todo[u] /\ rest'[u] = rest[u]
  BY <1>2, <1>4 DEF ChainInv, LocksTypeOK
<1>5. /\ phase'[t] = "waiting" /\ want'[t] = i /\ held'[t] = H
      /\ todo'[t] = S \ {i} /\ rest'[t] = Q
  BY <1>2 DEF ChainInv, LocksTypeOK
<1>6. ASSUME NEW u \in Tasks
      PROVE  IF phase'[u] = "waiting"
             THEN /\ Climbs(held'[u] \cup {want'[u]}, todo'[u], rest'[u])
                  /\ \A k \in held'[u] : Rank[k] < Rank[want'[u]]
             ELSE Climbs(held'[u], todo'[u], rest'[u])
  <2>1. CASE u = t
    BY <1>3, <1>5, <2>1
  <2>2. CASE u # t
    BY <1>4, <2>2, Zenon DEF Uphill
  <2> QED BY <2>1, <2>2
<1> QED BY <1>6, Zenon DEF Uphill, Climbs

\* So every step leaves every task on its way up.
LEMMA UphillGoesOn == ChainInv /\ Uphill /\ [LocksNext]_lockVars => Uphill'
<1> SUFFICES ASSUME ChainInv, Uphill, [LocksNext]_lockVars PROVE Uphill'
  OBVIOUS
<1>1. ASSUME NEW t \in Tasks, Call(t) PROVE Uphill'
  <2>1. PICK p \in Plans : AskNext(t, Head(p)) /\ rest' = [rest EXCEPT ![t] = Tail(p)]
    BY <1>1 DEF Call
  <2>2. /\ p \in Seq((SUBSET Keys) \ {{}}) /\ p # <<>>
        /\ \A m, n \in 1..Len(p) : m < n => \A j \in p[m], k \in p[n] : Rank[j] < Rank[k]
    BY PlansAssumption, Zenon
  <2> DEFINE S == Head(p)
             Q == Tail(p)
  <2>3. /\ S = p[1] /\ S \in SUBSET Keys /\ S # {}
        /\ Q \in Seq((SUBSET Keys) \ {{}}) /\ Len(Q) = Len(p) - 1 /\ Len(p) \in Nat \ {0}
        /\ \A n \in 1..Len(Q) : Q[n] = p[n + 1]
    BY <2>2
  <2>4. AskNext(t, S) /\ rest' = [rest EXCEPT ![t] = Q]
    BY <2>1
  <2> HIDE DEF S, Q
  <2>5. Climbs({}, S, Q)
    BY <2>2, <2>3 DEF Climbs
  <2>6. held' = [held EXCEPT ![t] = {}]
    BY <1>1 DEF Call, ChainInv, LocksTypeOK
  <2> QED BY <2>3, <2>4, <2>5, <2>6, AskKeepsUphill
<1>2. ASSUME NEW t \in Tasks, Nest(t) PROVE Uphill'
  <2>1. PICK p : p = rest[t]
    OBVIOUS
  <2>2. PICK H : H = held[t]
    OBVIOUS
  <2>3. /\ AskNext(t, Head(p)) /\ rest' = [rest EXCEPT ![t] = Tail(p)] /\ p # <<>>
        /\ held' = [held EXCEPT ![t] = H] /\ H \in SUBSET Keys
        /\ p \in Seq((SUBSET Keys) \ {{}}) /\ phase[t] = "body" /\ todo[t] = {}
    BY <1>2, <2>1, <2>2 DEF Nest, ChainInv, LocksTypeOK, KeysApart
  <2>4. Climbs(H, {}, p)
    BY <2>1, <2>2, <2>3, Zenon DEF Uphill
  <2> DEFINE S == Head(p)
             Q == Tail(p)
  <2>5. /\ S = p[1] /\ S \in SUBSET Keys /\ S # {}
        /\ Q \in Seq((SUBSET Keys) \ {{}}) /\ Len(Q) = Len(p) - 1 /\ Len(p) \in Nat \ {0}
        /\ \A n \in 1..Len(Q) : Q[n] = p[n + 1]
    BY <2>3
  <2>6. AskNext(t, S) /\ rest' = [rest EXCEPT ![t] = Q]
    BY <2>3
  <2> HIDE DEF S, Q
  <2>7. Climbs(H, S, Q)
    BY <2>4, <2>5 DEF Climbs
  <2> QED BY <2>3, <2>5, <2>6, <2>7, AskKeepsUphill
<1>3. ASSUME NEW t \in Tasks, Resume(t) PROVE Uphill'
  <2>1. PICK H : H = held[t] \cup {want[t]}
    OBVIOUS
  <2>2. /\ H \in SUBSET Keys /\ held' = [held EXCEPT ![t] = H] /\ phase[t] = "waiting"
        /\ rest' = [rest EXCEPT ![t] = rest[t]] /\ rest[t] \in Seq((SUBSET Keys) \ {{}})
        /\ todo[t] \in SUBSET Keys
    <3>1. /\ phase[t] = "waiting" /\ want[t] \in Keys /\ held[t] \in SUBSET Keys
          /\ held' = [held EXCEPT ![t] = @ \cup {want[t]}] /\ rest' = rest
      BY <1>3 DEF Resume, ChainInv, LocksTypeOK
    <3>2. rest' = [rest EXCEPT ![t] = rest[t]] /\ rest[t] \in Seq((SUBSET Keys) \ {{}}) /\ todo[t] \in SUBSET Keys
      BY <3>1 DEF ChainInv, LocksTypeOK
    <3> QED BY <2>1, <3>1, <3>2
  <2>3. Climbs(H, todo[t], rest[t])
    BY <2>1, <2>2, Zenon DEF Uphill
  <2>4. CASE todo[t] # {} /\ AskNext(t, todo[t])
    <3>1. PICK S, Q : S = todo[t] /\ Q = rest[t]
      OBVIOUS
    <3> QED BY <2>2, <2>3, <2>4, <3>1, AskKeepsUphill
  <2>5. CASE phase' = [phase EXCEPT ![t] = "body"] /\ UNCHANGED todo /\ want' = [want EXCEPT ![t] = Nothing]
    <3>1. ASSUME NEW u \in Tasks, u # t
          PROVE  /\ phase'[u] = phase[u] /\ want'[u] = want[u] /\ held'[u] = held[u]
                 /\ todo'[u] = todo[u] /\ rest'[u] = rest[u]
      BY <2>2, <2>5, <3>1 DEF ChainInv, LocksTypeOK
    <3>2. phase'[t] = "body" /\ held'[t] = H /\ todo'[t] = todo[t] /\ rest'[t] = rest[t]
      BY <2>2, <2>5 DEF ChainInv, LocksTypeOK
    <3>3. ASSUME NEW u \in Tasks
          PROVE  IF phase'[u] = "waiting"
                 THEN /\ Climbs(held'[u] \cup {want'[u]}, todo'[u], rest'[u])
                      /\ \A k \in held'[u] : Rank[k] < Rank[want'[u]]
                 ELSE Climbs(held'[u], todo'[u], rest'[u])
      <4>1. CASE u = t
        BY <2>3, <3>2, <4>1
      <4>2. CASE u # t
        BY <3>1, <4>2, Zenon DEF Uphill
      <4> QED BY <4>1, <4>2
    <3> QED BY <3>3, Zenon DEF Uphill, Climbs
  <2> QED BY <1>3, <2>4, <2>5 DEF Resume
<1>4. ASSUME NEW t \in Tasks, Release(t) PROVE Uphill'
  <2>1. /\ phase'[t] # "waiting" /\ todo'[t] = {} /\ rest'[t] = <<>>
        /\ \A u \in Tasks : u # t => /\ phase'[u] = phase[u] /\ want'[u] = want[u] /\ held'[u] = held[u]
                                     /\ todo'[u] = todo[u] /\ rest'[u] = rest[u]
    BY <1>4 DEF Release, PhaseAfter, ChainInv, LocksTypeOK, KeysApart
  <2>2. Climbs(held'[t], {}, <<>>)
    BY DEF Climbs
  <2>3. ASSUME NEW u \in Tasks
        PROVE  IF phase'[u] = "waiting"
               THEN /\ Climbs(held'[u] \cup {want'[u]}, todo'[u], rest'[u])
                    /\ \A k \in held'[u] : Rank[k] < Rank[want'[u]]
               ELSE Climbs(held'[u], todo'[u], rest'[u])
    <3>1. CASE u = t
      BY <2>1, <2>2, <3>1
    <3>2. CASE u # t
      BY <2>1, <3>2, Zenon DEF Uphill
    <3> QED BY <3>1, <3>2
  <2> QED BY <2>3, Zenon DEF Uphill, Climbs
<1>5. CASE UNCHANGED lockVars
  BY <1>5 DEF lockVars, Uphill, Climbs
<1> QED BY <1>1, <1>2, <1>3, <1>4, <1>5 DEF LocksNext

\* Of tasks that wait for one another, the one that wants the last key in the order and
\* stands first in its line waits for a task that wants a later key or stands further ahead.
LEMMA UphillEnds == ChainInv /\ Uphill /\ Bounded => NoCircularWait
<1> SUFFICES ASSUME ChainInv, Uphill, Bounded, NEW D \in SUBSET Tasks, D # {},
                    \A t \in D : phase[t] = "waiting" /\ prev[t][want[t]] \in D
             PROVE  FALSE
  BY DEF NoCircularWait
<1>0. \A t \in D : want[t] \in Keys /\ Rank[want[t]] \in Nat /\ InLine(t, want[t])
  BY RankAssumption DEF ChainInv, LocksTypeOK, InLine
<1>1. PICK n \in Nat : \A t \in D : Rank[want[t]] <= n
  BY <1>0 DEF Bounded
<1>2. PICK t \in D : \A u \in D : Rank[want[u]] <= Rank[want[t]]
  <2> DEFINE below(u) == n - Rank[want[u]]
             B == {below(u) : u \in D}
  <2>1. \A u \in D : below(u) \in Nat
    BY <1>0, <1>1
  <2>2. B \in SUBSET Nat /\ B # {}
    BY <2>1
  <2>3. PICK x \in B : \A y \in B : x <= y
    BY <2>2, LeastNatural
  <2>4. PICK t \in D : \A u \in D : below(t) <= below(u)
    BY <2>3
  <2>5. \A u \in D : Rank[want[u]] <= Rank[want[t]]
    BY <1>0, <2>4
  <2> QED BY <2>5
<1>3. PICK k \in Keys : k = want[t]
  BY <1>0
<1>4. PICK r \in [Tasks -> Nat] : Numbered(k, r)
  BY DEF ChainInv, Queues, Queue
<1> DEFINE E == {u \in D : want[u] = k}
<1>5. PICK u \in E : \A v \in E : r[u] <= r[v]
  <2> DEFINE B == {r[v] : v \in E}
  <2>1. B \in SUBSET Nat /\ B # {}
    BY <1>3
  <2>2. PICK x \in B : \A y \in B : x <= y
    BY <2>1, LeastNatural
  <2> QED BY <2>2
<1>6. PICK v \in D : v = prev[u][k]
  BY <1>5
<1>7. InLine(u, k) /\ prev[u][k] # Nothing /\ r[v] < r[u]
  <2>1. InLine(u, k) /\ prev[u][k] # Nothing
    BY <1>0, <1>5, <1>6, NoneAssumption
  <2> QED BY <1>4, <1>5, <1>6, <2>1 DEF Numbered
<1>8. InLine(v, k)
  BY <1>5, <1>6, <1>7 DEF ChainInv, Queues, Queue
<1>9. CASE k \in held[v]
  <2>1. Rank[k] < Rank[want[v]]
    BY <1>6, <1>9 DEF Uphill
  <2>2. Rank[want[v]] <= Rank[k]
    BY <1>2, <1>3, <1>6
  <2> QED BY <1>0, <1>3, <1>6, <2>1, <2>2
<1>10. CASE want[v] = k
  <2>1. r[u] <= r[v]
    BY <1>5, <1>6, <1>10
  <2> QED BY <1>5, <1>6, <1>7, <2>1
<1> QED BY <1>8, <1>9, <1>10 DEF InLine

\* No deadlock among operations under the locks, for any tasks, keys and plans: callers
\* that agree on the order of keys never wait in a circle.
THEOREM NobodyWaitsInACircle == LocksSpec => []NoCircularWait
<1>1. LocksInit => Uphill
  <2> SUFFICES ASSUME LocksInit PROVE Uphill
    OBVIOUS
  <2>1. Climbs({}, {}, <<>>)
    BY DEF Climbs
  <2>2. \A t \in Tasks : phase[t] = "idle" /\ held[t] = {} /\ todo[t] = {} /\ rest[t] = <<>>
    BY DEF LocksInit
  <2> QED BY <2>1, <2>2, Zenon DEF Uphill
<1> QED BY <1>1, UphillGoesOn, UphillEnds, ChainShape, BoundedHolds, PTL DEF LocksSpec
=============================================================================
