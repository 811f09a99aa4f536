--------------------------- MODULE MCMainProcess ---------------------------
(***************************************************************************)
(* Three machines of the main process that share no state, each on a small  *)
(* instance: the keyed lock, the host of the engine worker, and the switch *)
(* of the background sync.  In a behaviour one of them moves (world) and   *)
(* the others rest in an initial state; since they neither read nor write  *)
(* each other's variables, a behaviour of all three shows of each what one *)
(* of these shows.                                                         *)
(***************************************************************************)
EXTENDS OperationLocks, EngineWorkerHost, DaemonControl

VARIABLE world

CONSTANTS t1, t2, t3, switchKey, oauthKey, acctA, acctB,  \* the lock
          c1, c2, w1, w2,                                 \* the worker
          a1, a2, r1, r2                                  \* the background sync

\* Three operations, the switch key, the sign-in key and two accounts.
MCTasks == {t1, t2, t3}
MCKeys == {switchKey, oauthKey, acctA, acctB}
MCRank == [k \in MCKeys |->
             CASE k = switchKey -> 1 [] k = oauthKey -> 2
               [] k = acctA -> 3 [] k = acctB -> 4]

\* account:switch, token:refresh, oauth upsert, adoptOfficialAuth.
MCPlans == { << {switchKey, acctA, acctB} >>,
             << {acctA} >>,
             << {oauthKey}, {acctA, acctB} >>,
             << {switchKey}, {oauthKey}, {acctB} >> }

MCInit ==
  /\ world \in {"locks", "worker", "daemon"}
  /\ LocksInit /\ HostInit /\ DaemonInit
  \* where there are several initial states, one is enough to rest in
  /\ world # "worker" => child = w1 /\ promptExit
  /\ world # "daemon" => cfg.minutes = 5

\* The lock and the background sync go on for ever; the worker may be stopped and its
\* calls answered.
MCNext ==
  /\ UNCHANGED world
  /\ \/ world = "locks" /\ LocksNext /\ UNCHANGED <<hostVars, daemonVars>>
     \/ world = "worker" /\ HostNext /\ UNCHANGED <<lockVars, daemonVars>>
     \/ world = "daemon" /\ DaemonNext /\ UNCHANGED <<lockVars, hostVars>>
     \/ world = "worker" /\ UNCHANGED <<lockVars, hostVars, daemonVars>>

\* The fairness of each; of a machine at rest none of these actions is enabled.
MCSpec ==
  /\ MCInit /\ [][MCNext]_<<world, lockVars, hostVars, daemonVars>>
  /\ LocksFairness /\ HostFairness /\ DaemonFairness
=============================================================================
