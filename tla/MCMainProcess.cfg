CONSTANTS
  t1 = t1
  t2 = t2
  t3 = t3
  switchKey = switchKey
  oauthKey = oauthKey
  acctA = acctA
  acctB = acctB
  Nothing = Nothing
  Tasks <- MCTasks
  Keys <- MCKeys
  Rank <- MCRank
  Plans <- MCPlans
  c1 = c1
  c2 = c2
  w1 = w1
  w2 = w2
  Calls = {c1, c2}
  Workers = {w1, w2}
  MaxRestarts = 2
  NoWorker = NoWorker
  a1 = a1
  a2 = a2
  r1 = r1
  r2 = r2
  Accts = {a1, a2}
  Runs = {r1, r2}
  Minutes = {5, 60}
  MaxGeneration = 4
  Unset = Unset
SPECIFICATION MCSpec
INVARIANTS RepeatedOnce StoppedPassBeginsNothing StatusTellsTheTruth RunningAsRemembered
PROPERTIES EveryCallRuns ImplementsFifo EveryCallSettles WorkerComesBack StartIsServed
