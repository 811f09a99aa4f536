SPECIFICATION Spec
CONSTANTS
  Accounts = {a1, a2}
  Intervals = {1, 2}
  Default = 1
  Interval = 2
  Current = a1
  SignsIn = {a2}
  None = None
  Budgets <- MCBudgets
  MaxLoads = 5
  MaxBehind = 2
  MaxPolls = 1
  MaxStale = 2
  Missing = Missing
  LowQuota = 20
  WeeklyWarning = 30
  NoWindow = NoWindow
  ShortSpan = 24
INVARIANTS QuietShowsTruth NoOlderVerdict ChosenKept
PROPERTIES PendingKept PendingSettles
CHECK_DEADLOCK FALSE
