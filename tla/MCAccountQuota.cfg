SPECIFICATION Spec
CONSTANTS
  Products <- AllProducts
  HeaderWaits <- Headers
  NoHeader = NoHeader
  MinRetry = 2
  TokenRetry = 2
  LimitedRetry = 3
  MaxRetry = 3
  ProbeStale = 1
  MaxFails = 2
  MaxAge = 1
  PollLimit = 1
  Missing = Missing
  LowQuota = 20
  WeeklyWarning = 30
INVARIANTS OnlyARefusalAsksAgain BannedByUsageAlone TokenSentOnce FailureWaits LeftoverShown
CHECK_DEADLOCK FALSE
