CONSTANTS
  MaxSessions = 3
  MaxTries = 2
SPECIFICATION FairSpec
CHECK_DEADLOCK FALSE
INVARIANTS CodexEndsByItself OverIsRemoved
PROPERTIES EveryLoginEnds
