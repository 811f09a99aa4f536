CONSTANTS
  MaxSessions = 2
  MaxTries = 2
SPECIFICATION Spec
CHECK_DEADLOCK FALSE
INVARIANTS CursorEndsByItself
