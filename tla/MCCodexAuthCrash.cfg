CONSTANTS
  a1 = a1
  a2 = a2
  p1 = p1
  p2 = p2
  Accts = {a1, a2}
  Procs = {p1, p2}
  Users = {p1, p2}
  Kinds = {"switch", "signin", "adopt", "quota", "daemon", "delete"}
  Outside = {"rotate", "signin", "signout", "crash"}
  SwitchLock = SwitchLock
  OAuthLock = OAuthLock
  MaxToken = 2
  None = None
  Unsupported = Unsupported
SYMMETRY MCSymmetry
SPECIFICATION Spec
CHECK_DEADLOCK FALSE
INVARIANTS NoLostUpdate SwitchIsolated
PROPERTIES NoAutomaticSwitch NoHomemadeConflict
