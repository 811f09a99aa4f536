CONSTANTS
  a1 = a1
  a2 = a2
  p1 = p1
  p2 = p2
  Accts = {a1, a2}
  Procs = {p1, p2}
  Users = {p1}
  Kinds = {"switch", "import", "login", "delete", "sync", "refresh", "refreshAll"}
  Products = {"cursor", "ide", "hub"}
  Outside = {"signin", "signout", "crash"}
  SwitchLock = SwitchLock
  UpsertLock = UpsertLock
  MaxToken = 2
  None = None
  Unread = Unread
  Unknown = Unknown
SYMMETRY MCSymmetry
SPECIFICATION Spec
INVARIANTS CopyIsCurrent
PROPERTIES SyncFollowsOfficial ProfilesStayApart FailedSwitchRestores
