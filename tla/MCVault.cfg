CONSTANTS
  a1 = a1
  a2 = a2
  p1 = p1
  p2 = p2
  Accts = {a1, a2}
  Index = Index
  MaxVersion = 2
  Worlds <- MCWorlds
  None = None
  Torn = Torn
  SwitchLock = SwitchLock
  OAuthLock = OAuthLock
  Unsupported = Unsupported
SYMMETRY MCSymmetry
SPECIFICATION VaultSideSpec
INVARIANTS DeletedIsForgotten
PROPERTIES VaultSpec RowsAndCurrentStay OnlyListingsLose LoginSurvivesMirror WorkingTokenKept
