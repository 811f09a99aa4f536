CONSTANTS
  a1 = a1
  a2 = a2
  Accts = {a1, a2}
  Index = Index
  MaxVersion = 2
  Worlds <- DamageAlone
  None = None
  Torn = Torn
SYMMETRY MCSymmetry
SPECIFICATION Spec
PROPERTIES NothingVanishes
