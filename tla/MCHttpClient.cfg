CONSTANTS
  r1 = r1
  r2 = r2
  h1 = h1
  h2 = h2
  http = http
  socks = socks
  Reqs = {r1, r2}
  Hosts = {h1, h2}
  Proxies = {http, socks}
  Found <- MCFound
  Socks <- MCSocks
  Inherited = None
  MaxHops = 1
  Direct = Direct
  Forged = Forged
  None = None
SYMMETRY MCSymmetry
SPECIFICATION Spec
INVARIANTS PostOnce ForgottenForAll
PROPERTIES EveryStepCounts
