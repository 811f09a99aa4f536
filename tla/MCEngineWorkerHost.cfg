CONSTANTS
  c1 = c1
  c2 = c2
  w1 = w1
  w2 = w2
  Calls = {c1, c2}
  Workers = {w1, w2}
  MaxRestarts = 3
  NoWorker = NoWorker
SPECIFICATION HostSpec
CHECK_DEADLOCK FALSE
INVARIANTS PostAtMostOnce
