SPECIFICATION FairSpec
CONSTANTS
  p1 = p1
  p2 = p2
  a1 = a1
  a2 = a2
  k1 = k1
  k2 = k2
  k3 = k3
  NoBlock = NoBlock
  Procs = {p1, p2}
  Bufs = {a1, a2}
  Blocks = {k1, k2, k3}
  Vals = {0, 1}
INVARIANTS BuffersSound SleepersServed
PROPERTIES IoReturns
CHECK_DEADLOCK FALSE
