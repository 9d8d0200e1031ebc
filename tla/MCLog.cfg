SPECIFICATION HistSpec
CONSTANTS
  p1 = p1
  p2 = p2
  b1 = b1
  b2 = b2
  b3 = b3
  b4 = b4
  Procs = {p1, p2}
  Blocks = {b1, b2, b3, b4}
  v1 = v1
  v2 = v2
  Vals = {v1, v2}
  MAXOPBLOCKS = 2
  LOGSIZE = 4
  Nlog = 4
  InodeBlock = b1
SYMMETRY BlockSymmetry
INVARIANTS LogSound SpaceKept
PROPERTIES Atomic
