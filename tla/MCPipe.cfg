SPECIFICATION FairSpec
CONSTANTS
  w1 = w1
  w2 = w2
  r1 = r1
  Writers = {w1, w2}
  Readers = {r1}
  Bytes = {0, 1}
  PIPESIZE = 2
  UintMax1 = 4
  MaxN = 3
  Killable = {w1, r1}
INVARIANTS PipeSound EndsAwake
PROPERTIES IsQueue ReadReturns
CHECK_DEADLOCK FALSE
