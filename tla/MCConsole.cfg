SPECIFICATION Spec
CONSTANTS
  Procs = {1, 2}
  Letters = {"a", "b"}
  Outputs <- MCOutputs
  Counts = {1, 2}
  INPUT_BUF = 3
  Word = 6
  FirstIndex = {0, 4}
  COLS = 3
  ROWS = 2
  MaxEvents = 5
INVARIANTS InputReachable ScreenSound
PROPERTIES ReadsLines InputIsRead
CHECK_DEADLOCK FALSE
