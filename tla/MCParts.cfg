SPECIFICATION PartsSpec
CONSTANTS
  Lines <- MCLines
  MaxLines = 2
  NPROC = 5
  NOFILE = 5
  NPipes = 2
  MAXARGS = 3
  HeaderSize = 8
  MinCore = 4
  MaxBreak = 10
  NSlots = 3
  MaxCalls = 6
  BufSize = 4
  MaxBytes = 3
  DIRSIZ = 2
  Word = 64
  KERNBASE = 32
INVARIANTS CommandsRun ParsesLines HeapSound CallsSound PiecesJoined FunctionsRight
PROPERTIES ShellReturns
CHECK_DEADLOCK FALSE
