SPECIFICATION Spec
CONSTANTS
  FSSIZE = 13
  NMeta = 2
  BSIZE = 2
  NDIRECT = 2
  NFilesSet = {1, 2}
  FileSizes = {0, 3, 5}
  Files = {1, 2}
  FirstOpen <- MCFirstOpen
  Procs = {11, 12}
  Counts = {1, 3, 30}
  MaxChunk = 2
  MaxCalls = 3
  Word = 32
INVARIANTS BlocksSound
PROPERTIES IsByteFile
CHECK_DEADLOCK FALSE
