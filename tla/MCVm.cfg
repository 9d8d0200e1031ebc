SPECIFICATION Spec
CONSTANTS
  Procs = {1, 2}
  InitProc = 1
  NFrames = 14
  UPages = 6
  PTSpan = 3
  Programs <- MCPrograms
  Argvs <- MCArgvs
  Deltas <- MCDeltas
INVARIANTS SpacesSound OwnedOnce
PROPERTIES FailureKeeps
VIEW View
