SPECIFICATION FairSpec
CONSTANTS
  NPROC = 3
  CPUs = {c1}
  MaxPid = 3
  Calls = {"fork", "exit", "wait", "waitfor", "kill", "sleep"}
  CallPids = {2}
CHECK_DEADLOCK FALSE
PROPERTIES
  WaitReaps KilledExits
