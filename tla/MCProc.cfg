SPECIFICATION Spec
CONSTANTS
  NPROC = 3
  CPUs = {c1, c2}
  MaxPid = 4
  Calls = {"fork", "exit", "wait", "waitfor", "kill", "sleep"}
  CallPids = {0, 2, 3}
SYMMETRY CpuSymmetry
CHECK_DEADLOCK FALSE
INVARIANTS TypeOK TableSound SlotsOwned NoMissedWakeup
