SPECIFICATION Spec
CONSTANTS
  CPUs = {0, 1}
  NPROC = 2
  Calls <- MCCalls
INVARIANTS LocksExclude InterruptsRestored
PROPERTIES HeldIsReleased
