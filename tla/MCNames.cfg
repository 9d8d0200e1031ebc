SPECIFICATION Spec
CONSTANTS
  Procs = {1, 2, 3}
  Users = {1, 2}
  NInodes = 5
  NINODE = 4
  NFILE = 3
  NOFILE = 2
  Names = {"a", "b"}
  Calls <- MCCalls
  MaxCalls = 2
  Starts <- MCStarts
INVARIANTS RefsExact InodesKept LinksMatch LocksOrdered
PROPERTIES CallsFinish
CHECK_DEADLOCK FALSE
