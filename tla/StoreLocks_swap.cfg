SPECIFICATION LocksSpec
CONSTANTS
  p1 = p1
  p2 = p2
  p3 = p3
  Nobody = Nobody
  Procs <- TwoProcs
  LockFaults = {"swap"}
  MaxLockFaults = 1
INVARIANTS AtMostOneWatcher
CHECK_DEADLOCK FALSE
