SPECIFICATION WatchingSpec
CONSTANTS
  p1 = p1
  p2 = p2
  c1 = c1
  c2 = c2
  a = a
  b = b
  Paths <- TwoPaths
  Callers <- TwoCallers
  MaxCalls = 4
  Faults = {"fail", "other"}
  MaxEdits = 3
  MaxFaults = 3
  Nobody = Nobody
  Procs <- TwoProcs
  LockFaults = {"crash", "restart", "swap", "unwritable"}
  MaxLockFaults = 3
  Machines <- TwoMachines
  Epochs <- ThreeEpochs
  MeddlingKinds = {"slow", "suspend", "late", "stale", "crash", "offline", "clear"}
  MaxMeddling = 2
INVARIANTS NothingForgotten HealthIsHonest OnePass OneWatcher LocksAreInUse OneMachine ActiveIsComplete
PROPERTIES WaitersResolve ImplementsChangeRequests CurrentOrStale SomeoneWatches ReadersCatchUp SomeMachineIndexes
CHECK_DEADLOCK FALSE
