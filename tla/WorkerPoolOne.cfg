CONSTANTS
  Roots = {"r1"}
  LocalPaths = {"l1", "l2"}
  RemotePaths = {"a", "b"}
  Targets <- Uploads
  ErrorClasses <- Classes
  MaxTasks = 2
  MaxAttempts = 2
  Procs = {"p1"}
  Workers = {"u1"}
  ProcOf <- MCProcOf
  OpOf <- MCOpOf
  MaxRetries = 1
  ListLimit = 2
  Excluded = {"l2"}
  Sizes = {1}
  CallErrors = {"network", "unauthorized"}
  MaxCrashes = 1
  MaxFaults = 1
SPECIFICATION PoolSpec
INVARIANTS PoolTypeOK WorkerOwnsRow SucceededIsOnRemote ReconcileOnlyAfterFault
PROPERTIES AttemptsNeverDrop 
