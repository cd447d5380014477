CONSTANTS
  Roots = {"r1"}
  LocalPaths = {"l1"}
  RemotePaths = {"a"}
  Targets <- OneUpload
  ErrorClasses <- Classes
  MaxTasks = 1
  MaxAttempts = 2
  Procs = {"p1", "p2"}
  Workers = {"u1", "u2"}
  ProcOf <- MCProcOf
  OpOf <- MCOpOf
  MaxRetries = 1
  ListLimit = 2
  Excluded = {}
  Sizes = {1, 2}
  CallErrors = {"network"}
  MaxCrashes = 0
  MaxFaults = 0
SPECIFICATION PoolSpec
INVARIANTS NothingStranded SucceededIsOnRemote
PROPERTY TableSpec
