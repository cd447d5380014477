CONSTANTS
  Roots = {"r1"}
  LocalPaths = {"l1"}
  RemotePaths = {"a"}
  Targets <- DownAndAway
  ErrorClasses <- Classes
  MaxTasks = 2
  MaxAttempts = 2
  Procs = {"p1"}
  Workers = {"d1", "x1"}
  ProcOf <- MCProcOf
  OpOf <- MCOpOf
  MaxRetries = 1
  ListLimit = 1
  Excluded = {}
  Sizes = {1}
  CallErrors = {"network", "unauthorized"}
  MaxCrashes = 0
  MaxFaults = 0
SPECIFICATION FairPoolSpec
INVARIANT OneWorkerPerPath
 
