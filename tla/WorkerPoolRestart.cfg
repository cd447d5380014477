CONSTANTS
  Roots = {"r1"}
  LocalPaths = {"l1"}
  RemotePaths = {"a"}
  Targets <- OneUpload
  ErrorClasses <- Classes
  MaxTasks = 1
  MaxAttempts = 2
  Procs = {"p1"}
  Workers = {"u1"}
  ProcOf <- MCProcOf
  OpOf <- MCOpOf
  MaxRetries = 1
  ListLimit = 1
  Excluded = {}
  Sizes = {1}
  CallErrors = {}
  MaxCrashes = 1
  MaxFaults = 0
SPECIFICATION FairPoolSpec
PROPERTY UnfinishedIsRecovered
