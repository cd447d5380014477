CONSTANTS
  Roots = {"r1"}
  LocalPaths = {"l1", "null"}
  RemotePaths = {"a", "b"}
  Targets <- MCTargets
  ErrorClasses = {"upload_finalize", "other"}
  MaxTasks = 2
  MaxAttempts = 2
  Malformed = {"null"}
SPECIFICATION StartupSpec
PROPERTY DaemonServes
CHECK_DEADLOCK FALSE
