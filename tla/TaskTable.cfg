CONSTANTS
  Roots = {"r1"}
  LocalPaths = {"l1", "l2"}
  RemotePaths = {"a", "b"}
  Targets <- MCTargets
  ErrorClasses = {"other"}
  MaxTasks = 2
  MaxAttempts = 2
SPECIFICATION TableSpec
INVARIANTS  ActiveDedup OneRunningPerRemote 
PROPERTIES  ImplementsSlots
