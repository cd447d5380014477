CONSTANTS
  Names = {"a", "b", "d", "e", "x"}
  Callers = {"m1", "m2", "ctl"}
  Process <- ProcessOf
  MaxFaults = 1
  Menu <- Requests
  FlagSets = {{}, {1, 4}, {8}}
  Trees <- SmallTree
  MaxCalls = 2
SPECIFICATION Spec
CHECK_DEADLOCK FALSE
INVARIANTS  CacheTrueWhenQuiet
PROPERTIES OkIsTrue  NothingOverwritten ActsOnNamedPath WithinPolicy
