CONSTANTS
  Files = {"f1", "f2"}
  Order <- TwoRoots
  RootOf <- InOwnRoot
  MaxClock = 3
  MaxFaults = 1
SPECIFICATION FairSpec
INVARIANTS WatcherTypeOK 
PROPERTIES OneRequestPerChange  DeletionNoticed
