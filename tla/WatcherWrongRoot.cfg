CONSTANTS
  Files = {"f1", "f2"}
  Order <- TwoRoots
  RootOf <- InOwnRoot
  MaxClock = 2
  MaxFaults = 0
SPECIFICATION Spec
INVARIANT UploadedUnderOwnRoot
