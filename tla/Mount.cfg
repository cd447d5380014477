SPECIFICATION Spec
CONSTANTS
  T1 = T1
  T2 = T2
  Paths <- MCPaths
  Writers <- MCWriters
  Threads <- MCThreads
  Menu <- MCMenu
  Rank <- MCRank
  Remote0 <- MCRemote
  StartedAs <- MCStartedAs
  Handles = {1, 2, 3, 4}
  MaxCalls = 4
  MaxLost = 1
INVARIANTS
  
  HandleOnce
  NobodyWaitsInACircle
  
  OneDownloadAtATime
  CachedFilesAreWhole
  OwnChangesListed
PROPERTIES
  LostWriteNeedsRival
SYMMETRY ThreadSymmetry
CHECK_DEADLOCK FALSE
