SPECIFICATION Spec
CONSTANTS
  c1 = c1
  c2 = c2
  c3 = c3
  Calls = {c1, c2}
  Requests <- TwoRequests
  Starters = {s1}
  Lazy = lazy
  Paths <- ThreePaths
  Content <- MCContent
  Missing = 0
  NoPath = NoPath
  InitFiles <- ThreeFiles
  MaxFailures = 2
  MaxCrashes = 0
  TornWindows = FALSE
PROPERTY UnresolvedBlocksWrites
CHECK_DEADLOCK FALSE
