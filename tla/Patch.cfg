SPECIFICATION FairSpec
CONSTANTS
  c1 = c1
  c2 = c2
  c3 = c3
  Calls = {c1, c2, c3}
  Requests <- ThreeRequests
  Starters = {s1}
  Lazy = lazy
  Paths <- TwoPaths
  Content <- MCContent
  Missing = 0
  NoPath = NoPath
  InitFiles <- TwoFiles
  MaxFailures = 1
  MaxCrashes = 2
  TornWindows = FALSE
INVARIANTS TypeOK PreimageKept
PROPERTIES CallsAreAtomic DeadBlocksWrites AllAnswered
CHECK_DEADLOCK FALSE
