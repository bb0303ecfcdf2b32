SPECIFICATION FairSpec
CONSTANTS
  p1 = p1
  p2 = p2
  p3 = p3
  b1 = b1
  b2 = b2
  b3 = b3
  b4 = b4
  b5 = b5
  Procs = {p1, p2}
  Blocks = {b1, b2, b3}
  Vals = {0, 1}
  MAXOPBLOCKS = 2
  LOGSIZE = 4
  NLOG = 4
  OpBlocks = 1
  UINT = 4
  Recycles = TRUE
  MaxCrashes = 0
INVARIANTS NoPanic
PROPERTIES IsAtomicDisk SleeperWakes
