SPECIFICATION FairSpec
CONSTANTS
  w1 = w1
  w2 = w2
  r1 = r1
  r2 = r2
  Writers = {w1, w2}
  Readers = {r1}
  PIPESIZE = 2
  UINT = 4
  Sizes = {1, 3}
  MaxBytes = 4
  Killable = {w1}
  CopyFails = TRUE
  Free = Free
CHECK_DEADLOCK FALSE
INVARIANTS Fifo FreedUnused
PROPERTIES AllDelivered CallsReturn
