SPECIFICATION FairSpec
CONSTANTS
  NPROC = 3
  Free = 0
INVARIANTS IInv
PROPERTIES IsMutex SomebodyGetsIt
