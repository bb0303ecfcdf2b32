SPECIFICATION FairSpec
CONSTANTS
  NPROC = 3
  c1 = c1
  c2 = c2
  CPUs = {c1}
  NoCPU = NoCPU
  MaxPid = 3
  KillPids = {}
  Blocking = {}
  AllocFails = FALSE
PROPERTY InitReaps
CHECK_DEADLOCK FALSE
