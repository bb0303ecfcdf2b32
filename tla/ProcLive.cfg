SPECIFICATION FairSpec
CONSTANTS
  NPROC = 3
  c1 = c1
  c2 = c2
  CPUs = {c1}
  NoCPU = NoCPU
  MaxPid = 3
  KillPids = {2, 3}
  Blocking = {2}
  AllocFails = FALSE
PROPERTIES KilledExits WaitReturns
CHECK_DEADLOCK FALSE
