SPECIFICATION Spec
CONSTANTS
  NPROC = 3
  c1 = c1
  c2 = c2
  CPUs = {c1, c2}
  NoCPU = NoCPU
  MaxPid = 4
  KillPids = {0, 2}
  Blocking = {}
  AllocFails = FALSE
PROPERTY BornAlive
CHECK_DEADLOCK FALSE
