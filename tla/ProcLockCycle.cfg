SPECIFICATION Spec
CONSTANTS
  NPROC = 4
  c1 = c1
  c2 = c2
  CPUs = {c1, c2}
  NoCPU = NoCPU
  MaxPid = 5
  KillPids = {}
  Blocking = {}
  AllocFails = FALSE
SYMMETRY Symmetry
CONSTRAINT Chains
INVARIANT NoLockCycle
CHECK_DEADLOCK FALSE
