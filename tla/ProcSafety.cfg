SPECIFICATION Spec
CONSTANTS
  NPROC = 3
  c1 = c1
  c2 = c2
  CPUs = {c1, c2}
  NoCPU = NoCPU
  MaxPid = 4
  KillPids = {2, 3}
  Blocking = {2}
  AllocFails = TRUE
SYMMETRY Symmetry
CHECK_DEADLOCK FALSE
INVARIANTS IInv KernelStackOwned ParentStable NoLostExit
