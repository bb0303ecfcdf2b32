SPECIFICATION Spec
CONSTANTS
  p1 = p1
  p2 = p2
  p3 = p3
  Procs = {p1, p2, p3}
  Free = Free
  NBLOCKS = 16
  NINODES = 7
  BSIZE = 2
  NDIRECT = 2
  UINT = 32
  NINODE = 6
  NFILE = 4
  NOFILE = 3
  MAXOPBLOCKS = 7
  MaxResult = 32
  Disks <- MCDisks
  Programs <- MCPrograms
INVARIANTS CallsSafe FilesExact CountsExact TreeExact NoCircularWait TestsPass
