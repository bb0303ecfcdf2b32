CONSTANTS
  init = init
  c1 = c1
  Procs = {init, c1}
  Boot = init
  F = 2
  PGSIZE = 4
  ALIGN = 2
  MAXARG = 3
  UINT = 64
  UINT64 = 64
  PageCounts = {9, 13, 15, 17, 20, 23}
  Images <- MCImages
  Sbrks <- MCSbrks
  NCALLS = 3
  HDR = 2
  CORE = 4
  HEAP = 11
  UINT32 = 64
  Requests = {0, 2, 3, 9}
  NBLOCKS = 4
  Regexps <- MCRegexps
  Texts <- MCTexts
  Files <- MCFiles
  BUFSIZE = 4
  Paths <- MCPaths
  DIRSIZ = 2
  CELLS = 5
  INTS = 64
  MAXARGS = 3
  NPROCS = 6
  NFDS = 5
SPECIFICATION PartsSpec
CHECK_DEADLOCK FALSE
INVARIANTS MemoryExact ImageExact HeapExact TextExact ParseExact PipesEnd WaitsExact
