CONSTANTS
  c1 = c1
  c2 = c2
  c3 = c3
  c4 = c4
  b1 = b1
  b2 = b2
  b3 = b3
  b4 = b4
  v1 = v1
  v2 = v2
  t1 = t1
  t2 = t2
  Callers = {c1, c2, c3, c4}
  Bufs = {b1, b2, b3, b4}
  Values = {v1, v2}
  NUM = 8
  UINT16 = 16
  MaxFaults = 0
  NoBuf = NoBuf
  Nobody = "none"
  Readers = {c1, c2}
  Writers = {c1, c2}
  INPUT_BUF = 4
  UART_TX_BUF_SIZE = 4
  UINT = 8
  Chars = {0, 1, 2, 3, 4, 5, 10, 11, 12, 13, 14, 15}
  NL = 10
  CR = 14
  NUL = 0
  DUMP = 15
  EOF = 11
  ERASE = 12
  KILL = 13
  NoHolder = NoHolder
  Harts = {h0, h1}
  Hart0 = h0
  Threads = {t1, t2}
  TICKS = 3
  NoHart = NoHart
  NoThread = NoThread
  Table <- MCTable
SPECIFICATION DiskSpec
CHECK_DEADLOCK FALSE
PROPERTIES
  RequestsFinish
