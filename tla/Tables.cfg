SPECIFICATION Spec
CONSTANTS
  a = a
  b = b
  c = c
  NoProc = NoProc
  Home <- MCOneHome
  Proc = {a, b, c}
  Boot = {a}
  Mortal = {a}
  Readers = {a}
  Writers = {b}
  Calls <- Func
  Uuid = {7}
  LocalFifoListSize = 1
  GlobalFifoListSize = 2
  ProcessListSize = 2
  PipeCap = 1
  Lens = {1, 4}
  Blanks = {FALSE}
  MaxMsgLen = 4
  DsmHeader = 1
  Careless = TRUE
  ShmMayFail = TRUE
  MaxInits = 3
  MaxWrites = 1
INVARIANTS SegmentsPrivate
PROPERTIES EntriesWriteOnce
CHECK_DEADLOCK FALSE
