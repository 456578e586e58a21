SPECIFICATION Spec
CONSTANTS
  a = a
  b = b
  c = c
  NoProc = NoProc
  Home <- MCHome
  Proc = {a, b, c}
  Boot = {a, b, c}
  Mortal = {}
  Readers = {a}
  Writers = {b, c}
  Calls <- FifoCalls
  Uuid = {7}
  LocalFifoListSize = 3
  GlobalFifoListSize = 6
  ProcessListSize = 4
  PipeCap = 2
  Lens = {1}
  Blanks = {TRUE, FALSE}
  MaxMsgLen = 4
  DsmHeader = 1
  Careless = FALSE
  ShmMayFail = FALSE
  MaxInits = 1
  MaxWrites = 1
INVARIANTS AckedDelivered
CHECK_DEADLOCK FALSE
