SPECIFICATION Spec
CONSTANTS
  a = a
  b = b
  c = c
  NoProc = NoProc
  Home <- MCHome
  Proc = {a, b, c}
  Boot = {a, b, c}
  Mortal = {b}
  Readers = {a, c}
  Writers = {b, c}
  Calls <- FifoCalls
  Uuid = {7}
  LocalFifoListSize = 3
  GlobalFifoListSize = 6
  ProcessListSize = 4
  PipeCap = 1
  Lens = {1}
  Blanks = {FALSE}
  MaxMsgLen = 4
  DsmHeader = 1
  Careless = FALSE
  ShmMayFail = FALSE
  MaxInits = 1
  MaxWrites = 1
INVARIANTS AnswerArrives
CHECK_DEADLOCK FALSE
