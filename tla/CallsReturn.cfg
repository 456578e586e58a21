SPECIFICATION FairCallsSpec
CONSTANTS
  a = a
  b = b
  c = c
  NoProc = NoProc
  Home <- MCHome
  Proc = {a, b, c}
  Boot = {a, b, c}
  Mortal = {}
  Readers = {a}
  Writers = {b, c}
  Calls <- FifoCalls
  Uuid = {7}
  LocalFifoListSize = 3
  GlobalFifoListSize = 6
  ProcessListSize = 4
  PipeCap = 2
  Lens = {1}
  Blanks = {FALSE}
  MaxMsgLen = 4
  DsmHeader = 1
  Careless = FALSE
  ShmMayFail = FALSE
  MaxInits = 1
  MaxWrites = 1
  MaxUcpCalls = 2
  MaxUcpServed = 3
  MaxUcpFaults = 1
INVARIANTS UcpSound
PROPERTIES CallsReturn UcpEnds
CHECK_DEADLOCK FALSE
