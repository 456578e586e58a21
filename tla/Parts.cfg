SPECIFICATION PartsSpec
CONSTANTS
  Caps = {"IFACE", "EP"}
  MayFail = {0, 1}
  StartupCalls = 2
  Statuses = {"OK", "INPROGRESS", "NO_RESOURCE", "ERROR"}
  MaxCalls = 6
  Key = {1, 2, 3}
  Value = {v, w}
  None = None
  Garbage = Garbage
  Hash <- MCHash
  MinCapacity = 2
  LoadFactor = 2
  MaxCapacity = 3
  HmKey = {1, 2, 3, 4, 5}
  HmValue = {1, 2}
  HmHash <- MCHmHash
  MinBuckets = 4
  ShrinkDiv = 4
INVARIANTS StartupTypeOK InStep AttachedFirst TableSound LookupLinear MapSound
PROPERTIES LinkServes ImplementsLink DsmCallReturns OperationsEnd
CHECK_DEADLOCK FALSE
