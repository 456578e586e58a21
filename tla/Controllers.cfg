SPECIFICATION ControllersSpec
CONSTANTS
  CPU = {c1, c2, c3}
  CsOrder <- MCOrder
  CsParent <- MCCsParent
  CsStarts <- MCStarts
  CsMasks <- MCMasks
  Tsk = {1, 2}
  MaxHotplugs = 2
  RDepth = 2
  RDevice = {d}
  RResource = {r1, r2}
  RUser = {u1, u2}
  RLimits = {0, 1, 2147483647}
  MaxRWrites = 3
  LDepth = 2
  LTask = {1, 2}
  MaxLWrites = 9
  SGroup = {0, 1, 2, 3}
  SParent <- MCSParent
  SCpu = {1, 2}
  Flusher = {1, 2}
  MaxUpdates = 2
  MaxFlushes = 2
  Ctl = {"cpu", "mem"}
  Hier = {1, 2}
  Ns = {0, 1}
  Mounter = {1, 2}
  Options <- MCOptions
  MaxMounts = 2
  Pid = {1, 2, 3, 4}
  TgidOf <- MCTgidOf
  Reader = {1, 2}
  PStart <- MCPStart
  MaxChanges = 1
INVARIANTS   LegacySound  RootsSound 
PROPERTY PoolsSound
SYMMETRY CpuSymmetry
CHECK_DEADLOCK FALSE
