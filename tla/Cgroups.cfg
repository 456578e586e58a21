SPECIFICATION CgroupsSpec
CONSTANTS
  Ss = {"mem", "pids"}
  ThreadedSs = {"pids"}
  DependsOn <- MCDependsOn
  MaxCgroups = 2
  MaxGeneration = 2
  MaxHolds = 1
  MaxDying = 2
  Masks = {{"mem"}, {"pids"}}
  MaxDescendants = 2
  MaxDepth = 2
  Writer = {w1}
  Group = {0, 1, 2}
  Parent <- MCParent
  NoGroup = 9
  Task = {1, 2}
  Limits = {1}
  MaxCss = 2
  MaxWrites = 3
  FGroup = {0, 1, 2, 3}
  FParent <- MCFParent
  NoFGroup = 9
  FTask = {1, 2}
  MayHold = {2, 3}
  MaxFreezes = 3
  Walker = {w1}
  Walked = {1, 2, 3}
  LeaderOf <- MCLeader
  HomeOf <- MCHome
  Held <- MCHeld
  Away = "C"
INVARIANTS LifetimesKept ControlKept TasksKept MovesWhole WalkSound FreezerSound
CHECK_DEADLOCK FALSE
