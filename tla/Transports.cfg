SPECIFICATION TransportsSpec
CONSTANTS
  SIZE = 3
  Client = {a, b}
  Server = s
  QueueMortal = {b, s}
  MaxPush = 2
  RdmaRuns <- MCRuns
  LatIters = 4
  CharMod = 3
  MaxRFaults = 2
  CmQps = 2
  NumRetries = 2
  Shakes = 2
  UdModes = {TRUE, FALSE}
  MaxCmFaults = 1
INVARIANTS QueueSound InOrder ConnectionSound CmSound
PROPERTIES Served SetupEnds CmEnds
CHECK_DEADLOCK FALSE
