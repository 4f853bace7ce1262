CONSTANTS
  p1 = p1  p2 = p2  g1 = g1  g2 = g2  u1 = u1  u2 = u2
  NoIp = NoIp  NoList = NoList  NoFile = NoFile  EmptyFile = EmptyFile
  Cips <- MCCips
  UserCfgs <- OneUser
  LeaseSets <- WithGuests
  Limits = {1}
  ListMax = 8
  CLI_MAX = 2
  MaxTimes = 2
  ReqTimes = {0, 2}
  StartDelay = 1
  TIME_QOS = 2
  Crashes = {}
  Jumps = FALSE
  Waits = {"tick", "start"}
  UserChanges = FALSE
  MaxTimers = 4
  MaxScripts = 2
SPECIFICATION Spec
INVARIANTS SavedIsPrior
