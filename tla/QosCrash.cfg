CONSTANTS
  p1 = p1  p2 = p2  g1 = g1  g2 = g2  u1 = u1  u2 = u2
  NoIp = NoIp  NoList = NoList  NoFile = NoFile  EmptyFile = EmptyFile
  Cips <- MCCips
  UserCfgs <- TwoUsers
  LeaseSets <- AnyLeases
  Limits = {1}
  ListMax = 8
  CLI_MAX = 2
  MaxTimes = 2
  ReqTimes = {0, 2}
  StartDelay = 1
  TIME_QOS = 2
  Crashes = {"kill", "power", "signal"}
  Jumps = FALSE
  Waits = {"start", "request", "power", "reopen"}
  UserChanges = TRUE
  MaxTimers = 4
  MaxScripts = 3
SPECIFICATION Spec
INVARIANTS TypeOK OffMeansNoClients  StartBeforeLoop 
