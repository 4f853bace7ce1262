CONSTANTS
  p1 = p1  p2 = p2  g1 = g1  g2 = g2  u1 = u1  u2 = u2
  NoIp = NoIp  NoList = NoList  NoFile = NoFile  EmptyFile = EmptyFile
  Cips <- OnePhone
  UserCfgs <- OneUser
  LeaseSets <- OneLeaves
  Limits = {0, 2}
  ListMax = 8
  CLI_MAX = 1
  MaxTimes = 2
  ReqTimes = {2}
  StartDelay = 1
  TIME_QOS = 2
  Crashes = {}
  Jumps = TRUE
  Waits = {"tick", "start", "later"}
  UserChanges = FALSE
  MaxTimers = 4
  MaxScripts = 2
SPECIFICATION FairSpec
INVARIANTS AppliedWhileOn
 
