SPECIFICATION FairSpec
CONSTANTS
  c1 = c1
  c2 = c2
  Client = {c1}
  Policies = {"everysec"}
  NoFsyncOnRewrite = FALSE
  Faults = {"write", "truncate"}
  MaxFaults = 1
  MaxOffset = 2
  MaxFiles = 2
CHECK_DEADLOCK FALSE
PROPERTIES EventuallyDurable WaitaofAnswered
