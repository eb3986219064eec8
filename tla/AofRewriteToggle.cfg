SPECIFICATION FairSpec
CONSTANTS
  Events = {"toggle", "bgsave"}
  Faults = {"open", "rename", "manifest", "child"}
  MaxFaults = 2
  MaxCrashes = 0
  MaxCommands = 4
  MaxSeq = 4
INVARIANTS
  RestartSafe
  WaitAccumulates
PROPERTIES
  EnableCompletes
CHECK_DEADLOCK FALSE
