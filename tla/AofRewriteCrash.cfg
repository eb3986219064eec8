SPECIFICATION Spec
CONSTANTS
  Events = {"crash", "bgsave"}
  Faults = {"open", "rename", "manifest", "fork", "child"}
  MaxFaults = 2
  MaxCrashes = 2
  MaxCommands = 4
  MaxSeq = 4
INVARIANTS
  RestartSafe
  LogComplete
  ManifestAgrees
  NoGarbage
CHECK_DEADLOCK FALSE
