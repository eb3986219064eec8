SPECIFICATION Spec
CONSTANTS
  c1 = c1
  c2 = c2
  Client = {c1, c2}
  Policies = {"always"}
  NoFsyncOnRewrite = FALSE
  Faults = {"write", "truncate", "fsync", "open", "fork"}
  MaxFaults = 1
  MaxOffset = 3
  MaxFiles = 2
SYMMETRY MCSymmetry
CHECK_DEADLOCK FALSE
INVARIANTS AckDurable WaitaofTruthful
