SPECIFICATION Spec
CONSTANTS
  c1 = c1
  c2 = c2
  Client = {c1}
  Policies = {"always", "everysec", "no"}
  NoFsyncOnRewrite = TRUE
  Faults = {"write", "truncate", "open", "fork"}
  MaxFaults = 1
  MaxOffset = 2
  MaxFiles = 2
CHECK_DEADLOCK FALSE
INVARIANTS LogAccounted AckDurable NothingForgotten
PROPERTIES BioPublishesDurable
