SPECIFICATION FairSpec
CONSTANTS
  Clients = {c1, c2}
  MaxCalls = 3
  LegacyCalls = 1
  Requests = {0, 3, 9}
  MinSize = 2
  MaxSize = 4
  ModeSize <- MCModeSize
  DefaultMode = 3
  BootSizes = {2, 3, 4}
  WindowServer = TRUE
CHECK_DEADLOCK FALSE
INVARIANTS
  HardwareFollows
  ListRestored
PROPERTY
  CustomModeReturns
