SPECIFICATION FairSpec
CONSTANTS
  HostLens = {64, 65}
  DeviceLens = {0, 64}
  CMD_DEPTH = 1
  HOST_CMD_DEPTH = 1
  DATA_DEPTH = 1
  READ_DEPTH = 1
  MaxCmd = 3
INVARIANTS RoutedToUser
PROPERTIES EveryCommandServed
CHECK_DEADLOCK FALSE
