SPECIFICATION FairSpec
CONSTANTS
  LANES = 2
  LEN_MOD = 256
  DELAY = 0
  OUT_DEPTH = 1
  SEND_DEPTH = 2
  TX_DEPTH = 1
  HostLens = {65}
  DeviceLens = {0, 64}
  MaxCmd = 3
INVARIANTS TxFramed ObjectsReadWhole
PROPERTIES EveryObjectSent
CHECK_DEADLOCK FALSE
