SPECIFICATION ReceiveFairSpec
CONSTANTS
  MTU = 64
  MsgLens = {64, 128}
  RX_DEPTH = 2
  LEN_DEPTH = 1
  META_DEPTH = 2
  DATA_DEPTH = 3
  MaxMsg = 3
  LANES = 2
  ACTIVE = 2
  DROP_LIMIT = 1
  LANE_META_DEPTH = 2
  LANE_DATA_DEPTH = 1
  DELAY = 0
  SLACKS = {63, 64}
INVARIANTS LaneKeepsPromise IdleLaneClean LeftBehind
PROPERTIES DeliversRpcs EveryMessageEnds
CHECK_DEADLOCK FALSE
