SPECIFICATION FairSpec
CONSTANTS
  MTU = 128
  MsgLens = {64, 128, 256}
  RX_DEPTH = 4
  LEN_DEPTH = 2
  META_DEPTH = 1
  DATA_DEPTH = 2
  MaxMsg = 4
INVARIANTS OutputFramed LengthsMatchData LengthLostOnlyShort
PROPERTIES EveryMessageForwarded
CHECK_DEADLOCK FALSE
