SPECIFICATION Spec
CONSTANTS
  LANES = 2
  ACTIVE = 2
  META_DEPTH = 3
  DATA_DEPTH = 2
  DROP_LIMIT = 1
  LANE_META_DEPTH = 2
  LANE_DATA_DEPTH = 2
  MaxBeats = 2
  MaxRpc = 5
INVARIANTS TypeOK LaneAligned DispatchAligned
PROPERTIES DropUnderLoad
CHECK_DEADLOCK FALSE
