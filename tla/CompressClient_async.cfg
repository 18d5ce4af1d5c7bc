SPECIFICATION Spec
CONSTANTS
  Clients = {"c1"}
  CONCURRENCY = 2
  SLOTS = 2
  PLACES = 4
  ID_MOD = 8
INVARIANTS BuffersNotShared
CHECK_DEADLOCK FALSE
