SPECIFICATION FairSpec
CONSTANTS
  Clients = {"c1", "c2"}
  CONCURRENCY = 1
  SLOTS = 2
  PLACES = 4
  ID_MOD = 8
INVARIANTS RequestsKept
PROPERTIES CtrlCEnds
CHECK_DEADLOCK FALSE
