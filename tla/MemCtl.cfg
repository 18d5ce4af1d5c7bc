SPECIFICATION Spec
CONSTANTS
  t1 = t1
  t2 = t2
  Threads <- TwoThreads
  BASE = 64
  PAGE = 16
  UNIT = 4
  PoolSizes = {19}
  Sizes = {1, 5, 12}
  Stray = {0, 65}
INVARIANTS PoolTiled OwnBlocksLogged
PROPERTIES ImplementsPool
