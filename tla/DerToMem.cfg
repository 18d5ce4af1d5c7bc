SPECIFICATION FairSpec
CONSTANTS
  THREAD_NUM = 2
  ENTRY_MOD = 2
  INDEX_MOD = 4
  DDR_BUFFER_NUM = 4
  ALMOST_MARGIN = 1
  BUF_BYTES = 128
  HostLens = {1, 65}
  DeviceLens = {0, 64}
  FIFO_DEPTH = 2
  PORT_DEPTH = 1
  RETURN_DEPTH = 1
  MaxRpc = 3
  MaxReturn = 1
INVARIANTS TypeOK C2HFraming NoticedDataInPlace HbmAligned NoticeRoundRobin RingOrder
PROPERTIES EveryRpcNoticed
CHECK_DEADLOCK FALSE
