SPECIFICATION FairSpec
CONSTANTS
  t1 = t1
  t2 = t2
  Tasks = {t1}
  RingSize = 2
  IndexMod = 8
  FifoSize = 2
  RxFifoSize = 1
  RxTrig = 1
  RxChunk = 1
  LowFree = 1
  MediumFree = 1
  HighFree = 1
  QueueLen = 3
  FrameLens = {1,3}
  MaxPush = 3
  MaxRx = 2
  TaskPrios = {"low"}
  TxLevel = TRUE
  BootRx = FALSE
  IntEnaRace = FALSE
CHECK_DEADLOCK FALSE
INVARIANT EventQueueSuffices
PROPERTY BothDirections
