SPECIFICATION Spec
CONSTANTS
  t1 = t1
  t2 = t2
  Tasks = {t1}
  RingSize = 2
  IndexMod = 4
  FifoSize = 2
  RxFifoSize = 1
  RxTrig = 1
  RxChunk = 1
  LowFree = 1
  MediumFree = 1
  HighFree = 1
  QueueLen = 3
  FrameLens = {1}
  MaxPush = 6
  MaxRx = 0
  TaskPrios = {"low"}
  TxLevel = TRUE
  BootRx = FALSE
  IntEnaRace = FALSE
PROPERTY WireInOrder
CHECK_DEADLOCK FALSE
