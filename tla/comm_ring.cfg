SPECIFICATION Spec
CONSTANTS
  t1 = t1
  t2 = t2
  Tasks = {t1, t2}
  RingSize = 3
  IndexMod = 12
  FifoSize = 2
  RxFifoSize = 1
  RxTrig = 1
  RxChunk = 1
  LowFree = 3
  MediumFree = 2
  HighFree = 1
  QueueLen = 3
  FrameLens = {3}
  MaxPush = 5
  MaxRx = 0
  TaskPrios = {"low", "high"}
  TxLevel = TRUE
  BootRx = FALSE
  IntEnaRace = TRUE
SYMMETRY SenderSymmetry
CHECK_DEADLOCK FALSE
INVARIANTS TypeOK RingNeverOverrun NoStrandedFrame PushAccounts
PROPERTIES WireInOrder ImplementsFrameQueue
