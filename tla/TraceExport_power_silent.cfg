SPECIFICATION Spec
CONSTANTS
  t1 = t1
  t2 = t2
  Threads = {t1}
  NoThread = NoThread
  NoHead = NoHead
  V1Lengths = {0}
  MaxLines = 4
  MaxCrashes = 0
  MaxPowerCuts = 1
  MaxHeadLosses = 0
  MaxWriteErrors = 0
CHECK_DEADLOCK FALSE
INVARIANT EveryLossShown
