SPECIFICATION Spec
CONSTANTS
  t1 = t1
  t2 = t2
  Threads = {t1, t2}
  NoThread = NoThread
  NoHead = NoHead
  V1Lengths = {0, 2}
  MaxLines = 5
  MaxCrashes = 2
  MaxPowerCuts = 1
  MaxHeadLosses = 1
  MaxWriteErrors = 1
SYMMETRY Symmetry
CHECK_DEADLOCK FALSE
INVARIANTS SeqNeverReused HeadNeverBehind NoFalseAlarm NoSilentLoss
