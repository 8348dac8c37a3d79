SPECIFICATION Spec
CONSTANTS
  r1 = r1
  r2 = r2
  m1 = m1
  Requests = {r1, r2}
  MsgOf <- MCMsgOf
  NoHash = NoHash
  HasMonitor = FALSE
  CheckSignature = TRUE
  CheckRevocation = FALSE
  MaxTrips = 1
  MaxCrashes = 0
CHECK_DEADLOCK FALSE
INVARIANTS StopRefusesNew
