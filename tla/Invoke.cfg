SPECIFICATION FairSpec
CONSTANTS
  r1 = r1
  r2 = r2
  m1 = m1
  Requests = {r1, r2}
  MsgOf <- MCMsgOf
  NoHash = NoHash
  HasMonitor = TRUE
  CheckSignature = TRUE
  CheckRevocation = TRUE
  MaxTrips = 1
  MaxCrashes = 1
CHECK_DEADLOCK FALSE
INVARIANTS TypeOK UnreportedDispatchNamed OutcomeNamesItsIntent RepliesAreAudited StopRefusesNew
PROPERTIES EveryRequestAnswered
