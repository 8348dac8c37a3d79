SPECIFICATION FairSpec
CONSTANTS
  s1 = s1
  s2 = s2
  c1 = c1
  c2 = c2
  c3 = c3
  Clients <- MCClients
  StopClients <- MCStopClients
  DefaultLanes = 2
  STOP_LANES = 1
INVARIANTS LanesTypeOK
PROPERTIES StopGetsThread OthersGetThread
CHECK_DEADLOCK FALSE
