SPECIFICATION GatesSpec
CONSTANTS
  None = None
  NaN = NaN
  Tools = {"move", "look"}
  Tiers <- MCTiers
  OtherScopes = {"READ"}
  DEFAULT_STRICT = 2
  Confidences = {1, 2}
  Configs <- MCConfigs
\* one request is judged, and the behaviour ends
CHECK_DEADLOCK FALSE
INVARIANTS GatesTypeOK RelabelBuysNothing MotionNeedsCredential HumanInTheLoop
