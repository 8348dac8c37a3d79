SPECIFICATION Spec
CONSTANTS
  Empty = Empty
  ShipIntents = FALSE
  CanCut = TRUE
  MaxLines = 4
  MaxFaults = 2
PROPERTIES CutNeverRedelivered
\* a shipper that stopped on a cut stays stopped
CHECK_DEADLOCK FALSE
