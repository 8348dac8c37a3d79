SPECIFICATION FairSpec
CONSTANTS
  Empty = Empty
  ShipIntents = FALSE
  CanCut = TRUE
  MaxLines = 4
  MaxFaults = 2
INVARIANTS NothingSkipped DeliveredInOrder StopIsTrue
\* a shipper that stopped on a cut stays stopped
CHECK_DEADLOCK FALSE
PROPERTIES EventuallyShipped
