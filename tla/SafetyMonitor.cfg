SPECIFICATION MonitorSpec
CONSTANTS
  w1 = w1
  w2 = w2
  Workers = {w1, w2}
  Tiers = {"observe", "commission"}
SYMMETRY Symmetry
INVARIANTS TripHolds StaleNeverPasses
