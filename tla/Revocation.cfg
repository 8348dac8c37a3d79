SPECIFICATION Spec
CONSTANTS
  t1 = t1
  t2 = t2
  k1 = k1
  k2 = k2
  Threads = {t1, t2}
  Kids = {k1, k2}
  TTL = 2
  Never = Never
  NoEntry = NoEntry
  MaxTime = 4
SYMMETRY Symmetry
INVARIANTS StalenessBounded DenialsAreTrue
