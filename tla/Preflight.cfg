SPECIFICATION PreflightSpec
CONSTANTS
  c1 = c1
  c2 = c2
  c3 = c3
  k1 = k1
  k2 = k2
  Kids = {c1, c2, c3}
  Keys = {k1, k2}
  NoKey = NoKey
  MaxSurprises = 2
SYMMETRY Symmetry
CONSTRAINT FewSurprises
INVARIANTS ContradictionStops AbsenceNeverStops RegistryResolvesIsBacked
