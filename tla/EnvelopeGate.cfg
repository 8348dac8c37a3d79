SPECIFICATION Spec
CONSTANTS
  t1 = t1
  t2 = t2
  m1 = m1
  m2 = m2
  m3 = m3
  m4 = m4
  k1 = k1
  Threads = {t1, t2}
  MsgIds = {m1, m2, m3, m4}
  MaxSize = 3
  MaxRecorded = 5
  Kids = {k1}
  MaxTime = 3
  SkewEnvs = {0, 1, Unset}
  Requires = {TRUE}
  DefaultSkew = 1
  Stamps = {1}
  HasRevocation = TRUE
  NoMsg = NoMsg
  Unset = Unset
  NaN = NaN
  NoStamp = NoStamp
  Never = Never
SYMMETRY Symmetry
INVARIANTS WindowIsNewest RecentIdsRejected ReplayHorizon WithdrawnKeyEndsAtRestart
