SPECIFICATION Spec
CONSTANTS
  MaxRuns = 2
  Concurrent = FALSE
  Absent = Absent
  NoFile = NoFile
INVARIANTS TargetsAreWhole TokensStayPrivate NoForceNeverReplaces FailedRunRestores
