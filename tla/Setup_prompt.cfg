SPECIFICATION Spec
CONSTANTS
  MaxRuns = 2
  Concurrent = TRUE
  Absent = Absent
  NoFile = NoFile
INVARIANTS NoForceNeverReplaces
