SPECIFICATION Spec
CONSTANTS
  t1 = t1
  t2 = t2
  Threads = {t1, t2}
  HasHuman = {t1}
  Texts <- MCTexts
  Gone = Gone
  None = None
  RequireRrn = TRUE
  HitlFromManifest = TRUE
  CoarseClock = FALSE
  MaxWrites = 2
INVARIANTS ManifestAuthoritative
