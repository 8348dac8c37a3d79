SPECIFICATION Spec
CONSTANTS
  t1 = t1
  t2 = t2
  t3 = t3
  Threads = {t1, t2, t3}
  NoThread = NoThread
  MaxEntries = 5
SYMMETRY Symmetry
CHECK_DEADLOCK FALSE
INVARIANTS ChainNeverForks BundleVerifies
PROPERTIES ImplementsLog
