--------------------------- MODULE MCTraceExport ---------------------------
EXTENDS TraceExport, TLC

CONSTANTS t1, t2

Symmetry == Permutations({t1, t2})
=============================================================================
