--------------------------- MODULE MCEnvelopeGate ---------------------------
EXTENDS EnvelopeGate, TLC

CONSTANTS t1, t2, m1, m2, m3, m4, k1

Symmetry == Permutations({t1, t2}) \cup Permutations({m1, m2, m3, m4})
=============================================================================
