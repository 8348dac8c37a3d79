---------------------------- MODULE MCRevocation ----------------------------
EXTENDS Revocation, TLC

CONSTANTS t1, t2, k1, k2

Symmetry == Permutations({t1, t2}) \cup Permutations({k1, k2})
=============================================================================
