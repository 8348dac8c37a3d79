------------------------------ MODULE MCSetup ------------------------------
EXTENDS Setup, TLC
=============================================================================
