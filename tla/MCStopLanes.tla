----------------------------- MODULE MCStopLanes -----------------------------
EXTENDS StopLanes

CONSTANTS s1, s2, c1, c2, c3

MCStopClients == {s1, s2}
MCClients == MCStopClients \cup {c1, c2, c3}
=============================================================================
