--------------------------- MODULE MCManifestCache ---------------------------
EXTENDS ManifestCache

CONSTANTS t1, t2

Gated == [signed |-> TRUE, bound |-> TRUE, gated |-> TRUE]
Ungated == [signed |-> TRUE, bound |-> TRUE, gated |-> FALSE]
Foreign == [signed |-> TRUE, bound |-> FALSE, gated |-> FALSE]
Unsigned == [signed |-> FALSE, bound |-> TRUE, gated |-> FALSE]
\* A file that has been truncated and not yet written.
Blank == [signed |-> FALSE, bound |-> FALSE, gated |-> FALSE]

MCTexts == {Gated, Ungated, Foreign, Unsigned, Blank}
=============================================================================
