---------------------------- MODULE MCSessionMap ----------------------------
\* Two requests, one synthetic, and enough time for a map to become idle twice.
EXTENDS SessionMap

CONSTANTS r1, r2, s1

MCRequest == {r1, r2}
MCSynthetic == {s1}
=============================================================================
