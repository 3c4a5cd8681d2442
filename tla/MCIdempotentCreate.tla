------------------------- MODULE MCIdempotentCreate -------------------------
EXTENDS IdempotentCreate

CONSTANTS c1, c2, k1, p1, p2
=============================================================================
