-------------------------------- MODULE MCX402 --------------------------------
EXTENDS X402, TLC

CONSTANTS c1, c2, q1, q2

MCSymmetry == Permutations({c1, c2}) \cup Permutations({q1, q2})
=============================================================================
