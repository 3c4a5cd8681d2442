------------------------- MODULE MCCredentialRotation -------------------------
EXTENDS CredentialRotation, TLC

CONSTANTS c1, c2, k1

MCSymmetry == Permutations({c1, c2})
=============================================================================
