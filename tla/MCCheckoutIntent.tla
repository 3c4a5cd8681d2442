-------------------------- MODULE MCCheckoutIntent --------------------------
EXTENDS CheckoutIntent, TLC

CONSTANTS c1, c2

MCSymmetry == Permutations(Calls)
=============================================================================
