---------------------------- MODULE MCCatalogEntity ----------------------------
EXTENDS CatalogEntity, TLC

CONSTANTS c1, c2, c3

MCSymmetry == Permutations(Calls)
=============================================================================
