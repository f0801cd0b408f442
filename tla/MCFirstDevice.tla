--------------------------- MODULE MCFirstDevice ----------------------------
EXTENDS FirstDevice, TLC

Symmetry == Permutations(Files)
=============================================================================
