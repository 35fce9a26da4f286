-------------------------- MODULE MCHandleStorage --------------------------
EXTENDS HandleStorage, TLC

CONSTANTS c1, c2, c3, c4, c5, c6, l1, l2
Symmetry == Permutations(Context)

=============================================================================
