---------------------------- MODULE MCWriteBehind ----------------------------
EXTENDS WriteBehind, TLC

CONSTANTS a1, a2, t1, t2

Symmetric == Permutations({a1, a2}) \cup Permutations({t1, t2})

=============================================================================
