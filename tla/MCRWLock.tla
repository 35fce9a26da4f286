------------------------------ MODULE MCRWLock ------------------------------
EXTENDS RWLock

CONSTANTS t1, t2, t3

=============================================================================
