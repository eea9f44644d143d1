--------------------------- MODULE MCCondvarLock ---------------------------
EXTENDS CondvarLock
CONSTANTS t1, t2, t3
=============================================================================
