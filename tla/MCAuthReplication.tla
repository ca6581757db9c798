------------------------- MODULE MCAuthReplication -------------------------
\* A primary and a secondary with one zone and two retrieval threads.
EXTENDS AuthReplication

CONSTANTS z1, p1, t1, t2
=============================================================================
