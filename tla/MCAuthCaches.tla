---------------------------- MODULE MCAuthCaches ----------------------------
\* A zone with two names, and room for one answer in the packet cache.
EXTENDS AuthCaches

CONSTANTS n1, n2, w1, w2, u1
=============================================================================
