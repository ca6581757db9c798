---------------------------- MODULE MCZoneCache ----------------------------
\* Two zones, two threads that change them, and who refreshes.
EXTENDS ZoneCache

CONSTANTS z1, z2, w1, w2, control
=============================================================================
