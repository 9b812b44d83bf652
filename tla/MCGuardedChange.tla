--------------------------- MODULE MCGuardedChange ---------------------------
\* A small instance of GuardedChange for TLC.
EXTENDS GuardedChange

CONSTANTS r1, k1
=============================================================================
