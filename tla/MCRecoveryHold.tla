--------------------------- MODULE MCRecoveryHold ---------------------------
\* A small instance of RecoveryHold for TLC.
EXTENDS RecoveryHold, TLC

CONSTANTS q1, q2

Threads == Permutations({q1, q2})
=============================================================================
