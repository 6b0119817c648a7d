---------------------------- MODULE MCCrSqlSync ----------------------------
\* A few sites for TLC; which is which does not matter, and neither do loops.
EXTENDS CrSqlSync, TLC

CONSTANTS x, y

OneTable == [c \in Cells |-> c]

SyncSymmetry == Permutations(Sites) \cup Permutations(Loops)
=============================================================================
