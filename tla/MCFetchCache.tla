--------------------------- MODULE MCFetchCache ---------------------------
\* Two callers of one key for TLC; which is which does not matter.
EXTENDS FetchCache, TLC

CallerSymmetry == Permutations(Callers)
=============================================================================
