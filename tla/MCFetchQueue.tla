---------------------------- MODULE MCFetchQueue ----------------------------
EXTENDS FetchQueue, TLC
Symmetry == Permutations(Ids)
=============================================================================
