---------------------------- MODULE MCAuthToken ----------------------------
EXTENDS AuthToken, TLC
Symmetry == Permutations(Requests)
=============================================================================
