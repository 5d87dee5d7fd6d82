---------------------------- MODULE MCRunStream ----------------------------
EXTENDS RunStream, TLC
Symmetry == Permutations(Requests) \cup Permutations(Channels)
=============================================================================
