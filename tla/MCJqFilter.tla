---------------------------- MODULE MCJqFilter ----------------------------
EXTENDS JqFilter, TLC
Symmetry == Permutations(Keys)
=============================================================================
