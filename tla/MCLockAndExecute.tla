-------------------------- MODULE MCLockAndExecute --------------------------
EXTENDS LockAndExecute, TLC
Symmetry == Permutations(Servers)
=============================================================================
