------------------------------- MODULE MCLimaVM -------------------------------
EXTENDS LimaVMContract, TLC
Symmetry == Permutations(Pids)
=============================================================================
