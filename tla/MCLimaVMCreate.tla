--------------------------- MODULE MCLimaVMCreate ---------------------------
\* Checks LimaVMCreate with two templates.
EXTENDS LimaVMCreate, TLC
Symmetry == Permutations(Templates)
=============================================================================
