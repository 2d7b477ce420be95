------------------------------ MODULE MCMaster ------------------------------
EXTENDS Master, TLC

Symmetry == Permutations(Server)
=============================================================================
