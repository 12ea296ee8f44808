---------------------------- MODULE MCLocalVault ----------------------------
EXTENDS LocalVault, TLC
Symmetry == Permutations(Ids) \cup Permutations(Puuids)
=============================================================================
