------------------------------- MODULE MCTags -------------------------------
EXTENDS Tags, TLC

AllKinds == {"get", "set", "deleteByTag"}
Symmetry == Permutations(Procs) \cup Permutations(Calls)
=============================================================================
