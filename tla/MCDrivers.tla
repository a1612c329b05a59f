----------------------------- MODULE MCDrivers ------------------------------
EXTENDS Drivers, TLC

Symmetry == Permutations(Calls)
=============================================================================
