----------------------------- MODULE MCKitMutex -----------------------------
\* The bounds of the runs of KitMutex.
EXTENDS KitMutex, TLC

MCTtls == {2}
Symmetry == Permutations(Mutexes)
=============================================================================
