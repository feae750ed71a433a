--------------------------- MODULE MCMemoryMutex ---------------------------
\* The bounds of the runs of MemoryMutex.
EXTENDS MemoryMutex, TLC

MCTtls == {1, 2}
Symmetry == Permutations(Mutexes)
=============================================================================
