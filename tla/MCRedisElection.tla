-------------------------- MODULE MCRedisElection --------------------------
\* The bounds of the runs of RedisElection.
EXTENDS RedisElection, TLC

Symmetry == Permutations(Nodes)
=============================================================================
