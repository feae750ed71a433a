---------------------------- MODULE MCRedisMutex ----------------------------
\* The bounds of the runs of RedisMutex.
EXTENDS RedisMutex, TLC

OneTtl == {2}
Symmetry == Permutations(Mutexes)

\* Bound: of mutexes that are locked again or share identities, two at a time
\* are in use.
TwoUnplain ==
    plain \/ \E m \in Mutexes : pc[m] = "idle" /\ lockedOwner[m] = None /\ granted[m] = 0
=============================================================================
