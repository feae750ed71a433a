---------------------------- MODULE MCMongoMutex ----------------------------
\* The bounds of the runs of MongoMutex.
EXTENDS MongoMutex, TLC

OneTtl == {1}
Symmetry == Permutations(Mutexes)

\* Bound: of mutexes that share identities, are probed or lose replies, two
\* at a time are in use.
TwoShared == plain \/ \E m \in Mutexes : pc[m] = "idle" /\ detail[m] = NoDoc /\ granted[m] = 0
=============================================================================
