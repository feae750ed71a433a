-------------------------- MODULE MCMongoRepository --------------------------
\* Two callers of one tenant and a third one of another, who deletes for good.
EXTENDS MongoRepository, FiniteSets, TLC

CONSTANTS a, b, x, t, u

MCTenantOf == [c \in Callers |-> IF c = x THEN u ELSE t]

Symmetry == Permutations({a, b})

Holders == {c \in Callers : obj[c] # None}

\* Bound: two callers have an object at a time, and stamps that coincide are
\* explored with one and in the first millisecond.
Bound ==
    /\ Cardinality(Holders) <= 2
    /\ hasty => now = 1 /\ Cardinality(Holders) <= 1
=============================================================================
