---------------------------- MODULE LeaderLease ----------------------------
(***************************************************************************)
(* What an election promises, whatever store the leader is noted in: a     *)
(* lease that one node at a time has.  RedisElection and MongoElection     *)
(* implement this module.                                                  *)
(***************************************************************************)
EXTENDS Naturals

CONSTANTS Nodes, Lease

VARIABLE claim   \* claim[n]: what is left of the lease that makes n the leader

Leads(n) == claim[n] > 0

Init == claim = [n \in Nodes |-> 0]

\* n is elected, or has its lease renewed: nobody else leads.
Elect(n) ==
    /\ \A m \in Nodes \ {n} : ~Leads(m)
    /\ \E left \in 0..Lease : claim' = [claim EXCEPT ![n] = left]

\* n gives its lease back, or loses it early.
Resign(n) == claim' = [claim EXCEPT ![n] = 0]

Tick == claim' = [n \in Nodes |-> IF Leads(n) THEN claim[n] - 1 ELSE 0]

Next == Tick \/ \E n \in Nodes : Elect(n) \/ Resign(n)

Spec == Init /\ [][Next]_claim
=============================================================================
