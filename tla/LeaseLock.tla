----------------------------- MODULE LeaseLock -----------------------------
(***************************************************************************)
(* What every dkit mutex promises its callers, whatever store it keeps the *)
(* lock in.  An owner is a name a lock is taken under: a mutex object, or  *)
(* a re-entrant identity that several mutex objects share.  A grant is a   *)
(* lease: it ends when it is released or when the clock reaches its end.   *)
(* Nothing is said of how the store keeps the lock; MemoryMutex,           *)
(* RedisMutex and MongoMutex implement this module.                        *)
(***************************************************************************)
EXTENDS Naturals

CONSTANT Owners

VARIABLES now,      \* the clock leases are measured by
          granted   \* granted[o]: when the lease o was last told of ends, 0: none

vars == <<now, granted>>

\* The lease that o was told of has not run out and was not given back.
Holds(o) == granted[o] > now

TypeOK == now \in Nat /\ granted \in [Owners -> Nat]

Init == now \in Nat /\ granted = [o \in Owners |-> 0]

Tick == now' \in Nat /\ now' > now /\ UNCHANGED granted

\* o is told that it holds the lock: nobody else may hold it now.  The new
\* lease may end earlier than one o already has: re-entry sets it anew.
Grant(o) ==
    /\ \A p \in Owners \ {o} : ~Holds(p)
    /\ granted'[o] \in Nat
    /\ granted' = [granted EXCEPT ![o] = granted'[o]]
    /\ UNCHANGED now

\* o gives its lease back, or is told that it has none.
Release(o) == granted' = [granted EXCEPT ![o] = 0] /\ UNCHANGED now

Next == Tick \/ \E o \in Owners : Grant(o) \/ Release(o)

Spec == Init /\ [][Next]_vars

(* A lease is exclusive: no two owners hold unexpired leases at once. *)
Exclusion == \A o, p \in Owners : Holds(o) /\ Holds(p) => o = p
=============================================================================
