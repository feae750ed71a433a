---------------------------- MODULE MemoryMutex ----------------------------
(***************************************************************************)
(* dkit/memory.py: the in-memory mutexes of one key.  The mutex objects    *)
(* share the table InMemoryAtomic._locks; try_lock, unlock and exist_lock  *)
(* each run as a whole under the atomic's RLock, so each is one step, in   *)
(* whatever thread or task it runs.  Keys do not interact, so the table is *)
(* one entry.                                                              *)
(***************************************************************************)
EXTENDS Naturals

CONSTANTS Mutexes,      \* mutex objects; each stands for its own `_owner`
          Identities,   \* re-entrant identities the callers pass
          None,         \* the empty string
          Ttls,         \* lease lengths asked for
          Horizon       \* bound: the clock stops here

Owners == Mutexes \cup Identities

ASSUME OwnerAssumption ==
    None \notin Owners /\ Mutexes \cap Identities = {}
ASSUME TimeAssumption == Ttls \subseteq Nat \ {0} /\ Horizon \in Nat

VARIABLES now,          \* time.time()
          entry,        \* _locks[key]: (owner, expires_at); owner None: absent
          lockedOwner,  \* _locked_owner of each mutex object
          granted,      \* history: the lease end each owner was last told of
          intruded      \* history: mutexes during whose hold another owner got in

vars == <<now, entry, lockedOwner, granted, intruded>>

Absent == [owner |-> None, expires_at |-> 0]

TypeOK ==
    /\ now \in 0..Horizon
    /\ entry \in [owner : Owners \cup {None}, expires_at : Nat]
    /\ entry.owner = None <=> entry.expires_at = 0
    /\ lockedOwner \in [Mutexes -> Owners \cup {None}]
    /\ granted \in [Owners -> Nat]
    /\ intruded \subseteq Mutexes

Init ==
    /\ now = 0
    /\ entry = Absent
    /\ lockedOwner = [m \in Mutexes |-> None]
    /\ granted = [o \in Owners |-> 0]
    /\ intruded = {}

Existing == entry.owner # None

\* Mutant: an entry counts as expired one unit before its time.
Expired_Early == entry.expires_at <= now + 1

Expired == entry.expires_at <= now
Live == Existing /\ ~Expired

\* `opt.reentrant_identity or self._owner`
OwnerOf(m, id) == IF id = None THEN m ELSE id

\* `self._locked_owner or self._owner`
UnlockOwner(m) == OwnerOf(m, lockedOwner[m])

\* Mutant: a caller without an identity is taken for a re-entrant one.
TryLockRefuses_Anonymous(m, id) == Live /\ id # None /\ entry.owner # id

\* The test of try_lock that makes it return False.
TryLockRefuses(m, id) == Live /\ entry.owner # id

\* The holders that a grant to o intrudes on: those who have not unlocked
\* since they were told they hold the lock under another name.
Intrudes(m, o) == {n \in Mutexes \ {m} : lockedOwner[n] \notin {None, o}}

\* try_lock that returns True.
TryLock(m, id, ttl) ==
    LET o == OwnerOf(m, id) IN
    /\ ~TryLockRefuses(m, id)
    /\ entry' = [owner |-> o, expires_at |-> now + ttl]
    /\ lockedOwner' = [lockedOwner EXCEPT ![m] = o]
    /\ granted' = [granted EXCEPT ![o] = now + ttl]
    /\ intruded' = (intruded \ {m}) \cup Intrudes(m, o)
    /\ UNCHANGED now

\* Mutant: unlock does not compare the owner.
UnlockAllowed_AnyOwner(m) == Live

\* What unlock requires not to raise AlreadyUnlockedError.
UnlockAllowed(m) == Live /\ entry.owner = UnlockOwner(m)

\* unlock that returns.
UnlockReleases(m) ==
    /\ UnlockAllowed(m)
    /\ entry' = Absent
    /\ lockedOwner' = [lockedOwner EXCEPT ![m] = None]
    /\ granted' = [granted EXCEPT ![UnlockOwner(m)] = 0]
    /\ UNCHANGED <<now, intruded>>

\* Mutant: the entry is dropped without the expiry test.
PurgeExpired_Untested ==
    /\ Existing
    /\ entry' = Absent
    /\ UNCHANGED <<now, lockedOwner, granted, intruded>>

\* unlock that finds an expired entry: it drops the entry, whoever's it is,
\* and raises.  exist_lock drops an expired entry in the same way and
\* returns False.  `_locked_owner` stays.
PurgeExpired ==
    /\ Existing /\ Expired
    /\ entry' = Absent
    /\ UNCHANGED <<now, lockedOwner, granted, intruded>>

\* unlock that raises.
UnlockRaises(m) ==
    /\ ~UnlockAllowed(m)
    /\ PurgeExpired \/ (~(Existing /\ Expired) /\ UNCHANGED vars)

ExistLock == PurgeExpired \/ (~(Existing /\ Expired) /\ UNCHANGED vars)

Tick ==
    /\ now < Horizon
    /\ now' = now + 1
    /\ UNCHANGED <<entry, lockedOwner, granted, intruded>>

Next ==
    \/ Tick
    \/ ExistLock
    \/ \E m \in Mutexes :
          \/ \E id \in Identities \cup {None}, ttl \in Ttls : TryLock(m, id, ttl)
          \/ UnlockReleases(m)
          \/ UnlockRaises(m)

Spec == Init /\ [][Next]_vars

-----------------------------------------------------------------------------
(* Each live lease an owner was told of is in the table, under its name    *)
(* and with the end it was told: no unlock, purge or re-entry of another   *)
(* mutex object takes it away (memory.py:37-87).                           *)
LeaseKept ==
    \A o \in Owners : granted[o] > now =>
        entry = [owner |-> o, expires_at |-> granted[o]]

(* An unlock under the mutex's own name returns normally only if nobody    *)
(* else was granted the lock since that mutex was: a caller that outlived  *)
(* its lease learns of it from the exception (memory.py:65-77).            *)
IntrusionReported ==
    [][\A m \in Mutexes :
          lockedOwner[m] = m /\ lockedOwner'[m] = None => m \notin intruded]_vars

(* The table, the names and the expiry test together implement the lease   *)
(* lock that callers are promised: no two owners hold unexpired leases     *)
(* (memory.py:37-77).                                                      *)
Lease == INSTANCE LeaseLock WITH Owners <- Owners, now <- now, granted <- granted
RefinesLeaseLock == Lease!Spec
=============================================================================
