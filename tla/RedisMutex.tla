---------------------------- MODULE RedisMutex ----------------------------
(***************************************************************************)
(* dkit/redis.py RedisMutex: the mutexes of one key, over a Redis server.  *)
(* A command is one step at the server; between the commands of a call     *)
(* everything else may happen.  A command may raise in the client, with or *)
(* without having taken effect (connection lost, timeout, task cancelled). *)
(* A client that crashes just takes no more steps.                         *)
(***************************************************************************)
EXTENDS Naturals

CONSTANTS Mutexes,      \* mutex objects; each stands for its own uuid `_owner`
          Identities,   \* re-entrant identities the callers pass
          None,         \* the empty string, the missing key
          Ttls,         \* lease lengths asked for
          Horizon       \* bound: the clock stops here

Owners == Mutexes \cup Identities

ASSUME OwnerAssumption ==
    None \notin Owners /\ Mutexes \cap Identities = {}
ASSUME TimeAssumption == Ttls \subseteq Nat \ {0} /\ Horizon \in Nat

VARIABLES plain,        \* callers pass no identities, and do not lock a mutex
                        \* that they hold or that raised: set once and for all
          now,          \* the server's clock
          key,          \* the value under the key and when it expires
          lockedOwner,  \* _locked_owner of each mutex object
          pc,           \* the next command of each mutex's try_lock; "spent":
                        \* a call on the mutex raised
          op,           \* owner and ttl of that try_lock
          granted,      \* history: the lease end each owner was last told of
          intruded      \* history: holders after whom another owner set the key

vars == <<plain, now, key, lockedOwner, pc, op, granted, intruded>>

Absent == [value |-> None, expires |-> 0]
NoOp == [owner |-> None, ttl |-> 0]

TypeOK ==
    /\ plain \in BOOLEAN
    /\ now \in 0..Horizon
    /\ key \in [value : Owners \cup {None}, expires : Nat]
    /\ lockedOwner \in [Mutexes -> Owners \cup {None}]
    /\ pc \in [Mutexes -> {"idle", "get", "renew", "setnx", "spent"}]
    /\ op \in [Mutexes -> [owner : Owners, ttl : Ttls] \cup {NoOp}]
    /\ \A m \in Mutexes : pc[m] \in {"get", "renew", "setnx"} <=> op[m] # NoOp
    /\ granted \in [Owners -> Nat]
    /\ intruded \subseteq Mutexes

Init ==
    /\ plain \in BOOLEAN
    /\ now = 0
    /\ key = Absent
    /\ lockedOwner = [m \in Mutexes |-> None]
    /\ pc = [m \in Mutexes |-> "idle"]
    /\ op = [m \in Mutexes |-> NoOp]
    /\ granted = [o \in Owners |-> 0]
    /\ intruded = {}

\* Redis shows a key until its px runs out.
Visible == key.value # None /\ key.expires > now

\* `x or self._owner`
OwnerOf(m, x) == IF x = None THEN m ELSE x

-----------------------------------------------------------------------------
\* try_lock is called, by itself or in a round of lock()'s loop.
Start(m, id, ttl) ==
    /\ pc[m] \in {"idle", "spent"}
    /\ plain => id = None /\ pc[m] = "idle" /\ lockedOwner[m] = None
    /\ pc' = [pc EXCEPT ![m] = "get"]
    /\ op' = [op EXCEPT ![m] = [owner |-> OwnerOf(m, id), ttl |-> ttl]]
    /\ UNCHANGED <<plain, now, key, lockedOwner, granted, intruded>>

Get(m) ==
    /\ pc[m] = "get"
    /\ pc' = [pc EXCEPT ![m] =
                 IF Visible /\ key.value = op[m].owner THEN "renew" ELSE "setnx"]
    /\ UNCHANGED <<plain, now, key, lockedOwner, op, granted, intruded>>

\* Mutant: NX is forgotten, the key is set whatever it holds.
MaySet_NoNx(m) == pc[m] \in {"renew", "setnx"}

\* The renewing SET is unconditional; the other one has NX.
MaySet(m) == pc[m] = "renew" \/ (pc[m] = "setnx" /\ ~Visible)

Return(m, where) ==
    /\ pc' = [pc EXCEPT ![m] = where]
    /\ op' = [op EXCEPT ![m] = NoOp]

\* The SET takes effect.
SetKey(m) ==
    /\ MaySet(m)
    /\ key' = [value |-> op[m].owner, expires |-> now + op[m].ttl]
    /\ intruded' = (intruded \ {m}) \cup
                   {n \in Mutexes \ {m} : lockedOwner[n] \notin {None, op[m].owner}}

\* ... and try_lock returns True,
Granted(m) ==
    /\ SetKey(m)
    /\ lockedOwner' = [lockedOwner EXCEPT ![m] = op[m].owner]
    /\ granted' = [granted EXCEPT ![op[m].owner] = now + op[m].ttl]
    /\ Return(m, "idle")
    /\ UNCHANGED <<plain, now>>

\* ... or its reply is lost and try_lock raises.
SetReplyLost(m) ==
    /\ SetKey(m)
    /\ Return(m, "spent")
    /\ UNCHANGED <<plain, now, lockedOwner, granted>>

\* SET NX finds the key: try_lock returns False.
Refused(m) ==
    /\ pc[m] = "setnx" /\ Visible
    /\ Return(m, "idle")
    /\ UNCHANGED <<plain, now, key, lockedOwner, granted, intruded>>

\* A command of try_lock raises without effect.
CommandFails(m) ==
    /\ pc[m] \in {"get", "renew", "setnx"}
    /\ Return(m, "spent")
    /\ UNCHANGED <<plain, now, key, lockedOwner, granted, intruded>>

-----------------------------------------------------------------------------
UnlockOwner(m) == OwnerOf(m, lockedOwner[m])

\* Mutant: the script deletes without comparing the value.
ScriptDeletes_Any(m) == Visible

\* The script's compare.
ScriptDeletes(m) == Visible /\ key.value = UnlockOwner(m)

\* Whatever unlock returns or raises, its caller no longer counts on the lock.
GivesBack(m) ==
    /\ pc[m] \in {"idle", "spent"}
    /\ granted' = [granted EXCEPT ![UnlockOwner(m)] = 0]
    /\ UNCHANGED <<plain, now, op, intruded>>

\* unlock returns.
UnlockReleases(m) ==
    /\ ScriptDeletes(m)
    /\ GivesBack(m)
    /\ key' = Absent
    /\ lockedOwner' = [lockedOwner EXCEPT ![m] = None]
    /\ UNCHANGED pc

\* The script's reply is lost: unlock raises, `_locked_owner` stays.
UnlockReplyLost(m) ==
    /\ ScriptDeletes(m)
    /\ GivesBack(m)
    /\ key' = Absent
    /\ pc' = [pc EXCEPT ![m] = "spent"]
    /\ UNCHANGED lockedOwner

\* AlreadyUnlockedError, or a command that raises without effect.
UnlockRaises(m) ==
    /\ GivesBack(m)
    /\ pc' = [pc EXCEPT ![m] = "spent"]
    /\ UNCHANGED <<key, lockedOwner>>

Tick ==
    /\ now < Horizon
    /\ now' = now + 1
    /\ UNCHANGED <<plain, key, lockedOwner, pc, op, granted, intruded>>

Next ==
    \/ Tick
    \/ \E m \in Mutexes :
          \/ \E id \in Identities \cup {None}, ttl \in Ttls : Start(m, id, ttl)
          \/ Get(m) \/ Granted(m) \/ SetReplyLost(m) \/ Refused(m) \/ CommandFails(m)
          \/ UnlockReleases(m) \/ UnlockReplyLost(m) \/ UnlockRaises(m)

Spec == Init /\ [][Next]_vars

-----------------------------------------------------------------------------
(* An unlock under the mutex's own name returns normally only if no other  *)
(* owner set the key after that mutex last did (redis.py:74-85).           *)
IntrusionReported ==
    [][\A m \in Mutexes :
          lockedOwner[m] = m /\ lockedOwner'[m] = None => m \notin intruded]_vars

\* The leases that plain callers were told of; the others are promised nothing.
Promised == [o \in Owners |-> IF plain THEN granted[o] ELSE 0]

(* Commands, expiry and the names together implement the lease lock for    *)
(* plain callers: no two owners hold unexpired leases at once, not after a *)
(* lost reply, an expiry between two commands, or a late unlock            *)
(* (redis.py:47-59,74-85).                                                 *)
Lease == INSTANCE LeaseLock WITH Owners <- Owners, now <- now, granted <- Promised
RefinesLeaseLock == Lease!Spec
=============================================================================
