---------------------------- MODULE RedisProofs ----------------------------
(***************************************************************************)
(* Proofs about dkit/redis.py: RedisMutex for any mutexes, identities and  *)
(* ttls, and RedisElection for any nodes, lease and number of failed       *)
(* commands.  What holds only for plain callers of a mutex says so in its  *)
(* statement; the rest holds for every use.                                *)
(***************************************************************************)
EXTENDS RedisMutex, RedisElection, TLAPS

-----------------------------------------------------------------------------
(* The mutex. *)

\* The case split on the next-state relation that every step proof uses.
LEMMA StepCases ==
    ASSUME [Next]_vars
    PROVE  \/ Tick
           \/ \E m \in Mutexes, id \in Identities \cup {None}, ttl \in Ttls :
                 Start(m, id, ttl)
           \/ \E m \in Mutexes :
                 \/ Get(m) \/ Granted(m) \/ SetReplyLost(m)
                 \/ Refused(m) \/ CommandFails(m)
                 \/ UnlockReleases(m) \/ UnlockReplyLost(m) \/ UnlockRaises(m)
           \/ UNCHANGED vars
  BY Zenon DEF Next

LEMMA OwnerOfType ==
    ASSUME NEW m \in Mutexes, NEW x \in Owners \cup {None}
    PROVE  /\ OwnerOf(m, x) \in Owners
           /\ OwnerOf(m, x) # None
           /\ OwnerOf(m, x) = x \/ OwnerOf(m, x) = m
  BY OwnerAssumption DEF OwnerOf, Owners

\* A SET at work has an owner and a ttl.
LEMMA SetKeyType ==
    ASSUME TypeOK, NEW m \in Mutexes, SetKey(m)
    PROVE  /\ pc[m] \in {"renew", "setnx"}
           /\ op[m].owner \in Owners /\ op[m].owner # None
           /\ now + op[m].ttl \in Nat
           /\ key' = [value |-> op[m].owner, expires |-> now + op[m].ttl]
<1>1. pc[m] \in {"renew", "setnx"}
  BY DEF SetKey, MaySet
<1>2. op[m] \in [owner : Owners, ttl : Ttls]
  BY <1>1 DEF TypeOK
<1>3. op[m].owner \in Owners /\ op[m].ttl \in Nat
  BY <1>2, TimeAssumption
<1>4. now + op[m].ttl \in Nat
  BY <1>3 DEF TypeOK
<1>5. key' = [value |-> op[m].owner, expires |-> now + op[m].ttl]
  BY DEF SetKey
<1>6. QED
  BY <1>1, <1>3, <1>4, <1>5, OwnerAssumption

(* The key, the names, the calls in progress and the history stay well     *)
(* formed.                                                                 *)
THEOREM RedisType == Spec => []TypeOK
<1>1. Init => TypeOK
  BY TimeAssumption DEF Init, TypeOK, Absent, NoOp
<1>2. TypeOK /\ [Next]_vars => TypeOK'
  <2> SUFFICES ASSUME TypeOK, [Next]_vars
               PROVE  TypeOK'
    OBVIOUS
  <2>1. CASE Tick
    BY <2>1, TimeAssumption DEF Tick, TypeOK
  <2>2. ASSUME NEW m \in Mutexes, NEW id \in Identities \cup {None},
               NEW ttl \in Ttls, Start(m, id, ttl)
        PROVE  TypeOK'
    <3>1. OwnerOf(m, id) \in Owners
      BY OwnerOfType DEF Owners
    <3>2. [owner |-> OwnerOf(m, id), ttl |-> ttl] # NoOp
      BY <3>1, OwnerAssumption DEF NoOp
    <3>3. QED
      BY <2>2, <3>1, <3>2 DEF Start, TypeOK
  <2>3. ASSUME NEW m \in Mutexes, Get(m)
        PROVE  TypeOK'
    BY <2>3 DEF Get, TypeOK
  <2>4. ASSUME NEW m \in Mutexes, Granted(m)
        PROVE  TypeOK'
    <3>1. intruded' \subseteq Mutexes
      BY <2>4 DEF Granted, SetKey, TypeOK
    <3>2. /\ op[m].owner \in Owners
          /\ now + op[m].ttl \in Nat
          /\ key' = [value |-> op[m].owner, expires |-> now + op[m].ttl]
      BY <2>4, SetKeyType DEF Granted
    <3>3. QED
      BY <2>4, <3>1, <3>2 DEF Granted, Return, TypeOK
  <2>5. ASSUME NEW m \in Mutexes, SetReplyLost(m)
        PROVE  TypeOK'
    <3>1. intruded' \subseteq Mutexes
      BY <2>5 DEF SetReplyLost, SetKey, TypeOK
    <3>2. /\ op[m].owner \in Owners
          /\ now + op[m].ttl \in Nat
          /\ key' = [value |-> op[m].owner, expires |-> now + op[m].ttl]
      BY <2>5, SetKeyType DEF SetReplyLost
    <3>3. QED
      BY <2>5, <3>1, <3>2 DEF SetReplyLost, Return, TypeOK
  <2>6. ASSUME NEW m \in Mutexes, Refused(m) \/ CommandFails(m)
        PROVE  TypeOK'
    BY <2>6 DEF Refused, CommandFails, Return, TypeOK
  <2>7. ASSUME NEW m \in Mutexes,
               UnlockReleases(m) \/ UnlockReplyLost(m) \/ UnlockRaises(m)
        PROVE  TypeOK'
    BY <2>7
       DEF UnlockReleases, UnlockReplyLost, UnlockRaises, GivesBack, TypeOK, Absent
  <2>8. CASE UNCHANGED vars
    BY <2>8 DEF vars, TypeOK
  <2>9. QED
    BY <2>1, <2>2, <2>3, <2>4, <2>5, <2>6, <2>7, <2>8, StepCases
<1>3. QED
  BY <1>1, <1>2, PTL DEF Spec

-----------------------------------------------------------------------------
\* A live lease an owner was told of is in the key.
LeaseInKey ==
    \A o \in Owners : granted[o] > now =>
        key = [value |-> o, expires |-> granted[o]]

\* Nothing that may still be locked has its name in the key already, so the
\* renewing SET is never reached.
Unused ==
    \A m \in Mutexes :
        /\ lockedOwner[m] \in {None, m}
        /\ pc[m] # "renew"
        /\ pc[m] \in {"get", "setnx"} => op[m].owner = m /\ lockedOwner[m] = None
        /\ pc[m] # "spent" /\ lockedOwner[m] = None => key.value # m

LEMMA UnusedStep ==
    ASSUME plain, TypeOK, Unused, [Next]_vars
    PROVE  Unused'
<1> USE DEF Unused, TypeOK
<1>1. CASE Tick
  BY <1>1 DEF Tick
<1>2. ASSUME NEW m \in Mutexes, NEW id \in Identities \cup {None},
             NEW ttl \in Ttls, Start(m, id, ttl)
      PROVE  Unused'
  <2>1. OwnerOf(m, id) = m
    BY <1>2 DEF Start, OwnerOf
  <2>2. QED
    BY <1>2, <2>1 DEF Start
<1>3. ASSUME NEW m \in Mutexes, Get(m)
      PROVE  Unused'
  BY <1>3 DEF Get
<1>4. ASSUME NEW m \in Mutexes, Granted(m)
      PROVE  Unused'
  <2>1. pc[m] = "setnx" /\ op[m].owner = m /\ key'.value = m
    BY <1>4, SetKeyType DEF Granted
  <2>2. m # None
    BY OwnerAssumption DEF Owners
  <2>3. QED
    BY <1>4, <2>1, <2>2 DEF Granted, Return
<1>5. ASSUME NEW m \in Mutexes, SetReplyLost(m)
      PROVE  Unused'
  <2>1. pc[m] = "setnx" /\ op[m].owner = m /\ key'.value = m
    BY <1>5, SetKeyType DEF SetReplyLost
  <2>2. QED
    BY <1>5, <2>1 DEF SetReplyLost, Return
<1>6. ASSUME NEW m \in Mutexes, Refused(m) \/ CommandFails(m)
      PROVE  Unused'
  <2>1. pc' = [pc EXCEPT ![m] = "idle"] \/ pc' = [pc EXCEPT ![m] = "spent"]
    BY <1>6 DEF Refused, CommandFails, Return
  <2>2. op' = [op EXCEPT ![m] = NoOp] /\ UNCHANGED <<key, lockedOwner>>
    BY <1>6 DEF Refused, CommandFails, Return
  <2>3. pc[m] \in {"get", "renew", "setnx"}
    BY <1>6 DEF Refused, CommandFails
  <2>4. QED
    BY <2>1, <2>2, <2>3
<1>7. ASSUME NEW m \in Mutexes,
             UnlockReleases(m) \/ UnlockReplyLost(m) \/ UnlockRaises(m)
      PROVE  Unused'
  <2>1. \A n \in Mutexes : n # None
    BY OwnerAssumption DEF Owners
  <2>2. CASE UnlockReleases(m) \/ UnlockReplyLost(m)
    <3>1. key' = Absent /\ op' = op
      BY <2>2 DEF UnlockReleases, UnlockReplyLost, GivesBack
    <3>2. Absent.value = None
      BY DEF Absent
    <3>3. /\ pc[m] \in {"idle", "spent"}
          /\ pc' = pc \/ pc' = [pc EXCEPT ![m] = "spent"]
          /\ lockedOwner' = lockedOwner \/ lockedOwner' = [lockedOwner EXCEPT ![m] = None]
      BY <2>2 DEF UnlockReleases, UnlockReplyLost, GivesBack
    <3>4. QED
      BY <2>1, <3>1, <3>2, <3>3
  <2>3. CASE UnlockRaises(m)
    BY <2>3 DEF UnlockRaises, GivesBack
  <2>4. QED
    BY <1>7, <2>2, <2>3
<1>8. CASE UNCHANGED vars
  BY <1>8 DEF vars
<1>9. QED
  BY <1>1, <1>2, <1>3, <1>4, <1>5, <1>6, <1>7, <1>8, StepCases

\* A SET that takes effect, with the mutex unused, finds no live lease.
LEMMA SetFindsNoLease ==
    ASSUME TypeOK, Unused, LeaseInKey, NEW m \in Mutexes, SetKey(m)
    PROVE  /\ op[m].owner = m
           /\ \A o \in Owners : ~(granted[o] > now)
<1>1. pc[m] = "setnx" /\ ~Visible
  BY DEF SetKey, MaySet, Unused
<1>2. ASSUME NEW o \in Owners, granted[o] > now
      PROVE  Visible
  BY <1>2, OwnerAssumption DEF LeaseInKey, Visible
<1>3. QED
  BY <1>1, <1>2 DEF Unused

LEMMA LeaseInKeyStep ==
    ASSUME TypeOK, Unused, LeaseInKey, [Next]_vars
    PROVE  LeaseInKey'
<1> USE DEF LeaseInKey, TypeOK
<1>1. CASE Tick
  BY <1>1 DEF Tick
<1>2. ASSUME NEW m \in Mutexes,
             \/ \E id \in Identities \cup {None}, ttl \in Ttls : Start(m, id, ttl)
             \/ Get(m) \/ Refused(m) \/ CommandFails(m)
      PROVE  LeaseInKey'
  BY <1>2 DEF Start, Get, Refused, CommandFails
<1>3. ASSUME NEW m \in Mutexes, Granted(m)
      PROVE  LeaseInKey'
  <2>1. SetKey(m)
    BY <1>3 DEF Granted
  <2>2. /\ op[m].owner = m /\ now + op[m].ttl \in Nat
        /\ key' = [value |-> m, expires |-> now + op[m].ttl]
        /\ \A o \in Owners : ~(granted[o] > now)
    BY <2>1, SetFindsNoLease, SetKeyType
  <2>3. now' = now /\ granted' = [granted EXCEPT ![m] = now + op[m].ttl]
    BY <1>3, <2>2 DEF Granted
  <2>4. QED
    BY <2>2, <2>3
<1>4. ASSUME NEW m \in Mutexes, SetReplyLost(m)
      PROVE  LeaseInKey'
  BY <1>4, SetFindsNoLease DEF SetReplyLost
<1>5. ASSUME NEW m \in Mutexes,
             UnlockReleases(m) \/ UnlockReplyLost(m) \/ UnlockRaises(m)
      PROVE  LeaseInKey'
  BY <1>5, OwnerAssumption
     DEF UnlockReleases, UnlockReplyLost, UnlockRaises, GivesBack, ScriptDeletes
<1>6. CASE UNCHANGED vars
  BY <1>6 DEF vars
<1>7. QED
  BY <1>1, <1>2, <1>3, <1>4, <1>5, <1>6, StepCases

LEMMA PlainStep == [Next]_vars => plain' = plain
<1>1. SUFFICES ASSUME [Next]_vars
               PROVE  plain' = plain
  OBVIOUS
<1>2. CASE Tick \/ UNCHANGED vars
  BY <1>2 DEF Tick, vars
<1>3. ASSUME NEW m \in Mutexes,
             \/ \E id \in Identities \cup {None}, ttl \in Ttls : Start(m, id, ttl)
             \/ Get(m) \/ Refused(m) \/ CommandFails(m)
      PROVE  plain' = plain
  BY <1>3 DEF Start, Get, Refused, CommandFails
<1>4. ASSUME NEW m \in Mutexes, Granted(m) \/ SetReplyLost(m)
      PROVE  plain' = plain
  BY <1>4 DEF Granted, SetReplyLost
<1>5. ASSUME NEW m \in Mutexes,
             UnlockReleases(m) \/ UnlockReplyLost(m) \/ UnlockRaises(m)
      PROVE  plain' = plain
  BY <1>5 DEF UnlockReleases, UnlockReplyLost, UnlockRaises, GivesBack
<1>6. QED
  BY <1>1, <1>2, <1>3, <1>4, <1>5, StepCases

IInv == TypeOK /\ (plain => Unused /\ LeaseInKey)

(* The inductive invariant: plain callers' live leases are in the key, and *)
(* their calls never reach the unconditional SET.                          *)
THEOREM RedisInductive == Spec => []IInv
<1>1. Init => Unused /\ LeaseInKey
  <2> SUFFICES ASSUME Init
               PROVE  Unused /\ LeaseInKey
    OBVIOUS
  <2>1. \A m \in Mutexes : m # None
    BY OwnerAssumption DEF Owners
  <2>2. Unused
    BY <2>1 DEF Init, Unused, Absent
  <2>3. LeaseInKey
    BY DEF Init, LeaseInKey
  <2>4. QED
    BY <2>2, <2>3
<1>2. TypeOK /\ (plain => Unused /\ LeaseInKey) /\ [Next]_vars
        => (plain => Unused /\ LeaseInKey)'
  BY UnusedStep, LeaseInKeyStep, PlainStep
<1>3. QED
  BY <1>1, <1>2, RedisType, PTL DEF Spec, IInv

(* No two plain owners hold unexpired leases at once, whatever commands    *)
(* are lost and however late the others come.                              *)
THEOREM RedisLeaseExclusion == Spec => []Lease!Exclusion
<1>1. IInv => Lease!Exclusion
  <2> SUFFICES ASSUME IInv, NEW o \in Owners, NEW p \in Owners,
                      Promised[o] > now, Promised[p] > now
               PROVE  o = p
    BY DEF Lease!Exclusion, Lease!Holds
  <2>1. plain /\ granted[o] > now /\ granted[p] > now
    BY DEF Promised, IInv, TypeOK
  <2>2. QED
    BY <2>1 DEF IInv, LeaseInKey
<1>2. QED
  BY <1>1, RedisInductive, PTL

(* The commands implement the lease lock: a SET whose reply arrives is a   *)
(* Grant, any unlock a Release, everything else is invisible.              *)
THEOREM RedisRefinesLeaseLock == Spec => RefinesLeaseLock
<1>1. Init => Lease!Init
  BY DEF Init, Lease!Init, Promised
<1>2. IInv /\ [Next]_vars => [Lease!Next]_(Lease!vars)
  <2> SUFFICES ASSUME IInv, [Next]_vars
               PROVE  [Lease!Next]_(Lease!vars)
    OBVIOUS
  <2> USE DEF IInv, TypeOK
  <2>1. CASE Tick
    BY <2>1 DEF Tick, Lease!Next, Lease!Tick, Promised
  <2>2. ASSUME NEW m \in Mutexes,
               \/ \E id \in Identities \cup {None}, ttl \in Ttls : Start(m, id, ttl)
               \/ Get(m) \/ SetReplyLost(m) \/ Refused(m) \/ CommandFails(m)
        PROVE  UNCHANGED (Lease!vars)
    BY <2>2
       DEF Start, Get, SetReplyLost, Refused, CommandFails, Lease!vars, Promised
  <2>3. ASSUME ~plain, UNCHANGED <<plain, now>>
        PROVE  UNCHANGED (Lease!vars)
    BY <2>3 DEF Lease!vars, Promised
  <2>4. ASSUME NEW m \in Mutexes, plain, Granted(m)
        PROVE  Lease!Next
    <3>1. SetKey(m)
      BY <2>4 DEF Granted
    <3>2. /\ op[m].owner = m /\ m \in Owners /\ now + op[m].ttl \in Nat
          /\ \A o \in Owners : ~(granted[o] > now)
      BY <2>4, <3>1, SetFindsNoLease, SetKeyType
    <3>3. /\ UNCHANGED <<plain, now>>
          /\ granted' = [granted EXCEPT ![m] = now + op[m].ttl]
      BY <2>4, <3>2 DEF Granted
    <3>4. Promised' = [Promised EXCEPT ![m] = now + op[m].ttl]
      BY <2>4, <3>2, <3>3 DEF Promised
    <3>5. \A o \in Owners : ~(Promised[o] > now)
      BY <2>4, <3>2 DEF Promised
    <3>6. Lease!Grant(m)
      BY <3>2, <3>3, <3>4, <3>5 DEF Lease!Grant, Lease!Holds, Promised
    <3>7. QED
      BY <3>2, <3>6 DEF Lease!Next
  <2>5. ASSUME NEW m \in Mutexes, plain,
               UnlockReleases(m) \/ UnlockReplyLost(m) \/ UnlockRaises(m)
        PROVE  Lease!Next
    <3>1. UnlockOwner(m) \in Owners
      BY OwnerOfType DEF UnlockOwner
    <3>2. /\ granted' = [granted EXCEPT ![UnlockOwner(m)] = 0]
          /\ UNCHANGED <<plain, now>>
      BY <2>5 DEF UnlockReleases, UnlockReplyLost, UnlockRaises, GivesBack
    <3>3. Promised' = [Promised EXCEPT ![UnlockOwner(m)] = 0]
      BY <2>5, <3>1, <3>2 DEF Promised
    <3>4. QED
      BY <3>1, <3>2, <3>3 DEF Lease!Next, Lease!Release
  <2>6. ASSUME NEW m \in Mutexes,
               \/ Granted(m) \/ UnlockReleases(m) \/ UnlockReplyLost(m)
               \/ UnlockRaises(m)
        PROVE  UNCHANGED <<plain, now>>
    BY <2>6 DEF Granted, UnlockReleases, UnlockReplyLost, UnlockRaises, GivesBack
  <2>7. CASE UNCHANGED vars
    BY <2>7 DEF vars, Lease!vars, Promised
  <2>8. QED
    BY <2>1, <2>2, <2>3, <2>4, <2>5, <2>6, <2>7, StepCases
<1>3. QED
  BY <1>1, <1>2, RedisInductive, PTL DEF Spec, RefinesLeaseLock, Lease!Spec
-----------------------------------------------------------------------------
\* Whoever was intruded on is not the one the key names, until it sets the
\* key again; a call's owner is its mutex or an identity.
IntrudedLost ==
    /\ \A m \in intruded : lockedOwner[m] = m => key.value # m
    /\ \A m \in Mutexes : op[m].owner \in {m, None} \cup Identities

LEMMA IntrudedLostStep ==
    ASSUME TypeOK, IntrudedLost, [Next]_vars
    PROVE  IntrudedLost'
<1> USE DEF IntrudedLost, TypeOK
<1>0. \A m \in Mutexes : m # None /\ m \notin Identities
  BY OwnerAssumption DEF Owners
<1>1. CASE Tick \/ UNCHANGED vars
  BY <1>1 DEF Tick, vars
<1>2. ASSUME NEW m \in Mutexes, NEW id \in Identities \cup {None},
             NEW ttl \in Ttls, Start(m, id, ttl)
      PROVE  IntrudedLost'
  <2>1. OwnerOf(m, id) \in {m} \cup Identities
    BY DEF OwnerOf
  <2>2. op' = [op EXCEPT ![m] = [owner |-> OwnerOf(m, id), ttl |-> ttl]]
    BY <1>2 DEF Start
  <2>3. \A n \in Mutexes : op'[n].owner \in {n, None} \cup Identities
    BY <2>1, <2>2
  <2>4. QED
    BY <1>2, <2>3 DEF Start
<1>3. ASSUME NEW m \in Mutexes, Get(m)
      PROVE  IntrudedLost'
  BY <1>3 DEF Get
<1>4. ASSUME NEW m \in Mutexes, Refused(m) \/ CommandFails(m)
      PROVE  IntrudedLost'
  BY <1>4 DEF Refused, CommandFails, Return, NoOp
<1>5. ASSUME NEW m \in Mutexes, Granted(m) \/ SetReplyLost(m)
      PROVE  IntrudedLost'
  <2>1. SetKey(m) /\ op' = [op EXCEPT ![m] = NoOp]
    BY <1>5 DEF Granted, SetReplyLost, Return
  <2>2. \A n \in Mutexes \ {m} : lockedOwner'[n] = lockedOwner[n]
    BY <1>5 DEF Granted, SetReplyLost
  <2>3. key'.value = op[m].owner /\ op[m].owner \in {m} \cup Identities
    BY <2>1, SetKeyType
  <2>4. ASSUME NEW n \in intruded', lockedOwner'[n] = n, key'.value = n
        PROVE  FALSE
    <3>1. n \in Mutexes /\ n # m
      BY <2>1 DEF SetKey
    <3>2. QED
      BY <1>0, <2>3, <2>4, <3>1
  <2>5. \A n \in Mutexes : op'[n].owner \in {n, None} \cup Identities
    BY <2>1 DEF NoOp
  <2>6. QED
    BY <2>4, <2>5
<1>6. ASSUME NEW m \in Mutexes,
             UnlockReleases(m) \/ UnlockReplyLost(m) \/ UnlockRaises(m)
      PROVE  IntrudedLost'
  <2>1. /\ key' = key \/ key'.value = None
        /\ lockedOwner' \in {lockedOwner, [lockedOwner EXCEPT ![m] = None]}
        /\ UNCHANGED <<op, intruded>>
    BY <1>6
       DEF UnlockReleases, UnlockReplyLost, UnlockRaises, GivesBack, Absent
  <2>2. QED
    BY <1>0, <2>1
<1>7. QED
  BY <1>1, <1>2, <1>3, <1>4, <1>5, <1>6, StepCases

(* A mutex that was intruded on cannot unlock as if nothing had happened,  *)
(* however its callers use it.                                             *)
THEOREM RedisIntrusionReported == Spec => IntrusionReported
<1>1. Init => IntrudedLost
  <2> SUFFICES ASSUME Init
               PROVE  IntrudedLost
    OBVIOUS
  <2>1. \A m \in Mutexes : op[m].owner = None
    BY DEF Init, NoOp
  <2>2. QED
    BY <2>1 DEF Init, IntrudedLost
<1>2. TypeOK /\ IntrudedLost /\ [Next]_vars => IntrudedLost'
  BY IntrudedLostStep
<1>3. TypeOK /\ IntrudedLost /\ [Next]_vars
        => [\A m \in Mutexes :
              lockedOwner[m] = m /\ lockedOwner'[m] = None => m \notin intruded]_vars
  <2> SUFFICES ASSUME TypeOK, IntrudedLost, [Next]_vars,
                      NEW m \in Mutexes, lockedOwner[m] = m, lockedOwner'[m] = None
               PROVE  m \notin intruded
    BY Zenon
  <2> USE DEF TypeOK
  <2>1. m # None
    BY OwnerAssumption DEF Owners
  <2>2. ASSUME NEW n \in Mutexes, UnlockReleases(n)
        PROVE  m \notin intruded
    <3>1. n = m
      BY <2>1, <2>2 DEF UnlockReleases
    <3>2. key.value = m
      BY <2>1, <2>2, <3>1 DEF UnlockReleases, ScriptDeletes, UnlockOwner, OwnerOf
    <3>3. QED
      BY <3>2 DEF IntrudedLost
  <2>3. ASSUME NEW n \in Mutexes, Granted(n)
        PROVE  FALSE
    BY <2>1, <2>3, SetKeyType DEF Granted
  <2>4. CASE Tick \/ UNCHANGED vars
    BY <2>1, <2>4 DEF Tick, vars
  <2>5. ASSUME NEW n \in Mutexes,
               \/ \E id \in Identities \cup {None}, ttl \in Ttls : Start(n, id, ttl)
               \/ Get(n) \/ SetReplyLost(n) \/ Refused(n) \/ CommandFails(n)
               \/ UnlockReplyLost(n) \/ UnlockRaises(n)
        PROVE  FALSE
    BY <2>1, <2>5
       DEF Start, Get, SetReplyLost, Refused, CommandFails, UnlockReplyLost,
           UnlockRaises
  <2>6. QED
    BY <2>2, <2>3, <2>4, <2>5, StepCases
<1>4. QED
  BY <1>1, <1>2, <1>3, RedisType, PTL DEF Spec, IntrusionReported

-----------------------------------------------------------------------------
(* The election. *)


\* The case split on the next-state relation that every step proof uses.
LEMMA ElectionStepCases ==
    ASSUME [ElectionNext]_electionVars
    PROVE  \/ TimePasses
           \/ \E n \in Nodes :
                 \/ Enable(n) \/ NotEnabled(n) \/ Wake(n) \/ Beat(n) \/ GetLeader(n)
                 \/ RenewLease(n) \/ SetLeader(n) \/ Notify(n) \/ CallbackEnds(n)
                 \/ TickFails(n) \/ CloseStarts(n) \/ CallbackCloses(n)
                 \/ Resign(n) \/ CloseReturns(n) \/ CloseFails(n) \/ Crash(n)
           \/ UNCHANGED electionVars
  BY Zenon DEF ElectionNext, TickStep, CloseStep

LEMMA IntervalType == Interval \in Nat
<1>1. UnhealthyTime \div 3 \in Nat /\ Timeout \in Nat /\ MinInterval \in Nat
  BY LeaseAssumption
<1>2. QED
  BY <1>1 DEF Interval

-----------------------------------------------------------------------------
\* The part of the type invariant that a node's tasks have to keep.
TaskType ==
    /\ task \in [Nodes -> {"none", "enable", "loop"}]
    /\ doing \in [Nodes -> {"idle", "sleep", "beat", "get", "renew", "setnx",
                         "notify", "callback", "closing"}]
    /\ handle \in [Nodes -> BOOLEAN]
    /\ nap \in [Nodes -> 0..Interval]
    /\ started \in [Nodes -> BOOLEAN]

\* A tick that ends, or raises, leaves its node at rest or idle.
LEMMA TickEndsType ==
    ASSUME ElectionTypeOK, NEW n \in Nodes, task[n] # "none",
           TickEnds(n) \/ TickRaises(n), UNCHANGED <<election, closing>>
    PROVE  /\ TaskType'
           /\ \A m \in Nodes :
                 /\ task'[m] = "none" <=> doing'[m] = "idle"
                 /\ doing'[m] = "sleep" \/ handle'[m] => task'[m] = "loop"
                 /\ started'[m] => election[m] /\ task'[m] = "loop" /\ closing[m] = "no"
<1>1. CASE Rest(n) /\ task[n] = "loop" /\ UNCHANGED <<handle, started>>
  <2>1. nap' \in [Nodes -> 0..Interval]
    BY <1>1, IntervalType DEF Rest, ElectionTypeOK
  <2>2. QED
    BY <1>1, <2>1 DEF Rest, Goto, ElectionTypeOK, TaskType
<1>2. CASE /\ Rest(n) /\ task[n] = "enable" /\ election[n]
           /\ handle' = [handle EXCEPT ![n] = TRUE]
           /\ started' = [started EXCEPT ![n] = (closing[n] = "no")]
  <2>1. nap' \in [Nodes -> 0..Interval]
    BY <1>2, IntervalType DEF Rest, ElectionTypeOK
  <2>2. QED
    BY <1>2, <2>1 DEF Rest, Goto, ElectionTypeOK, TaskType
<1>3. CASE task[n] = "enable" /\ EnableRaises(n)
  BY <1>3 DEF EnableRaises, Goto, ElectionTypeOK, TaskType
<1>4. QED
  BY <1>1, <1>2, <1>3 DEF TickEnds, TickRaises

LEMMA MissType ==
    ASSUME ElectionTypeOK, NEW n \in Nodes \cup {NoNode}, Missed(n)
    PROVE  miss' \in 0..MaxMiss
  BY DEF ElectionTypeOK, Missed, MaxMiss

\* A reply that arrives or is lost.
LEMMA ReplyType ==
    ASSUME ElectionTypeOK, NEW n \in Nodes, NEW where \in {"get", "notify"},
           doing[n] \in {"beat", "renew", "setnx"}, Reply(n, where)
    PROVE  /\ TaskType'
           /\ \A m \in Nodes :
                 /\ task'[m] = "none" <=> doing'[m] = "idle"
                 /\ doing'[m] = "sleep" \/ handle'[m] => task'[m] = "loop"
                 /\ started'[m] => election[m] /\ task'[m] = "loop" /\ closing[m] = "no"
           /\ UNCHANGED <<election, last, closing, closed, astray>>
           /\ fails' \in 0..MaxFails
<1>1. task[n] # "none"
  BY DEF ElectionTypeOK
<1>2. CASE Fail /\ Abandon(n)
  BY <1>1, <1>2, TickEndsType, FailAssumption DEF Fail, Abandon, ElectionTypeOK
<1>3. CASE ~(Fail /\ Abandon(n))
  BY <1>1, <1>3 DEF Reply, Goto, ElectionTypeOK, TaskType
<1>4. QED
  BY <1>2, <1>3

(* The nodes, their tasks and the keys stay well formed: a started node    *)
(* has its loop, a closed one is not enabled.                              *)
THEOREM ElectionType == ElectionSafetySpec => []ElectionTypeOK
<1>1. ElectionInit => ElectionTypeOK
  BY IntervalType, FailAssumption
     DEF ElectionInit, ElectionTypeOK, NoLeader, MaxMiss
<1>2. ElectionTypeOK /\ [ElectionNext]_electionVars => ElectionTypeOK'
  <2> SUFFICES ASSUME ElectionTypeOK, [ElectionNext]_electionVars
               PROVE  ElectionTypeOK'
    OBVIOUS
  <2>1. CASE TimePasses
    <3>1. nap' \in [Nodes -> 0..Interval]
      BY <2>1, IntervalType DEF TimePasses, ElectionTypeOK
    <3>2. leader' \in [node : Nodes, left : 1..UnhealthyTime] \cup {NoLeader}
      BY <2>1, LeaseAssumption DEF TimePasses, ElectionTypeOK, NoLeader
    <3>3. miss' \in 0..MaxMiss
      <4>1. leader.node \in Nodes \cup {NoNode}
        BY DEF ElectionTypeOK, NoLeader
      <4>2. QED
        BY <2>1, <4>1, MissType DEF TimePasses, ElectionTypeOK
    <3>4. QED
      BY <2>1, <3>1, <3>2, <3>3 DEF TimePasses, ElectionTypeOK
  <2>2. ASSUME NEW n \in Nodes, Enable(n)
        PROVE  ElectionTypeOK'
    BY <2>2 DEF Enable, Goto, First, ElectionTypeOK, keys
  <2>3. ASSUME NEW n \in Nodes, NotEnabled(n) \/ CallbackEnds(n)
        PROVE  ElectionTypeOK'
    <3>1. task[n] # "none" /\ (TickEnds(n) \/ TickRaises(n))
      BY <2>3 DEF NotEnabled, CallbackEnds, Abandon, ElectionTypeOK
    <3>2. UNCHANGED <<keys, election, last, closing, closed, astray, miss, fails>>
      BY <2>3 DEF NotEnabled, CallbackEnds, Abandon
    <3>3. QED
      BY <3>1, <3>2, TickEndsType DEF ElectionTypeOK, TaskType, keys
  <2>4. ASSUME NEW n \in Nodes, Wake(n)
        PROVE  ElectionTypeOK'
    <3>1. task[n] # "none"
      BY <2>4 DEF Wake, ElectionTypeOK
    <3>2. CASE election[n]
      BY <2>4, <3>1, <3>2 DEF Wake, Goto, First, ElectionTypeOK, keys
    <3>3. CASE ~election[n]
      BY <2>4, <3>1, <3>3, TickEndsType DEF Wake, ElectionTypeOK, TaskType, keys
    <3>4. QED
      BY <3>2, <3>3
  <2>5. ASSUME NEW n \in Nodes, Beat(n)
        PROVE  ElectionTypeOK'
    <3>1. miss' \in 0..MaxMiss
      BY <2>5, MissType DEF Beat, ElectionTypeOK
    <3>2. QED
      BY <2>5, <3>1, ReplyType DEF Beat, ElectionTypeOK, TaskType
  <2>6. ASSUME NEW n \in Nodes, GetLeader(n)
        PROVE  ElectionTypeOK'
    BY <2>6 DEF GetLeader, Goto, ElectionTypeOK, keys
  <2>7. ASSUME NEW n \in Nodes, RenewLease(n)
        PROVE  ElectionTypeOK'
    <3>1. leader' \in [node : Nodes, left : 1..UnhealthyTime] \cup {NoLeader}
      BY <2>7, NodeAssumption, LeaseAssumption
         DEF RenewLease, Renews, ElectionTypeOK, NoLeader
    <3>2. miss' \in 0..MaxMiss
      BY <2>7 DEF RenewLease, MaxMiss, ElectionTypeOK
    <3>3. QED
      BY <2>7, <3>1, <3>2, ReplyType DEF RenewLease, ElectionTypeOK, TaskType
  <2>8. ASSUME NEW n \in Nodes, SetLeader(n)
        PROVE  ElectionTypeOK'
    <3>1. leader' \in [node : Nodes, left : 1..UnhealthyTime] \cup {NoLeader}
      BY <2>8, LeaseAssumption DEF SetLeader, Sets, ElectionTypeOK
    <3>2. miss' \in 0..MaxMiss
      BY <2>8 DEF SetLeader, MaxMiss, ElectionTypeOK
    <3>3. QED
      BY <2>8, <3>1, <3>2, ReplyType DEF SetLeader, ElectionTypeOK, TaskType
  <2>9. ASSUME NEW n \in Nodes, Notify(n)
        PROVE  ElectionTypeOK'
    <3>1. task[n] # "none" /\ last' \in [Nodes -> BOOLEAN]
      BY <2>9 DEF Notify, ElectionTypeOK
    <3>2. CASE TickEnds(n)
      BY <2>9, <3>1, <3>2, TickEndsType DEF Notify, ElectionTypeOK, TaskType, keys
    <3>3. CASE ~TickEnds(n)
      BY <2>9, <3>1, <3>3 DEF Notify, Goto, ElectionTypeOK, keys
    <3>4. QED
      BY <3>2, <3>3
  <2>10. ASSUME NEW n \in Nodes, TickFails(n)
         PROVE  ElectionTypeOK'
    <3>1. task[n] # "none"
      BY <2>10 DEF TickFails, ElectionTypeOK
    <3>2. miss' \in 0..MaxMiss /\ fails' \in 0..MaxFails
      BY <2>10, MissType, FailAssumption DEF TickFails, Fail, ElectionTypeOK
    <3>3. QED
      BY <2>10, <3>1, <3>2, TickEndsType
         DEF TickFails, Abandon, ElectionTypeOK, TaskType, keys
  <2>11. ASSUME NEW n \in Nodes, CloseStarts(n)
         PROVE  ElectionTypeOK'
    BY <2>11, IntervalType DEF CloseStarts, Goto, ElectionTypeOK, keys
  <2>12. ASSUME NEW n \in Nodes, CallbackCloses(n)
         PROVE  ElectionTypeOK'
    BY <2>12 DEF CallbackCloses, Goto, ElectionTypeOK, keys
  <2>13. ASSUME NEW n \in Nodes, Resign(n)
         PROVE  ElectionTypeOK'
    BY <2>13 DEF Resign, ElectionTypeOK, tickVars
  <2>14. ASSUME NEW n \in Nodes, CloseReturns(n)
         PROVE  ElectionTypeOK'
    BY <2>14 DEF CloseReturns, CloseEnds, ElectionTypeOK
  <2>15. ASSUME NEW n \in Nodes, CloseFails(n)
         PROVE  ElectionTypeOK'
    <3>1. fails' \in 0..MaxFails
      BY <2>15, FailAssumption DEF CloseFails, Fail, ElectionTypeOK
    <3>2. beat' \in [Nodes -> BOOLEAN]
      BY <2>15 DEF CloseFails, ElectionTypeOK
    <3>3. QED
      BY <2>15, <3>1, <3>2 DEF CloseFails, CloseEnds, ElectionTypeOK
  <2>16. ASSUME NEW n \in Nodes, Crash(n)
         PROVE  ElectionTypeOK'
    BY <2>16, IntervalType DEF Crash, Goto, ElectionTypeOK, keys
  <2>17. CASE UNCHANGED electionVars
    BY <2>17 DEF electionVars, keys, tickVars, ElectionTypeOK
  <2>18. QED
    BY <2>1, <2>2, <2>3, <2>4, <2>5, <2>6, <2>7, <2>8, <2>9, <2>10, <2>11, <2>12,
       <2>13, <2>14, <2>15, <2>16, <2>17, ElectionStepCases
<1>3. QED
  BY <1>1, <1>2, PTL DEF ElectionSafetySpec

-----------------------------------------------------------------------------
(* A live lease passes to nobody else, and lives longer only by a renewal  *)
(* of its own node: the compare of the script and the NX see to it,        *)
(* however old the GET is that a tick decides by.                          *)
THEOREM ElectionLeaseIsItsOwners == ElectionSafetySpec => LeaseIsItsOwners
<1>1. ElectionTypeOK /\ [ElectionNext]_electionVars
        => [leader.node # NoNode =>
              /\ leader'.node \in {leader.node, NoNode}
              /\ leader'.left > leader.left => doing[leader.node] = "renew"]_electionVars
  <2> SUFFICES ASSUME ElectionTypeOK, [ElectionNext]_electionVars,
                      leader.node # NoNode
               PROVE  /\ leader'.node \in {leader.node, NoNode}
                      /\ leader'.left > leader.left => doing[leader.node] = "renew"
    BY Zenon
  <2>1. leader \in [node : Nodes, left : 1..UnhealthyTime]
    BY DEF ElectionTypeOK, NoLeader
  <2>2. CASE TimePasses
    <3>1. \/ leader' = NoLeader
          \/ leader' = [leader EXCEPT !.left = leader.left - 1]
      BY <2>2 DEF TimePasses
    <3>2. QED
      BY <2>1, <3>1, LeaseAssumption DEF NoLeader
  <2>3. ASSUME NEW n \in Nodes, RenewLease(n)
        PROVE  /\ leader'.node \in {leader.node, NoNode}
               /\ leader'.left > leader.left => doing[leader.node] = "renew"
    <3>1. CASE leader.node = n
      <4>1. leader' = [leader EXCEPT !.left = UnhealthyTime] /\ doing[n] = "renew"
        BY <2>3, <3>1, Zenon DEF RenewLease, Renews
      <4>2. leader'.node = leader.node
        BY <2>1, <4>1
      <4>3. QED
        BY <3>1, <4>1, <4>2
    <3>2. CASE leader.node # n
      <4>1. leader' = leader
        BY <2>3, <3>2, Zenon DEF RenewLease, Renews
      <4>2. QED
        BY <2>1, <4>1, LeaseAssumption
    <3>3. QED
      BY <3>1, <3>2
  <2>4. ASSUME NEW n \in Nodes, Resign(n)
        PROVE  leader' = leader \/ leader' = NoLeader
    BY <2>4 DEF Resign
  <2>5. ASSUME NEW n \in Nodes, SetLeader(n)
        PROVE  leader' = leader
    BY <2>5 DEF SetLeader, Sets
  <2>6. ASSUME NEW n \in Nodes,
               \/ Enable(n) \/ NotEnabled(n) \/ Wake(n) \/ Beat(n) \/ GetLeader(n)
               \/ Notify(n) \/ CallbackEnds(n) \/ TickFails(n) \/ CloseStarts(n)
               \/ CallbackCloses(n) \/ CloseReturns(n) \/ CloseFails(n) \/ Crash(n)
        PROVE  leader' = leader
    BY <2>6, Zenon
       DEF Enable, NotEnabled, Wake, Beat, GetLeader, Notify, CallbackEnds,
           TickFails,
           CloseStarts, CallbackCloses, CloseReturns, CloseFails, Crash, keys
  <2>7. UNCHANGED electionVars => leader' = leader
    BY DEF electionVars, keys
  <2>8. leader' = leader \/ leader' = NoLeader
          => /\ leader'.node \in {leader.node, NoNode}
             /\ leader'.left > leader.left => doing[leader.node] = "renew"
    BY <2>1, LeaseAssumption DEF NoLeader
  <2>9. QED
    BY <2>2, <2>3, <2>4, <2>5, <2>6, <2>7, <2>8, ElectionStepCases
<1>2. QED
  BY <1>1, ElectionType, PTL DEF ElectionSafetySpec, LeaseIsItsOwners

\* A step leaves the leader key alone, gives it back, or sets it for a node
\* when no other one has it.
LEMMA LeaderStep ==
    ASSUME ElectionTypeOK, [ElectionNext]_electionVars, ~TimePasses
    PROVE  \/ leader' = leader
           \/ leader' = NoLeader
           \/ \E n \in Nodes : /\ leader' = [node |-> n, left |-> UnhealthyTime]
                               /\ leader.node \in {n, NoNode}
<1>1. ASSUME NEW n \in Nodes, RenewLease(n)
      PROVE  \/ leader' = leader
             \/ leader' = [node |-> n, left |-> UnhealthyTime] /\ leader.node = n
  BY <1>1 DEF RenewLease, Renews, ElectionTypeOK, NoLeader
<1>2. ASSUME NEW n \in Nodes, SetLeader(n)
      PROVE  \/ leader' = leader
             \/ leader' = [node |-> n, left |-> UnhealthyTime] /\ leader.node = NoNode
  BY <1>2 DEF SetLeader, Sets
<1>3. ASSUME NEW n \in Nodes, Resign(n)
      PROVE  leader' \in {leader, NoLeader}
  BY <1>3 DEF Resign
<1>4. ASSUME NEW n \in Nodes,
             \/ Enable(n) \/ NotEnabled(n) \/ Wake(n) \/ Beat(n) \/ GetLeader(n)
             \/ Notify(n) \/ CallbackEnds(n) \/ TickFails(n) \/ CloseStarts(n)
             \/ CallbackCloses(n) \/ CloseReturns(n) \/ CloseFails(n) \/ Crash(n)
      PROVE  leader' = leader
  BY <1>4, Zenon
     DEF Enable, NotEnabled, Wake, Beat, GetLeader, Notify, CallbackEnds, TickFails,
         CloseStarts, CallbackCloses, CloseReturns, CloseFails, Crash, keys
<1>5. UNCHANGED electionVars => leader' = leader
  BY DEF electionVars, keys
<1>6. QED
  BY <1>1, <1>2, <1>3, <1>4, <1>5, ElectionStepCases

(* The election implements the leader's lease, whatever fails, crashes or  *)
(* is closed.                                                              *)
THEOREM ElectionImplementsLease == ElectionSafetySpec => RefinesLeaderLease
<1>1. ElectionInit => Leader!Init
  BY NodeAssumption DEF ElectionInit, NoLeader, Leader!Init, Claim
<1>2. ElectionTypeOK /\ [ElectionNext]_electionVars => [Leader!Next]_Claim
  <2> SUFFICES ASSUME ElectionTypeOK, [ElectionNext]_electionVars
               PROVE  [Leader!Next]_Claim
    OBVIOUS
  <2>1. CASE TimePasses
    <3>1. Leader!Tick
      BY <2>1, NodeAssumption, LeaseAssumption
         DEF TimePasses, ElectionTypeOK, NoLeader, Leader!Tick, Leader!Leads, Claim
    <3>2. QED
      BY <3>1 DEF Leader!Next
  <2>2. CASE leader' = leader
    BY <2>2 DEF Claim
  <2>3. CASE leader' = NoLeader
    <3>1. CASE leader.node = NoNode
      BY <2>3, <3>1, NodeAssumption DEF Claim, NoLeader
    <3>2. CASE leader.node \in Nodes
      <4>1. Leader!Resign(leader.node)
        BY <2>3, <3>2, NodeAssumption DEF Leader!Resign, Claim, NoLeader
      <4>2. QED
        BY <3>2, <4>1 DEF Leader!Next
    <3>3. QED
      BY <3>1, <3>2 DEF ElectionTypeOK, NoLeader
  <2>4. ASSUME NEW n \in Nodes, leader' = [node |-> n, left |-> UnhealthyTime],
               leader.node \in {n, NoNode}
        PROVE  [Leader!Next]_Claim
    <3>1. \A m \in Nodes \ {n} : ~Leader!Leads(m)
      BY <2>4, NodeAssumption DEF Leader!Leads, Claim
    <3>2. Claim' = [Claim EXCEPT ![n] = UnhealthyTime]
      BY <2>4, NodeAssumption DEF Claim
    <3>3. UnhealthyTime \in 0..UnhealthyTime
      BY LeaseAssumption
    <3>4. Leader!Elect(n)
      BY <3>1, <3>2, <3>3 DEF Leader!Elect
    <3>5. QED
      BY <3>4 DEF Leader!Next
  <2>5. QED
    BY <2>1, <2>2, <2>3, <2>4, LeaderStep
<1>3. QED
  BY <1>1, <1>2, ElectionType, PTL
     DEF ElectionSafetySpec, RefinesLeaderLease, Leader!Spec

-----------------------------------------------------------------------------
\* While a close that stopped the node's ticks is under way, no tick of the
\* node is before a command; once the leader key was given back it stays so.
CloseQuiet ==
    \A n \in Nodes : closing[n] # "no" /\ ~astray[n] =>
        /\ doing[n] \in {"idle", "closing"}
        /\ closing[n] = "hush" => leader.node # n

\* After it, what is left of the node's tick can only end.
ClosedQuiet ==
    \A n \in Nodes : closed[n] =>
        doing[n] \in {"idle", "sleep", "callback"} /\ leader.node # n /\ ~beat[n]

ElectionIInv == CloseQuiet /\ ClosedQuiet

\* Steps of the tick: a node at its own command is neither being closed,
\* unless astray, nor closed; the leader key it takes is its own.
LEMMA TickQuietStep ==
    ASSUME ElectionTypeOK, ElectionIInv, NEW n \in Nodes,
           \/ NotEnabled(n) \/ Beat(n) \/ GetLeader(n) \/ RenewLease(n)
           \/ SetLeader(n) \/ Notify(n) \/ TickFails(n)
    PROVE  ElectionIInv'
<1>1. /\ doing[n] \in {"beat", "get", "renew", "setnx", "notify"}
      /\ UNCHANGED <<closing, closed, astray>>
      /\ \A m \in Nodes \ {n} : doing'[m] = doing[m] /\ beat'[m] = beat[m]
  <2>1. doing[n] \in {"beat", "get", "renew", "setnx", "notify"}
    BY DEF NotEnabled, Beat, GetLeader, RenewLease, SetLeader, Notify, TickFails
  <2>2. \/ TickEnds(n) \/ TickRaises(n) \/ Goto(n, "get") \/ Goto(n, "renew")
        \/ Goto(n, "setnx") \/ Goto(n, "notify") \/ Goto(n, "callback")
    BY Zenon
       DEF NotEnabled, Beat, GetLeader, RenewLease, SetLeader, Notify, TickFails,
           Abandon, Reply
  <2>3. \A m \in Nodes \ {n} : doing'[m] = doing[m]
    BY <2>2 DEF TickEnds, TickRaises, Rest, EnableRaises, Goto, ElectionTypeOK
  <2>4. UNCHANGED <<closing, closed, astray>>
    BY DEF NotEnabled, Beat, GetLeader, RenewLease, SetLeader, Notify, TickFails,
           Abandon, Reply
  <2>5. \A m \in Nodes \ {n} : beat'[m] = beat[m]
    BY DEF NotEnabled, Beat, GetLeader, RenewLease, SetLeader, Notify, TickFails,
           keys, ElectionTypeOK
  <2>6. QED
    BY <2>1, <2>3, <2>4, <2>5
<1>2. ~closed[n] /\ (closing[n] = "no" \/ astray[n])
  BY <1>1 DEF ElectionIInv, CloseQuiet, ClosedQuiet
<1>3. leader'.node = leader.node \/ leader'.node = n
  BY DEF NotEnabled, Beat, GetLeader, RenewLease, SetLeader, Notify, TickFails,
         keys,
         ElectionTypeOK, NoLeader
<1>4. QED
  BY <1>1, <1>2, <1>3 DEF ElectionIInv, CloseQuiet, ClosedQuiet

(* After a close that stopped the node's ticks, nothing of it is left at   *)
(* the server.                                                             *)
THEOREM ElectionClosedNodeIsGone == ElectionSafetySpec => []ClosedNodeIsGone
<1>1. ElectionInit => ElectionIInv
  BY DEF ElectionInit, ElectionIInv, CloseQuiet, ClosedQuiet
<1>2. ElectionTypeOK /\ ElectionIInv /\ [ElectionNext]_electionVars => ElectionIInv'
  <2> SUFFICES ASSUME ElectionTypeOK, ElectionIInv, [ElectionNext]_electionVars
               PROVE  ElectionIInv'
    OBVIOUS
  <2> USE DEF ElectionIInv, CloseQuiet, ClosedQuiet
  <2>1. CASE TimePasses
    <3>1. leader'.node \in {leader.node, NoNode}
      BY <2>1 DEF TimePasses, ElectionTypeOK, NoLeader
    <3>2. QED
      BY <2>1, <3>1, NodeAssumption DEF TimePasses
  <2>2. ASSUME NEW n \in Nodes, Enable(n)
        PROVE  ElectionIInv'
    BY <2>2 DEF Enable, Goto, ElectionTypeOK, keys
  <2>3. ASSUME NEW n \in Nodes,
               \/ NotEnabled(n) \/ Beat(n) \/ GetLeader(n) \/ RenewLease(n)
               \/ SetLeader(n) \/ Notify(n) \/ TickFails(n)
        PROVE  ElectionIInv'
    BY <2>3, TickQuietStep
  <2>4. ASSUME NEW n \in Nodes, Wake(n) \/ CallbackEnds(n)
        PROVE  ElectionIInv'
    <3>1. /\ doing[n] \in {"sleep", "callback"}
          /\ UNCHANGED <<leader, beat, closing, closed, astray>>
      BY <2>4 DEF Wake, CallbackEnds, keys
    <3>2. ~election[n] => doing'[n] \in {"idle", "sleep"}
      BY <2>4
         DEF Wake, CallbackEnds, TickEnds, TickRaises, Rest, EnableRaises, Goto,
             ElectionTypeOK
    <3>3. \A m \in Nodes \ {n} : doing'[m] = doing[m]
      BY <2>4
         DEF Wake, CallbackEnds, TickEnds, TickRaises, Rest, EnableRaises, Goto,
             ElectionTypeOK
    <3>4. QED
      BY <3>1, <3>2, <3>3 DEF ElectionTypeOK
  <2>5. ASSUME NEW n \in Nodes, CloseStarts(n)
        PROVE  ElectionIInv'
    BY <2>5 DEF CloseStarts, Goto, ElectionTypeOK, keys
  <2>6. ASSUME NEW n \in Nodes, CallbackCloses(n)
        PROVE  ElectionIInv'
    BY <2>6 DEF CallbackCloses, Goto, ElectionTypeOK, keys
  <2>7. ASSUME NEW n \in Nodes, Resign(n)
        PROVE  ElectionIInv'
    <3>1. leader'.node # n /\ leader'.node \in {leader.node, NoNode}
      BY <2>7, NodeAssumption DEF Resign, NoLeader
    <3>2. QED
      BY <2>7, <3>1, NodeAssumption DEF Resign, ElectionTypeOK, tickVars
  <2>8. ASSUME NEW n \in Nodes, CloseReturns(n)
        PROVE  ElectionIInv'
    BY <2>8 DEF CloseReturns, CloseEnds, ElectionTypeOK
  <2>9. ASSUME NEW n \in Nodes, CloseFails(n)
        PROVE  ElectionIInv'
    BY <2>9 DEF CloseFails, CloseEnds, ElectionTypeOK
  <2>10. ASSUME NEW n \in Nodes, Crash(n)
         PROVE  ElectionIInv'
    BY <2>10 DEF Crash, Goto, ElectionTypeOK, keys
  <2>11. CASE UNCHANGED electionVars
    BY <2>11 DEF electionVars, keys, tickVars
  <2>12. QED
    BY <2>1, <2>2, <2>3, <2>4, <2>5, <2>6, <2>7, <2>8, <2>9, <2>10, <2>11,
       ElectionStepCases
<1>3. ElectionIInv => ClosedNodeIsGone
  BY DEF ElectionIInv, ClosedQuiet, ClosedNodeIsGone
<1>4. QED
  BY <1>1, <1>2, <1>3, ElectionType, PTL DEF ElectionSafetySpec

-----------------------------------------------------------------------------
\* The interval is a third of such a lease at most.
LEMMA IntervalFacts ==
    ASSUME LongLease
    PROVE  /\ Interval \in Nat /\ Interval >= 1 /\ UnhealthyTime \in Nat
           /\ 3 * Interval <= UnhealthyTime
<1>1. /\ UnhealthyTime \in Nat /\ Timeout \in Nat /\ MinInterval \in Nat
      /\ UnhealthyTime >= 3
  BY LeaseAssumption
<1> DEFINE third == UnhealthyTime \div 3
<1>2. /\ third \in Nat /\ third >= 1 /\ 3 * third <= UnhealthyTime
      /\ MinInterval <= third
  BY <1>1 DEF LongLease
<1> HIDE DEF third
<1>3. Interval = LET least == IF Timeout \in 1..third THEN Timeout ELSE third
                 IN  IF least < MinInterval THEN MinInterval ELSE least
  BY DEF Interval, third
<1>4. QED
  BY <1>1, <1>2, <1>3

\* What one miss may have cost of the lease: a tick that failed costs the
\* interval to the next one.
Slack == IF miss = 0 THEN 0 ELSE Interval

\* A tick is on time as long as it was held up once at most: what is left of
\* the leader's lease after its renewal, in the loop's sleep and up to the
\* next renewal.
OnTime(n) ==
    leader.node = n /\ miss < MaxMiss =>
        /\ doing[n] \in {"notify", "callback", "closing"} => leader.left >= UnhealthyTime - miss
        /\ started[n] /\ doing[n] = "sleep" =>
              leader.left + Slack + Interval >= UnhealthyTime + nap[n]
        /\ started[n] /\ doing[n] \in {"beat", "get", "renew"} =>
              leader.left + Slack + Interval >= UnhealthyTime

\* A node only sleeps in its loop, and is not the leader while it decides to
\* become it.
AtEase(n) ==
    /\ doing[n] # "sleep" => nap[n] = 0
    /\ doing[n] = "setnx" => leader.node # n

TimeInv == \A n \in Nodes : OnTime(n) /\ AtEase(n)

LeaseInv == LongLease => TimeInv

\* A step of another node that is neither elected nor held up as the leader.
LEMMA OthersOnTime ==
    ASSUME ElectionTypeOK, TimeInv, NEW n \in Nodes,
           doing'[n] = doing[n], nap'[n] = nap[n], started'[n] = started[n],
           leader'.node # n \/ (leader' = leader /\ miss' = miss)
    PROVE  (OnTime(n) /\ AtEase(n))'
  BY DEF TimeInv, OnTime, AtEase, Slack

\* Nobody but the node of a step is moved by it.
LEMMA OthersStay ==
    ASSUME ElectionTypeOK, NEW n \in Nodes,
           \/ Enable(n) \/ TickStep(n) \/ TickFails(n)
           \/ CloseStarts(n) \/ CallbackCloses(n) \/ CloseStep(n) \/ CloseFails(n)
           \/ Crash(n)
    PROVE  /\ \A m \in Nodes \ {n} :
                 doing'[m] = doing[m] /\ nap'[m] = nap[m] /\ started'[m] = started[m]
           /\ \/ leader' = leader
              \/ leader' = NoLeader
              \/ leader'.node = n
           /\ leader.node = n \/ leader'.node = n \/ miss' = miss
<1>1. \A m \in Nodes \ {n} : doing'[m] = doing[m] /\ nap'[m] = nap[m] /\ started'[m] = started[m]
  <2> DEFINE Stays == \A m \in Nodes \ {n} : /\ doing'[m] = doing[m] /\ nap'[m] = nap[m]
                                             /\ started'[m] = started[m]
  <2>1. ASSUME TickEnds(n) \/ TickRaises(n) PROVE Stays
    BY <2>1 DEF TickEnds, TickRaises, Rest, EnableRaises, Goto, ElectionTypeOK
  <2>2. ASSUME NEW where, Goto(n, where), UNCHANGED <<nap, started>> PROVE Stays
    BY <2>2 DEF Goto, ElectionTypeOK
  <2>3. ASSUME NEW where, Reply(n, where) PROVE Stays
    BY <2>1, <2>2, <2>3 DEF Reply, Abandon
  <2>4. ASSUME CloseStarts(n) PROVE Stays
    BY <2>4 DEF CloseStarts, Goto, ElectionTypeOK
  <2>5. ASSUME CallbackCloses(n) \/ Crash(n) PROVE Stays
    BY <2>5 DEF CallbackCloses, Crash, Goto, ElectionTypeOK
  <2>6. ASSUME CloseStep(n) \/ CloseFails(n) PROVE Stays
    BY <2>6 DEF CloseStep, Resign, CloseReturns, CloseFails, CloseEnds, tickVars,
           ElectionTypeOK
  <2>7. ASSUME Beat(n) \/ RenewLease(n) \/ SetLeader(n) PROVE Stays
    BY <2>3, <2>7, Zenon DEF Beat, RenewLease, SetLeader
  <2>8. ASSUME NotEnabled(n) \/ TickFails(n) \/ CallbackEnds(n) PROVE Stays
    BY <2>1, <2>8, Zenon DEF NotEnabled, TickFails, CallbackEnds, Abandon
  <2>9. ASSUME Wake(n) \/ GetLeader(n) \/ Notify(n) \/ Enable(n) PROVE Stays
    <3> HIDE DEF Stays
    <3>1. CASE Wake(n)  BY <2>1, <2>2, <3>1 DEF Wake
    <3>2. CASE GetLeader(n)  BY <2>2, <3>2 DEF GetLeader
    <3>3. CASE Notify(n)  BY <2>1, <2>2, <3>3 DEF Notify
    <3>4. CASE Enable(n)  BY <2>2, <3>4 DEF Enable
    <3> QED  BY <2>9, <3>1, <3>2, <3>3, <3>4
  <2> HIDE DEF Stays
  <2>10. Stays
    BY <2>4, <2>5, <2>6, <2>7, <2>8, <2>9, Zenon DEF TickStep
  <2> QED  BY <2>10 DEF Stays
<1>2. leader' = leader \/ leader' = NoLeader \/ leader'.node = n
  <2>1. ASSUME RenewLease(n) \/ SetLeader(n) \/ Resign(n)
        PROVE  leader' = leader \/ leader' = NoLeader \/ leader'.node = n
    BY <2>1
       DEF RenewLease, Renews, SetLeader, Sets, Resign, ElectionTypeOK, NoLeader
  <2> QED
    BY <2>1, Zenon
       DEF TickStep, CloseStep, Enable, NotEnabled, Wake, Beat, GetLeader, Notify,
           CallbackEnds, TickFails, CloseStarts, CallbackCloses, CloseReturns,
           CloseFails, Crash, keys
<1>3. leader.node = n \/ leader'.node = n \/ miss' = miss
  <2>1. ASSUME RenewLease(n) \/ SetLeader(n)
        PROVE  leader'.node = n \/ miss' = miss
    BY <2>1 DEF RenewLease, Renews, SetLeader, Sets, ElectionTypeOK, NoLeader
  <2>2. ASSUME Missed(n), leader.node # n
        PROVE  miss' = miss
    BY <2>2 DEF Missed
  <2> QED
    BY <2>1, <2>2, Zenon
       DEF TickStep, CloseStep, Enable, NotEnabled, Wake, Beat, GetLeader, Notify,
           Resign,
           CallbackEnds, TickFails, CloseStarts, CallbackCloses, CloseReturns,
           CloseFails, Crash
<1> QED  BY <1>1, <1>2, <1>3

\* A tick that ends or raises with its lease still good puts its node to
\* sleep in time.
LEMMA EndsOnTime ==
    ASSUME LongLease, ElectionTypeOK, ElectionTypeOK', TimeInv, NEW n \in Nodes,
           TickEnds(n) \/ TickRaises(n),
           doing[n] # "idle", miss' \in 0..MaxMiss,
           leader'.node = n /\ miss' < MaxMiss /\ started'[n] =>
               leader'.left + (IF miss' = 0 THEN 0 ELSE Interval) >= UnhealthyTime
    PROVE  (OnTime(n) /\ AtEase(n))'
<1>1. \/ doing'[n] = "sleep" /\ nap'[n] = Interval
      \/ doing'[n] = "idle" /\ nap'[n] = nap[n] /\ task[n] = "enable"
  BY DEF TickEnds, TickRaises, Rest, EnableRaises, Goto, ElectionTypeOK
<1>2. CASE doing'[n] = "sleep" /\ nap'[n] = Interval
  <2>1. AtEase(n)'
    BY <1>2 DEF AtEase
  <2>2. ASSUME leader'.node = n, miss' < MaxMiss, started'[n]
        PROVE  leader'.left + Slack' + Interval >= UnhealthyTime + nap'[n]
    <3>1. Slack' = IF miss' = 0 THEN 0 ELSE Interval
      BY DEF Slack, Interval
    <3>2. leader'.left + (IF miss' = 0 THEN 0 ELSE Interval) >= UnhealthyTime
      BY <2>2
    <3>3. leader'.left \in Nat
      BY <2>2, NodeAssumption DEF ElectionTypeOK, NoLeader
    <3> QED  BY <1>2, <3>1, <3>2, <3>3, IntervalFacts
  <2>3. OnTime(n)'
    BY <1>2, <2>2 DEF OnTime, MaxMiss, Interval
  <2> QED  BY <2>1, <2>3
<1>3. CASE doing'[n] = "idle" /\ nap'[n] = nap[n] /\ task[n] = "enable"
  BY <1>3 DEF OnTime, AtEase, TimeInv, ElectionTypeOK
<1> QED  BY <1>1, <1>2, <1>3

\* The node of a step is on time if it was.
LEMMA OwnOnTime ==
    ASSUME LongLease, ElectionTypeOK, ElectionTypeOK', TimeInv, NEW n \in Nodes,
           \/ Enable(n) \/ TickStep(n) \/ TickFails(n)
           \/ CloseStarts(n) \/ CallbackCloses(n) \/ CloseStep(n) \/ CloseFails(n)
           \/ Crash(n)
    PROVE  (OnTime(n) /\ AtEase(n))'
<1> DEFINE Good == (OnTime(n) /\ AtEase(n))'
<1>0. /\ OnTime(n) /\ AtEase(n)
      /\ leader.node = n => leader.left \in Nat
      /\ miss \in 0..MaxMiss /\ miss' \in 0..MaxMiss
  BY NodeAssumption DEF ElectionTypeOK, TimeInv, NoLeader
<1> USE IntervalFacts DEF MaxMiss
<1>1. CASE Enable(n)
  BY <1>0, <1>1 DEF Enable, Goto, First, keys, ElectionTypeOK, OnTime, AtEase
<1>2. CASE NotEnabled(n)
  BY <1>0, <1>2, EndsOnTime
     DEF NotEnabled, Abandon, ElectionTypeOK, TickRaises, Rest, EnableRaises
<1>3. CASE Wake(n)
  <2>1. CASE election[n]
    BY <1>0, <1>3, <2>1
       DEF Wake, Goto, First, keys, ElectionTypeOK, OnTime, AtEase, Slack
  <2>2. CASE ~election[n]
    BY <1>0, <1>3, <2>2, EndsOnTime
       DEF Wake, ElectionTypeOK, TickRaises, Rest, EnableRaises
  <2> QED  BY <2>1, <2>2
<1>4. CASE Beat(n)
  <2>1. CASE Goto(n, "get") /\ UNCHANGED <<nap, started, fails>>
    BY <1>0, <1>4, <2>1 DEF Beat, Goto, ElectionTypeOK, OnTime, AtEase, Slack
  <2>2. CASE Fail /\ Abandon(n)
    <3>1. Missed(n) /\ TickRaises(n) /\ doing[n] = "beat" /\ leader' = leader
      BY <1>4, <2>2 DEF Beat, Fail, Abandon, ElectionTypeOK
    <3>2. started' = started
      BY <3>1 DEF TickRaises, EnableRaises
    <3>3. leader.node = n /\ miss' < MaxMiss /\ started[n]
            => miss = 0 /\ miss' = 1 /\ leader.left + Interval >= UnhealthyTime
      BY <1>0, <3>1 DEF Missed, OnTime, Slack
    <3> QED  BY <1>0, <3>1, <3>2, <3>3, EndsOnTime
  <2> QED  BY <1>4, <2>1, <2>2 DEF Beat, Reply
<1>5. CASE GetLeader(n)
  BY <1>0, <1>5, NodeAssumption
     DEF GetLeader, Goto, keys, ElectionTypeOK, OnTime, AtEase, Slack
<1>6. CASE RenewLease(n) \/ SetLeader(n)
  <2>1. leader'.node = n => leader'.left = UnhealthyTime /\ miss' = 0
    BY <1>0, <1>6, NodeAssumption
       DEF RenewLease, Renews, SetLeader, Sets, ElectionTypeOK, NoLeader, AtEase
  <2>2. CASE Goto(n, "notify") /\ UNCHANGED <<nap, started>>
    BY <1>0, <1>6, <2>1, <2>2
       DEF RenewLease, SetLeader, Goto, ElectionTypeOK, OnTime, AtEase
  <2>3. CASE TickRaises(n)
    BY <1>0, <1>6, <2>1, <2>3, EndsOnTime DEF RenewLease, SetLeader
  <2> QED  BY <1>6, <2>2, <2>3 DEF RenewLease, SetLeader, Reply, Abandon
<1>7. CASE Notify(n)
  <2>1. CASE Goto(n, "callback") /\ UNCHANGED <<nap, started>>
    BY <1>0, <1>7, <2>1 DEF Notify, keys, Goto, ElectionTypeOK, OnTime, AtEase
  <2>2. CASE TickEnds(n)
    BY <1>0, <1>7, <2>2, EndsOnTime DEF Notify, keys, OnTime
  <2> QED  BY <1>7, <2>1, <2>2 DEF Notify
<1>8. CASE CallbackEnds(n)
  BY <1>0, <1>8, EndsOnTime DEF CallbackEnds, keys, OnTime
<1>9. CASE TickFails(n)
  <2>1. Missed(n) /\ TickRaises(n) /\ leader' = leader /\ doing[n] # "idle"
        /\ doing[n] \in {"beat", "get", "renew", "setnx", "notify"}
    BY <1>9 DEF TickFails, Abandon, keys
  <2>2. started'[n] => started[n] \/ doing[n] = "notify"
    BY <2>1 DEF TickRaises, Rest, EnableRaises, ElectionTypeOK
  <2> QED  BY <1>0, <2>1, <2>2, EndsOnTime DEF Missed, OnTime, AtEase, Slack
<1>10. CASE CloseStarts(n) \/ CallbackCloses(n) \/ Crash(n)
  <2>1. CASE CloseStarts(n)
    BY <1>0, <2>1 DEF CloseStarts, Goto, keys, ElectionTypeOK, OnTime, AtEase, Slack
  <2>2. CASE CallbackCloses(n)
    BY <1>0, <2>2 DEF CallbackCloses, Goto, keys, ElectionTypeOK, OnTime, AtEase
  <2>3. CASE Crash(n)
    BY <1>0, <2>3 DEF Crash, Goto, keys, ElectionTypeOK, OnTime, AtEase
  <2> QED  BY <1>10, <2>1, <2>2, <2>3
<1>11. CASE Resign(n)
  BY <1>0, <1>11, NodeAssumption
     DEF Resign, tickVars, ElectionTypeOK, OnTime, AtEase, NoLeader
<1>12. CASE CloseReturns(n) \/ CloseFails(n)
  BY <1>0, <1>12
     DEF CloseReturns, CloseFails, CloseEnds, ElectionTypeOK, OnTime, AtEase, Slack
<1> QED
  BY <1>1, <1>2, <1>3, <1>4, <1>5, <1>6, <1>7, <1>8, <1>9, <1>10, <1>11, <1>12,
     Zenon
     DEF TickStep, CloseStep

\* Time costs the leader a unit of its lease, or a miss with it when its tick
\* is due; a leader on time has that unit.
LEMMA ClockOnTime ==
    ASSUME LongLease, ElectionTypeOK, TimeInv, TimePasses, NEW n \in Nodes
    PROVE  /\ (OnTime(n) /\ AtEase(n))'
           /\ leader.node = n /\ started[n] /\ miss' < MaxMiss => leader'.node = n
<1> USE IntervalFacts DEF MaxMiss
<1>1. /\ UNCHANGED <<doing, task, started>>
      /\ nap' = [m \in Nodes |-> IF nap[m] > 0 THEN nap[m] - 1 ELSE 0]
      /\ leader' = IF leader.left > 1 THEN [leader EXCEPT !.left = leader.left - 1]
                                      ELSE NoLeader
      /\ OnTime(n) /\ AtEase(n) /\ nap[n] \in Nat /\ miss \in 0..MaxMiss
  BY DEF TimePasses, TimeInv, ElectionTypeOK
<1>2. AtEase(n)'
  BY <1>1, NodeAssumption DEF AtEase, ElectionTypeOK, NoLeader
<1>3. CASE leader.node # n
  <2>1. leader'.node # n
    BY <1>1, <1>3, NodeAssumption DEF ElectionTypeOK, NoLeader
  <2> QED  BY <1>2, <1>3, <2>1 DEF OnTime
<1>4. CASE leader.node = n
  <2>1. leader \in [node : Nodes, left : 1..UnhealthyTime]
    BY <1>4, NodeAssumption DEF ElectionTypeOK, NoLeader
  <2>2. IF task[n] # "none" /\ nap[n] = 0
          THEN miss' = IF miss < MaxMiss THEN miss + 1 ELSE miss
          ELSE miss' = miss
    BY <1>4 DEF TimePasses, Missed
  <2>3. nap'[n] = IF nap[n] > 0 THEN nap[n] - 1 ELSE 0
    BY <1>1
  <2>4. leader'.node = n => leader'.left = leader.left - 1
    BY <1>1, <1>4, <2>1, NodeAssumption DEF NoLeader
  <2>5. doing[n] # "idle" => task[n] # "none"
    BY DEF ElectionTypeOK
  <2>6. OnTime(n)'
    <3>1. ASSUME leader'.node = n, miss' < MaxMiss,
                 doing[n] \in {"notify", "callback", "closing"}
          PROVE  leader'.left >= UnhealthyTime - miss'
      BY <1>1, <1>4, <2>1, <2>2, <2>4, <2>5, <3>1 DEF OnTime, AtEase
    <3>2. ASSUME leader'.node = n, miss' < MaxMiss, started[n], doing[n] = "sleep"
          PROVE  leader'.left + Slack' + Interval >= UnhealthyTime + nap'[n]
      BY <1>1, <1>4, <2>1, <2>2, <2>3, <2>4, <2>5, <3>2 DEF OnTime, Slack
    <3>3. ASSUME leader'.node = n, miss' < MaxMiss, started[n],
                 doing[n] \in {"beat", "get", "renew"}
          PROVE  leader'.left + Slack' + Interval >= UnhealthyTime
      BY <1>1, <1>4, <2>1, <2>2, <2>4, <2>5, <3>3 DEF OnTime, AtEase, Slack
    <3> QED  BY <1>1, <3>1, <3>2, <3>3 DEF OnTime
  <2>7. ASSUME started[n], miss' < MaxMiss
        PROVE  leader'.node = n
    <3>1. task[n] = "loop" /\ doing[n] # "idle" /\ doing[n] # "setnx"
      BY <1>1, <1>4, <2>7 DEF ElectionTypeOK, AtEase
    <3>2. leader.left > 1
      BY <1>1, <1>4, <2>1, <2>2, <2>7, <3>1
         DEF OnTime, AtEase, Slack, ElectionTypeOK
    <3> QED  BY <1>1, <1>4, <2>1, <3>2
  <2> QED  BY <1>2, <2>6, <2>7
<1> QED  BY <1>3, <1>4

LEMMA TimeStep ==
    /\ LongLease
    /\ ElectionTypeOK /\ ElectionTypeOK' /\ TimeInv /\ [ElectionNext]_electionVars
    => TimeInv'
<1> SUFFICES ASSUME LongLease, ElectionTypeOK, ElectionTypeOK', TimeInv,
                    [ElectionNext]_electionVars, NEW m \in Nodes
             PROVE  (OnTime(m) /\ AtEase(m))'
  BY DEF TimeInv
<1>1. CASE TimePasses
  BY <1>1, ClockOnTime
<1>2. CASE UNCHANGED electionVars
  BY <1>2, OthersOnTime DEF electionVars, keys, tickVars
<1>3. ASSUME NEW n \in Nodes,
             \/ Enable(n) \/ TickStep(n) \/ TickFails(n)
             \/ CloseStarts(n) \/ CallbackCloses(n) \/ CloseStep(n) \/ CloseFails(n)
             \/ Crash(n)
      PROVE  (OnTime(m) /\ AtEase(m))'
  <2>1. CASE m = n
    BY <1>3, <2>1, OwnOnTime
  <2>2. CASE m # n
    <3>1. doing'[m] = doing[m] /\ nap'[m] = nap[m] /\ started'[m] = started[m]
      BY <1>3, <2>2, OthersStay
    <3>2. leader'.node # m \/ (leader' = leader /\ miss' = miss)
      BY <1>3, <2>2, OthersStay, NodeAssumption DEF NoLeader
    <3> QED  BY <3>1, <3>2, OthersOnTime
  <2> QED  BY <2>1, <2>2
<1> QED  BY <1>1, <1>2, <1>3 DEF ElectionNext

(* A leader whose loop runs keeps its key until its renewal was held up    *)
(* twice, for any lease that the least interval fits into three times: the *)
(* interval is a third of it at most.                                      *)
THEOREM ElectionOneMissKeepsLeader == ElectionSafetySpec => OneMissKeepsLeader
<1>1. ElectionInit => LeaseInv
  BY NodeAssumption DEF ElectionInit, LeaseInv, TimeInv, OnTime, AtEase, NoLeader
<1>2. ASSUME ElectionTypeOK, ElectionTypeOK', LeaseInv, LongLease,
             [ElectionNext]_electionVars, NEW n \in Nodes,
             started[n], started'[n], leader.node = n, leader'.node # n
      PROVE  miss' = MaxMiss
  <2>0. TimeInv
    BY <1>2 DEF LeaseInv
  <2>1. CASE TimePasses
    BY <1>2, <2>0, <2>1, ClockOnTime DEF ElectionTypeOK, MaxMiss
  <2>2. CASE ~TimePasses
    <3>1. leader' = NoLeader
      BY <1>2, <2>2, LeaderStep, NodeAssumption
    <3>2. ASSUME NEW m \in Nodes, RenewLease(m) \/ SetLeader(m)
          PROVE  leader' = leader \/ leader'.node = m
      BY <1>2, <3>2 DEF RenewLease, Renews, SetLeader, Sets, ElectionTypeOK, NoLeader
    <3>3. ASSUME NEW m \in Nodes,
                 \/ Enable(m) \/ NotEnabled(m) \/ Wake(m) \/ Beat(m) \/ GetLeader(m)
                 \/ Notify(m) \/ CallbackEnds(m) \/ TickFails(m) \/ CloseStarts(m)
                 \/ CallbackCloses(m) \/ CloseReturns(m) \/ CloseFails(m) \/ Crash(m)
          PROVE  leader' = leader
      BY <3>3, Zenon
         DEF Enable, NotEnabled, Wake, Beat, GetLeader, Notify, CallbackEnds,
             TickFails,
             CloseStarts, CallbackCloses, CloseReturns, CloseFails, Crash, keys
    <3>4. UNCHANGED electionVars => leader' = leader
      BY DEF electionVars, keys
    <3>5. leader' # leader /\ \A m \in Nodes : leader'.node # m
      BY <1>2, <3>1, NodeAssumption DEF NoLeader
    <3>6. PICK m \in Nodes : Resign(m)
      BY <1>2, <2>2, <3>2, <3>3, <3>4, <3>5, ElectionStepCases
    <3> QED  BY <1>2, <3>5, <3>6 DEF Resign, ElectionTypeOK
  <2> QED  BY <2>1, <2>2
<1>3. ASSUME ElectionTypeOK, ElectionTypeOK', LeaseInv, [ElectionNext]_electionVars
      PROVE  \A n \in Nodes :
                LongLease /\ started[n] /\ started'[n] /\ leader.node = n /\ leader'.node # n
                    => miss' = MaxMiss
  <2> SUFFICES ASSUME NEW n \in Nodes, LongLease,
                      started[n], started'[n], leader.node = n, leader'.node # n
               PROVE  miss' = MaxMiss
    OBVIOUS
  <2> QED  BY <1>2, <1>3
<1>4. ElectionSafetySpec => []LeaseInv
  <2>1. /\ ElectionTypeOK /\ ElectionTypeOK' /\ LeaseInv
        /\ [ElectionNext]_electionVars
        => LeaseInv'
    BY TimeStep DEF LeaseInv, LongLease
  <2> QED  BY <1>1, <2>1, ElectionType, PTL DEF ElectionSafetySpec
<1> QED  BY <1>3, <1>4, ElectionType, PTL DEF ElectionSafetySpec, OneMissKeepsLeader
=============================================================================
