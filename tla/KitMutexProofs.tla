--------------------------- MODULE KitMutexProofs ---------------------------
(***************************************************************************)
(* Proofs about MemoryMutex, for every set of mutex objects, identities    *)
(* and lease lengths, then about KitMutex, for every number of tasks.      *)
(* The second part does not prove again what the table keeps: the calls    *)
(* only take steps of MemoryMutex, so its theorems hold of them.           *)
(***************************************************************************)
EXTENDS KitMutex, TLAPS

\* Whoever was intruded on is not the one the table names, until it is
\* granted the lock again.
IntrudedLost == \A m \in intruded : lockedOwner[m] = m => entry.owner # m

IInv == TypeOK /\ LeaseKept /\ IntrudedLost

\* The case split on the next-state relation that every step proof uses.
LEMMA StepCases ==
    ASSUME [Next]_vars
    PROVE  \/ Tick
           \/ PurgeExpired
           \/ \E m \in Mutexes, id \in Identities \cup {None}, ttl \in Ttls :
                 TryLock(m, id, ttl)
           \/ \E m \in Mutexes : UnlockReleases(m)
           \/ UNCHANGED vars
  BY Zenon DEF Next, ExistLock, UnlockRaises

LEMMA OwnerOfType ==
    ASSUME NEW m \in Mutexes, NEW id \in Owners \cup {None}
    PROVE  /\ OwnerOf(m, id) \in Owners
           /\ OwnerOf(m, id) = id \/ OwnerOf(m, id) = m
           /\ OwnerOf(m, id) # None
           /\ id # None => OwnerOf(m, id) = id
  BY OwnerAssumption DEF OwnerOf, Owners

(* The table, the names and the history stay well formed. *)
THEOREM MemoryType == Spec => []TypeOK
<1>1. Init => TypeOK
  BY TimeAssumption DEF Init, TypeOK, Absent
<1>2. TypeOK /\ [Next]_vars => TypeOK'
  <2> SUFFICES ASSUME TypeOK, [Next]_vars
               PROVE  TypeOK'
    OBVIOUS
  <2>1. CASE Tick
    BY <2>1, TimeAssumption DEF Tick, TypeOK
  <2>2. CASE PurgeExpired
    BY <2>2 DEF PurgeExpired, TypeOK, Absent
  <2>3. ASSUME NEW m \in Mutexes, NEW id \in Identities \cup {None},
               NEW ttl \in Ttls, TryLock(m, id, ttl)
        PROVE  TypeOK'
    <3>1. id \in Owners \cup {None}
      BY DEF Owners
    <3>2. OwnerOf(m, id) \in Owners /\ OwnerOf(m, id) # None
      BY <3>1, OwnerOfType
    <3>3. now + ttl \in Nat /\ now + ttl # 0
      BY TimeAssumption DEF TypeOK
    <3>4. now' = now /\ entry' = [owner |-> OwnerOf(m, id), expires_at |-> now + ttl]
      BY <2>3 DEF TryLock
    <3>5. /\ lockedOwner' = [lockedOwner EXCEPT ![m] = OwnerOf(m, id)]
          /\ granted' = [granted EXCEPT ![OwnerOf(m, id)] = now + ttl]
      BY <2>3 DEF TryLock
    <3>6. intruded' \subseteq Mutexes
      BY <2>3 DEF TryLock, Intrudes, TypeOK
    <3>7. QED
      BY <3>2, <3>3, <3>4, <3>5, <3>6 DEF TypeOK
  <2>4. ASSUME NEW m \in Mutexes, UnlockReleases(m)
        PROVE  TypeOK'
    BY <2>4 DEF UnlockReleases, TypeOK, Absent
  <2>5. CASE UNCHANGED vars
    BY <2>5 DEF vars, TypeOK
  <2>6. QED
    BY <2>1, <2>2, <2>3, <2>4, <2>5, StepCases
<1>3. QED
  BY <1>1, <1>2, PTL DEF Spec

LEMMA LeaseKeptStep ==
    ASSUME TypeOK, TypeOK', LeaseKept, [Next]_vars
    PROVE  LeaseKept'
<1> USE DEF LeaseKept, TypeOK
<1>1. CASE Tick
  BY <1>1 DEF Tick
<1>2. CASE PurgeExpired
  BY <1>2 DEF PurgeExpired, Expired
<1>3. ASSUME NEW m \in Mutexes, NEW id \in Identities \cup {None},
             NEW ttl \in Ttls, TryLock(m, id, ttl)
      PROVE  LeaseKept'
  <2> DEFINE o == OwnerOf(m, id)
  <2>1. o \in Owners /\ o # None /\ (id # None => o = id)
    BY OwnerOfType DEF Owners
  <2>2. \A p \in Owners \ {o} : ~(granted[p] > now)
    <3> SUFFICES ASSUME NEW p \in Owners, p # o, granted[p] > now
                 PROVE  FALSE
      OBVIOUS
    <3>1. entry.owner = p /\ entry.expires_at > now
      OBVIOUS
    <3>2. Live
      BY <3>1, OwnerAssumption DEF Live, Existing, Expired
    <3>3. entry.owner = id
      BY <3>2, <1>3 DEF TryLock, TryLockRefuses
    <3>4. QED
      BY <3>1, <3>3, <2>1, OwnerAssumption
  <2>3. /\ now' = now
        /\ entry' = [owner |-> o, expires_at |-> now + ttl]
        /\ granted' = [granted EXCEPT ![o] = now + ttl]
    BY <1>3 DEF TryLock
  <2>4. QED
    BY <2>1, <2>2, <2>3
<1>4. ASSUME NEW m \in Mutexes, UnlockReleases(m)
      PROVE  LeaseKept'
  BY <1>4, OwnerOfType
     DEF UnlockReleases, UnlockAllowed, UnlockOwner
<1>5. CASE UNCHANGED vars
  BY <1>5 DEF vars
<1>6. QED
  BY <1>1, <1>2, <1>3, <1>4, <1>5, StepCases

LEMMA IntrudedLostStep ==
    ASSUME TypeOK, IntrudedLost, [Next]_vars
    PROVE  IntrudedLost'
<1> USE DEF IntrudedLost, TypeOK
<1>1. CASE Tick
  BY <1>1 DEF Tick
<1>2. CASE PurgeExpired
  BY <1>2, OwnerAssumption DEF PurgeExpired, Absent, Owners
<1>3. ASSUME NEW m \in Mutexes, NEW id \in Identities \cup {None},
             NEW ttl \in Ttls, TryLock(m, id, ttl)
      PROVE  IntrudedLost'
  <2> DEFINE o == OwnerOf(m, id)
  <2>1. /\ entry'.owner = o
        /\ lockedOwner' = [lockedOwner EXCEPT ![m] = o]
        /\ intruded' = (intruded \ {m}) \cup Intrudes(m, o)
    BY <1>3 DEF TryLock
  <2>2. o = m \/ o \in Identities
    BY DEF OwnerOf
  <2> SUFFICES ASSUME NEW n \in intruded', lockedOwner'[n] = n, o = n
               PROVE  FALSE
    BY <2>1
  <2>3. n \in Mutexes /\ n # m
    BY <2>1 DEF Intrudes
  <2>4. QED
    BY <2>2, <2>3, OwnerAssumption
<1>4. ASSUME NEW m \in Mutexes, UnlockReleases(m)
      PROVE  IntrudedLost'
  BY <1>4, OwnerAssumption DEF UnlockReleases, Absent, Owners
<1>5. CASE UNCHANGED vars
  BY <1>5 DEF vars
<1>6. QED
  BY <1>1, <1>2, <1>3, <1>4, <1>5, StepCases

(* The inductive invariant: a live lease is in the table, and a mutex that *)
(* was intruded on is not the table's owner.                               *)
THEOREM MemoryInductive == Spec => []IInv
<1>1. Init => LeaseKept /\ IntrudedLost
  BY DEF Init, LeaseKept, IntrudedLost
<1>2. TypeOK /\ TypeOK' /\ LeaseKept /\ IntrudedLost /\ [Next]_vars
        => LeaseKept' /\ IntrudedLost'
  BY LeaseKeptStep, IntrudedLostStep
<1>3. QED
  BY <1>1, <1>2, MemoryType, PTL DEF Spec, IInv

(* A lease an owner was told of stays in the table until it ends or that   *)
(* owner gives it back.                                                    *)
THEOREM MemoryLeaseKept == Spec => []LeaseKept
  BY MemoryInductive, PTL DEF IInv

(* No two owners hold unexpired leases at once. *)
THEOREM MemoryLeaseExclusion == Spec => []Lease!Exclusion
<1>1. IInv => Lease!Exclusion
  BY DEF IInv, LeaseKept, Lease!Exclusion, Lease!Holds
<1>2. QED
  BY <1>1, MemoryInductive, PTL

(* A mutex that was intruded on cannot unlock as if nothing had happened. *)
THEOREM MemoryIntrusionReported == Spec => IntrusionReported
<1>1. IInv /\ [Next]_vars
        => [\A m \in Mutexes :
              lockedOwner[m] = m /\ lockedOwner'[m] = None => m \notin intruded]_vars
  <2> USE DEF IInv, TypeOK, IntrudedLost
  <2> SUFFICES ASSUME IInv, [Next]_vars,
                      NEW m \in Mutexes, lockedOwner[m] = m, lockedOwner'[m] = None
               PROVE  m \notin intruded
    BY Zenon
  <2>1. m # None
    BY OwnerAssumption DEF Owners
  <2>2. CASE Tick \/ PurgeExpired \/ UNCHANGED vars
    BY <2>1, <2>2 DEF Tick, PurgeExpired, vars
  <2>3. ASSUME NEW n \in Mutexes, NEW id \in Identities \cup {None},
               NEW ttl \in Ttls, TryLock(n, id, ttl)
        PROVE  FALSE
    BY <2>1, <2>3, OwnerOfType DEF TryLock, Owners
  <2>4. ASSUME NEW n \in Mutexes, UnlockReleases(n)
        PROVE  m \notin intruded
    <3>1. n = m
      BY <2>1, <2>4 DEF UnlockReleases
    <3>2. entry.owner = m
      BY <2>1, <2>4, <3>1 DEF UnlockReleases, UnlockAllowed, UnlockOwner, OwnerOf
    <3>3. QED
      BY <3>2
  <2>5. QED
    BY <2>2, <2>3, <2>4, StepCases
<1>2. QED
  BY <1>1, MemoryInductive, PTL DEF Spec, IntrusionReported

(* Every behaviour of the in-memory mutexes is one of the lease lock: a    *)
(* try_lock that succeeds is a Grant, an unlock that returns a Release,    *)
(* and a purge is invisible.                                               *)
THEOREM MemoryRefinesLeaseLock == Spec => RefinesLeaseLock
<1>1. Init => Lease!Init
  BY DEF Init, Lease!Init
<1>2. IInv /\ [Next]_vars => [Lease!Next]_(Lease!vars)
  <2> SUFFICES ASSUME IInv, [Next]_vars
               PROVE  [Lease!Next]_(Lease!vars)
    OBVIOUS
  <2> USE DEF IInv, TypeOK
  <2>1. CASE Tick
    BY <2>1 DEF Tick, Lease!Next, Lease!Tick
  <2>2. CASE PurgeExpired \/ UNCHANGED vars
    BY <2>2 DEF PurgeExpired, vars, Lease!vars
  <2>3. ASSUME NEW m \in Mutexes, NEW id \in Identities \cup {None},
               NEW ttl \in Ttls, TryLock(m, id, ttl)
        PROVE  Lease!Next
    <3> DEFINE o == OwnerOf(m, id)
    <3>1. o \in Owners /\ (id # None => o = id)
      BY OwnerOfType DEF Owners
    <3>2. \A p \in Owners \ {o} : ~Lease!Holds(p)
      <4> SUFFICES ASSUME NEW p \in Owners, p # o, granted[p] > now
                   PROVE  FALSE
        BY DEF Lease!Holds
      <4>1. entry.owner = p /\ entry.expires_at > now
        BY DEF LeaseKept
      <4>2. entry.owner = id
        BY <2>3, <4>1, OwnerAssumption
           DEF TryLock, TryLockRefuses, Live, Existing, Expired
      <4>3. QED
        BY <3>1, <4>1, <4>2, OwnerAssumption
    <3>3. granted' = [granted EXCEPT ![o] = now + ttl] /\ now' = now
      BY <2>3 DEF TryLock
    <3>4. now + ttl \in Nat
      BY TimeAssumption
    <3>5. Lease!Grant(o)
      BY <3>1, <3>2, <3>3, <3>4 DEF Lease!Grant
    <3>6. QED
      BY <3>1, <3>5 DEF Lease!Next
  <2>4. ASSUME NEW m \in Mutexes, UnlockReleases(m)
        PROVE  Lease!Next
    <3>1. UnlockOwner(m) \in Owners
      BY OwnerOfType DEF UnlockOwner
    <3>2. QED
      BY <2>4, <3>1 DEF UnlockReleases, Lease!Next, Lease!Release
  <2>5. QED
    BY <2>1, <2>2, <2>3, <2>4, StepCases
<1>3. QED
  BY <1>1, <1>2, MemoryInductive, PTL DEF Spec, RefinesLeaseLock, Lease!Spec

-----------------------------------------------------------------------------
(* What the abstract lease lock promises, and with it all three mutexes:   *)
(* however often they are granted the lock anew, release it or outlive     *)
(* their leases, no two owners hold unexpired leases at once.              *)
THEOREM LeaseLockExclusion == Lease!Spec => []Lease!Exclusion
<1> USE DEF Lease!TypeOK, Lease!Exclusion, Lease!Holds
<1>1. Lease!Init => Lease!TypeOK /\ Lease!Exclusion
  BY DEF Lease!Init
<1>2. Lease!TypeOK /\ Lease!Exclusion /\ [Lease!Next]_(Lease!vars)
        => Lease!TypeOK' /\ Lease!Exclusion'
  <2> SUFFICES ASSUME Lease!TypeOK, Lease!Exclusion, [Lease!Next]_(Lease!vars)
               PROVE  Lease!TypeOK' /\ Lease!Exclusion'
    OBVIOUS
  <2>1. CASE Lease!Tick
    BY <2>1 DEF Lease!Tick
  <2>2. ASSUME NEW o \in Owners, Lease!Grant(o)
        PROVE  Lease!TypeOK' /\ Lease!Exclusion'
    BY <2>2 DEF Lease!Grant
  <2>3. ASSUME NEW o \in Owners, Lease!Release(o)
        PROVE  Lease!TypeOK' /\ Lease!Exclusion'
    BY <2>3 DEF Lease!Release
  <2>4. CASE UNCHANGED (Lease!vars)
    BY <2>4 DEF Lease!vars
  <2>5. QED
    BY <2>1, <2>2, <2>3, <2>4 DEF Lease!Next
<1>3. QED
  BY <1>1, <1>2, PTL DEF Lease!Spec

-----------------------------------------------------------------------------
(* The calls of the kit.                                                   *)

LEMMA NoIdentities ==
    /\ Owners = Mutexes
    /\ None \notin Mutexes
    /\ \A t \in Mutexes : OwnerOf(t, None) = t /\ OwnerOf(t, t) = t
  BY KitAssumption, OwnerAssumption DEF Owners, OwnerOf

\* The case split on the next-state relation that every step proof uses.
LEMMA KitStepCases ==
    ASSUME [KitNext]_allVars
    PROVE  \/ KitTick
           \/ \E t \in Mutexes :
                 \/ Call(t) \/ Refused(t) \/ CheckWait(t) \/ Pause(t) \/ Wake(t)
                 \/ CancelWait(t) \/ ActionEnds(t)
           \/ \E t \in Mutexes : Acquire(t)
           \/ \E t \in Mutexes : UnlockReturns(t)
           \/ \E t \in Mutexes : UnlockFails(t)
           \/ UNCHANGED allVars
  BY Zenon DEF KitNext, Step

(* Each step of a call is a step of the mutexes of MemoryMutex, or leaves  *)
(* them alone.                                                             *)
THEOREM KitUsesMutexes == KitSafetySpec => Spec
<1>1. KitInit => Init
  BY DEF KitInit
<1>2. [KitNext]_allVars => [Next]_vars
  <2> SUFFICES ASSUME [KitNext]_allVars
               PROVE  [Next]_vars
    OBVIOUS
  <2>1. CASE KitTick
    BY <2>1 DEF KitTick, Next
  <2>2. ASSUME NEW t \in Mutexes,
               \/ Call(t) \/ Refused(t) \/ CheckWait(t) \/ Pause(t) \/ Wake(t)
               \/ CancelWait(t) \/ ActionEnds(t)
        PROVE  UNCHANGED vars
    BY <2>2 DEF Call, Refused, CheckWait, Pause, Wake, CancelWait, ActionEnds
  <2>3. ASSUME NEW t \in Mutexes, Acquire(t)
        PROVE  Next
    BY <2>3, KitAssumption DEF Acquire, Next
  <2>4. ASSUME NEW t \in Mutexes, UnlockReturns(t)
        PROVE  Next
    BY <2>4 DEF UnlockReturns, Next
  <2>5. ASSUME NEW t \in Mutexes, UnlockFails(t)
        PROVE  Next
    BY <2>5 DEF UnlockFails, Next
  <2>6. CASE UNCHANGED allVars
    BY <2>6 DEF allVars
  <2>7. QED
    BY <2>1, <2>2, <2>3, <2>4, <2>5, <2>6, KitStepCases
<1>3. QED
  BY <1>1, <1>2, PTL DEF KitSafetySpec, Spec

(* While two actions run at once, all but one have outlived their lease.   *)
THEOREM KitOneActionInLease == KitSafetySpec => []OneActionInLease
<1>1. Lease!Exclusion => OneActionInLease
  BY NoIdentities DEF Lease!Exclusion, Lease!Holds, OneActionInLease
<1>2. QED
  BY <1>1, KitUsesMutexes, MemoryLeaseExclusion, PTL

-----------------------------------------------------------------------------
\* The parts of KitTypeOK about the calls.
CallsTypeOK ==
    /\ pc \in [Mutexes -> {"idle", "trying", "checking", "pausing", "sleeping",
                           "action", "unlocking", "done"}]
    /\ waits \in [Mutexes -> BOOLEAN]
    /\ start \in [Mutexes -> 0..Horizon]
    /\ wake \in [Mutexes -> Nat]
    /\ actionErr \in [Mutexes -> Endings]
    /\ outcome \in [Mutexes -> Outcomes]

LEMMA FinishType ==
    ASSUME CallsTypeOK, NEW t \in Mutexes, NEW how \in Outcomes,
           Finish(t, how), UNCHANGED actionErr
    PROVE  CallsTypeOK'
  BY TimeAssumption DEF CallsTypeOK, Finish, Goto, LeaveLock

LEMMA StayType ==
    ASSUME CallsTypeOK, NEW t \in Mutexes, NEW where \in {"checking", "pausing"},
           Stay(t, where), UNCHANGED actionErr
    PROVE  CallsTypeOK'
  BY DEF CallsTypeOK, Stay, Goto, locals

LEMMA CallsTypeStep ==
    ASSUME TypeOK, CallsTypeOK, [KitNext]_allVars
    PROVE  CallsTypeOK'
<1> USE DEF CallsTypeOK
<1>1. CASE KitTick \/ UNCHANGED allVars
  BY <1>1 DEF KitTick, allVars, kitVars
<1>2. ASSUME NEW t \in Mutexes, Call(t)
      PROVE  CallsTypeOK'
  BY <1>2 DEF Call, Goto, TypeOK
<1>3. ASSUME NEW t \in Mutexes, Acquire(t)
      PROVE  CallsTypeOK'
  BY <1>3, TimeAssumption DEF Acquire, Goto, LeaveLock
<1>4. ASSUME NEW t \in Mutexes, Refused(t) \/ CheckWait(t) \/ CancelWait(t)
      PROVE  CallsTypeOK'
  <2>1. \/ Stay(t, "checking") \/ Stay(t, "pausing")
        \/ Finish(t, "not_run") \/ Finish(t, "not_acquired") \/ Finish(t, "cancelled")
    BY <1>4 DEF Refused, CheckWait, CancelWait
  <2>2. {"not_run", "not_acquired", "cancelled"} \subseteq Outcomes
    BY DEF Outcomes, Endings
  <2>3. UNCHANGED actionErr
    BY <1>4 DEF Refused, CheckWait, CancelWait
  <2>4. QED
    BY <2>1, <2>2, <2>3, FinishType, StayType
<1>5. ASSUME NEW t \in Mutexes, Pause(t)
      PROVE  CallsTypeOK'
  <2>1. SleepFor(t) \in Nat
    <3>1. Spin \in Nat /\ DefaultTtl \in Nat /\ now \in Nat /\ start[t] \in Nat
      BY KitAssumption, TimeAssumption DEF TypeOK
    <3>2. QED
      BY <3>1 DEF SleepFor, AtMost
  <2>2. now + SleepFor(t) \in Nat
    BY <2>1 DEF TypeOK
  <2>3. QED
    BY <1>5, <2>2 DEF Pause, Goto
<1>6. ASSUME NEW t \in Mutexes, Wake(t)
      PROVE  CallsTypeOK'
  BY <1>6 DEF Wake, Goto
<1>7. ASSUME NEW t \in Mutexes, ActionEnds(t)
      PROVE  CallsTypeOK'
  BY <1>7 DEF ActionEnds, Goto, locals
<1>8. ASSUME NEW t \in Mutexes, UnlockReturns(t) \/ UnlockFails(t)
      PROVE  CallsTypeOK'
  <2>1. actionErr[t] \in Outcomes /\ "unlock_failed" \in Outcomes
    BY DEF Outcomes
  <2>2. QED
    BY <1>8, <2>1, FinishType DEF UnlockReturns, UnlockFails
<1>9. QED
  BY <1>1, <1>2, <1>3, <1>4, <1>5, <1>6, <1>7, <1>8, KitStepCases

\* Where a call is in its code tells what its mutex remembers and whether
\* the table may name it; only one that holds or lost the lock was intruded on.
Bookkeeping ==
    \A t \in Mutexes :
        /\ pc[t] = "done" <=> outcome[t] # "pending"
        /\ lockedOwner[t] \in {None, t}
        /\ pc[t] \in {"action", "unlocking"} => lockedOwner[t] = t
        /\ lockedOwner[t] = t =>
              pc[t] \in {"action", "unlocking"} \/ outcome[t] = "unlock_failed"
        /\ entry.owner = t => pc[t] \in {"action", "unlocking"}
        /\ t \in intruded => lockedOwner[t] = t

LEMMA BookkeepingStep ==
    ASSUME TypeOK, IntrudedLost, CallsTypeOK, Bookkeeping, [KitNext]_allVars
    PROVE  Bookkeeping'
<1> USE NoIdentities DEF Bookkeeping, CallsTypeOK, TypeOK
<1>1. CASE KitTick \/ UNCHANGED allVars
  BY <1>1 DEF KitTick, Tick, allVars, vars, kitVars
<1>2. ASSUME NEW t \in Mutexes,
             Call(t) \/ Pause(t) \/ Wake(t) \/ ActionEnds(t)
      PROVE  Bookkeeping'
  BY <1>2 DEF Call, Pause, Wake, ActionEnds, Goto, vars
<1>3. ASSUME NEW t \in Mutexes, Refused(t) \/ CheckWait(t) \/ CancelWait(t)
      PROVE  Bookkeeping'
  <2>1. pc[t] \in {"trying", "checking", "sleeping"} /\ UNCHANGED vars
    BY <1>3 DEF Refused, CheckWait, CancelWait
  <2>2. \/ \E where \in {"checking", "pausing"} : Stay(t, where)
        \/ \E how \in {"not_run", "not_acquired", "cancelled"} : Finish(t, how)
    BY <1>3 DEF Refused, CheckWait, CancelWait
  <2>3. CASE \E where \in {"checking", "pausing"} : Stay(t, where)
    BY <2>1, <2>3 DEF Stay, Goto, vars
  <2>4. CASE \E how \in {"not_run", "not_acquired", "cancelled"} : Finish(t, how)
    BY <2>1, <2>4 DEF Finish, Goto, vars
  <2>5. QED
    BY <2>2, <2>3, <2>4
<1>4. ASSUME NEW t \in Mutexes, Acquire(t)
      PROVE  Bookkeeping'
  <2>1. /\ pc[t] = "trying" /\ pc' = [pc EXCEPT ![t] = "action"]
        /\ entry'.owner = t /\ UNCHANGED outcome
        /\ lockedOwner' = [lockedOwner EXCEPT ![t] = t]
        /\ intruded' = (intruded \ {t}) \cup Intrudes(t, t)
    BY <1>4 DEF Acquire, TryLock, Goto
  <2>2. \A u \in Intrudes(t, t) : u \in Mutexes /\ u # t /\ lockedOwner[u] = u
    BY DEF Intrudes
  <2>3. QED
    BY <2>1, <2>2
<1>5. ASSUME NEW t \in Mutexes, UnlockReturns(t)
      PROVE  Bookkeeping'
  <2>1. /\ pc[t] = "unlocking" /\ pc' = [pc EXCEPT ![t] = "done"]
        /\ outcome' = [outcome EXCEPT ![t] = actionErr[t]]
        /\ lockedOwner' = [lockedOwner EXCEPT ![t] = None]
        /\ entry'.owner = None /\ UNCHANGED intruded
        /\ entry.owner = UnlockOwner(t)
    BY <1>5 DEF UnlockReturns, UnlockReleases, UnlockAllowed, Finish, Goto, Absent
  <2>2. entry.owner = t
    BY <2>1 DEF UnlockOwner
  <2>3. t \notin intruded
    BY <2>2 DEF IntrudedLost
  <2>4. actionErr[t] # "pending"
    BY DEF Endings
  <2>5. QED
    BY <2>1, <2>3, <2>4
<1>6. ASSUME NEW t \in Mutexes, UnlockFails(t)
      PROVE  Bookkeeping'
  <2>1. /\ pc[t] = "unlocking" /\ pc' = [pc EXCEPT ![t] = "done"]
        /\ outcome' = [outcome EXCEPT ![t] = "unlock_failed"]
        /\ UNCHANGED <<lockedOwner, intruded>>
    BY <1>6 DEF UnlockFails, UnlockRaises, PurgeExpired, Finish, Goto, vars
  <2>2. entry' = entry \/ entry'.owner = None
    BY <1>6 DEF UnlockFails, UnlockRaises, PurgeExpired, Absent, vars
  <2>3. entry'.owner # t
    <3>1. lockedOwner[t] = t /\ UnlockOwner(t) = t /\ t # None
      BY <2>1 DEF UnlockOwner
    <3>2. CASE PurgeExpired
      BY <3>1, <3>2 DEF PurgeExpired, Absent
    <3>3. CASE ~(Existing /\ Expired) /\ UNCHANGED vars
      BY <1>6, <3>1, <3>3 DEF UnlockFails, UnlockRaises, UnlockAllowed, Live, Existing, vars
    <3>4. QED
      BY <1>6, <3>2, <3>3 DEF UnlockFails, UnlockRaises
  <2>4. QED
    BY <2>1, <2>2, <2>3
<1>7. QED
  BY <1>1, <1>2, <1>3, <1>4, <1>5, <1>6, KitStepCases

KitInv == CallsTypeOK /\ Bookkeeping

(* The inductive invariant of the calls: position in the code, mutex state *)
(* and table agree.                                                        *)
THEOREM KitInductive == KitSafetySpec => []KitInv
<1>1. KitInit => CallsTypeOK /\ Bookkeeping
  BY NoIdentities, TimeAssumption
     DEF KitInit, Init, CallsTypeOK, Bookkeeping, Endings, Outcomes, Absent
<1>2. TypeOK /\ IntrudedLost /\ CallsTypeOK /\ Bookkeeping /\ [KitNext]_allVars
        => CallsTypeOK' /\ Bookkeeping'
  BY CallsTypeStep, BookkeepingStep
<1>3. IInv => TypeOK /\ IntrudedLost
  BY DEF IInv
<1>4. QED
  BY <1>1, <1>2, <1>3, KitUsesMutexes, MemoryInductive, PTL DEF KitSafetySpec, KitInv

(* Calls, mutexes and table stay well formed together. *)
THEOREM KitType == KitSafetySpec => []KitTypeOK
<1>1. TypeOK /\ KitInv => KitTypeOK
  BY Zenon DEF KitInv, CallsTypeOK, Bookkeeping, KitTypeOK
<1>2. QED
  BY <1>1, KitUsesMutexes, MemoryType, KitInductive, PTL

(* A call that ends as its action did had the lock to itself all the time. *)
THEOREM KitCleanCallWasAlone == KitSafetySpec => []CleanCallWasAlone
<1>1. KitInv => CleanCallWasAlone
  <2> SUFFICES ASSUME KitInv, NEW t \in Mutexes, t \in intruded
               PROVE  outcome[t] \in {"pending", "unlock_failed"}
    BY DEF CleanCallWasAlone
  <2>1. lockedOwner[t] = t
    BY DEF KitInv, Bookkeeping
  <2>2. CASE outcome[t] = "unlock_failed"
    BY <2>2
  <2>3. CASE pc[t] \in {"action", "unlocking"}
    BY <2>3 DEF KitInv, Bookkeeping
  <2>4. QED
    BY <2>1, <2>2, <2>3 DEF KitInv, Bookkeeping
<1>2. QED
  BY <1>1, KitInductive, PTL

(* However a call ends, the table does not name it afterwards. *)
THEOREM KitNoLockLeftBehind == KitSafetySpec => []NoLockLeftBehind
<1>1. KitInv => NoLockLeftBehind
  BY DEF KitInv, Bookkeeping, NoLockLeftBehind
<1>2. QED
  BY <1>1, KitInductive, PTL
(* A waiter never sleeps past the wait it was given. *)
THEOREM KitNoOversleep == KitSafetySpec => []NoOversleep
<1>1. KitInit => NoOversleep
  BY DEF KitInit, NoOversleep
<1>2. TypeOK /\ CallsTypeOK /\ NoOversleep /\ [KitNext]_allVars => NoOversleep'
  <2> SUFFICES ASSUME TypeOK, CallsTypeOK, NoOversleep, [KitNext]_allVars
               PROVE  NoOversleep'
    OBVIOUS
  <2> USE DEF CallsTypeOK, NoOversleep
  <2>0. now \in Nat /\ DefaultTtl \in Nat /\ Spin \in Nat
    BY TimeAssumption, KitAssumption DEF TypeOK
  <2>1. CASE KitTick \/ UNCHANGED allVars
    BY <2>0, <2>1 DEF KitTick, Tick, allVars, vars, kitVars
  <2>2. ASSUME NEW t \in Mutexes, Pause(t)
        PROVE  NoOversleep'
    <3>1. start[t] \in Nat
      BY TimeAssumption
    <3>2. now + SleepFor(t) <= now \/ now + SleepFor(t) <= start[t] + DefaultTtl
      BY <2>0, <3>1 DEF SleepFor, AtMost
    <3>3. QED
      BY <2>2, <3>2 DEF Pause, Goto, vars
  <2>3. ASSUME NEW t \in Mutexes,
               \/ Call(t) \/ Acquire(t) \/ Refused(t) \/ CheckWait(t) \/ Wake(t)
               \/ CancelWait(t) \/ ActionEnds(t) \/ UnlockReturns(t) \/ UnlockFails(t)
        PROVE  NoOversleep'
    <3>1. /\ now' = now
          /\ pc'[t] # "sleeping"
          /\ \A u \in Mutexes \ {t} :
                pc'[u] = pc[u] /\ wake'[u] = wake[u] /\ start'[u] = start[u]
      <4>1. CASE Call(t) \/ Wake(t) \/ ActionEnds(t)
        BY <4>1 DEF Call, Wake, ActionEnds, Goto, locals, vars
      <4>2. CASE Acquire(t)
        BY <4>2 DEF Acquire, TryLock, Goto, LeaveLock
      <4>3. CASE Refused(t) \/ CheckWait(t) \/ CancelWait(t)
        BY <4>3 DEF Refused, CheckWait, CancelWait, Stay, Finish, Goto, LeaveLock,
                    locals, vars
      <4>4. CASE UnlockReturns(t) \/ UnlockFails(t)
        BY <4>4 DEF UnlockReturns, UnlockFails, UnlockReleases, UnlockRaises,
                    PurgeExpired, Finish, Goto, LeaveLock, vars
      <4>5. QED
        BY <2>3, <4>1, <4>2, <4>3, <4>4
    <3>2. QED
      BY <3>1
  <2>4. QED
    BY <2>1, <2>2, <2>3, KitStepCases
<1>3. KitInv => CallsTypeOK
  BY DEF KitInv
<1>4. QED
  BY <1>1, <1>2, <1>3, KitUsesMutexes, MemoryType, KitInductive, PTL DEF KitSafetySpec
=============================================================================
