------------------------ MODULE MongoRepositoryProofs ------------------------
(***************************************************************************)
(* Proofs about MongoRepository, for any callers, tenants and times.  The  *)
(* lock works because the stamp of a call in flight is nobody else's, and  *)
(* a version that was written over is never the document's again.          *)
(***************************************************************************)
EXTENDS MongoRepository, TLAPS

LEMMA RepositoryTypeInit == Init => TypeOK
  <1>. SUFFICES ASSUME Init PROVE TypeOK
    OBVIOUS
  <1>1. now \in 1..MaxTime
    BY TimeAssumption DEF Init
  <1>2. obj \in [Callers -> Entity \cup {None}] /\ doc \in Entity \cup {None}
    BY DEF Init
  <1>3. lock \in [Callers -> Stamps]
    BY TimeAssumption DEF Init, Stamps
  <1>4. ASSUME NEW c \in Callers PROVE CallOK(c)
    BY DEF Init, CallOK
  <1>. QED
    BY <1>1, <1>2, <1>3, <1>4 DEF Init, TypeOK

LEMMA EndType ==
    ASSUME TypeOK, NEW c \in Callers, doc' \in Entity \cup {None},
           doc' # None => doc'.at \in taken, stale' \in [Callers -> BOOLEAN],
           Returns(c) \/ Raises(c)
    PROVE  TypeOK'
  <1>1. \E b \in BOOLEAN : retry' = [retry EXCEPT ![c] = b]
    BY DEF Returns, Raises
  <1>2. /\ pc' = [pc EXCEPT ![c] = "idle"]
        /\ lock' = [lock EXCEPT ![c] = 0]
        /\ UNCHANGED <<now, obj, taken, hasty>>
    BY DEF Returns, Raises
  <1>3. lock' \in [Callers -> Stamps] /\ retry' \in [Callers -> BOOLEAN]
    BY <1>1, <1>2, TimeAssumption DEF TypeOK, Stamps
  <1>4. ASSUME NEW d \in Callers PROVE CallOK(d)'
    BY <1>2 DEF TypeOK, CallOK
  <1>. QED
    BY <1>2, <1>3, <1>4 DEF TypeOK

LEMMA CreatesType ==
    ASSUME TypeOK, NEW c \in Callers, NEW command \in {"insert", "fresh"},
           pc[c] = "idle", obj[c] # None, Creates(c, command)
    PROVE  TypeOK'
  <1>. DEFINE v == [obj[c] EXCEPT !.tenant = TenantOf[c], !.at = now, !.created = TRUE]
  <1>1. now \in Stamps /\ now \in 1..MaxTime
    BY DEF TypeOK, Stamps
  <1>2. /\ v \in Entity /\ v # None
        /\ v.at = now /\ v.created = TRUE /\ v.tenant = TenantOf[c]
    BY <1>1, CallerAssumption, NoneAssumption DEF TypeOK, Entity
  <1>3. obj' = [obj EXCEPT ![c] = v]
    BY <1>1 DEF TypeOK, Creates, Entity
  <1>4. pc' = [pc EXCEPT ![c] = command] /\ UNCHANGED <<now, doc, lock, stale, retry>>
    BY DEF Creates
  <1>5. now \in taken' /\ taken \subseteq taken' /\ taken' \subseteq 1..now /\ hasty' \in BOOLEAN
    BY <1>1, SMT DEF TypeOK, Creates, Stamp
  <1>. HIDE DEF v
  <1>6. ASSUME NEW d \in Callers PROVE CallOK(d)'
    BY <1>2, <1>3, <1>4, <1>5 DEF TypeOK, CallOK
  <1>7. obj' \in [Callers -> Entity \cup {None}]
    BY <1>2, <1>3 DEF TypeOK
  <1>. QED
    BY <1>4, <1>5, <1>6, <1>7 DEF TypeOK

LEMMA UpdatesType ==
    ASSUME TypeOK, NEW c \in Callers, NEW command \in {"replace", "upsert", "patch"},
           NEW o \in Entity, o.at = obj[c].at,
           pc[c] = "idle", obj[c] # None, Updates(c, command, o)
    PROVE  TypeOK'
  <1>. DEFINE v == [o EXCEPT !.at = now]
  <1>1. now \in Stamps /\ now \in 1..MaxTime
    BY DEF TypeOK, Stamps
  <1>2. v \in Entity /\ v # None /\ v.at = now
    BY <1>1, NoneAssumption DEF Entity
  <1>3. obj' = [obj EXCEPT ![c] = v]
    BY DEF Updates
  <1>4. /\ pc' = [pc EXCEPT ![c] = command] /\ lock' = [lock EXCEPT ![c] = o.at]
        /\ UNCHANGED <<now, doc, stale, retry>>
    BY DEF Updates
  <1>5. now \in taken' /\ taken \subseteq taken' /\ taken' \subseteq 1..now /\ hasty' \in BOOLEAN
    BY <1>1, SMT DEF TypeOK, Updates, Stamp
  <1>6. o.at \in Stamps /\ (o.at # 0 => o.at \in taken)
    BY DEF TypeOK, CallOK, Entity
  <1>. HIDE DEF v
  <1>7. ASSUME NEW d \in Callers PROVE CallOK(d)'
    BY <1>2, <1>3, <1>4, <1>5, <1>6 DEF TypeOK, CallOK
  <1>8. obj' \in [Callers -> Entity \cup {None}] /\ lock' \in [Callers -> Stamps]
    BY <1>2, <1>3, <1>4, <1>6 DEF TypeOK
  <1>. QED
    BY <1>4, <1>5, <1>7, <1>8 DEF TypeOK

\* The audit of an update keeps the stamp of what is written.
LEMMA CallCases ==
    ASSUME TypeOK, NEW c \in Callers, Call(c)
    PROVE  /\ pc[c] = "idle" /\ obj[c] # None /\ obj[c] \in Entity
           /\ \/ \E command \in {"insert", "fresh"} : Creates(c, command)
              \/ \E command \in {"replace", "upsert", "patch"} :
                    \E o \in Entity : o.at = obj[c].at /\ Updates(c, command, o)
              \/ Deletes(c)
  <1>1. pc[c] = "idle" /\ obj[c] # None /\ obj[c] \in Entity
    BY DEF Call, TypeOK
  <1>2. /\ [obj[c] EXCEPT !.deleted = TRUE] \in Entity
        /\ [obj[c] EXCEPT !.deleted = TRUE].at = obj[c].at
    BY <1>1 DEF Entity
  <1>. QED
    BY <1>1, <1>2, Zenon DEF Call

LEMMA CallType ==
    ASSUME TypeOK, NEW c \in Callers, Call(c)
    PROVE  TypeOK'
  <1>1. CASE Deletes(c)
    <2>. DEFINE v == [obj[c] EXCEPT !.deleted = TRUE]
    <2>1. v \in Entity /\ v # None /\ v.at = obj[c].at
      BY CallCases, NoneAssumption DEF Entity
    <2>2. obj' = [obj EXCEPT ![c] = v] /\ pc' = [pc EXCEPT ![c] = "remove"]
      BY <1>1 DEF Deletes
    <2>3. UNCHANGED <<now, doc, lock, stale, retry, taken, hasty>>
      BY <1>1 DEF Deletes
    <2>. HIDE DEF v
    <2>4. ASSUME NEW d \in Callers PROVE CallOK(d)'
      BY <2>1, <2>2, <2>3, CallCases DEF TypeOK, CallOK
    <2>. QED
      BY <2>1, <2>2, <2>3, <2>4 DEF TypeOK
  <1>. QED
    BY <1>1, CallCases, CreatesType, UpdatesType

LEMMA PatchedType ==
    ASSUME TypeOK, NEW c \in Callers, pc[c] = "patch", doc # None,
           NEW t \in obj[c].at..now
    PROVE  /\ t \in 1..now /\ t \in Stamps
           /\ Patched(c, t) \in Entity /\ Patched(c, t).at = t
           /\ doc.deleted => Patched(c, t).deleted
  <1>1. /\ obj[c] \in Entity /\ doc \in Entity
        /\ obj[c].at \in taken /\ taken \subseteq 1..now /\ now \in 1..MaxTime
    BY DEF TypeOK, CallOK
  <1>2. obj[c].at \in 1..now
    BY <1>1
  <1>3. t \in 1..now /\ t \in Stamps
    BY <1>1, <1>2, TimeAssumption DEF Stamps
  <1>. QED
    BY <1>1, <1>3 DEF Patched, Entity

LEMMA PatchType ==
    ASSUME TypeOK, NEW c \in Callers, Patch(c)
    PROVE  TypeOK'
  <1>1. PICK t \in obj[c].at..now :
          /\ Write(c, Patched(c, t))
          /\ taken' = taken \cup {t}
          /\ hasty' = (hasty \/ (t # obj[c].at /\ t \in taken))
          /\ retry' = [retry EXCEPT ![c] = TRUE]
    BY DEF Patch
  <1>2. pc[c] = "patch" /\ doc # None
    BY DEF Patch, Matches, Visible
  <1>3. /\ t \in 1..now /\ t \in Stamps
        /\ Patched(c, t) \in Entity /\ Patched(c, t).at = t
    BY <1>2, PatchedType
  <1>4. /\ pc' = [pc EXCEPT ![c] = "idle"] /\ lock' = [lock EXCEPT ![c] = 0]
        /\ UNCHANGED <<now, obj>>
    BY DEF Patch
  <1>5. doc' \in Entity /\ doc'.at \in taken' /\ stale' \in [Callers -> BOOLEAN]
    BY <1>1, <1>3 DEF Write
  <1>6. lock' \in [Callers -> Stamps] /\ retry' \in [Callers -> BOOLEAN] /\ hasty' \in BOOLEAN
    BY <1>1, <1>4, TimeAssumption DEF TypeOK, Stamps
  <1>7. ASSUME NEW d \in Callers PROVE CallOK(d)'
    BY <1>1, <1>4 DEF TypeOK, CallOK
  <1>8. taken' \subseteq 1..now
    BY <1>1, <1>3 DEF TypeOK
  <1>. QED
    BY <1>4, <1>5, <1>6, <1>7, <1>8 DEF TypeOK

LEMMA CommandType ==
    ASSUME TypeOK, NEW c \in Callers, Command(c)
    PROVE  TypeOK'
  <1>1. CASE Insert(c) \/ Replace(c) \/ Remove(c)
    <2>1. Returns(c) \/ Raises(c)
      BY <1>1 DEF Insert, Replace, Remove
    <2>2. /\ doc' = obj[c] \/ doc' = None
          /\ doc' # None => pc[c] \notin {"idle", "remove"}
          /\ stale' \in [Callers -> BOOLEAN]
      BY <1>1 DEF Insert, Replace, Remove, Write
    <2>. QED
      BY <2>1, <2>2, EndType DEF TypeOK, CallOK
  <1>2. CASE /\ UNCHANGED <<doc, stale>>
             /\ Raises(c)
    BY <1>2, EndType DEF TypeOK
  <1>3. CASE Missed(c) /\ pc[c] = "replace"
    <2>1. /\ pc' = [pc EXCEPT ![c] = "count"]
          /\ UNCHANGED <<now, doc, obj, lock, stale, retry, taken, hasty>>
      BY <1>3 DEF Missed
    <2>2. ASSUME NEW d \in Callers PROVE CallOK(d)'
      BY <1>3, <2>1 DEF TypeOK, CallOK
    <2>. QED
      BY <2>1, <2>2 DEF TypeOK
  <1>4. CASE Patch(c)
    BY <1>4, PatchType
  <1>. QED
    BY <1>1, <1>2, <1>3, <1>4
    DEF Command, Duplicate, Unmodified, Missed, Conflict, NotFound, Fails

\* What a write by a filter leaves of the document, and its stamp.
LEMMA FilterCases ==
    ASSUME TypeOK, NEW c \in Callers, ByFilter(c)
    PROVE  /\ WriteByFilter(doc') /\ doc # None
           /\ \/ doc' \in Entity /\ UNCHANGED <<taken, hasty>>
                 /\ doc'.at = doc.at /\ doc'.deleted
              \/ doc' = None /\ UNCHANGED <<taken, hasty>>
              \/ \E t \in 1..now : Stamp(t) /\ doc' \in Entity /\ doc'.at = t
                                   /\ doc'.deleted = doc.deleted
           /\ doc # None /\ doc' # None => doc'.tenant = doc.tenant
  <1>1. doc # None /\ doc \in Entity
    BY DEF ByFilter, PatchRaw, BatchDelete, BatchRemove, Visible, TypeOK
  <1>2. ASSUME NEW skip \in BOOLEAN, PatchRaw(c, skip)
        PROVE  \E t \in 1..now : Stamp(t) /\ WriteByFilter(doc')
                                /\ doc' = [doc EXCEPT !.at = t]
    BY <1>2 DEF PatchRaw, WriteByFilter
  <1>5. CASE \E skip \in BOOLEAN : PatchRaw(c, skip)
    <2>1. PICK t \in 1..now : Stamp(t) /\ WriteByFilter(doc') /\ doc' = [doc EXCEPT !.at = t]
      BY <1>2, <1>5
    <2>2. t \in Stamps
      BY TimeAssumption DEF TypeOK, Stamps
    <2>. QED
      BY <1>1, <2>1, <2>2 DEF WriteByFilter, Entity
  <1>3. CASE BatchDelete(c)
    BY <1>1, <1>3 DEF BatchDelete, WriteByFilter, Entity
  <1>4. CASE BatchRemove(c)
    BY <1>1, <1>4 DEF BatchRemove, WriteByFilter
  <1>. QED
    BY <1>3, <1>4, <1>5 DEF ByFilter

LEMMA FilterType ==
    ASSUME TypeOK, NEW c \in Callers, ByFilter(c)
    PROVE  TypeOK'
  <1>1. /\ UNCHANGED <<now, obj, pc, lock, retry>>
        /\ stale' \in [Callers -> BOOLEAN]
    BY FilterCases DEF WriteByFilter
  <1>2. doc # None /\ doc.at \in taken
    BY FilterCases DEF TypeOK
  <1>3. /\ doc' \in Entity \cup {None} /\ (doc' # None => doc'.at \in taken')
        /\ taken \subseteq taken' /\ taken' \subseteq 1..now /\ hasty' \in BOOLEAN
    <2>1. CASE \E t \in 1..now : Stamp(t) /\ doc' \in Entity /\ doc'.at = t
      BY <2>1 DEF TypeOK, Stamp
    <2>2. CASE doc' \in Entity /\ UNCHANGED <<taken, hasty>> /\ doc'.at = doc.at
      BY <1>2, <2>2 DEF TypeOK
    <2>3. CASE doc' = None /\ UNCHANGED <<taken, hasty>>
      BY <2>3 DEF TypeOK
    <2>. QED
      BY <2>1, <2>2, <2>3, FilterCases
  <1>4. ASSUME NEW d \in Callers PROVE CallOK(d)'
    BY <1>1, <1>3 DEF TypeOK, CallOK
  <1>. QED
    BY <1>1, <1>3, <1>4 DEF TypeOK

LEMMA RepositoryTypeStep == TypeOK /\ [Next]_vars => TypeOK'
  <1>. SUFFICES ASSUME TypeOK, [Next]_vars PROVE TypeOK'
    OBVIOUS
  <1>1. CASE Tick
    <2>1. now' \in 1..MaxTime /\ taken' \subseteq 1..now'
      BY <1>1, TimeAssumption DEF Tick, TypeOK
    <2>2. ASSUME NEW d \in Callers PROVE CallOK(d)'
      BY <1>1 DEF Tick, TypeOK, CallOK
    <2>. QED
      BY <1>1, <2>1, <2>2 DEF Tick, TypeOK
  <1>2. CASE UNCHANGED vars
    <2>1. ASSUME NEW d \in Callers PROVE CallOK(d)'
      BY <1>2 DEF vars, TypeOK, CallOK
    <2>. QED
      BY <1>2, <2>1 DEF vars, TypeOK
  <1>3. ASSUME NEW c \in Callers, New(c) \/ Get(c)
        PROVE  TypeOK'
    <2>1. /\ pc[c] = "idle"
          /\ \E v \in Entity : /\ obj' = [obj EXCEPT ![c] = v]
                               /\ v.at # 0 => v.at \in taken
          /\ stale' = [stale EXCEPT ![c] = FALSE]
          /\ retry' = [retry EXCEPT ![c] = FALSE]
          /\ UNCHANGED <<now, doc, pc, lock, taken, hasty>>
      <3>1. CASE New(c)
        <4>. DEFINE v == [tenant |-> None, at |-> 0, created |-> FALSE, deleted |-> FALSE]
        <4>1. v \in Entity /\ v.at = 0
          BY TimeAssumption DEF Entity, Stamps
        <4>. QED
          BY <3>1, <4>1 DEF New
      <3>2. CASE Get(c)
        <4>1. doc \in Entity /\ doc.at \in taken
          BY <3>2 DEF Get, Visible, TypeOK
        <4>. QED
          BY <3>2, <4>1 DEF Get
      <3>. QED
        BY <1>3, <3>1, <3>2
    <2>2. ASSUME NEW d \in Callers PROVE CallOK(d)'
      BY <2>1 DEF TypeOK, CallOK
    <2>. QED
      BY <2>1, <2>2 DEF TypeOK
  <1>. QED
    BY <1>1, <1>2, <1>3, CallType, CommandType, FilterType, Zenon DEF Next

\* The state of MongoRepository stays well-formed: each call in flight has an
\* object with a stamp, and each lock is a stamp that was taken
\* (repository.py:247-275,399-412).
THEOREM RepositoryType == Spec => []TypeOK
  <1>. QED
    BY RepositoryTypeInit, RepositoryTypeStep, PTL DEF Spec

-----------------------------------------------------------------------------
\* Nobody else has the stamp of a call in flight.
OwnStamp(c) ==
    Sent(c) => /\ doc # None => doc.at # obj[c].at
               /\ lock[c] < obj[c].at
               /\ \A d \in Callers : lock[d] # obj[c].at
               /\ \A d \in Callers \ {c} : obj[d] # None => obj[d].at # obj[c].at

\* A version is left for good once the document is written.
Outdated(c) ==
    stale[c] /\ obj[c] # None /\ Version(c) # 0 /\ doc # None
        => doc.deleted \/ doc.at # Version(c)

\* Until then, and unless a call failed, it is the document's.
Current(c) ==
    ~stale[c] /\ ~retry[c] /\ obj[c] # None /\ Version(c) # 0 /\ doc # None
        => doc.at = Version(c)

\* What the count finds is not what the update did not find.
Counted(c) == pc[c] = "count" /\ ~stale[c] => ~Matches(c)

Versions == \A c \in Callers : OwnStamp(c) /\ Outdated(c) /\ Current(c) /\ Counted(c)

RepositoryInv == TypeOK /\ (hasty \/ Versions)

LEMMA StampFacts ==
    ASSUME TypeOK, NEW c \in Callers
    PROVE  /\ 0 \notin taken /\ taken \subseteq Nat /\ lock[c] \in Nat
           /\ lock[c] # 0 => Sent(c) /\ lock[c] \in taken
           /\ Sent(c) => obj[c] # None /\ obj[c].at \in taken
           /\ obj[c] # None => /\ obj[c] \in Entity /\ obj[c].at \in Nat
                               /\ obj[c].at # 0 => obj[c].at \in taken
           /\ doc # None => doc.at \in taken
  <1>1. 0 \notin taken /\ taken \subseteq Nat
    BY TimeAssumption DEF TypeOK
  <1>2. Stamps \subseteq Nat
    BY TimeAssumption DEF Stamps
  <1>3. obj[c] # None => obj[c] \in Entity /\ obj[c].at \in Nat
    BY <1>2 DEF TypeOK, Entity
  <1>. QED
    BY <1>1, <1>2, <1>3 DEF TypeOK, CallOK, Sent

\* An object is replaced by one of the caller's own code, or by the document.
LEMMA ReadVersions ==
    ASSUME TypeOK, Versions, NEW c \in Callers, New(c) \/ Get(c)
    PROVE  Versions'
  <1>1. /\ pc[c] = "idle" /\ stale' = [stale EXCEPT ![c] = FALSE]
        /\ UNCHANGED <<doc, pc, lock>>
        /\ \A d \in Callers \ {c} : obj'[d] = obj[d] /\ retry'[d] = retry[d]
        /\ obj'[c].at = 0 \/ (doc # None /\ obj'[c] = doc)
    <2>1. CASE New(c)
      <3>. DEFINE v == [tenant |-> None, at |-> 0, created |-> FALSE, deleted |-> FALSE]
      <3>1. obj' = [obj EXCEPT ![c] = v] /\ v.at = 0
        BY <2>1 DEF New
      <3>. HIDE DEF v
      <3>2. obj'[c].at = 0 /\ \A d \in Callers \ {c} : obj'[d] = obj[d]
        BY <3>1 DEF TypeOK
      <3>. QED
        BY <2>1, <3>2 DEF New, TypeOK
    <2>2. CASE Get(c)
      BY <2>2 DEF Get, Visible, TypeOK
    <2>. QED
      BY <2>1, <2>2
  <1>. SUFFICES ASSUME NEW d \in Callers
                PROVE  (OwnStamp(d) /\ Outdated(d) /\ Current(d) /\ Counted(d))'
    BY DEF Versions
  <1>2. stale' \in [Callers -> BOOLEAN] /\ stale'[c] = FALSE
        /\ \A e \in Callers \ {c} : stale'[e] = stale[e]
    BY <1>1 DEF TypeOK
  <1>3. OwnStamp(d)'
    BY <1>1, StampFacts DEF OwnStamp, Versions, Sent
  <1>4. Outdated(d)'
    BY <1>1, <1>2 DEF Outdated, Versions, Version, Sent
  <1>5. Current(d)'
    BY <1>1, <1>2 DEF Current, Versions, Version, Sent
  <1>6. Counted(d)'
    BY <1>1, <1>2 DEF Counted, Versions, Matches, Visible
  <1>. QED
    BY <1>3, <1>4, <1>5, <1>6

LEMMA CreatesVersions ==
    ASSUME TypeOK, Versions, NEW c \in Callers, NEW command \in {"insert", "fresh"},
           pc[c] = "idle", obj[c] \in Entity, Creates(c, command), ~hasty'
    PROVE  Versions'
  <1>1. /\ UNCHANGED <<doc, lock, stale, retry>> /\ now \notin taken
        /\ pc' = [pc EXCEPT ![c] = command]
        /\ \A d \in Callers \ {c} : obj'[d] = obj[d]
        /\ obj'[c].at = now
    BY DEF Creates, Stamp, TypeOK, Entity
  <1>2. lock[c] = 0 /\ now \in Nat \ {0}
    BY TimeAssumption, StampFacts DEF TypeOK, Sent
  <1>. SUFFICES ASSUME NEW d \in Callers
                PROVE  (OwnStamp(d) /\ Outdated(d) /\ Current(d) /\ Counted(d))'
    BY DEF Versions
  <1>3. OwnStamp(d)'
    BY <1>1, <1>2, StampFacts DEF OwnStamp, Versions, Sent, TypeOK
  <1>4. Outdated(d)' /\ Current(d)'
    BY <1>1, <1>2 DEF Outdated, Current, Versions, Version, Sent, TypeOK
  <1>5. Counted(d)'
    BY <1>1, <1>2 DEF Counted, Versions, Matches, Visible, TypeOK
  <1>. QED
    BY <1>3, <1>4, <1>5

LEMMA UpdatesVersions ==
    ASSUME TypeOK, Versions, NEW c \in Callers, NEW command \in {"replace", "upsert", "patch"},
           NEW o \in Entity, o.at = obj[c].at, obj[c] # None,
           pc[c] = "idle", Updates(c, command, o), ~hasty'
    PROVE  Versions'
  <1>1. /\ UNCHANGED <<doc, stale, retry>> /\ now \notin taken
        /\ pc' = [pc EXCEPT ![c] = command]
        /\ \A d \in Callers \ {c} : obj'[d] = obj[d] /\ lock'[d] = lock[d]
        /\ obj'[c].at = now /\ lock'[c] = obj[c].at
    BY DEF Updates, Stamp, TypeOK, Entity
  <1>2. now \in Nat \ {0} /\ obj[c].at < now /\ obj[c].at # now
    <2>1. obj[c].at \in Nat /\ (obj[c].at # 0 => obj[c].at \in taken)
      BY StampFacts
    <2>2. now \in Nat \ {0} /\ taken \subseteq 1..now
      BY TimeAssumption DEF TypeOK
    <2>. QED
      BY <1>1, <2>1, <2>2
  <1>. SUFFICES ASSUME NEW d \in Callers
                PROVE  (OwnStamp(d) /\ Outdated(d) /\ Current(d) /\ Counted(d))'
    BY DEF Versions
  <1>3. OwnStamp(d)'
    BY <1>1, <1>2, StampFacts DEF OwnStamp, Versions, Sent, TypeOK
  <1>4. Outdated(d)' /\ Current(d)'
    BY <1>1, <1>2 DEF Outdated, Current, Versions, Version, Sent, TypeOK
  <1>5. Counted(d)'
    BY <1>1, <1>2 DEF Counted, Versions, Matches, Visible, TypeOK
  <1>. QED
    BY <1>3, <1>4, <1>5

LEMMA CallVersions ==
    ASSUME TypeOK, Versions, NEW c \in Callers, Call(c), ~hasty'
    PROVE  Versions'
  <1>1. CASE Deletes(c)
    <2>1. /\ pc[c] = "idle" /\ pc' = [pc EXCEPT ![c] = "remove"]
          /\ UNCHANGED <<doc, lock, stale, retry>>
          /\ obj'[c].at = obj[c].at /\ obj[c] # None
          /\ \A d \in Callers \ {c} : obj'[d] = obj[d]
      BY <1>1, CallCases DEF Deletes, TypeOK, Entity
    <2>. SUFFICES ASSUME NEW d \in Callers
                  PROVE  (OwnStamp(d) /\ Outdated(d) /\ Current(d) /\ Counted(d))'
      BY DEF Versions
    <2>2. OwnStamp(d)'
      BY <2>1 DEF OwnStamp, Versions, Sent, TypeOK
    <2>3. Outdated(d)' /\ Current(d)'
      BY <2>1 DEF Outdated, Current, Versions, Version, Sent, TypeOK
    <2>4. Counted(d)'
      BY <2>1 DEF Counted, Versions, Matches, Visible, TypeOK
    <2>. QED
      BY <2>2, <2>3, <2>4
  <1>. QED
    BY <1>1, CallCases, CreatesVersions, UpdatesVersions

\* A call ends with an error and has written nothing.
LEMMA RaisesVersions ==
    ASSUME TypeOK, Versions, NEW c \in Callers, Raises(c), UNCHANGED <<doc, stale>>
    PROVE  Versions'
  <1>1. /\ pc' = [pc EXCEPT ![c] = "idle"] /\ lock' = [lock EXCEPT ![c] = 0]
        /\ retry' = [retry EXCEPT ![c] = TRUE]
        /\ UNCHANGED <<doc, obj, stale>>
    BY DEF Raises
  <1>. SUFFICES ASSUME NEW d \in Callers
                PROVE  (OwnStamp(d) /\ Outdated(d) /\ Current(d) /\ Counted(d))'
    BY DEF Versions
  <1>2. OwnStamp(d)'
    BY <1>1, StampFacts DEF OwnStamp, Versions, Sent, TypeOK
  <1>3. Outdated(d)'
    BY <1>1 DEF Outdated, OwnStamp, Versions, Version, Sent, TypeOK
  <1>4. Current(d)' /\ Counted(d)'
    BY <1>1 DEF Current, Counted, Versions, Version, Sent, Matches, Visible, TypeOK
  <1>. QED
    BY <1>2, <1>3, <1>4

\* A call writes a document with a stamp that nobody else has, or none, and
\* ends: a retry of the caller's may follow unless the stamp is the object's.
LEMMA WriteVersions ==
    ASSUME TypeOK, Versions, NEW c \in Callers, UNCHANGED obj, obj[c] # None,
           pc' = [pc EXCEPT ![c] = "idle"], lock' = [lock EXCEPT ![c] = 0],
           stale' = [x \in Callers |-> x # c /\ obj[x] # None],
           \A d \in Callers \ {c} : retry'[d] = retry[d],
           doc' # None => /\ \A d \in Callers :
                                obj[d] # None /\ Version(d) # 0 => doc'.at # Version(d)
                          /\ \A d \in Callers \ {c} : Sent(d) => doc'.at # obj[d].at
                          /\ retry'[c] \/ doc'.at = obj[c].at
    PROVE  Versions'
  <1>. SUFFICES ASSUME NEW d \in Callers
                PROVE  (OwnStamp(d) /\ Outdated(d) /\ Current(d) /\ Counted(d))'
    BY DEF Versions
  <1>1. /\ ~Sent(c)' /\ stale'[c] = FALSE
        /\ d # c => /\ Sent(d)' = Sent(d) /\ Version(d)' = Version(d)
                    /\ stale'[d] = (obj[d] # None) /\ pc'[d] = pc[d]
        /\ lock'[d] = 0 \/ lock'[d] = lock[d]
        /\ lock'[d] # lock[d] => d = c
    BY DEF Sent, Version, TypeOK
  <1>2. OwnStamp(d)'
    <2>1. CASE d = c
      BY <1>1, <2>1 DEF OwnStamp
    <2>2. CASE d # c
      BY <1>1, <2>2, StampFacts DEF OwnStamp, Versions, TypeOK, Sent
    <2>. QED
      BY <2>1, <2>2
  <1>3. Outdated(d)'
    BY <1>1 DEF Outdated
  <1>4. Current(d)'
    BY <1>1 DEF Current, Version
  <1>5. Counted(d)'
    BY <1>1, StampFacts DEF Counted, Sent, TypeOK
  <1>. QED
    BY <1>2, <1>3, <1>4, <1>5

LEMMA FilterVersions ==
    ASSUME TypeOK, Versions, NEW c \in Callers, ~hasty',
           ByFilter(c)
    PROVE  Versions'
  <1>1. /\ stale' = [x \in Callers |-> obj[x] # None]
        /\ UNCHANGED <<obj, pc, lock, retry>>
    BY FilterCases DEF WriteByFilter
  <1>2. doc # None /\ doc.at \in taken
    BY FilterCases DEF TypeOK
  <1>3. doc' # None => \/ doc'.at = doc.at /\ doc'.deleted
                       \/ doc'.at \notin taken /\ doc'.at # 0
    <2>1. ASSUME NEW t \in 1..now, Stamp(t) PROVE t \notin taken /\ t # 0
      <3>1. t \notin taken
        BY <2>1, Zenon DEF Stamp
      <3>2. t # 0
        BY DEF TypeOK
      <3>. QED
        BY <3>1, <3>2
    <2>. QED
      BY <2>1, FilterCases
  <1>. SUFFICES ASSUME NEW d \in Callers
                PROVE  (OwnStamp(d) /\ Outdated(d) /\ Current(d) /\ Counted(d))'
    BY DEF Versions
  <1>4. Sent(d)' = Sent(d) /\ Version(d)' = Version(d) /\ stale'[d] = (obj[d] # None)
    BY <1>1 DEF Sent, Version
  <1>5. obj[d] # None /\ Version(d) # 0 => Version(d) \in taken
    BY StampFacts DEF Version
  <1>6. OwnStamp(d)'
    BY <1>1, <1>2, <1>3, <1>4, StampFacts DEF OwnStamp, Versions
  <1>7. Outdated(d)'
    BY <1>1, <1>2, <1>3, <1>4, <1>5 DEF Outdated, Versions
  <1>8. Current(d)'
    BY <1>1, <1>4 DEF Current
  <1>9. Counted(d)'
    BY <1>1, <1>4, StampFacts DEF Counted, Sent
  <1>. QED
    BY <1>6, <1>7, <1>8, <1>9

\* What a call writes has a stamp that nobody else knows.
LEMMA WritesOwnStamp ==
    ASSUME TypeOK, Versions, NEW c \in Callers, ~hasty', doc' # None,
           Insert(c) \/ Replace(c) \/ Patch(c)
    PROVE  \A d \in Callers :
              /\ obj[d] # None /\ Version(d) # 0 => doc'.at # Version(d)
              /\ d # c /\ Sent(d) => doc'.at # obj[d].at
  <1>. SUFFICES ASSUME NEW d \in Callers
                PROVE  /\ obj[d] # None /\ Version(d) # 0 => doc'.at # Version(d)
                       /\ d # c /\ Sent(d) => doc'.at # obj[d].at
    OBVIOUS
  <1>1. Sent(c) /\ OwnStamp(c) /\ obj[c].at # 0
    <2>1. Sent(c)
      BY DEF Insert, Replace, Patch, Matches, Sent, TypeOK
    <2>. QED
      BY <2>1, StampFacts DEF Versions
  <1>2. lock[d] # obj[c].at /\ (d # c /\ obj[d] # None => obj[d].at # obj[c].at)
    BY <1>1 DEF OwnStamp
  <1>3. doc'.at = obj[c].at \/ doc'.at \notin taken
    <2>1. CASE Insert(c) \/ Replace(c)
      BY <2>1 DEF Insert, Replace, Write
    <2>2. CASE Patch(c)
      <3>1. PICK t \in obj[c].at..now :
               /\ Write(c, Patched(c, t))
               /\ hasty' = (hasty \/ (t # obj[c].at /\ t \in taken))
        BY <2>2 DEF Patch
      <3>2. t = obj[c].at \/ t \notin taken
        BY <3>1, Zenon
      <3>3. doc'.at = t
        BY <2>2, <3>1, PatchedType DEF Write, Patch, Matches, Visible
      <3>. QED
        BY <3>2, <3>3
    <2>. QED
      BY <2>1, <2>2
  <1>. QED
    BY <1>1, <1>2, <1>3, StampFacts DEF Version

LEMMA CommandVersions ==
    ASSUME TypeOK, Versions, NEW c \in Callers, Command(c), ~hasty'
    PROVE  Versions'
  <1>1. CASE Raises(c) /\ UNCHANGED <<doc, stale>>
    BY <1>1, RaisesVersions
  <1>2. CASE Insert(c) \/ Replace(c) \/ Remove(c)
    <2>1. /\ doc' = None \/ (doc' = obj[c] /\ Sent(c))
          /\ stale' = [x \in Callers |-> x # c /\ obj[x] # None]
          /\ Returns(c) \/ Raises(c)
          /\ pc[c] # "idle"
      BY <1>2 DEF Insert, Replace, Remove, Write, Sent
    <2>2. /\ UNCHANGED obj /\ pc' = [pc EXCEPT ![c] = "idle"]
          /\ lock' = [lock EXCEPT ![c] = 0]
          /\ \A d \in Callers \ {c} : retry'[d] = retry[d]
      BY <2>1 DEF Returns, Raises, TypeOK
    <2>3. obj[c] # None
      BY <2>1 DEF TypeOK, CallOK
    <2>4. ASSUME doc' # None, NEW d \in Callers
          PROVE  /\ obj[d] # None /\ Version(d) # 0 => doc'.at # Version(d)
                 /\ d # c /\ Sent(d) => doc'.at # obj[d].at
      BY <1>2, <2>4, WritesOwnStamp DEF Remove, Write
    <2>. QED
      BY <2>1, <2>2, <2>3, <2>4, WriteVersions
  <1>3. CASE Patch(c)
    <2>1. PICK t \in obj[c].at..now :
            /\ Write(c, Patched(c, t))
            /\ taken' = taken \cup {t}
            /\ hasty' = (hasty \/ (t # obj[c].at /\ t \in taken))
            /\ retry' = [retry EXCEPT ![c] = TRUE]
      BY <1>3 DEF Patch
    <2>2. /\ UNCHANGED obj /\ pc' = [pc EXCEPT ![c] = "idle"]
          /\ lock' = [lock EXCEPT ![c] = 0]
          /\ pc[c] = "patch" /\ doc # None
      BY <1>3 DEF Patch, Matches, Visible
    <2>3. doc'.at = t /\ stale' = [x \in Callers |-> x # c /\ obj[x] # None]
      BY <2>1, <2>2, PatchedType DEF Write
    <2>5. obj[c] # None
      BY <2>2 DEF TypeOK, CallOK
    <2>6. ASSUME doc' # None, NEW d \in Callers
          PROVE  /\ obj[d] # None /\ Version(d) # 0 => doc'.at # Version(d)
                 /\ d # c /\ Sent(d) => doc'.at # obj[d].at
      BY <1>3, <2>6, WritesOwnStamp
    <2>7. retry'[c] /\ \A d \in Callers \ {c} : retry'[d] = retry[d]
      BY <2>1 DEF TypeOK
    <2>. QED
      BY <2>2, <2>3, <2>5, <2>6, <2>7, WriteVersions
  <1>4. CASE Missed(c) /\ pc[c] = "replace"
    <2>1. /\ pc' = [pc EXCEPT ![c] = "count"] /\ ~Matches(c)
          /\ UNCHANGED <<doc, obj, lock, stale, retry>>
      BY <1>4 DEF Missed
    <2>. SUFFICES ASSUME NEW d \in Callers
                  PROVE  (OwnStamp(d) /\ Outdated(d) /\ Current(d) /\ Counted(d))'
      BY DEF Versions
    <2>2. \A e \in Callers : Sent(e)' = Sent(e)
      BY <1>4, <2>1 DEF Sent, TypeOK
    <2>3. OwnStamp(d)' /\ Outdated(d)' /\ Current(d)'
      BY <2>1, <2>2 DEF OwnStamp, Outdated, Current, Versions, Version
    <2>4. Counted(d)'
      BY <2>1 DEF Counted, Versions, Matches, Visible, TypeOK
    <2>. QED
      BY <2>3, <2>4
  <1>. QED
    BY <1>1, <1>2, <1>3, <1>4
    DEF Command, Duplicate, Unmodified, Missed, Conflict, NotFound, Fails

LEMMA RepositoryInvInit == Init => RepositoryInv
  <1>. SUFFICES ASSUME Init PROVE Versions
    BY RepositoryTypeInit DEF RepositoryInv
  <1>. QED
    BY DEF Init, Versions, OwnStamp, Outdated, Current, Counted, Sent

LEMMA RepositoryInvStep == RepositoryInv /\ [Next]_vars => RepositoryInv'
  <1>. SUFFICES ASSUME RepositoryInv, [Next]_vars, ~hasty' PROVE Versions'
    BY RepositoryTypeStep DEF RepositoryInv
  <1>1. CASE Tick \/ UNCHANGED vars
    BY <1>1 DEF RepositoryInv, Tick, vars, Versions, OwnStamp, Outdated, Current, Counted,
                Sent, Version, Matches, Visible
  <1>2. ASSUME NEW c \in Callers, New(c) \/ Get(c)
        PROVE  Versions'
    BY <1>2, ReadVersions DEF RepositoryInv, New, Get
  <1>3. ASSUME NEW c \in Callers, Call(c)
        PROVE  Versions'
    <2>1. ~hasty
      BY <1>3 DEF Call, Creates, Updates, Deletes, Stamp, RepositoryInv, TypeOK
    <2>. QED
      BY <1>3, <2>1, CallVersions DEF RepositoryInv
  <1>4. ASSUME NEW c \in Callers, Command(c)
        PROVE  Versions'
    <2>1. ~hasty
      BY <1>4, Zenon DEF Command, Insert, Duplicate, Replace, Unmodified, Missed, Conflict,
         NotFound, Patch, Remove, Fails, Raises, Returns
    <2>. QED
      BY <1>4, <2>1, CommandVersions DEF RepositoryInv
  <1>5. ASSUME NEW c \in Callers, ByFilter(c)
        PROVE  Versions'
    <2>1. ~hasty
      BY <1>5, Zenon DEF ByFilter, PatchRaw, BatchDelete, BatchRemove, Stamp
    <2>. QED
      BY <1>5, <2>1, FilterVersions DEF RepositoryInv
  <1>. QED
    BY <1>1, <1>2, <1>3, <1>4, <1>5, Zenon DEF Next

-----------------------------------------------------------------------------
\* No update takes effect over a write that its object has not seen, for any
\* number of callers, unless two stamps coincide (repository.py:405-412).
THEOREM RepositoryLock == Spec => OptimisticLock
  <1>1. ASSUME RepositoryInv, NEW c \in Callers \ Hard, Replace(c) \/ Patch(c),
               lock[c] # 0, stale[c]
        PROVE  hasty'
    <2>. SUFFICES ASSUME ~hasty PROVE FALSE
      <3>1. CASE Replace(c)
        BY <3>1 DEF Replace, Returns, Raises
      <3>2. CASE Patch(c)
        BY <3>2 DEF Patch
      <3>. QED
        BY <1>1, <3>1, <3>2
    <2>1. pc[c] \in {"replace", "upsert", "patch"}
      BY <1>1 DEF Replace, Patch, RepositoryInv, TypeOK, CallOK
    <2>2. doc # None /\ ~doc.deleted /\ doc.at = lock[c]
      BY <1>1, <2>1 DEF Replace, Patch, Matches, Visible
    <2>3. Outdated(c) /\ Sent(c) /\ obj[c] # None
      BY <2>1, <1>1 DEF RepositoryInv, Versions, Sent, TypeOK, CallOK
    <2>. QED
      BY <1>1, <2>2, <2>3 DEF Outdated, Version
  <1>2. RepositoryInv =>
          \A c \in Callers \ Hard :
             /\ Replace(c) \/ Patch(c)
             /\ lock[c] # 0 /\ stale[c]
             => hasty'
    BY <1>1
  <1>. QED
    BY <1>2, RepositoryInvInit, RepositoryInvStep, PTL DEF Spec, OptimisticLock

\* A conflict is another's write, or a failed call or a patch of the caller's
\* own (repository.py:298-303,381-396).
THEOREM RepositoryConflict == Spec => ConflictIsReal
  <1>1. ASSUME RepositoryInv, NEW c \in Callers, Conflict(c) \/ Unmodified(c),
               ~stale[c], ~retry[c], ~hasty
        PROVE  FALSE
    <2>1. OwnStamp(c) /\ Current(c) /\ Counted(c) /\ TypeOK
      BY <1>1 DEF RepositoryInv, Versions
    <2>2. /\ doc # None /\ Sent(c) /\ obj[c] # None
          /\ lock[c] # 0 => doc.at = lock[c]
      BY <1>1, <2>1 DEF Conflict, Unmodified, Matches, Visible, Sent, TypeOK, CallOK,
                        Current, Version
    <2>3. CASE Conflict(c)
      BY <1>1, <2>1, <2>2, <2>3 DEF Conflict, Counted, Matches
    <2>4. CASE Unmodified(c) /\ obj[c] = doc
      BY <2>1, <2>2, <2>4 DEF OwnStamp
    <2>5. CASE Unmodified(c) /\ pc[c] = "patch"
      <3>1. PICK t \in obj[c].at..now : Patched(c, t) = doc
        BY <2>5 DEF Unmodified
      <3>2. doc.at = t /\ t >= obj[c].at
        <4>1. obj[c].at \in Nat /\ now \in Nat
          BY <2>1, <2>2, StampFacts, TimeAssumption DEF TypeOK
        <4>. QED
          BY <4>1, <2>1, <2>2, <2>5, <3>1, PatchedType
      <3>3. lock[c] < obj[c].at /\ doc.at = lock[c]
        BY <2>1, <2>2, <2>5 DEF OwnStamp, Unmodified
      <3>4. lock[c] \in Nat /\ obj[c].at \in Nat
        BY <2>1, <2>2, StampFacts
      <3>. QED
        BY <3>2, <3>3, <3>4
    <2>. QED
      BY <1>1, <2>3, <2>4, <2>5 DEF Unmodified
  <1>2. RepositoryInv =>
          \A c \in Callers :
             Conflict(c) \/ Unmodified(c) => stale[c] \/ retry[c] \/ hasty
    BY <1>1
  <1>. QED
    BY <1>2, RepositoryInvInit, RepositoryInvStep, PTL DEF Spec, ConflictIsReal

\* What is deleted stays so for all who respect deletion, whatever their calls
\* in flight (repository.py:462-467).
THEOREM RepositoryDeleted == Spec => DeletedStaysDeleted
  <1>1. ASSUME NEW c \in Callers \ Hard, doc # None, doc.deleted,
               Command(c) \/ PatchRaw(c, FALSE) \/ BatchDelete(c)
        PROVE  doc' = doc \/ pc[c] = "fresh"
    <2>1. ~Visible(c) /\ ~Matches(c)
      BY <1>1 DEF Visible, Matches
    <2>. QED
      BY <1>1, <2>1 DEF Command, Insert, Duplicate, Replace, Unmodified, Missed, Conflict,
         NotFound, Patch, Remove, Fails, PatchRaw, BatchDelete
  <1>2. \A c \in Callers \ Hard :
        (Command(c) \/ PatchRaw(c, FALSE) \/ BatchDelete(c)) /\ doc # None /\ doc.deleted
            => doc' = doc \/ pc[c] = "fresh"
    BY <1>1
  <1>. QED
    BY <1>2, PTL DEF Spec, DeletedStaysDeleted

\* No caller changes another tenant's document (repository.py:442-460).
THEOREM RepositoryTenants == Spec => TenantWalls
  <1>1. ASSUME NEW c \in Callers, doc # None, doc.tenant # TenantOf[c],
               Command(c) \/ PatchRaw(c, FALSE) \/ BatchDelete(c) \/ BatchRemove(c)
        PROVE  doc' = doc \/ pc[c] = "fresh"
    <2>1. ~Visible(c) /\ ~Matches(c)
      BY <1>1 DEF Visible, Matches
    <2>. QED
      BY <1>1, <2>1 DEF Command, Insert, Duplicate, Replace, Unmodified, Missed, Conflict,
         NotFound, Patch, Remove, Fails, PatchRaw, BatchDelete, BatchRemove
  <1>2. \A c \in Callers :
        /\ Command(c) \/ PatchRaw(c, FALSE) \/ BatchDelete(c) \/ BatchRemove(c)
        /\ doc # None /\ doc.tenant # TenantOf[c]
        => doc' = doc \/ pc[c] = "fresh"
    BY <1>1
  <1>. QED
    BY <1>2, PTL DEF Spec, TenantWalls

-----------------------------------------------------------------------------
\* What a step leaves alone of a caller leaves its copy alone.
LEMMA CopyKept ==
    ASSUME NEW d \in Callers, doc' = doc, obj'[d] = obj[d], pc'[d] = pc[d],
           lock'[d] = lock[d]
    PROVE  Copy(d)' = Copy(d)
  BY DEF Copy, Version, Sent

LEMMA ReadIsRead ==
    ASSUME TypeOK, NEW c \in Callers, New(c) \/ Get(c)
    PROVE  Register!Read(c)
  <1>1. /\ pc[c] = "idle" /\ UNCHANGED <<doc, pc, lock, hasty>>
        /\ obj'[c] # None
        /\ \A d \in Callers \ {c} : obj'[d] = obj[d]
        /\ obj'[c].at = 0 \/ (doc # None /\ obj'[c] = doc)
    <2>1. CASE New(c)
      <3>. DEFINE v == [tenant |-> None, at |-> 0, created |-> FALSE, deleted |-> FALSE]
      <3>1. obj' = [obj EXCEPT ![c] = v] /\ v.at = 0
        BY <2>1 DEF New
      <3>2. v \in Entity
        BY TimeAssumption DEF Entity, Stamps
      <3>. HIDE DEF v
      <3>3. obj'[c] = v /\ \A d \in Callers \ {c} : obj'[d] = obj[d]
        BY <3>1 DEF TypeOK
      <3>. QED
        BY <2>1, <3>1, <3>2, <3>3, NoneAssumption DEF New
    <2>2. CASE Get(c)
      BY <2>2 DEF Get, Visible, TypeOK
    <2>. QED
      BY <2>1, <2>2
  <1>2. Copy(c)' = "none" \/ (Copy(c)' = "current" /\ doc # None)
    BY <1>1, StampFacts DEF Copy, Version, Sent
  <1>3. \A d \in Callers \ {c} : Copy(d)' = Copy(d)
    BY <1>1, CopyKept
  <1>4. \/ doc # None /\ Copies' = [Copies EXCEPT ![c] = "current"]
        \/ Copies' = [Copies EXCEPT ![c] = "none"]
    BY <1>2, <1>3 DEF Copies
  <1>5. c \notin Calling /\ UNCHANGED Calling
    BY <1>1 DEF Calling
  <1>. QED
    BY <1>1, <1>4, <1>5 DEF Register!Read

LEMMA CallIsBegin ==
    ASSUME TypeOK, NEW c \in Callers, Call(c), ~hasty'
    PROVE  Register!Begin(c)
  <1>1. /\ pc[c] = "idle" /\ obj[c] # None /\ lock[c] = 0
    BY CallCases DEF TypeOK, CallOK
  <1>2. /\ doc' = doc /\ pc'[c] # "idle"
        /\ \A d \in Callers \ {c} : obj'[d] = obj[d] /\ pc'[d] = pc[d] /\ lock'[d] = lock[d]
    <2>1. CASE \E command \in {"insert", "fresh"} : Creates(c, command)
      BY <2>1 DEF Creates, TypeOK
    <2>2. CASE \E command \in {"replace", "upsert", "patch"} :
                  \E o \in Entity : Updates(c, command, o)
      BY <2>2 DEF Updates, TypeOK
    <2>3. CASE Deletes(c)
      BY <2>3 DEF Deletes, TypeOK
    <2>. QED
      BY <2>1, <2>2, <2>3, CallCases
  <1>3. Copy(c)' = Copy(c) \/ Copy(c)' = "none"
    <2>1. CASE \E command \in {"insert", "fresh"} : Creates(c, command)
      BY <1>1, <2>1 DEF Creates, Copy, Version, Sent, TypeOK
    <2>2. CASE \E command \in {"replace", "upsert", "patch"} :
                  \E o \in Entity : o.at = obj[c].at /\ Updates(c, command, o)
      <3>1. /\ pc'[c] \in {"replace", "upsert", "patch"}
            /\ lock'[c] = obj[c].at
        BY <2>2 DEF Updates, TypeOK
      <3>2. Version(c)' = Version(c)
        BY <1>1, <3>1 DEF Version, Sent
      <3>3. obj'[c] # None
        BY <2>2, CallType, <3>1 DEF TypeOK, CallOK
      <3>. QED
        BY <1>1, <1>2, <3>2, <3>3 DEF Copy
    <2>3. CASE Deletes(c)
      <3>1. obj'[c].at = obj[c].at /\ pc'[c] = "remove" /\ lock' = lock
        BY <2>3, CallCases DEF Deletes, TypeOK, Entity
      <3>2. obj'[c] # None
        BY CallType, <3>1 DEF TypeOK, CallOK
      <3>. QED
        BY <1>1, <1>2, <3>1, <3>2 DEF Copy, Version, Sent
    <2>. QED
      BY <2>1, <2>2, <2>3, CallCases
  <1>4. Copies' = Copies \/ Copies' = [Copies EXCEPT ![c] = "none"]
    <2>1. \A d \in Callers \ {c} : Copy(d)' = Copy(d)
      BY <1>2, CopyKept
    <2>. QED
      BY <1>3, <2>1 DEF Copies
  <1>5. c \notin Calling /\ Calling' = Calling \cup {c}
    BY <1>1, <1>2 DEF Calling
  <1>6. hasty' = hasty
    BY CallCases DEF Creates, Updates, Deletes, Stamp, TypeOK
  <1>. QED
    BY <1>2, <1>4, <1>5, <1>6 DEF Register!Begin

\* A call that ends is under way no more.
LEMMA CallingEnds ==
    ASSUME TypeOK, NEW c \in Callers, pc[c] # "idle", pc' = [pc EXCEPT ![c] = "idle"]
    PROVE  c \in Calling /\ Calling' = Calling \ {c}
  BY DEF Calling, TypeOK

LEMMA RaiseIsFail ==
    ASSUME TypeOK, Versions, NEW c \in Callers, pc[c] # "idle", Raises(c), doc' = doc
    PROVE  Register!Fail(c)
  <1>1. /\ pc' = [pc EXCEPT ![c] = "idle"] /\ lock' = [lock EXCEPT ![c] = 0]
        /\ UNCHANGED <<obj, hasty>>
    BY DEF Raises
  <1>2. obj[c] # None /\ OwnStamp(c)
    BY DEF TypeOK, CallOK, Versions
  <1>3. Version(c)' = obj[c].at
    BY <1>1 DEF Version, Sent, TypeOK
  <1>4. Copy(c)' = Copy(c) \/ Copy(c)' = "outdated"
    <2>1. CASE Sent(c)
      BY <1>1, <1>2, <1>3, <2>1, StampFacts DEF Copy, OwnStamp
    <2>2. CASE ~Sent(c)
      BY <1>1, <1>3, <2>2 DEF Copy, Version
    <2>. QED
      BY <2>1, <2>2
  <1>5. \A d \in Callers \ {c} : Copy(d)' = Copy(d)
    BY <1>1, CopyKept DEF TypeOK
  <1>6. Copies' = Copies \/ Copies' = [Copies EXCEPT ![c] = "outdated"]
    BY <1>4, <1>5 DEF Copies
  <1>. QED
    BY <1>1, <1>6, CallingEnds DEF Register!Fail, Register!End

\* A new version leaves all other copies behind.
LEMMA WriteOutdates ==
    ASSUME TypeOK, NEW c \in Callers, Sent(c), UNCHANGED obj, doc' # None,
           pc' = [pc EXCEPT ![c] = "idle"], lock' = [lock EXCEPT ![c] = 0],
           \A d \in Callers : obj[d] # None /\ Version(d) # 0 => doc'.at # Version(d)
    PROVE  Register!Outdates({c})
  <1>1. Version(c)' = obj[c].at /\ obj[c] # None /\ obj[c].at # 0
    BY StampFacts DEF Version, Sent, TypeOK
  <1>2. Copy(c)' \in {"current", "outdated"}
    BY <1>1 DEF Copy
  <1>3. ASSUME NEW d \in Callers \ {c}
        PROVE  Copy(d)' = IF Copy(d) = "none" THEN "none" ELSE "outdated"
    <2>1. Version(d)' = Version(d)
      BY DEF Version, Sent, TypeOK
    <2>. QED
      BY <2>1 DEF Copy
  <1>. QED
    BY <1>2, <1>3 DEF Register!Outdates, Copies

\* A version that is written or removed by no copy leaves all copies behind.
LEMMA SweepOutdates ==
    ASSUME UNCHANGED obj, \A d \in Callers : Version(d)' = Version(d),
           doc' # None => \A d \in Callers :
                             obj[d] # None /\ Version(d) # 0 => doc'.at # Version(d)
    PROVE  Register!Outdates({})
  <1>1. ASSUME NEW d \in Callers
        PROVE  Copy(d)' = IF Copy(d) = "none" THEN "none" ELSE "outdated"
    BY DEF Copy
  <1>. QED
    BY <1>1 DEF Register!Outdates, Copies

LEMMA CommandIsStep ==
    ASSUME TypeOK, Versions, NEW c \in Callers, Command(c), ~hasty'
    PROVE  \/ Register!Update(c) \/ Register!Create(c) \/ Register!Remove(c)
           \/ Register!Fail(c) \/ UNCHANGED <<doc, Copies, Calling, hasty>>
  <1>1. CASE Raises(c) /\ UNCHANGED <<doc, stale>>
    <2>1. pc[c] # "idle"
      BY DEF Command, Insert, Duplicate, Replace, Unmodified, Missed, Conflict,
             NotFound, Patch, Remove, Fails
    <2>. QED
      BY <1>1, <2>1, RaiseIsFail
  <1>2. CASE Insert(c) \/ Replace(c) \/ Patch(c)
    <2>1. /\ Sent(c) /\ UNCHANGED obj
          /\ pc' = [pc EXCEPT ![c] = "idle"] /\ lock' = [lock EXCEPT ![c] = 0]
      BY <1>2 DEF Insert, Replace, Patch, Matches, Returns, Raises, Sent, TypeOK
    <2>2. doc' # None
      <3>1. CASE Insert(c) \/ Replace(c)
        BY <2>1, <3>1, StampFacts DEF Insert, Replace, Write
      <3>2. CASE Patch(c)
        BY <3>2, PatchedType, NoneAssumption DEF Patch, Write, Matches, Visible
      <3>. QED
        BY <1>2, <3>1, <3>2
    <2>3. Register!Outdates({c})
      BY <1>2, <2>1, <2>2, WritesOwnStamp, WriteOutdates
    <2>4. hasty' = hasty
      <3>1. CASE Insert(c) \/ Replace(c)
        BY <3>1 DEF Insert, Replace, Returns, Raises
      <3>2. CASE Patch(c)
        BY <3>2 DEF Patch, TypeOK
      <3>. QED
        BY <1>2, <3>1, <3>2
    <2>5. Register!End(c)
      BY <2>1, <2>4, CallingEnds DEF Register!End, Sent
    <2>6. CASE Insert(c)
      BY <2>2, <2>3, <2>5, <2>6 DEF Insert, Register!Create
    <2>7. CASE Replace(c) \/ Patch(c)
      <3>1. doc # None /\ (lock[c] = 0 \/ doc.at = lock[c])
        BY <2>7, StampFacts DEF Replace, Patch, Matches, Visible, TypeOK, CallOK
      <3>2. Copies[c] # "outdated"
        BY <2>1, <3>1 DEF Copies, Copy, Version
      <3>. QED
        BY <2>2, <2>3, <2>5, <3>1, <3>2 DEF Register!Update
    <2>. QED
      BY <1>2, <2>6, <2>7
  <1>3. CASE Remove(c)
    <2>1. /\ pc[c] = "remove" /\ UNCHANGED <<obj, hasty>> /\ doc # None /\ doc' = None
          /\ pc' = [pc EXCEPT ![c] = "idle"] /\ lock' = [lock EXCEPT ![c] = 0]
      BY <1>3 DEF Remove, Returns, Raises, Write, Visible
    <2>2. \A d \in Callers : Version(d)' = Version(d)
      BY <2>1 DEF Version, Sent, TypeOK
    <2>. QED
      BY <2>1, <2>2, SweepOutdates, CallingEnds DEF Register!Remove, Register!End
  <1>4. CASE Missed(c) /\ pc[c] = "replace"
    <2>1. /\ pc' = [pc EXCEPT ![c] = "count"] /\ UNCHANGED <<doc, obj, lock, hasty>>
      BY <1>4 DEF Missed
    <2>2. \A d \in Callers : Copy(d)' = Copy(d)
      BY <1>4, <2>1 DEF Copy, Version, Sent, TypeOK
    <2>3. Calling' = Calling
      BY <1>4, <2>1 DEF Calling, TypeOK
    <2>. QED
      BY <2>1, <2>2, <2>3 DEF Copies
  <1>. QED
    BY <1>1, <1>2, <1>3, <1>4
    DEF Command, Duplicate, Unmodified, Missed, Conflict, NotFound, Fails

LEMMA FilterIsStep ==
    ASSUME TypeOK, NEW c \in Callers, ~hasty',
           ByFilter(c)
    PROVE  Register!Sweep \/ Register!Mark
  <1>1. /\ UNCHANGED <<obj, pc, lock>> /\ doc # None
    BY FilterCases DEF WriteByFilter
  <1>2. Calling' = Calling /\ \A d \in Callers : Version(d)' = Version(d)
    BY <1>1 DEF Calling, Version, Sent
  <1>3. CASE BatchDelete(c)
    <2>1. doc' = [doc EXCEPT !.deleted = TRUE] /\ doc'.at = doc.at /\ doc' # None
          /\ hasty' = hasty
      BY <1>1, <1>3, NoneAssumption DEF BatchDelete, WriteByFilter, TypeOK, Entity
    <2>2. \A d \in Callers : Copy(d)' = Copy(d)
      BY <1>1, <1>2, <2>1 DEF Copy
    <2>. QED
      BY <1>1, <1>2, <2>1, <2>2 DEF Register!Mark, Copies
  <1>4. ASSUME NEW skip \in BOOLEAN, PatchRaw(c, skip) PROVE Register!Sweep
    <2>1. PICK t \in 1..now : WriteByFilter([doc EXCEPT !.at = t]) /\ Stamp(t)
      BY <1>4 DEF PatchRaw
    <2>2. t \notin taken
      BY <2>1, Zenon DEF Stamp
    <2>3. doc'.at = t
      BY <1>1, <2>1 DEF WriteByFilter, TypeOK, Entity
    <2>4. \A d \in Callers : obj[d] # None /\ Version(d) # 0 => doc'.at # Version(d)
      BY <2>2, <2>3, StampFacts DEF Version
    <2>5. hasty' = hasty
      BY <2>1 DEF Stamp, TypeOK
    <2>. QED
      BY <1>1, <1>2, <2>4, <2>5, SweepOutdates DEF Register!Sweep
  <1>5. CASE BatchRemove(c)
    <2>1. doc' = None /\ hasty' = hasty
      BY <1>5 DEF BatchRemove, WriteByFilter
    <2>. QED
      BY <1>1, <1>2, <2>1, SweepOutdates DEF Register!Sweep
  <1>. QED
    BY <1>3, <1>4, <1>5 DEF ByFilter

LEMMA StepRefines ==
    RepositoryInv /\ [Next]_vars => [Register!Next \/ hasty']_(Register!vars)
  <1>. SUFFICES ASSUME RepositoryInv, [Next]_vars, ~hasty'
                PROVE  Register!Next \/ UNCHANGED Register!vars
    OBVIOUS
  <1>1. CASE Tick \/ UNCHANGED vars
    <2>1. UNCHANGED <<doc, obj, pc, lock, hasty>>
      BY <1>1 DEF Tick, vars
    <2>2. UNCHANGED <<Copies, Calling>>
      BY <2>1, CopyKept DEF Copies, Calling
    <2>. QED
      BY <2>1, <2>2 DEF Register!vars
  <1>2. ASSUME NEW c \in Callers, New(c) \/ Get(c)
        PROVE  Register!Next
    BY <1>2, ReadIsRead DEF RepositoryInv, Register!Next
  <1>3. ASSUME NEW c \in Callers, Call(c)
        PROVE  Register!Next
    BY <1>3, CallIsBegin DEF RepositoryInv, Register!Next
  <1>4. ASSUME NEW c \in Callers, Command(c)
        PROVE  Register!Next \/ UNCHANGED Register!vars
    <2>1. ~hasty
      BY <1>4, Zenon DEF Command, Insert, Duplicate, Replace, Unmodified, Missed, Conflict,
         NotFound, Patch, Remove, Fails, Raises, Returns
    <2>. QED
      BY <1>4, <2>1, CommandIsStep DEF RepositoryInv, Register!Next, Register!vars
  <1>5. ASSUME NEW c \in Callers, ByFilter(c)
        PROVE  Register!Next
    BY <1>5, FilterIsStep DEF RepositoryInv, Register!Next
  <1>. QED
    BY <1>1, <1>2, <1>3, <1>4, <1>5, Zenon DEF Next

(* For any callers, tenants and times, the document is a register whose    *)
(* versions are its stamps: what the code compares is enough to keep out   *)
(* every write by a version that is over, until a stamp is taken twice     *)
(* (repository.py:367-412, options.py:127-144).                            *)
THEOREM RepositoryRefinesRegister == Spec => RefinesRegister
  <1>1. Init => Register!Init
    BY DEF Init, Register!Init, Copies, Copy, Calling
  <1>. QED
    BY <1>1, StepRefines, RepositoryInvInit, RepositoryInvStep, PTL
    DEF Spec, RefinesRegister, Register!Spec

(* So there is no lost update, by callers who turn soft deletion off       *)
(* neither: a version that is over overwrites nothing and stays over until *)
(* it is read again (repository.py:405-412).                               *)
THEOREM RepositoryNoLostUpdate == Spec => Register!NoLostUpdate
  <1>. DEFINE Kept(c) ==
         Copies[c] = "outdated" /\ ~hasty' =>
            /\ c \in Calling \ Calling' /\ doc # None => doc' \in {doc, None}
            /\ Copies'[c] = "current" =>
                  \/ c \notin Calling /\ doc' = doc
                  \/ c \in Calling \ Calling' /\ doc = None
  <1>1. ASSUME Register!Next, NEW c \in Callers PROVE Kept(c)
    <2>1. DOMAIN Copies = Callers
      BY DEF Copies
    <2>2. CASE Register!Sweep
      BY <2>2 DEF Register!Sweep, Register!Outdates
    <2>3. CASE Register!Mark
      BY <2>3 DEF Register!Mark
    <2>4. ASSUME NEW d \in Callers,
                 Register!Read(d) \/ Register!Begin(d) \/ Register!Fail(d)
          PROVE  Kept(c)
      <3>1. \A e \in Callers \ {d} : Copies'[e] = Copies[e]
        BY <2>1, <2>4 DEF Register!Read, Register!Begin, Register!Fail
      <3>2. /\ doc' = doc
            /\ d \notin Calling \/ Copies'[d] \in {Copies[d], "outdated"}
        BY <2>1, <2>4 DEF Register!Read, Register!Begin, Register!Fail
      <3>. QED
        BY <3>1, <3>2
    <2>5. ASSUME NEW d \in Callers,
                 Register!Update(d) \/ Register!Create(d) \/ Register!Remove(d)
          PROVE  Kept(c)
      <3>1. d \in Calling /\ Calling' = Calling \ {d}
        BY <2>5 DEF Register!Update, Register!Create, Register!Remove, Register!End
      <3>2. CASE c # d
        <4>1. Copies[c] = "outdated" => Copies'[c] = "outdated"
          BY <2>5, <3>2 DEF Register!Update, Register!Create, Register!Remove,
                            Register!Outdates
        <4>. QED
          BY <3>1, <3>2, <4>1
      <3>3. CASE c = d
        <4>1. CASE Register!Update(c)
          BY <4>1 DEF Register!Update
        <4>2. CASE Register!Create(c)
          BY <3>1, <3>3, <4>2 DEF Register!Create
        <4>3. CASE Register!Remove(c)
          BY <4>3 DEF Register!Remove, Register!Outdates
        <4>. QED
          BY <2>5, <3>3, <4>1, <4>2, <4>3
      <3>. QED
        BY <3>2, <3>3
    <2>. QED
      BY <1>1, <2>2, <2>3, <2>4, <2>5 DEF Register!Next
  <1>2. [Register!Next \/ hasty']_(Register!vars) =>
           [\A c \in Callers : Kept(c)]_(Register!vars)
    BY <1>1
  <1>. QED
    BY <1>2, RepositoryRefinesRegister, PTL
    DEF RefinesRegister, Register!Spec, Register!NoLostUpdate
=============================================================================
