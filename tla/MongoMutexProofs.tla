-------------------------- MODULE MongoMutexProofs --------------------------
(***************************************************************************)
(* Proofs about MongoMutex.  What holds only for plain callers says so in  *)
(* its statement; the rest holds for every use.                            *)
(***************************************************************************)
EXTENDS MongoMutex, TLAPS

\* try_lock, as long as it has not written.
Reads(m) ==
    \/ \E id \in Identities \cup {None}, ttl \in Ttls : Start(m, id, ttl)
    \/ HeldAgain(m) \/ FindNone(m) \/ FindExpired(m) \/ EndNoEffect(m)

\* The case split on the next-state relation that every step proof uses.
LEMMA StepCases ==
    ASSUME [Next]_vars
    PROVE  \/ Tick \/ TtlPurge \/ UNCHANGED vars
           \/ \E m \in Mutexes : Reads(m)
           \/ \E m \in Mutexes : HeldLost(m)
           \/ \E m \in Mutexes : FindOwn(m)
           \/ \E m \in Mutexes : Granted(m)
           \/ \E m \in Mutexes : WriteReplyLost(m)
           \/ \E m \in Mutexes : UnlockReleases(m) \/ UnlockReplyLost(m)
           \/ \E m \in Mutexes : UnlockRaises(m)
           \/ \E m \in Mutexes : Probe(m) \/ ProbeFind(m) \/ ProbeDelete(m)
  BY Zenon DEF Next, Reads

LEMMA NewDocType ==
    ASSUME TypeOK, NEW m \in Mutexes, pc[m] \in {"insert", "cas"}
    PROVE  /\ OwnerOf(m) \in Owners
           /\ op[m].at + op[m].ttl \in Nat
           /\ NewDoc(m) \in [owner : Owners, expires : Nat]
           /\ NewDoc(m) # NoDoc
<1>1. OwnerOf(m) \in Owners
  BY DEF OwnerOf, Owners, TypeOK
<1>2. op[m].at \in Nat /\ op[m].ttl \in Nat
  BY TimeAssumption DEF TypeOK
<1>3. QED
  BY <1>1, <1>2, OwnerAssumption DEF NewDoc, NoDoc

LEMMA ReturnType ==
    ASSUME TypeOK, NEW m \in Mutexes, Return(m), UNCHANGED <<plain, now>>,
           doc' \in Docs, granted' \in [Owners -> Nat], detail' \in [Mutexes -> Docs],
           \A n \in Mutexes \ {m} : detail'[n] = detail[n]
    PROVE  TypeOK'
<1>1. NoOp \in [identity : Identities \cup {None}, ttl : Nat, at : 0..Horizon]
  BY TimeAssumption DEF NoOp
<1>2. op' \in [Mutexes -> [identity : Identities \cup {None}, ttl : Nat, at : 0..Horizon]]
  BY <1>1 DEF TypeOK, Return
<1>3. /\ pc' = [pc EXCEPT ![m] = "idle"]
      /\ op' = [op EXCEPT ![m] = NoOp]
      /\ seen' = [seen EXCEPT ![m] = 0]
  BY DEF Return, Goto
<1>4. ASSUME NEW n \in Mutexes
      PROVE  /\ pc'[n] \in {"find", "insert", "cas"} => detail'[n] = NoDoc
             /\ pc'[n] \in {"held", "find", "insert", "cas"} => op'[n].ttl \in Ttls
  BY <1>3 DEF TypeOK
<1>5. QED
  BY <1>2, <1>3, <1>4 DEF TypeOK

(* The document, the details, the calls in progress and the history stay   *)
(* well formed; a call about to write remembers no earlier lock.           *)
THEOREM MongoType == Spec => []TypeOK
<1>1. Init => TypeOK
  BY TimeAssumption DEF Init, TypeOK, Docs, NoDoc, NoOp
<1>2. TypeOK /\ [Next]_vars => TypeOK'
  <2> SUFFICES ASSUME TypeOK, [Next]_vars
               PROVE  TypeOK'
    OBVIOUS
  <2>0. NoDoc \in Docs
    BY DEF Docs
  <2>1. CASE Tick \/ TtlPurge \/ UNCHANGED vars
    BY <2>0, <2>1, TimeAssumption DEF Tick, TtlPurge, vars, TypeOK
  <2>2. ASSUME NEW m \in Mutexes, Reads(m)
        PROVE  TypeOK'
    <3>1. ASSUME NEW id \in Identities \cup {None}, NEW ttl \in Ttls, Start(m, id, ttl)
          PROVE  TypeOK'
      <4>1. ttl \in Nat
        BY TimeAssumption
      <4>2. [identity |-> id, ttl |-> ttl, at |-> now] \in
               [identity : Identities \cup {None}, ttl : Nat, at : 0..Horizon]
        BY <4>1 DEF TypeOK
      <4>3. pc'[m] \in {"held", "find"}
        BY <3>1 DEF Start, Goto, TypeOK
      <4>4. QED
        BY <3>1, <4>2, <4>3 DEF Start, Goto, TypeOK
    <3>2. CASE HeldAgain(m) \/ EndNoEffect(m)
      BY <3>2, ReturnType DEF HeldAgain, EndNoEffect, TypeOK
    <3>3. CASE FindNone(m)
      BY <3>3 DEF FindNone, Goto, TypeOK
    <3>4. CASE FindExpired(m)
      <4>1. doc.expires \in Nat
        BY DEF TypeOK, Docs, NoDoc
      <4>2. QED
        BY <3>4, <4>1 DEF FindExpired, Goto, TypeOK
    <3>5. QED
      BY <2>2, <3>1, <3>2, <3>3, <3>4 DEF Reads
  <2>3. ASSUME NEW m \in Mutexes, HeldLost(m)
        PROVE  TypeOK'
    BY <2>0, <2>3 DEF HeldLost, Goto, TypeOK
  <2>4. ASSUME NEW m \in Mutexes, FindOwn(m)
        PROVE  TypeOK'
    <3>1. doc \in [owner : Owners, expires : Nat]
      BY <2>4, OwnerAssumption DEF FindOwn, Found, TypeOK, Docs, NoDoc
    <3>2. QED
      BY <2>4, <3>1, ReturnType DEF FindOwn, ReturnTrue, TypeOK
  <2>5. ASSUME NEW m \in Mutexes, Granted(m)
        PROVE  TypeOK'
    <3>1. NewDoc(m) \in [owner : Owners, expires : Nat]
      BY <2>5, NewDocType DEF Granted, Write
    <3>2. NewDoc(m) \in Docs
      BY <3>1 DEF Docs
    <3>3. QED
      BY <2>5, <3>1, <3>2, ReturnType DEF Granted, Write, ReturnTrue, TypeOK
  <2>6. ASSUME NEW m \in Mutexes, WriteReplyLost(m)
        PROVE  TypeOK'
    <3>1. NewDoc(m) \in Docs
      BY <2>6, NewDocType DEF WriteReplyLost, Write, Docs
    <3>2. QED
      BY <2>6, <3>1, ReturnType DEF WriteReplyLost, Write, TypeOK
  <2>7. ASSUME NEW m \in Mutexes,
               UnlockReleases(m) \/ UnlockReplyLost(m) \/ UnlockRaises(m)
        PROVE  TypeOK'
    <3>1. /\ doc' \in {doc, NoDoc}
          /\ detail' \in {detail, [detail EXCEPT ![m] = NoDoc]}
          /\ granted' = [granted EXCEPT ![detail[m].owner] = 0]
          /\ UNCHANGED <<plain, now, pc, op, seen>>
      BY <2>7 DEF UnlockReleases, UnlockReplyLost, UnlockRaises, GivesBack
    <3>2. doc' \in Docs /\ detail' \in [Mutexes -> Docs] /\ granted' \in [Owners -> Nat]
      BY <2>0, <3>1 DEF TypeOK
    <3>3. \A n \in Mutexes : detail[n] = NoDoc => detail'[n] = NoDoc
      BY <3>1 DEF TypeOK
    <3>4. QED
      BY <3>1, <3>2, <3>3 DEF TypeOK
  <2>8. ASSUME NEW m \in Mutexes, Probe(m) \/ ProbeFind(m) \/ ProbeDelete(m)
        PROVE  TypeOK'
    <3>1. CASE Probe(m)
      BY <3>1 DEF Probe, Goto, TypeOK
    <3>2. CASE ProbeFind(m) /\ Return(m)
      BY <3>2, ReturnType DEF ProbeFind, TypeOK
    <3>3. CASE ProbeFind(m) /\ Goto(m, "purge") /\ UNCHANGED <<op, seen>>
      BY <3>3 DEF ProbeFind, Goto, TypeOK
    <3>4. CASE ProbeDelete(m)
      BY <2>0, <3>4, ReturnType DEF ProbeDelete, TypeOK
    <3>5. QED
      BY <2>8, <3>1, <3>2, <3>3, <3>4 DEF ProbeFind
  <2>9. QED
    BY <2>1, <2>2, <2>3, <2>4, <2>5, <2>6, <2>7, <2>8, StepCases
<1>3. QED
  BY <1>1, <1>2, PTL DEF Spec

-----------------------------------------------------------------------------
\* A call's reading of the clock is in the past, and what it found expired
\* had expired.
ReadsPast ==
    \A m \in Mutexes :
        /\ op[m].at <= now
        /\ pc[m] = "cas" => seen[m] < now

THEOREM MongoReadsPast == Spec => []ReadsPast
<1>1. Init => ReadsPast
  <2> SUFFICES ASSUME Init, NEW m \in Mutexes
               PROVE  op[m].at <= now /\ pc[m] # "cas"
    BY DEF ReadsPast
  <2>1. op[m] = NoOp /\ now = 0 /\ pc[m] = "idle"
    BY DEF Init
  <2>2. QED
    BY <2>1 DEF NoOp
<1>2. TypeOK /\ ReadsPast /\ [Next]_vars => ReadsPast'
  <2> SUFFICES ASSUME TypeOK, ReadsPast, [Next]_vars
               PROVE  ReadsPast'
    OBVIOUS
  <2> USE DEF TypeOK, ReadsPast
  <2>0. now \in Nat
    BY TimeAssumption
  <2>1. CASE Tick \/ TtlPurge \/ UNCHANGED vars
    BY <2>0, <2>1, TimeAssumption DEF Tick, TtlPurge, vars
  <2>2. ASSUME NEW m \in Mutexes, Reads(m)
        PROVE  ReadsPast'
    <3>1. CASE \E id \in Identities \cup {None}, ttl \in Ttls : Start(m, id, ttl)
      BY <2>0, <3>1 DEF Start, Goto
    <3>2. CASE HeldAgain(m) \/ EndNoEffect(m)
      BY <2>0, <3>2 DEF HeldAgain, EndNoEffect, Return, Goto, NoOp
    <3>3. CASE FindNone(m)
      BY <3>3 DEF FindNone, Goto
    <3>4. CASE FindExpired(m)
      <4>1. doc.expires < op[m].at /\ op[m].at <= now /\ op[m].at \in Nat
        BY <3>4, TimeAssumption DEF FindExpired, FindsExpired
      <4>2. doc.expires \in Nat
        BY DEF Docs, NoDoc
      <4>3. QED
        BY <2>0, <3>4, <4>1, <4>2 DEF FindExpired, Goto
    <3>5. QED
      BY <2>2, <3>1, <3>2, <3>3, <3>4 DEF Reads
  <2>3. ASSUME NEW m \in Mutexes,
               FindOwn(m) \/ Granted(m) \/ WriteReplyLost(m) \/ ProbeDelete(m)
        PROVE  ReadsPast'
    <3>1. Return(m) /\ now' = now
      BY <2>3 DEF FindOwn, Granted, WriteReplyLost, ProbeDelete, Write, ReturnTrue
    <3>2. QED
      BY <2>0, <3>1 DEF Return, Goto, NoOp
  <2>4. ASSUME NEW m \in Mutexes,
               \/ HeldLost(m) \/ Probe(m)
               \/ UnlockReleases(m) \/ UnlockReplyLost(m) \/ UnlockRaises(m)
        PROVE  ReadsPast'
    BY <2>0, <2>4
       DEF HeldLost, Probe, Goto, UnlockReleases, UnlockReplyLost, UnlockRaises, GivesBack
  <2>5. ASSUME NEW m \in Mutexes, ProbeFind(m)
        PROVE  ReadsPast'
    BY <2>0, <2>5 DEF ProbeFind, Return, Goto, NoOp
  <2>6. QED
    BY <2>1, <2>2, <2>3, <2>4, <2>5, StepCases
<1>3. QED
  BY <1>1, <1>2, MongoType, PTL DEF Spec

\* A write finds no document or an expired one.
LEMMA WriteFindsNone ==
    ASSUME TypeOK, ReadsPast, NEW m \in Mutexes, Write(m)
    PROVE  ~Live
<1>1. CASE ~Found
  BY <1>1 DEF Live
<1>2. CASE pc[m] = "cas" /\ doc.expires = seen[m]
  <2>1. doc.expires < now
    BY <1>2 DEF ReadsPast
  <2>2. now \in Nat /\ doc.expires \in Nat
    BY TimeAssumption DEF TypeOK, Docs, NoDoc
  <2>3. QED
    BY <2>1, <2>2 DEF Live
<1>3. QED
  BY <1>1, <1>2 DEF Write, Matches

(* An unexpired document is never written over, whatever calls, replies    *)
(* lost and identities: the update's filter makes late calls lose.         *)
THEOREM MongoLiveDocNotOverwritten == Spec => LiveDocNotOverwritten
<1>1. TypeOK /\ ReadsPast /\ [Next]_vars => [Live => doc' \in {doc, NoDoc}]_vars
  <2> SUFFICES ASSUME TypeOK, ReadsPast, [Next]_vars, Live
               PROVE  doc' \in {doc, NoDoc}
    BY Zenon
  <2>1. CASE Tick \/ TtlPurge \/ UNCHANGED vars
    BY <2>1 DEF Tick, TtlPurge, vars
  <2>2. ASSUME NEW m \in Mutexes,
               \/ Reads(m) \/ HeldLost(m) \/ FindOwn(m)
               \/ UnlockReleases(m) \/ UnlockReplyLost(m) \/ UnlockRaises(m)
               \/ Probe(m) \/ ProbeFind(m) \/ ProbeDelete(m)
        PROVE  doc' \in {doc, NoDoc}
    BY <2>2
       DEF Reads, Start, HeldAgain, FindNone, FindExpired, EndNoEffect, HeldLost,
           FindOwn, UnlockReleases, UnlockReplyLost, UnlockRaises,
           Probe, ProbeFind, ProbeDelete
  <2>3. ASSUME NEW m \in Mutexes, Granted(m) \/ WriteReplyLost(m)
        PROVE  FALSE
    BY <2>3, WriteFindsNone DEF Granted, WriteReplyLost
  <2>4. QED
    BY <2>1, <2>2, <2>3, StepCases
<1>2. QED
  BY <1>1, MongoType, MongoReadsPast, PTL DEF Spec, LiveDocNotOverwritten

-----------------------------------------------------------------------------
\* What plain callers are told of: a live lease is in the document; a detail
\* that has not expired is the document, so `expires` names its owner.
PlainCall(m) ==
    /\ granted[m] > now => doc = [owner |-> m, expires |-> granted[m]]
    /\ pc[m] \notin {"probe", "purge"}
    /\ op[m].identity = None
    /\ detail[m] # NoDoc => detail[m].owner = m
    /\ detail[m] # NoDoc /\ detail[m].expires > now => doc = detail[m]

LeaseInDoc ==
    plain => /\ \A m \in Mutexes : PlainCall(m)
             /\ \A x \in Identities : granted[x] = 0

LEMMA PlainNames ==
    ASSUME TypeOK, LeaseInDoc, plain, NEW m \in Mutexes
    PROVE  OwnerOf(m) = m /\ m # None /\ m \notin Identities /\ m \in Owners
  BY OwnerAssumption DEF LeaseInDoc, PlainCall, OwnerOf, Owners

\* While a plain caller's lease or detail is live, nobody writes.
LEMMA PlainWrite ==
    ASSUME TypeOK, ReadsPast, LeaseInDoc, plain, NEW m \in Mutexes, Write(m),
           NEW n \in Mutexes
    PROVE  ~(granted[n] > now) /\ ~(detail[n] # NoDoc /\ detail[n].expires > now)
<1>1. ~Live
  BY WriteFindsNone
<1>2. SUFFICES ASSUME granted[n] > now \/ (detail[n] # NoDoc /\ detail[n].expires > now)
               PROVE  FALSE
  OBVIOUS
<1>3. doc.owner = n /\ doc.expires > now
  BY <1>2 DEF LeaseInDoc, PlainCall
<1>4. QED
  BY <1>1, <1>3, PlainNames DEF Live, Found

LEMMA LeaseInDocStep ==
    ASSUME TypeOK, ReadsPast, LeaseInDoc, [Next]_vars
    PROVE  LeaseInDoc'
<1>1. plain' = plain
  <2>1. CASE Tick \/ TtlPurge \/ UNCHANGED vars
    BY <2>1 DEF Tick, TtlPurge, vars
  <2>2. ASSUME NEW m \in Mutexes, Reads(m) \/ HeldLost(m) \/ FindOwn(m)
        PROVE  plain' = plain
    BY <2>2 DEF Reads, Start, HeldAgain, FindNone, FindExpired, EndNoEffect, HeldLost, FindOwn
  <2>3. ASSUME NEW m \in Mutexes, Granted(m) \/ WriteReplyLost(m)
        PROVE  plain' = plain
    BY <2>3 DEF Granted, WriteReplyLost, Write
  <2>4. ASSUME NEW m \in Mutexes, UnlockReleases(m) \/ UnlockReplyLost(m) \/ UnlockRaises(m)
        PROVE  plain' = plain
    BY <2>4 DEF UnlockReleases, UnlockReplyLost, UnlockRaises, GivesBack
  <2>5. ASSUME NEW m \in Mutexes, Probe(m) \/ ProbeFind(m) \/ ProbeDelete(m)
        PROVE  plain' = plain
    BY <2>5 DEF Probe, ProbeFind, ProbeDelete
  <2>6. QED
    BY <2>1, <2>2, <2>3, <2>4, <2>5, StepCases
<1> SUFFICES ASSUME plain
             PROVE  /\ \A n \in Mutexes : PlainCall(n)'
                    /\ \A x \in Identities : granted'[x] = 0
  BY <1>1 DEF LeaseInDoc
<1> USE DEF TypeOK
<1>2. /\ now \in Nat
      /\ \A n \in Mutexes : n # None /\ detail[n].expires \in Nat
      /\ \A n \in Mutexes : OwnerOf(n) = n /\ n \notin Identities /\ n \in Owners
      /\ \A n \in Mutexes : PlainCall(n)
      /\ \A x \in Identities : x \in Owners /\ granted[x] = 0
  BY TimeAssumption, PlainNames DEF Docs, NoDoc, LeaseInDoc, Owners
<1>3. CASE Tick
  BY <1>2, <1>3 DEF Tick, PlainCall
<1>4. CASE TtlPurge
  <2>1. doc.expires <= now /\ doc' = NoDoc /\ UNCHANGED <<now, detail, pc, op, granted>>
    BY <1>2, <1>4, TimeAssumption DEF TtlPurge, Docs, NoDoc
  <2>2. QED
    BY <1>2, <2>1 DEF PlainCall
<1>5. CASE UNCHANGED vars
  BY <1>2, <1>5 DEF vars, PlainCall
<1>6. ASSUME NEW m \in Mutexes, Reads(m)
      PROVE  /\ \A n \in Mutexes : PlainCall(n)'
             /\ \A x \in Identities : granted'[x] = 0
  <2>1. UNCHANGED <<now, doc, detail, granted>>
    BY <1>6 DEF Reads, Start, HeldAgain, FindNone, FindExpired, EndNoEffect
  <2>2. /\ pc'[m] \notin {"probe", "purge"} /\ op'[m].identity = None
        /\ \A n \in Mutexes \ {m} : pc'[n] = pc[n] /\ op'[n] = op[n]
    <3> DEFINE Plain == /\ pc'[m] \notin {"probe", "purge"} /\ op'[m].identity = None
                        /\ \A n \in Mutexes \ {m} : pc'[n] = pc[n] /\ op'[n] = op[n]
    <3>1. ASSUME NEW id \in Identities \cup {None}, NEW ttl \in Ttls, Start(m, id, ttl)
          PROVE  Plain
      <4>1. /\ op' = [op EXCEPT ![m] = [identity |-> None, ttl |-> ttl, at |-> now]]
            /\ pc' = [pc EXCEPT ![m] = IF detail[m] = NoDoc THEN "find" ELSE "held"]
        BY <3>1 DEF Start, Goto
      <4>2. QED
        BY <4>1
    <3>2. CASE HeldAgain(m) \/ EndNoEffect(m)
      <4>1. pc' = [pc EXCEPT ![m] = "idle"] /\ op' = [op EXCEPT ![m] = NoOp]
        BY <3>2 DEF HeldAgain, EndNoEffect, Return, Goto
      <4>2. NoOp.identity = None
        BY DEF NoOp
      <4>3. QED
        BY <4>1, <4>2
    <3>3. CASE FindNone(m) \/ FindExpired(m)
      BY <1>2, <3>3 DEF FindNone, FindExpired, Goto, PlainCall
    <3>4. QED
      BY <1>6, <3>1, <3>2, <3>3 DEF Reads
  <2>3. QED
    BY <1>2, <2>1, <2>2 DEF PlainCall
<1>7. ASSUME NEW m \in Mutexes, HeldLost(m)
      PROVE  /\ \A n \in Mutexes : PlainCall(n)'
             /\ \A x \in Identities : granted'[x] = 0
  BY <1>2, <1>7 DEF HeldLost, Goto, PlainCall
<1>8. ASSUME NEW m \in Mutexes, FindOwn(m)
      PROVE  FALSE
  BY <1>2, <1>8 DEF FindOwn, PlainCall
<1>9. ASSUME NEW m \in Mutexes, Granted(m)
      PROVE  /\ \A n \in Mutexes : PlainCall(n)'
             /\ \A x \in Identities : granted'[x] = 0
  <2>1. Write(m)
    BY <1>9 DEF Granted
  <2>2. /\ doc' = [owner |-> m, expires |-> op[m].at + op[m].ttl] /\ now' = now
        /\ doc' # NoDoc
    BY <1>2, <2>1 DEF Write, NewDoc, NoDoc
  <2>3. /\ detail' = [detail EXCEPT ![m] = doc']
        /\ granted' = [granted EXCEPT ![m] = doc'.expires]
        /\ pc' = [pc EXCEPT ![m] = "idle"]
        /\ op' = [op EXCEPT ![m] = NoOp]
    BY <1>2, <1>9 DEF Granted, ReturnTrue, Return, Goto, Write, NewDoc
  <2>4. \A n \in Mutexes :
           ~(granted[n] > now) /\ ~(detail[n] # NoDoc /\ detail[n].expires > now)
    BY <2>1, PlainWrite
  <2>5. QED
    BY <1>2, <2>2, <2>3, <2>4 DEF PlainCall, NoOp
<1>10. ASSUME NEW m \in Mutexes, WriteReplyLost(m)
       PROVE  /\ \A n \in Mutexes : PlainCall(n)'
              /\ \A x \in Identities : granted'[x] = 0
  <2>1. Write(m) /\ now' = now /\ UNCHANGED <<detail, granted>>
    BY <1>10 DEF WriteReplyLost, Write
  <2>2. \A n \in Mutexes :
           ~(granted[n] > now) /\ ~(detail[n] # NoDoc /\ detail[n].expires > now)
    BY <2>1, PlainWrite
  <2>3. QED
    BY <1>2, <1>10, <2>1, <2>2 DEF WriteReplyLost, Return, Goto, NoOp, PlainCall
<1>11. ASSUME NEW m \in Mutexes, UnlockReleases(m)
       PROVE  /\ \A n \in Mutexes : PlainCall(n)'
              /\ \A x \in Identities : granted'[x] = 0
  <2>1. /\ detail[m] # NoDoc /\ detail[m].owner = m
        /\ granted' = [granted EXCEPT ![m] = 0]
        /\ doc.expires = detail[m].expires /\ doc' = NoDoc
        /\ detail' = [detail EXCEPT ![m] = NoDoc] /\ UNCHANGED <<now, pc, op>>
    BY <1>2, <1>11 DEF UnlockReleases, GivesBack, Deletes, PlainCall
  <2>2. ASSUME NEW n \in Mutexes \ {m},
               granted[n] > now \/ (detail[n] # NoDoc /\ detail[n].expires > now)
        PROVE  FALSE
    <3>1. doc.owner = n /\ doc.expires > now
      BY <1>2, <2>2 DEF PlainCall
    <3>2. doc = detail[m]
      BY <1>2, <2>1, <3>1 DEF PlainCall
    <3>3. QED
      BY <2>1, <3>1, <3>2
  <2>3. QED
    BY <1>2, <2>1, <2>2 DEF PlainCall
<1>12. ASSUME NEW m \in Mutexes, UnlockRaises(m)
       PROVE  /\ \A n \in Mutexes : PlainCall(n)'
              /\ \A x \in Identities : granted'[x] = 0
  BY <1>2, <1>12 DEF UnlockRaises, GivesBack, PlainCall
<1>13. ASSUME NEW m \in Mutexes,
              UnlockReplyLost(m) \/ Probe(m) \/ ProbeFind(m) \/ ProbeDelete(m)
       PROVE  FALSE
  BY <1>2, <1>13 DEF UnlockReplyLost, Probe, ProbeFind, ProbeDelete, PlainCall
<1>14. QED
  BY <1>3, <1>4, <1>5, <1>6, <1>7, <1>8, <1>9, <1>10, <1>11, <1>12, <1>13, StepCases

IInv == TypeOK /\ ReadsPast /\ LeaseInDoc

(* The inductive invariant: plain callers' live leases and details are the *)
(* document.                                                               *)
THEOREM MongoInductive == Spec => []IInv
<1>1. Init => LeaseInDoc
  BY DEF Init, LeaseInDoc, PlainCall, NoOp, Owners
<1>2. TypeOK /\ ReadsPast /\ LeaseInDoc /\ [Next]_vars => LeaseInDoc'
  BY LeaseInDocStep
<1>3. QED
  BY <1>1, <1>2, MongoType, MongoReadsPast, PTL DEF Spec, IInv

(* No two plain owners hold unexpired leases at once, however long the     *)
(* calls pause between their steps.                                        *)
THEOREM MongoLeaseExclusion == Spec => []Lease!Exclusion
<1>1. IInv => Lease!Exclusion
  <2> SUFFICES ASSUME IInv, NEW o \in Owners, NEW p \in Owners,
                      Promised[o] > now, Promised[p] > now
               PROVE  o = p
    BY DEF Lease!Exclusion, Lease!Holds
  <2>1. now \in Nat
    BY TimeAssumption DEF IInv, TypeOK
  <2>2. plain /\ granted[o] > now /\ granted[p] > now
    BY <2>1 DEF Promised
  <2>3. o \in Mutexes /\ p \in Mutexes
    BY <2>1, <2>2 DEF IInv, LeaseInDoc, Owners
  <2>4. QED
    BY <2>2, <2>3 DEF IInv, LeaseInDoc, PlainCall
<1>2. QED
  BY <1>1, MongoInductive, PTL

(* The operations implement the lease lock: a write whose reply arrives is *)
(* a Grant, an unlock a Release, everything else is invisible.             *)
THEOREM MongoRefinesLeaseLock == Spec => RefinesLeaseLock
<1>1. Init => Lease!Init
  BY DEF Init, Lease!Init, Promised
<1>2. IInv /\ [Next]_vars => [Lease!Next]_(Lease!vars)
  <2> SUFFICES ASSUME IInv, [Next]_vars
               PROVE  [Lease!Next]_(Lease!vars)
    OBVIOUS
  <2> USE DEF IInv, TypeOK
  <2>1. CASE Tick
    BY <2>1, TimeAssumption DEF Tick, Lease!Next, Lease!Tick, Promised
  <2>2. CASE TtlPurge \/ UNCHANGED vars
    BY <2>2 DEF TtlPurge, vars, Lease!vars, Promised
  <2>3. ASSUME NEW m \in Mutexes,
               \/ Reads(m) \/ HeldLost(m) \/ WriteReplyLost(m)
               \/ Probe(m) \/ ProbeFind(m) \/ ProbeDelete(m)
        PROVE  UNCHANGED (Lease!vars)
    <3>1. UNCHANGED <<plain, now, granted>>
      BY <2>3
         DEF Reads, Start, HeldAgain, FindNone, FindExpired, EndNoEffect, HeldLost,
             WriteReplyLost, Write, Probe, ProbeFind, ProbeDelete
    <3>2. QED
      BY <3>1 DEF Lease!vars, Promised
  <2>4. ASSUME NEW m \in Mutexes, plain, FindOwn(m)
        PROVE  FALSE
    BY <2>4 DEF FindOwn, LeaseInDoc, PlainCall
  <2>5. ASSUME NEW m \in Mutexes, ~plain,
               \/ FindOwn(m) \/ Granted(m) \/ UnlockReleases(m)
               \/ UnlockReplyLost(m) \/ UnlockRaises(m)
        PROVE  UNCHANGED (Lease!vars)
    <3>1. UNCHANGED <<plain, now>>
      BY <2>5
         DEF FindOwn, Granted, Write, UnlockReleases, UnlockReplyLost, UnlockRaises,
             GivesBack
    <3>2. QED
      BY <2>5, <3>1 DEF Lease!vars, Promised
  <2>6. ASSUME NEW m \in Mutexes, plain, Granted(m)
        PROVE  Lease!Next
    <3>1. /\ \A n \in Mutexes : ~(granted[n] > now)
          /\ UNCHANGED <<plain, now>> /\ now \in Nat
      BY <2>6, PlainWrite, TimeAssumption DEF Granted, Write
    <3>2. NewDoc(m).expires \in Nat /\ NewDoc(m).owner = m /\ m \in Owners
      BY <2>6, NewDocType, PlainNames DEF Granted, Write, NewDoc
    <3>3. granted' = [granted EXCEPT ![m] = NewDoc(m).expires]
      BY <2>6, <3>2 DEF Granted, ReturnTrue
    <3>4. Promised' = [Promised EXCEPT ![m] = NewDoc(m).expires]
      BY <2>6, <3>1, <3>2, <3>3 DEF Promised
    <3>5. \A o \in Owners \ {m} : ~(Promised[o] > now)
      BY <2>6, <3>1 DEF Promised, Owners, LeaseInDoc
    <3>6. Lease!Grant(m)
      BY <3>1, <3>2, <3>4, <3>5 DEF Lease!Grant, Lease!Holds, Promised
    <3>7. QED
      BY <3>2, <3>6 DEF Lease!Next
  <2>7. ASSUME NEW m \in Mutexes, plain, UnlockReleases(m) \/ UnlockRaises(m)
        PROVE  Lease!Next
    <3>1. /\ granted' = [granted EXCEPT ![m] = 0]
          /\ UNCHANGED <<plain, now>> /\ m \in Owners
      BY <2>7, PlainNames
         DEF UnlockReleases, UnlockRaises, GivesBack, LeaseInDoc, PlainCall
    <3>2. Promised' = [Promised EXCEPT ![m] = 0]
      BY <2>7, <3>1 DEF Promised
    <3>3. QED
      BY <3>1, <3>2 DEF Lease!Next, Lease!Release
  <2>8. ASSUME NEW m \in Mutexes, plain, UnlockReplyLost(m)
        PROVE  FALSE
    BY <2>8 DEF UnlockReplyLost
  <2>9. QED
    BY <2>1, <2>2, <2>3, <2>4, <2>5, <2>6, <2>7, <2>8, StepCases
<1>3. QED
  BY <1>1, <1>2, MongoInductive, PTL DEF Spec, RefinesLeaseLock, Lease!Spec
=============================================================================
