---------------------------- MODULE MongoMutex ----------------------------
(***************************************************************************)
(* dkit/mongo.py MongoMutex: the mutexes of one key, over a MongoDB        *)
(* collection that holds at most one document for the key.  A collection   *)
(* operation is one step; between the operations of a call everything else *)
(* may happen, and the call's `now` is a reading taken before the first.   *)
(* An operation may raise in the client, with or without effect.           *)
(***************************************************************************)
EXTENDS Naturals

CONSTANTS Mutexes,      \* mutex objects
          Identities,   \* re-entrant identities the callers pass
          None,         \* the empty string, no owner
          Ttls,         \* lease lengths asked for
          PurgeAfter,   \* expireAfterSeconds of the TTL index
          Horizon       \* bound: the clock stops here

Owners == Mutexes \cup Identities

ASSUME OwnerAssumption ==
    None \notin Owners /\ Mutexes \cap Identities = {}
ASSUME TimeAssumption ==
    Ttls \subseteq Nat \ {0} /\ PurgeAfter \in Nat /\ Horizon \in Nat

VARIABLES plain,    \* callers use neither exist_lock nor identities, and no
                    \* unlock that takes effect raises: set once and for all
          now,      \* the clock of the clients and the server
          doc,      \* the document: who wrote it (history) and `expires`
          detail,   \* _lock_detail of each mutex object
          pc,       \* the next operation of each mutex's call
          op,       \* that call's identity, ttl and reading of the clock
          seen,     \* `expires` of the expired document it found
          granted   \* history: the lease end each owner was last told of

vars == <<plain, now, doc, detail, pc, op, seen, granted>>

NoDoc == [owner |-> None, expires |-> 0]
NoOp == [identity |-> None, ttl |-> 0, at |-> 0]

Docs == [owner : Owners, expires : Nat] \cup {NoDoc}

TypeOK ==
    /\ plain \in BOOLEAN
    /\ now \in 0..Horizon
    /\ doc \in Docs
    /\ detail \in [Mutexes -> Docs]
    /\ pc \in [Mutexes -> {"idle", "held", "find", "insert", "cas", "probe", "purge"}]
    /\ op \in [Mutexes -> [identity : Identities \cup {None}, ttl : Nat, at : 0..Horizon]]
    /\ \A m \in Mutexes :
          /\ pc[m] \in {"find", "insert", "cas"} => detail[m] = NoDoc
          /\ pc[m] \in {"held", "find", "insert", "cas"} => op[m].ttl \in Ttls
    /\ seen \in [Mutexes -> Nat]
    /\ granted \in [Owners -> Nat]

Init ==
    /\ plain \in BOOLEAN
    /\ now = 0
    /\ doc = NoDoc
    /\ detail = [m \in Mutexes |-> NoDoc]
    /\ pc = [m \in Mutexes |-> "idle"]
    /\ op = [m \in Mutexes |-> NoOp]
    /\ seen = [m \in Mutexes |-> 0]
    /\ granted = [o \in Owners |-> 0]

Found == doc.owner # None
Live == Found /\ doc.expires > now

\* The `identity` field of a document that o wrote.
IdentityOf(o) == IF o \in Identities THEN o ELSE None

\* Who the call of m locks for.
OwnerOf(m) == IF op[m].identity = None THEN m ELSE op[m].identity

NewDoc(m) == [owner |-> OwnerOf(m), expires |-> op[m].at + op[m].ttl]

Goto(m, where) == pc' = [pc EXCEPT ![m] = where]

\* The call returns or raises.
Return(m) ==
    /\ Goto(m, "idle")
    /\ op' = [op EXCEPT ![m] = NoOp]
    /\ seen' = [seen EXCEPT ![m] = 0]

\* try_lock returns True with d as its lock detail.
ReturnTrue(m, d) ==
    /\ Return(m)
    /\ detail' = [detail EXCEPT ![m] = d]
    /\ granted' = [granted EXCEPT ![d.owner] = d.expires]

-----------------------------------------------------------------------------
\* try_lock is called, by itself or in a round of lock()'s loop.
Start(m, id, ttl) ==
    /\ pc[m] = "idle"
    /\ plain => id = None
    /\ Goto(m, IF detail[m] = NoDoc THEN "find" ELSE "held")
    /\ op' = [op EXCEPT ![m] = [identity |-> id, ttl |-> ttl, at |-> now]]
    /\ UNCHANGED <<plain, now, doc, detail, seen, granted>>

\* The document is the one the mutex remembers: True, without a new lease.
HeldAgain(m) ==
    /\ pc[m] = "held"
    /\ Found /\ doc.expires > op[m].at
    /\ doc.expires = detail[m].expires
    /\ IdentityOf(doc.owner) = IdentityOf(detail[m].owner)
    /\ Return(m)
    /\ UNCHANGED <<plain, now, doc, detail, granted>>

\* It is not.  The server keeps milliseconds and the mutex remembers
\* microseconds, so its own document may look different, too.
HeldLost(m) ==
    /\ pc[m] = "held"
    /\ detail' = [detail EXCEPT ![m] = NoDoc]
    /\ Goto(m, "find")
    /\ UNCHANGED <<plain, now, doc, op, seen, granted>>

FindNone(m) ==
    /\ pc[m] = "find" /\ ~Found
    /\ Goto(m, "insert")
    /\ UNCHANGED <<plain, now, doc, detail, op, seen, granted>>

\* Mutant: the expiry of the document that was found is not tested.
FindsExpired_Untested(m) == Found

\* An expired document, by the call's reading of the clock.
FindsExpired(m) == Found /\ doc.expires < op[m].at

FindExpired(m) ==
    /\ pc[m] = "find" /\ FindsExpired(m)
    /\ Goto(m, "cas")
    /\ seen' = [seen EXCEPT ![m] = doc.expires]
    /\ UNCHANGED <<plain, now, doc, detail, op, granted>>

\* A document under the caller's identity: True, without a new lease.
FindOwn(m) ==
    /\ pc[m] = "find" /\ Found /\ ~FindsExpired(m)
    /\ op[m].identity # None /\ IdentityOf(doc.owner) = op[m].identity
    /\ ReturnTrue(m, doc)
    /\ UNCHANGED <<plain, now, doc>>

\* The call ends without effect: try_lock returns False for a foreign
\* document, a duplicate key or an update without match; an operation raises.
EndNoEffect(m) ==
    /\ pc[m] # "idle"
    /\ Return(m)
    /\ UNCHANGED <<plain, now, doc, detail, granted>>

\* Mutant: the update replaces whatever document there is.
Matches_IdOnly(m) == Found

\* The update's filter: `_id` and the `expires` that was found.
Matches(m) == Found /\ doc.expires = seen[m]

\* insert_one or update_one takes effect,
Write(m) ==
    /\ \/ pc[m] = "insert" /\ ~Found
       \/ pc[m] = "cas" /\ Matches(m)
    /\ doc' = NewDoc(m)
    /\ UNCHANGED <<plain, now>>

\* ... and try_lock returns True,
Granted(m) == Write(m) /\ ReturnTrue(m, NewDoc(m))

\* ... or its reply is lost: False after an insert, an exception otherwise.
WriteReplyLost(m) == Write(m) /\ Return(m) /\ UNCHANGED <<detail, granted>>

-----------------------------------------------------------------------------
\* The filter of unlock's delete_one: `_id` and `expires`.
Deletes(m) == Found /\ doc.expires = detail[m].expires

\* unlock with a lock detail; without one it raises at once and does nothing.
\* Whatever comes of it, its caller no longer counts on the lock.
GivesBack(m) ==
    /\ pc[m] = "idle" /\ detail[m] # NoDoc
    /\ granted' = [granted EXCEPT ![detail[m].owner] = 0]
    /\ UNCHANGED <<plain, now, pc, op, seen>>

UnlockReleases(m) ==
    /\ GivesBack(m) /\ Deletes(m)
    /\ doc' = NoDoc
    /\ detail' = [detail EXCEPT ![m] = NoDoc]

UnlockReplyLost(m) ==
    /\ ~plain
    /\ GivesBack(m) /\ Deletes(m)
    /\ doc' = NoDoc
    /\ UNCHANGED detail

UnlockRaises(m) == GivesBack(m) /\ UNCHANGED <<doc, detail>>

-----------------------------------------------------------------------------
\* exist_lock reads the clock,
Probe(m) ==
    /\ ~plain /\ pc[m] = "idle"
    /\ Goto(m, "probe")
    /\ op' = [op EXCEPT ![m].at = now]
    /\ UNCHANGED <<plain, now, doc, detail, seen, granted>>

\* ... finds the document,
ProbeFind(m) ==
    /\ pc[m] = "probe"
    /\ IF Found /\ doc.expires <= op[m].at
         THEN Goto(m, "purge") /\ UNCHANGED <<op, seen>>
         ELSE Return(m)
    /\ UNCHANGED <<plain, now, doc, detail, granted>>

\* ... and deletes it, by `_id` alone, when it found it expired.
ProbeDelete(m) ==
    /\ pc[m] = "purge"
    /\ doc' = NoDoc
    /\ Return(m)
    /\ UNCHANGED <<plain, now, detail, granted>>

\* The server's TTL index removes a document some time after it expired.
TtlPurge ==
    /\ Found /\ doc.expires + PurgeAfter <= now
    /\ doc' = NoDoc
    /\ UNCHANGED <<plain, now, detail, pc, op, seen, granted>>

Tick ==
    /\ now < Horizon
    /\ now' = now + 1
    /\ UNCHANGED <<plain, doc, detail, pc, op, seen, granted>>

Next ==
    \/ Tick \/ TtlPurge
    \/ \E m \in Mutexes :
          \/ \E id \in Identities \cup {None}, ttl \in Ttls : Start(m, id, ttl)
          \/ HeldAgain(m) \/ HeldLost(m)
          \/ FindNone(m) \/ FindExpired(m) \/ FindOwn(m) \/ EndNoEffect(m)
          \/ Granted(m) \/ WriteReplyLost(m)
          \/ UnlockReleases(m) \/ UnlockReplyLost(m) \/ UnlockRaises(m)
          \/ Probe(m) \/ ProbeFind(m) \/ ProbeDelete(m)

Spec == Init /\ [][Next]_vars

-----------------------------------------------------------------------------
(* An unexpired document is never written over: a call that found it       *)
(* expired loses to one that renewed it meanwhile (mongo.py:64-81).        *)
LiveDocNotOverwritten == [][Live => doc' \in {doc, NoDoc}]_vars

\* The leases that plain callers were told of; the others are promised nothing.
Promised == [o \in Owners |-> IF plain THEN granted[o] ELSE 0]

(* The operations and the expiry rule together implement the lease lock    *)
(* for plain callers: no two owners hold unexpired leases at once, however *)
(* long a call pauses between its reading of the clock, its reads and its  *)
(* write (mongo.py:39-86,101-109).                                         *)
Lease == INSTANCE LeaseLock WITH Owners <- Owners, now <- now, granted <- Promised
RefinesLeaseLock == Lease!Spec
=============================================================================
