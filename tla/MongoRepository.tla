--------------------------- MODULE MongoRepository ---------------------------
(***************************************************************************)
(* model/mongox/repository.py: one document of a collection, and callers   *)
(* of a CollectionRepository that read it into objects of their own and    *)
(* write these back.  updated_at is the optimistic lock: MongoDB keeps it  *)
(* in milliseconds, and each call takes its stamp some time before its     *)
(* command reaches the server.  Documents do not share anything, so a      *)
(* command for many is one for each.                                       *)
(***************************************************************************)
EXTENDS Naturals

CONSTANTS Callers,      \* tasks with a context and an object of their own
          Tenants,
          TenantOf,     \* the tenant in a caller's context
          Hard,         \* callers whose option is SOFT_DELETE_DISABLE
          None,         \* no document, no object, no tenant
          MaxTime       \* bound: the last millisecond

ASSUME CallerAssumption ==
    /\ TenantOf \in [Callers -> Tenants]
    /\ None \notin Tenants
    /\ Hard \subseteq Callers
ASSUME TimeAssumption == MaxTime \in Nat \ {0}

VARIABLES now,      \* the millisecond
          doc,      \* the document: tenant_id, updated_at, whether it has a
                    \* created_at and a deleted_at
          obj,      \* the object of each caller, likewise; updated_at 0: none
          pc,       \* the command that a caller's call is at
          lock,     \* the updated_at in its filter, 0: none
          stale,    \* history: the document was written since the object was
                    \* read or written
          retry,    \* history: a call with the object failed or patched
          taken,    \* history: milliseconds in which updated_at was stamped
          hasty     \* history: some millisecond was stamped twice

vars == <<now, doc, obj, pc, lock, stale, retry, taken, hasty>>

Stamps == 0..MaxTime

Entity == [tenant : Tenants \cup {None}, at : Stamps, created : BOOLEAN, deleted : BOOLEAN]

ASSUME NoneAssumption == None \notin Entity

CallOK(c) ==
    /\ pc[c] # "idle" => obj[c] # None
    /\ pc[c] \notin {"idle", "remove"} => obj[c].at \in taken
    /\ pc[c] \in {"insert", "fresh"} => obj[c].created /\ obj[c].tenant = TenantOf[c]
    /\ lock[c] # 0 => lock[c] \in taken /\ pc[c] \in {"replace", "upsert", "patch", "count"}
    /\ obj[c] # None /\ obj[c].at # 0 => obj[c].at \in taken

TypeOK ==
    /\ now \in 1..MaxTime
    /\ doc \in Entity \cup {None}
    /\ obj \in [Callers -> Entity \cup {None}]
    /\ pc \in [Callers -> {"idle", "insert", "fresh", "replace", "upsert", "patch", "count",
                            "remove"}]
    /\ lock \in [Callers -> Stamps]
    /\ stale \in [Callers -> BOOLEAN]
    /\ retry \in [Callers -> BOOLEAN]
    /\ taken \subseteq 1..now
    /\ hasty \in BOOLEAN
    /\ doc # None => doc.at \in taken
    /\ \A c \in Callers : CallOK(c)

Init ==
    /\ now = 1
    /\ doc = None
    /\ obj = [c \in Callers |-> None]
    /\ pc = [c \in Callers |-> "idle"]
    /\ lock = [c \in Callers |-> 0]
    /\ stale = [c \in Callers |-> FALSE]
    /\ retry = [c \in Callers |-> FALSE]
    /\ taken = {}
    /\ hasty = FALSE

Tick ==
    /\ now < MaxTime
    /\ now' = now + 1
    /\ UNCHANGED <<doc, obj, pc, lock, stale, retry, taken, hasty>>

-----------------------------------------------------------------------------
\* Mutant: the isolation is left out.
Visible_AnyTenant(c) == doc # None /\ (c \in Hard \/ ~doc.deleted)

\* _inject_cond: isolation by tenant, and no deleted documents.
Visible(c) ==
    /\ doc # None
    /\ doc.tenant = TenantOf[c]
    /\ c \in Hard \/ ~doc.deleted

\* Mutant: any version matches.
Matches_AnyVersion(c) == Visible(c)

\* The filter of an update: the lock is there if the object had a stamp.
Matches(c) == Visible(c) /\ (lock[c] = 0 \/ doc.at = lock[c])

\* A stamp is taken at t.
Stamp(t) ==
    /\ taken' = taken \cup {t}
    /\ hasty' = (hasty \/ t \in taken)

\* c writes the document.
Write(c, d) ==
    /\ doc' = d
    /\ stale' = [x \in Callers |-> x # c /\ obj[x] # None]

\* The call ends with an error: the object keeps its new stamp.
Raises(c) ==
    /\ pc' = [pc EXCEPT ![c] = "idle"]
    /\ lock' = [lock EXCEPT ![c] = 0]
    /\ retry' = [retry EXCEPT ![c] = TRUE]
    /\ UNCHANGED <<now, obj, taken, hasty>>

Returns(c) ==
    /\ pc' = [pc EXCEPT ![c] = "idle"]
    /\ lock' = [lock EXCEPT ![c] = 0]
    /\ retry' = [retry EXCEPT ![c] = FALSE]
    /\ UNCHANGED <<now, obj, taken, hasty>>

-----------------------------------------------------------------------------
\* The caller's own code: a new object, with no audit fields.
New(c) ==
    /\ pc[c] = "idle"
    /\ obj' = [obj EXCEPT ![c] = [tenant |-> None, at |-> 0, created |-> FALSE,
                                  deleted |-> FALSE]]
    /\ stale' = [stale EXCEPT ![c] = FALSE]
    /\ retry' = [retry EXCEPT ![c] = FALSE]
    /\ UNCHANGED <<now, doc, pc, lock, taken, hasty>>

\* get, or another query that returns the document.
Get(c) ==
    /\ pc[c] = "idle"
    /\ Visible(c)
    /\ obj' = [obj EXCEPT ![c] = doc]
    /\ stale' = [stale EXCEPT ![c] = FALSE]
    /\ retry' = [retry EXCEPT ![c] = FALSE]
    /\ UNCHANGED <<now, doc, pc, lock, taken, hasty>>

\* create_audit stamps the object, then the command is sent.
Creates(c, command) ==
    /\ pc' = [pc EXCEPT ![c] = command]
    /\ obj' = [obj EXCEPT ![c].tenant = TenantOf[c], ![c].at = now, ![c].created = TRUE]
    /\ Stamp(now)
    /\ UNCHANGED <<now, doc, lock, stale, retry>>

\* Mutant: the new stamp goes into the filter.
Updates_NewStamp(c, command, o) ==
    /\ pc' = [pc EXCEPT ![c] = command]
    /\ lock' = [lock EXCEPT ![c] = now]
    /\ obj' = [obj EXCEPT ![c] = [o EXCEPT !.at = now]]
    /\ Stamp(now)
    /\ UNCHANGED <<now, doc, stale, retry>>

\* update_lock_and_audit: the old stamp goes into the filter.
Updates(c, command, o) ==
    /\ pc' = [pc EXCEPT ![c] = command]
    /\ lock' = [lock EXCEPT ![c] = o.at]
    /\ obj' = [obj EXCEPT ![c] = [o EXCEPT !.at = now]]
    /\ Stamp(now)
    /\ UNCHANGED <<now, doc, stale, retry>>

\* delete_audit marks the object as deleted even if soft deletion is off.
Deletes(c) ==
    /\ pc' = [pc EXCEPT ![c] = "remove"]
    /\ obj' = [obj EXCEPT ![c].deleted = TRUE]
    /\ UNCHANGED <<now, doc, lock, stale, retry, taken, hasty>>

\* create, update, upsert, patch and delete up to their command.
Call(c) ==
    /\ pc[c] = "idle" /\ obj[c] # None
    /\ \/ Creates(c, "insert")
       \/ Updates(c, "replace", obj[c])
       \/ IF obj[c].created THEN Updates(c, "upsert", obj[c]) ELSE Creates(c, "fresh")
       \/ Updates(c, "patch", obj[c])
       \/ c \notin Hard /\ Updates(c, "replace", [obj[c] EXCEPT !.deleted = TRUE])
       \/ c \in Hard /\ Deletes(c)

\* insert_one, or the insert of an upsert: its _id may be there.
Insert(c) ==
    /\ pc[c] \in {"insert", "fresh", "upsert"}
    /\ doc = None
    /\ Write(c, obj[c])
    /\ Returns(c) \/ Raises(c)

\* Mutant: the check of the document's age is skipped.
Duplicate_Overwrites(c) ==
    /\ \/ pc[c] = "insert"
       \/ pc[c] = "upsert" /\ ~Matches(c)
    /\ doc # None
    /\ Write(c, obj[c])
    /\ Returns(c)

\* is_duplicate_error: a conflict, but not of versions.
Duplicate(c) ==
    /\ \/ pc[c] = "insert"
       \/ pc[c] = "upsert" /\ ~Matches(c)
    /\ doc # None
    /\ Raises(c)
    /\ UNCHANGED <<doc, stale>>

\* replace_one finds its document; a reply that is lost raises.
Replace(c) ==
    /\ doc # None
    /\ \/ pc[c] = "fresh"
       \/ pc[c] \in {"replace", "upsert"} /\ Matches(c)
    /\ Write(c, obj[c])
    /\ Returns(c) \/ Raises(c)

\* replace_one finds nothing, nor does update_one.
Missed(c) ==
    /\ ~Matches(c)
    /\ \/ /\ pc[c] = "replace"
          /\ pc' = [pc EXCEPT ![c] = "count"]
          /\ UNCHANGED <<now, obj, lock, retry, taken, hasty>>
       \/ pc[c] = "patch" /\ Raises(c)
    /\ UNCHANGED <<doc, stale>>

\* The count without the lock: "data is modified by other".
Conflict(c) ==
    /\ pc[c] = "count" /\ Visible(c)
    /\ Raises(c)
    /\ UNCHANGED <<doc, stale>>

NotFound(c) ==
    /\ pc[c] \in {"count", "remove"} /\ ~Visible(c)
    /\ Raises(c)
    /\ UNCHANGED <<doc, stale>>

\* Mutant: the version in the document is left alone.
Patched_OldStamp(c, t) ==
    [tenant |-> obj[c].tenant, at |-> doc.at,
     created |-> doc.created \/ obj[c].created,
     deleted |-> doc.deleted \/ obj[c].deleted]

\* What a patch sets: every field the object has, and a second stamp.
Patched(c, t) ==
    [tenant |-> obj[c].tenant, at |-> t,
     created |-> doc.created \/ obj[c].created,
     deleted |-> doc.deleted \/ obj[c].deleted]

\* update_one finds its document; the stamp it writes was taken after the
\* object's.
Patch(c) ==
    /\ pc[c] = "patch" /\ Matches(c)
    /\ \E t \in obj[c].at..now :
          /\ Write(c, Patched(c, t))
          /\ taken' = taken \cup {t}
          /\ hasty' = (hasty \/ (t # obj[c].at /\ t \in taken))
          /\ retry' = [retry EXCEPT ![c] = TRUE]
    /\ pc' = [pc EXCEPT ![c] = "idle"]
    /\ lock' = [lock EXCEPT ![c] = 0]
    /\ UNCHANGED <<now, obj>>

\* delete_one.
Remove(c) ==
    /\ pc[c] = "remove" /\ Visible(c)
    /\ Write(c, None)
    /\ Returns(c) \/ Raises(c)

\* Nothing was modified: "optimistic locking failed".
Unmodified(c) ==
    /\ Matches(c) /\ lock[c] # 0
    /\ \/ pc[c] \in {"replace", "upsert"} /\ obj[c] = doc
       \/ pc[c] = "patch" /\ \E t \in obj[c].at..now : Patched(c, t) = doc
    /\ Raises(c)
    /\ UNCHANGED <<doc, stale>>

\* The command is not carried out: the connection is lost, or the call is
\* cancelled.
Fails(c) ==
    /\ pc[c] # "idle"
    /\ Raises(c)
    /\ UNCHANGED <<doc, stale>>

-----------------------------------------------------------------------------
\* Somebody writes by a filter, with no object.
WriteByFilter(d) ==
    /\ doc' = d
    /\ stale' = [x \in Callers |-> obj[x] # None]
    /\ UNCHANGED <<now, obj, pc, lock, retry>>

\* patch_raw: the stamp was taken some time before.  With skip_inject_cond its
\* filter is the caller's own: another tenant's document and a deleted one are
\* found too.  Of the audit fields the payload sets the stamp alone.
PatchRaw(c, skip) ==
    /\ IF skip THEN doc # None ELSE Visible(c)
    /\ \E t \in 1..now :
          WriteByFilter([doc EXCEPT !.at = t]) /\ Stamp(t)

\* batch_delete: soft deletion leaves the stamp alone.
BatchDelete(c) ==
    /\ c \notin Hard /\ Visible(c)
    /\ WriteByFilter([doc EXCEPT !.deleted = TRUE])
    /\ UNCHANGED <<taken, hasty>>

\* The same without soft deletion.
BatchRemove(c) ==
    /\ c \in Hard /\ Visible(c)
    /\ WriteByFilter(None)
    /\ UNCHANGED <<taken, hasty>>

Command(c) ==
    \/ Insert(c) \/ Duplicate(c) \/ Replace(c) \/ Unmodified(c) \/ Missed(c)
    \/ Conflict(c) \/ NotFound(c) \/ Patch(c) \/ Remove(c) \/ Fails(c)

ByFilter(c) ==
    \/ \E skip \in BOOLEAN : PatchRaw(c, skip)
    \/ BatchDelete(c) \/ BatchRemove(c)

Next ==
    \/ Tick
    \/ \E c \in Callers :
          New(c) \/ Get(c) \/ Call(c) \/ Command(c) \/ ByFilter(c)

Spec == Init /\ [][Next]_vars

-----------------------------------------------------------------------------
\* The version of the document that a caller has an object of, 0: none.
Sent(c) == pc[c] \notin {"idle", "remove"}
Version(c) == IF Sent(c) THEN lock[c] ELSE obj[c].at

\* Which version that is, told by the stamps alone.
Copy(c) ==
    IF obj[c] = None \/ Version(c) = 0 THEN "none"
    ELSE IF doc # None /\ doc.at = Version(c) THEN "current" ELSE "outdated"

Copies == [c \in Callers |-> Copy(c)]

Calling == {c \in Callers : pc[c] # "idle"}

Register == INSTANCE VersionedRegister WITH
    Absent <- None, value <- doc, copy <- Copies, calling <- Calling, confused <- hasty

(* The document is a register with versions, as long as no millisecond is  *)
(* stamped twice: a call writes once at most, what is written outdates the *)
(* objects of all others, and an outdated one never overwrites anything    *)
(* nor becomes current again, whatever fails, is deleted or made anew      *)
(* (repository.py:367-412).                                                *)
RefinesRegister == Register!Spec

(* No update takes effect over a write that its object has not seen, as    *)
(* long as no millisecond is stamped twice: not after a failed call, a     *)
(* lost reply, or a deletion and a new document (repository.py:405-412).   *)
(* Without soft deletion in the filter, one over a batch's deletion may.   *)
OptimisticLock ==
    [][\A c \in Callers \ Hard :
          /\ Replace(c) \/ Patch(c)
          /\ lock[c] # 0 /\ stale[c]
          => hasty']_vars

(* "data is modified by other" and "optimistic locking failed" say so: an  *)
(* object that was read, or written with success, only meets them if       *)
(* somebody wrote the document since (repository.py:381-396).              *)
ConflictIsReal ==
    [][\A c \in Callers :
          Conflict(c) \/ Unmodified(c) => stale[c] \/ retry[c] \/ hasty]_vars

(* A soft deletion is final for those who do not turn it off, whatever     *)
(* they hold or retry.  Two calls of theirs get past it: an upsert of a    *)
(* new object, and a patch_raw with skip_inject_cond                       *)
(* (repository.py:277-280,400-412,462-467).                                *)
DeletedStaysDeleted ==
    [][\A c \in Callers \ Hard :
          (Command(c) \/ PatchRaw(c, FALSE) \/ BatchDelete(c)) /\ doc # None /\ doc.deleted
              => doc' = doc \/ pc[c] = "fresh"]_vars

(* A caller neither changes nor replaces what is another tenant's, but by  *)
(* the same two calls: an upsert of a new object, and a patch_raw with     *)
(* skip_inject_cond (repository.py:277-280,400-412,442-460).               *)
TenantWalls ==
    [][\A c \in Callers :
          /\ Command(c) \/ PatchRaw(c, FALSE) \/ BatchDelete(c) \/ BatchRemove(c)
          /\ doc # None /\ doc.tenant # TenantOf[c]
          => doc' = doc \/ pc[c] = "fresh"]_vars
=============================================================================
