-------------------------- MODULE VersionedRegister --------------------------
(***************************************************************************)
(* What a repository with optimistic locking promises of one document: it  *)
(* is a register, and each caller may have a copy of one of its versions.  *)
(* A call writes once at most.  Whoever writes outdates all other copies,  *)
(* and who has an outdated one writes over nothing until it was read       *)
(* again.  Nothing is said of how versions are told apart; MongoRepository *)
(* implements this module as long as its stamps do that.                   *)
(***************************************************************************)
CONSTANTS Callers, Absent

VARIABLES value,    \* what the register holds
          copy,     \* copy[c]: the version that c has a copy of
          calling,  \* the callers with a call under way
          confused  \* versions cannot be told apart any more

vars == <<value, copy, calling, confused>>

Init ==
    /\ value = Absent
    /\ copy = [c \in Callers |-> "none"]
    /\ calling = {}
    /\ confused = FALSE

\* Between calls c reads the register, or has something new instead.
Read(c) ==
    /\ c \notin calling
    /\ \/ value # Absent /\ copy' = [copy EXCEPT ![c] = "current"]
       \/ copy' = [copy EXCEPT ![c] = "none"]
    /\ UNCHANGED <<value, calling, confused>>

\* A call begins, by the version that c has or by none.
Begin(c) ==
    /\ c \notin calling
    /\ calling' = calling \cup {c}
    /\ copy' = copy \/ copy' = [copy EXCEPT ![c] = "none"]
    /\ UNCHANGED <<value, confused>>

End(c) ==
    /\ c \in calling
    /\ calling' = calling \ {c}
    /\ UNCHANGED confused

\* Copies are of a version that is over, but for those of the callers in S.
Outdates(S) ==
    /\ \A d \in Callers \ S : copy'[d] = IF copy[d] = "none" THEN "none" ELSE "outdated"
    /\ \A d \in S : copy'[d] \in {"current", "outdated"}
    /\ copy' = [d \in Callers |-> copy'[d]]

\* c writes over the version it has a copy of, or over any if it has none.
Update(c) ==
    /\ End(c)
    /\ value # Absent /\ copy[c] # "outdated"
    /\ value' # Absent
    /\ Outdates({c})

\* There is nothing to write over.
Create(c) ==
    /\ End(c)
    /\ value = Absent
    /\ value' # Absent
    /\ Outdates({c})

Remove(c) ==
    /\ End(c)
    /\ value # Absent
    /\ value' = Absent
    /\ Outdates({})

\* The call has written nothing; a version that it was to write is none.
Fail(c) ==
    /\ End(c)
    /\ copy' = copy \/ copy' = [copy EXCEPT ![c] = "outdated"]
    /\ UNCHANGED value

\* Somebody writes or removes what is there, by no copy.
Sweep ==
    /\ value # Absent
    /\ Outdates({})
    /\ UNCHANGED <<calling, confused>>

\* Somebody marks it as deleted, which makes no version.
Mark ==
    /\ value # Absent
    /\ value' = [value EXCEPT !.deleted = TRUE]
    /\ UNCHANGED <<copy, calling, confused>>

Next ==
    \/ Sweep \/ Mark
    \/ \E c \in Callers :
          Read(c) \/ Begin(c) \/ Update(c) \/ Create(c) \/ Remove(c) \/ Fail(c)

Spec == Init /\ [][Next \/ confused']_vars

(* No lost update: a call by a version that is over changes what is there  *)
(* to nothing but nothing, and the version only gives way to one that was  *)
(* read, or that the call made where there was none.                       *)
NoLostUpdate ==
    [][\A c \in Callers : copy[c] = "outdated" /\ ~confused' =>
          /\ c \in calling \ calling' /\ value # Absent => value' \in {value, Absent}
          /\ copy'[c] = "current" => \/ c \notin calling /\ value' = value
                                     \/ c \in calling \ calling' /\ value = Absent]_vars
=============================================================================
