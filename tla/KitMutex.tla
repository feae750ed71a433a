----------------------------- MODULE KitMutex -----------------------------
(***************************************************************************)
(* dkit/kit.py mutex_do and mutex_try_do, and the wait loop of lock() in   *)
(* dkit/memory.py, over the in-memory mutexes of MemoryMutex.  Each task   *)
(* makes one call; the call makes itself a mutex object, so the task's     *)
(* name is also its mutex's.  Tasks run in any threads: they interleave    *)
(* wherever the RLock is not held.  A task may be cancelled where it is    *)
(* suspended, in the wait's sleep and in the action.                       *)
(***************************************************************************)
EXTENDS MemoryMutex

CONSTANTS DefaultTtl,   \* atomic.get_mutex_default_ttl(): lease and longest wait
          Spin          \* spin_interval

ASSUME KitAssumption ==
    Identities = {} /\ DefaultTtl \in Ttls /\ Spin \in Nat \ {0}

VARIABLES pc,         \* where each task is in its call
          waits,      \* the call is mutex_do, not mutex_try_do
          start,      \* lock(): start
          wake,       \* when the sleep of lock() ends
          actionErr,  \* what action() ended with; "none": returned
          outcome     \* how the call ended

kitVars == <<pc, waits, start, wake, actionErr, outcome>>
allVars == <<vars, kitVars>>

Endings == {"none", "error", "cancelled"}
Outcomes == Endings \cup {"pending", "not_run", "not_acquired", "unlock_failed"}

KitTypeOK ==
    /\ TypeOK
    /\ pc \in [Mutexes -> {"idle", "trying", "checking", "pausing", "sleeping",
                           "action", "unlocking", "done"}]
    /\ waits \in [Mutexes -> BOOLEAN]
    /\ start \in [Mutexes -> 0..Horizon]
    /\ wake \in [Mutexes -> Nat]
    /\ actionErr \in [Mutexes -> Endings]
    /\ outcome \in [Mutexes -> Outcomes]
    /\ \A t \in Mutexes :
          /\ pc[t] = "done" <=> outcome[t] # "pending"
          /\ lockedOwner[t] \in {None, t}
          /\ pc[t] \in {"action", "unlocking"} => lockedOwner[t] = t

KitInit ==
    /\ Init
    /\ pc = [t \in Mutexes |-> "idle"]
    /\ waits = [t \in Mutexes |-> FALSE]
    /\ start = [t \in Mutexes |-> 0]
    /\ wake = [t \in Mutexes |-> 0]
    /\ actionErr = [t \in Mutexes |-> "none"]
    /\ outcome = [t \in Mutexes |-> "pending"]

locals == <<waits, start, wake>>

Goto(t, where) == pc' = [pc EXCEPT ![t] = where]

\* lock() returns or raises: its locals are gone.
LeaveLock(t) ==
    /\ waits' = [waits EXCEPT ![t] = FALSE]
    /\ start' = [start EXCEPT ![t] = 0]
    /\ wake' = [wake EXCEPT ![t] = 0]

Finish(t, how) ==
    /\ Goto(t, "done")
    /\ outcome' = [outcome EXCEPT ![t] = how]
    /\ LeaveLock(t)

Stay(t, where) == Goto(t, where) /\ UNCHANGED <<outcome, locals>>

\* A call of mutex_do (or mutex_try_do) makes its mutex.  Calls start early
\* enough for the bounded clock to see the longest wait through.
Call(t) ==
    /\ pc[t] = "idle" /\ now + DefaultTtl + Spin <= Horizon
    /\ waits' \in {[waits EXCEPT ![t] = w] : w \in BOOLEAN}
    /\ start' = [start EXCEPT ![t] = now]
    /\ Goto(t, "trying")
    /\ UNCHANGED <<vars, wake, actionErr, outcome>>

\* try_lock returns True: on to the action.
Acquire(t) ==
    /\ pc[t] = "trying"
    /\ TryLock(t, None, DefaultTtl)
    /\ Goto(t, "action")
    /\ LeaveLock(t)
    /\ UNCHANGED <<actionErr, outcome>>

\* try_lock returns False: mutex_try_do returns (False, None), lock() goes
\* on to look at its deadline.
Refused(t) ==
    /\ pc[t] = "trying" /\ TryLockRefuses(t, None)
    /\ IF waits[t] THEN Stay(t, "checking") ELSE Finish(t, "not_run")
    /\ UNCHANGED <<vars, actionErr>>

\* The deadline test of lock(): LockNotAcquiredError or another round.
CheckWait(t) ==
    /\ pc[t] = "checking"
    /\ IF now - start[t] >= DefaultTtl THEN Finish(t, "not_acquired")
                                       ELSE Stay(t, "pausing")
    /\ UNCHANGED <<vars, actionErr>>

AtMost(a, b) == IF a < b THEN a ELSE b

\* Mutant: the last sleep is not cut to what is left of the wait.
SleepFor_Uncut(t) == Spin

\* min(spin_interval, max(0, max_wait_time - elapsed)); the clock is read
\* again, after CheckWait.
SleepFor(t) ==
    AtMost(Spin, IF now < start[t] + DefaultTtl THEN start[t] + DefaultTtl - now ELSE 0)

Pause(t) ==
    /\ pc[t] = "pausing"
    /\ wake' = [wake EXCEPT ![t] = now + SleepFor(t)]
    /\ Goto(t, "sleeping")
    /\ UNCHANGED <<vars, waits, start, actionErr, outcome>>

Wake(t) ==
    /\ pc[t] = "sleeping" /\ wake[t] <= now
    /\ Goto(t, "trying")
    /\ wake' = [wake EXCEPT ![t] = 0]
    /\ UNCHANGED <<vars, waits, start, actionErr, outcome>>

\* The task is cancelled in asyncio.sleep: lock() holds nothing yet.
CancelWait(t) ==
    /\ pc[t] = "sleeping"
    /\ Finish(t, "cancelled")
    /\ UNCHANGED <<vars, actionErr>>

\* Mutant: the cleanup is in `except Exception`, which a cancellation passes.
ActionEnds_NoFinally(t) ==
    /\ pc[t] = "action"
    /\ \/ /\ actionErr' \in {[actionErr EXCEPT ![t] = e] : e \in {"none", "error"}}
          /\ Stay(t, "unlocking")
       \/ /\ actionErr' = [actionErr EXCEPT ![t] = "cancelled"]
          /\ Finish(t, "cancelled")
    /\ UNCHANGED vars

\* action() returns, raises, or is cancelled.  The finally clause follows.
ActionEnds(t) ==
    /\ pc[t] = "action"
    /\ actionErr' \in {[actionErr EXCEPT ![t] = e] : e \in Endings}
    /\ Goto(t, "unlocking")
    /\ UNCHANGED <<vars, locals, outcome>>

\* The unlock of the finally clause returns: the call ends as the action did.
UnlockReturns(t) ==
    /\ pc[t] = "unlocking"
    /\ UnlockReleases(t)
    /\ Finish(t, actionErr[t])
    /\ UNCHANGED actionErr

\* Mutant: the error of unlock is swallowed.
UnlockFails_Swallowed(t) ==
    /\ pc[t] = "unlocking"
    /\ UnlockRaises(t)
    /\ Finish(t, actionErr[t])
    /\ UNCHANGED actionErr

\* Mutant: unlock is tried again until it returns.
UnlockFails_Retried(t) ==
    /\ pc[t] = "unlocking"
    /\ UnlockRaises(t)
    /\ UNCHANGED kitVars

\* It raises: RuntimeError, in place of whatever the action raised.
UnlockFails(t) ==
    /\ pc[t] = "unlocking"
    /\ UnlockRaises(t)
    /\ Finish(t, "unlock_failed")
    /\ UNCHANGED actionErr

KitTick == Tick /\ UNCHANGED kitVars

Step(t) ==
    \/ Acquire(t) \/ Refused(t) \/ CheckWait(t) \/ Pause(t) \/ Wake(t)
    \/ UnlockReturns(t) \/ UnlockFails(t)

KitNext ==
    \/ KitTick
    \/ \E t \in Mutexes : Call(t) \/ Step(t) \/ CancelWait(t) \/ ActionEnds(t)

KitSafetySpec == KitInit /\ [][KitNext]_allVars

\* The event loop runs every task that is ready and the clock goes on.  Of
\* the action nothing is assumed: it may never end.
KitSpec ==
    /\ KitSafetySpec
    /\ WF_allVars(KitTick)
    /\ \A t \in Mutexes : WF_allVars(Step(t))

-----------------------------------------------------------------------------
(* A call that ends as its action ended, without unlock_failed, had the    *)
(* lock to itself from the grant to the unlock, however long the action    *)
(* ran past the lease (kit.py:83-94, memory.py:65-77).                     *)
CleanCallWasAlone ==
    \A t \in Mutexes : t \in intruded => outcome[t] \in {"pending", "unlock_failed"}

(* However a call ends, by return, error, cancellation while waiting or in *)
(* the action, or a failed unlock, it leaves no lock of its own behind     *)
(* (kit.py:86-94,114-122; README.md:21).                                   *)
NoLockLeftBehind == \A t \in Mutexes : pc[t] = "done" => entry.owner # t

(* While two actions run at once, all but one of them have outlived their  *)
(* lease (kit.py:78,104).                                                  *)
OneActionInLease ==
    \A t, u \in Mutexes :
        pc[t] = "action" /\ pc[u] = "action" /\ granted[t] > now /\ granted[u] > now
            => t = u

(* A waiter never sleeps past the wait it was given, so it makes a last    *)
(* attempt no later than the moment the wait ends (memory.py:60-63).       *)
NoOversleep ==
    \A t \in Mutexes :
        pc[t] = "sleeping" => wake[t] <= now \/ wake[t] <= start[t] + DefaultTtl

(* Every call comes to an end or to its action, even while a holder never  *)
(* ends its own: no wait is without end and no cleanup is stuck            *)
(* (memory.py:52-63, kit.py:72-122).                                       *)
CallSettles ==
    \A t \in Mutexes :
        /\ pc[t] = "trying" ~> pc[t] \in {"action", "done"}
        /\ pc[t] = "unlocking" ~> pc[t] = "done"
=============================================================================
