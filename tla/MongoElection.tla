--------------------------- MODULE MongoElection ---------------------------
(***************************************************************************)
(* dkit/mongo.py, the election of MongoAtomic: nodes of one isolation      *)
(* group and the leader document.  A tick reads the clock once, before its *)
(* heartbeat, and judges and writes the document by that reading; every    *)
(* command is one step at the server, and may raise in the client, with or *)
(* without effect.  A process may crash at any time; its successor has the *)
(* same node key.  Times are kept as what is left until them.              *)
(***************************************************************************)
EXTENDS Integers

CONSTANTS Nodes,        \* node keys, one MongoAtomic each
          Willing,      \* nodes whose can_elect() is always true
          Beating,      \* nodes with keep_heartbeat
          Listening,    \* nodes with on_leader_changed
          None,         \* no leader
          Lease,        \* unhealthy_time
          Timeout,      \* timeout; 0: not a positive one
          MinInterval,  \* the least interval, 0.05 s
          PurgeAfter,   \* expireAfterSeconds of the TTL index
          MaxAge,       \* bound: a tick's write comes this long after its reading
          MaxFails      \* bound: failed commands, in all

ASSUME NodeAssumption ==
    None \notin Nodes /\ Willing \cup Beating \cup Listening \subseteq Nodes
ASSUME LeaseAssumption ==
    /\ Lease \in Nat /\ Lease >= 3 /\ {Timeout, MinInterval} \subseteq Nat
    /\ MaxAge \in Nat /\ MaxAge < Lease /\ PurgeAfter \in 0..MaxAge
ASSUME FailAssumption == MaxFails \in Nat

VARIABLES doc,       \* the leader document: its node, and the time to `expires`,
                     \* kept to MaxAge after it
          age,       \* how old the tick's reading of the clock is
          seen,      \* the expired document that the tick found
          election,  \* _election is set
          last,      \* _last_is_leader
          task,      \* who runs the node's tick: enable_election or the loop
          pc,        \* the next command of the tick; "sleep": in the loop
          nap,       \* what is left of the loop's sleep
          closing,   \* the next step of the node's close()
          fails      \* failed commands so far

tickVars == <<age, seen, task, pc, nap>>
vars == <<doc, tickVars, election, last, closing, fails>>

NoDoc == [node |-> None, left |-> 0]
Docs == [node : Nodes, left : (-MaxAge)..Lease] \cup {NoDoc}

\* The least positive one of timeout and unhealthy_time / 3, but for the floor
\* of 0.05 s.
Interval ==
    LET third == Lease \div 3
        least == IF Timeout \in 1..third THEN Timeout ELSE third IN
    IF least < MinInterval THEN MinInterval ELSE least

\* The commands that come after the reading and before the last write.
Pending == {"beat", "find", "renew", "insert", "replace"}

TypeOK ==
    /\ doc \in Docs
    /\ age \in [Nodes -> 0..MaxAge]
    /\ seen \in [Nodes -> Docs]
    /\ election \in [Nodes -> BOOLEAN]
    /\ last \in [Nodes -> BOOLEAN]
    /\ task \in [Nodes -> {"none", "enable", "loop"}]
    /\ pc \in [Nodes -> Pending \cup {"idle", "sleep", "notify", "callback"}]
    /\ nap \in [Nodes -> 0..Interval]
    /\ closing \in [Nodes -> {"no", "resign", "hush"}]
    /\ fails \in 0..MaxFails
    /\ \A n \in Nodes :
          /\ task[n] = "none" <=> pc[n] = "idle"
          /\ pc[n] = "sleep" => task[n] = "loop"
          /\ closing[n] # "no" => election[n]

Init ==
    /\ doc = NoDoc
    /\ age = [n \in Nodes |-> 0]
    /\ seen = [n \in Nodes |-> NoDoc]
    /\ election = [n \in Nodes |-> FALSE]
    /\ last = [n \in Nodes |-> FALSE]
    /\ task = [n \in Nodes |-> "none"]
    /\ pc = [n \in Nodes |-> "idle"]
    /\ nap = [n \in Nodes |-> 0]
    /\ closing = [n \in Nodes |-> "no"]
    /\ fails = 0

\* Mutant: a closed node's option is still used.
Enabled_Stale(n) == TRUE

\* _require_election does not raise.
Enabled(n) == election[n]

\* The loop runs, and no close is under way.
Started(n) == election[n] /\ task[n] = "loop" /\ closing[n] = "no"

\* A command of n raises: any may once the client was closed with its node.
Fail(n) ==
    IF election[n] THEN fails < MaxFails /\ fails' = fails + 1 ELSE UNCHANGED fails

\* The first command of a tick, which has just read the clock.
First(n) == IF n \in Beating THEN "beat" ELSE "find"

\* What a tick has read is of no use after its last write.
Forget(n) ==
    /\ age' = [age EXCEPT ![n] = 0]
    /\ seen' = [seen EXCEPT ![n] = NoDoc]

-----------------------------------------------------------------------------
\* enable_election up to its first command.  Bound: a node with a tick left
\* over from before it was closed is not enabled again.
Enable(n) ==
    /\ ~election[n] /\ task[n] = "none"
    /\ election' = [election EXCEPT ![n] = TRUE]
    /\ last' = [last EXCEPT ![n] = FALSE]
    /\ task' = [task EXCEPT ![n] = "enable"]
    /\ pc' = [pc EXCEPT ![n] = First(n)]
    /\ UNCHANGED <<doc, age, seen, nap, closing, fails>>

\* The tick ends, in the loop's sleep or with its task.
EndsIn(n, t) ==
    /\ task' = [task EXCEPT ![n] = t]
    /\ pc' = [pc EXCEPT ![n] = IF t = "loop" THEN "sleep" ELSE "idle"]
    /\ nap' = [nap EXCEPT ![n] = IF t = "loop" THEN Interval ELSE 0]
    /\ Forget(n)

\* The tick returns: the loop sleeps; enable_election starts the loop, or
\* raises because the node was closed meanwhile.
TickEnds(n) ==
    EndsIn(n, IF task[n] = "loop" \/ Enabled(n) THEN "loop" ELSE "none")

\* The tick raises: the loop goes on, enable_election raises, too, and what
\* it did to _election stays.
TickRaises(n) == EndsIn(n, IF task[n] = "loop" THEN "loop" ELSE "none")

\* The next command of the tick.
Goto(n, where) ==
    /\ pc' = [pc EXCEPT ![n] = where]
    /\ UNCHANGED <<age, seen, task, nap>>

\* The tick has made its write, or lost its reply.
Written(n) ==
    /\ \/ Forget(n) /\ pc' = [pc EXCEPT ![n] = "notify"] /\ UNCHANGED <<task, nap, fails>>
       \/ TickRaises(n) /\ Fail(n)
    /\ UNCHANGED <<election, last, closing>>

\* A command of the tick raises without effect.
CommandFails(n) ==
    /\ pc[n] \in {"beat", "find", "renew", "replace", "notify"}
    /\ TickRaises(n) /\ Fail(n)
    /\ UNCHANGED <<doc, election, last, closing>>

\* _require_election raises between two commands: the node was closed.
NotEnabled(n) ==
    /\ pc[n] \in {"find", "notify"} /\ ~Enabled(n)
    /\ TickRaises(n)
    /\ UNCHANGED <<doc, election, last, closing, fails>>

Wake(n) ==
    /\ pc[n] = "sleep" /\ nap[n] = 0
    /\ IF Enabled(n) THEN Goto(n, First(n)) ELSE TickRaises(n)
    /\ UNCHANGED <<doc, election, last, closing, fails>>

\* The heartbeat is written, its reply arrives or is lost.
Beat(n) ==
    /\ pc[n] = "beat"
    /\ \/ Goto(n, "find") /\ UNCHANGED fails
       \/ TickRaises(n) /\ Fail(n)
    /\ UNCHANGED <<doc, election, last, closing>>

\* Mutant: a document counts as alive until the TTL index removes it.
Alive_Exists(n) == doc # NoDoc

\* `expires` of the document is after the tick's reading of the clock.
Alive(n) == doc # NoDoc /\ doc.left > -age[n]

\* The leader is found, or an expired document, or none; can_elect() may refuse.
Find(n) ==
    /\ pc[n] = "find" /\ Enabled(n)
    /\ \/ Alive(n) /\ doc.node = n /\ Goto(n, "renew")
       \/ /\ ~Alive(n)
          /\ pc' = [pc EXCEPT ![n] = IF doc = NoDoc THEN "insert" ELSE "replace"]
          /\ seen' = [seen EXCEPT ![n] = doc]
          /\ UNCHANGED <<age, task, nap>>
       \/ /\ IF Alive(n) THEN doc.node # n ELSE n \notin Willing
          /\ Forget(n)
          /\ pc' = [pc EXCEPT ![n] = "notify"]
          /\ UNCHANGED <<task, nap>>
    /\ UNCHANGED <<doc, election, last, closing, fails>>

NewDoc(n) == [node |-> n, left |-> Lease - age[n]]

\* The filter of the renewing update: the node's own document, if it had not
\* expired by the reading.
Renew(n) ==
    /\ pc[n] = "renew"
    /\ doc' = IF Alive(n) /\ doc.node = n THEN NewDoc(n) ELSE doc
    /\ Written(n)

\* Mutant: the update replaces whatever document there is.
Matches_IdOnly(n) == doc # NoDoc

\* The filter of the replacing update: the node and `expires` that were found.
Matches(n) == doc = seen[n]

Replace(n) ==
    /\ pc[n] = "replace"
    /\ doc' = IF Matches(n) THEN NewDoc(n) ELSE doc
    /\ Written(n)

\* insert_one, whose errors are swallowed: it may have taken effect or not.
Insert(n) ==
    /\ pc[n] = "insert"
    /\ \/ doc' = (IF doc = NoDoc THEN NewDoc(n) ELSE doc) /\ UNCHANGED fails
       \/ UNCHANGED doc /\ Fail(n)
    /\ Forget(n)
    /\ pc' = [pc EXCEPT ![n] = "notify"]
    /\ UNCHANGED <<election, last, closing, task, nap>>

\* The second find: a change is noted and the callback, if any, called.
Notify(n) ==
    /\ pc[n] = "notify" /\ Enabled(n)
    /\ last' = [last EXCEPT ![n] = (doc.node = n /\ doc.left > 0)]
    /\ IF last'[n] # last[n] /\ n \in Listening THEN Goto(n, "callback") ELSE TickEnds(n)
    /\ UNCHANGED <<doc, election, closing, fails>>

\* The callback returns or raises.  Bound: it does not call close() itself.
CallbackEnds(n) ==
    /\ pc[n] = "callback"
    /\ TickEnds(n) \/ TickRaises(n)
    /\ UNCHANGED <<doc, election, last, closing, fails>>

-----------------------------------------------------------------------------
\* close() is called: a loop is cancelled wherever it is, a first tick still
\* running in enable_election is not.
CloseStarts(n) ==
    /\ closing[n] = "no"
    /\ election[n] \/ task[n] = "loop"
    /\ closing' = [closing EXCEPT ![n] = IF election[n] THEN "resign" ELSE "no"]
    /\ IF task[n] = "loop" THEN EndsIn(n, "none") ELSE UNCHANGED tickVars
    /\ UNCHANGED <<doc, election, last, fails>>

\* The cleanup deletes the leader document if it is n's.
Resign(n) ==
    /\ closing[n] = "resign"
    /\ closing' = [closing EXCEPT ![n] = "hush"]
    /\ doc' = IF doc.node = n THEN NoDoc ELSE doc
    /\ UNCHANGED <<election, last, tickVars, fails>>

\* The heartbeat is deleted, if it is kept, and close returns.
CloseReturns(n) ==
    /\ closing[n] = "hush"
    /\ closing' = [closing EXCEPT ![n] = "no"]
    /\ election' = [election EXCEPT ![n] = FALSE]
    /\ last' = [last EXCEPT ![n] = FALSE]
    /\ UNCHANGED <<doc, tickVars, fails>>

\* A command of the cleanup raises, and close with it: the node stays enabled.
CloseFails(n) ==
    /\ closing[n] # "no"
    /\ Fail(n)
    /\ closing' = [closing EXCEPT ![n] = "no"]
    /\ UNCHANGED <<doc, election, last, tickVars>>

-----------------------------------------------------------------------------
\* The process dies, a new one has yet to enable its election.
Crash(n) ==
    /\ election[n] \/ task[n] # "none"
    /\ election' = [election EXCEPT ![n] = FALSE]
    /\ last' = [last EXCEPT ![n] = FALSE]
    /\ closing' = [closing EXCEPT ![n] = "no"]
    /\ EndsIn(n, "none")
    /\ UNCHANGED <<doc, fails>>

\* A unit of time passes for a document, of which MaxAge after it are kept.
Aged(d) == IF d.left > -MaxAge /\ d # NoDoc THEN [d EXCEPT !.left = d.left - 1] ELSE d

Tick ==
    /\ \A n \in Nodes : pc[n] \in Pending => age[n] < MaxAge
    /\ doc' = Aged(doc)
    /\ seen' = [n \in Nodes |-> Aged(seen[n])]
    /\ age' = [n \in Nodes |-> IF pc[n] \in Pending THEN age[n] + 1 ELSE 0]
    /\ nap' = [n \in Nodes |-> IF nap[n] > 0 THEN nap[n] - 1 ELSE 0]
    /\ UNCHANGED <<election, last, task, pc, closing, fails>>

\* The server's TTL index removes the document some time after it expired.
TtlPurge ==
    /\ doc # NoDoc /\ doc.left <= -PurgeAfter
    /\ doc' = NoDoc
    /\ UNCHANGED <<tickVars, election, last, closing, fails>>

TickStep(n) ==
    \/ NotEnabled(n) \/ Wake(n) \/ Beat(n) \/ Find(n) \/ Renew(n) \/ Replace(n)
    \/ Insert(n) \/ Notify(n) \/ CallbackEnds(n)

Next ==
    \/ Tick \/ TtlPurge
    \/ \E n \in Nodes :
          \/ Enable(n) \/ TickStep(n) \/ CommandFails(n)
          \/ CloseStarts(n) \/ Resign(n) \/ CloseReturns(n) \/ CloseFails(n)
          \/ Crash(n)

SafetySpec == Init /\ [][Next]_vars

\* The event loops run the tasks that are ready, the server answers, the
\* callbacks come to an end and time goes on.
Spec ==
    /\ SafetySpec
    /\ WF_vars(Tick)
    /\ \A n \in Nodes : WF_vars(TickStep(n))

-----------------------------------------------------------------------------
\* What is left of the lease that n has by the document.
Claim == [n \in Nodes |-> IF doc.node = n /\ doc.left > 0 THEN doc.left ELSE 0]

(* The filters, and readings of the clock that are old when they are used, *)
(* together implement the leader's lease: a live lease passes to nobody    *)
(* else (mongo.py:263-293,351-378).                                        *)
Leader == INSTANCE LeaderLease WITH claim <- Claim
RefinesLeaderLease == Leader!Spec

(* A node that was closed or crashed does not lead on, whatever ticks its  *)
(* close could not stop: its lease ends, or it is enabled again            *)
(* (mongo.py:229-239,248-253,308-311).                                     *)
ClosedNodeFades ==
    \A n \in Nodes : ~election[n] ~> (Claim[n] = 0 \/ election[n])

(* While a node that may lead runs its loop, the group does not stay       *)
(* without a leader, whoever crashed, closed or lost a reply, and whether  *)
(* or not the TTL index removes the last leader's document                 *)
(* (mongo.py:263-293,351-378).                                             *)
Failover ==
    (doc.left <= 0 /\ \E n \in Willing : Started(n))
        ~> (doc.left > 0 \/ \A n \in Willing : ~Started(n))
=============================================================================
