--------------------------- MODULE RedisElection ---------------------------
(***************************************************************************)
(* dkit/redis.py, the election of RedisAtomic: nodes of one isolation      *)
(* group and a Redis server.  A node enables its election with a first     *)
(* tick in the caller's task, then a loop task ticks on; close() stops the *)
(* loop and gives the leader key back.  A command is one step at the       *)
(* server; it may raise in the client, with or without effect.  A process  *)
(* may crash at any time; its successor has the same node key.             *)
(***************************************************************************)
EXTENDS Naturals

CONSTANTS Nodes,        \* node keys, one RedisAtomic each
          Willing,      \* nodes whose can_elect() is always true
          Beating,      \* nodes with keep_heartbeat
          Listening,    \* nodes with on_leader_changed
          NoNode,       \* no leader
          UnhealthyTime, \* unhealthy_time
          Timeout,      \* timeout; 0: not a positive one
          MinInterval,  \* the least interval, 0.05 s
          MaxFails      \* bound: failed commands, in all

ASSUME NodeAssumption ==
    NoNode \notin Nodes /\ Willing \cup Beating \cup Listening \subseteq Nodes
ASSUME LeaseAssumption ==
    UnhealthyTime \in Nat /\ UnhealthyTime >= 3 /\ {Timeout, MinInterval} \subseteq Nat
ASSUME FailAssumption == MaxFails \in Nat

VARIABLES leader,    \* the leader key: its node, and what is left of its px
          beat,      \* each node's heartbeat key was set, and not deleted since;
                     \* when its px runs out is left open
          election,  \* _election is set
          last,      \* _last_is_leader: what the callback was told
          task,      \* who runs the node's tick: enable_election or the loop
          doing,        \* the next command of the tick; "sleep": in the loop
          handle,    \* _election_task is set: close() can stop the loop
          nap,       \* what is left of the loop's sleep
          closing,   \* the next step of the node's close()
          started,   \* history: enable_election returned, close not called since
          astray,    \* history: a tick that the close under way did not stop
          closed,    \* history: a close without one returned, not enabled since
          miss,      \* history: what delayed the leader's renewal so far
          fails      \* failed commands so far

keys == <<leader, beat>>
tickVars == <<task, doing, handle, nap, started>>
electionVars == <<keys, election, last, tickVars, closing, closed, astray, miss, fails>>

NoLeader == [node |-> NoNode, left |-> 0]
MaxMiss == 2

\* Mutant: the interval is not a third of the lease.
Interval_Undivided ==
    LET least == IF Timeout \in 1..UnhealthyTime THEN Timeout ELSE UnhealthyTime IN
    IF least < MinInterval THEN MinInterval ELSE least

\* The least positive one of timeout and unhealthy_time / 3, but for the floor
\* of 0.05 s: a shorter lease has less than three intervals.
Interval ==
    LET third == UnhealthyTime \div 3
        least == IF Timeout \in 1..third THEN Timeout ELSE third IN
    IF least < MinInterval THEN MinInterval ELSE least

ElectionTypeOK ==
    /\ leader \in [node : Nodes, left : 1..UnhealthyTime] \cup {NoLeader}
    /\ beat \in [Nodes -> BOOLEAN]
    /\ election \in [Nodes -> BOOLEAN]
    /\ last \in [Nodes -> BOOLEAN]
    /\ task \in [Nodes -> {"none", "enable", "loop"}]
    /\ doing \in [Nodes -> {"idle", "sleep", "beat", "get", "renew", "setnx",
                         "notify", "callback", "closing"}]
    /\ handle \in [Nodes -> BOOLEAN]
    /\ nap \in [Nodes -> 0..Interval]
    /\ closing \in [Nodes -> {"no", "resign", "hush"}]
    /\ started \in [Nodes -> BOOLEAN]
    /\ closed \in [Nodes -> BOOLEAN]
    /\ astray \in [Nodes -> BOOLEAN]
    /\ miss \in 0..MaxMiss
    /\ fails \in 0..MaxFails
    /\ \A n \in Nodes :
          /\ task[n] = "none" <=> doing[n] = "idle"
          /\ doing[n] = "sleep" \/ handle[n] => task[n] = "loop"
          /\ started[n] => election[n] /\ task[n] = "loop" /\ closing[n] = "no"
          /\ closed[n] => ~election[n]
          /\ closing[n] # "no" => election[n]
          /\ astray[n] => closing[n] # "no"

ElectionInit ==
    /\ leader = NoLeader
    /\ beat = [n \in Nodes |-> FALSE]
    /\ election = [n \in Nodes |-> FALSE]
    /\ last = [n \in Nodes |-> FALSE]
    /\ task = [n \in Nodes |-> "none"]
    /\ doing = [n \in Nodes |-> "idle"]
    /\ handle = [n \in Nodes |-> FALSE]
    /\ nap = [n \in Nodes |-> 0]
    /\ closing = [n \in Nodes |-> "no"]
    /\ started = [n \in Nodes |-> FALSE]
    /\ closed = [n \in Nodes |-> FALSE]
    /\ astray = [n \in Nodes |-> FALSE]
    /\ miss = 0
    /\ fails = 0

Goto(n, where) == doing' = [doing EXCEPT ![n] = where]

\* n is held up: it matters if n is the leader.
Missed(n) == miss' = IF leader.node = n /\ miss < MaxMiss THEN miss + 1 ELSE miss

Fail == fails < MaxFails /\ fails' = fails + 1

\* The first command of a tick.
First(n) == IF n \in Beating THEN "beat" ELSE "get"

-----------------------------------------------------------------------------
\* enable_election up to its first command.  Bound: a node that has a tick
\* left over from before it was closed is not enabled again.
Enable(n) ==
    /\ ~election[n] /\ task[n] = "none"
    /\ election' = [election EXCEPT ![n] = TRUE]
    /\ last' = [last EXCEPT ![n] = FALSE]
    /\ task' = [task EXCEPT ![n] = "enable"]
    /\ Goto(n, First(n))
    /\ closed' = [closed EXCEPT ![n] = FALSE]
    /\ UNCHANGED <<keys, handle, nap, closing, started, astray, miss, fails>>

\* Back to the loop's sleep.
Rest(n) ==
    /\ task' = [task EXCEPT ![n] = "loop"]
    /\ Goto(n, "sleep")
    /\ nap' = [nap EXCEPT ![n] = Interval]

\* enable_election raises; what it did to _election stays.
EnableRaises(n) ==
    /\ task' = [task EXCEPT ![n] = "none"]
    /\ Goto(n, "idle")
    /\ UNCHANGED <<handle, nap, started>>

\* The tick returns: the loop sleeps; enable_election starts the loop and
\* returns, unless the node was closed meanwhile.
TickEnds(n) ==
    \/ task[n] = "loop" /\ Rest(n) /\ UNCHANGED <<handle, started>>
    \/ /\ task[n] = "enable" /\ election[n]
       /\ Rest(n)
       /\ handle' = [handle EXCEPT ![n] = TRUE]
       /\ started' = [started EXCEPT ![n] = (closing[n] = "no")]
    \/ task[n] = "enable" /\ ~election[n] /\ EnableRaises(n)

\* Mutant: the loop ends with the first tick that raises.
TickRaises_Ends(n) == EnableRaises(n)

\* The tick raises: the loop goes on.
TickRaises(n) ==
    \/ task[n] = "loop" /\ Rest(n) /\ UNCHANGED <<handle, started>>
    \/ task[n] = "enable" /\ EnableRaises(n)

Abandon(n) ==
    /\ TickRaises(n)
    /\ UNCHANGED <<election, last, closing, closed, astray>>

\* The reply of a command arrives, or is lost.
Reply(n, where) ==
    \/ /\ Goto(n, where)
       /\ UNCHANGED <<election, last, task, handle, nap, closing, started, closed,
                      astray, fails>>
    \/ Fail /\ Abandon(n)

\* A command of the tick raises without effect.
TickFails(n) ==
    /\ doing[n] \in {"beat", "get", "renew", "setnx", "notify"}
    /\ Fail /\ Abandon(n)
    /\ Missed(n)
    /\ UNCHANGED keys

\* _require_election raises between two commands: the node was closed.
NotEnabled(n) ==
    /\ doing[n] \in {"get", "notify"} /\ ~election[n]
    /\ Abandon(n)
    /\ UNCHANGED <<keys, miss, fails>>

Wake(n) ==
    /\ doing[n] = "sleep" /\ nap[n] = 0
    /\ IF election[n]
         THEN Goto(n, First(n)) /\ UNCHANGED <<task, handle, nap, started>>
         ELSE TickRaises(n)
    /\ UNCHANGED <<keys, election, last, closing, closed, astray, miss, fails>>

Beat(n) ==
    /\ doing[n] = "beat"
    /\ beat' = [beat EXCEPT ![n] = TRUE]
    /\ Reply(n, "get")
    /\ IF fails' = fails THEN UNCHANGED miss ELSE Missed(n)
    /\ UNCHANGED leader

\* GET of the leader key, and what to do about it; can_elect() may refuse.
GetLeader(n) ==
    /\ doing[n] = "get"
    /\ \/ leader.node = n /\ Goto(n, "renew")
       \/ leader.node = NoNode /\ Goto(n, "setnx")
       \/ leader.node # n /\ (leader.node = NoNode => n \notin Willing) /\ Goto(n, "notify")
    /\ UNCHANGED <<keys, election, last, task, handle, nap, closing, started, closed,
                   astray, miss, fails>>

\* The compare of the PEXPIRE script.
Renews(n) == leader.node = n

RenewLease(n) ==
    /\ doing[n] = "renew"
    /\ IF Renews(n)
         THEN leader' = [leader EXCEPT !.left = UnhealthyTime] /\ miss' = 0
         ELSE UNCHANGED <<leader, miss>>
    /\ Reply(n, "notify")
    /\ UNCHANGED beat

\* Mutant: SET without NX.
Sets_Always(n) == TRUE

\* NX: the key is set only if there is none.
Sets(n) == leader.node = NoNode

\* SET NX of the leader key.
SetLeader(n) ==
    /\ doing[n] = "setnx"
    /\ IF Sets(n)
         THEN leader' = [node |-> n, left |-> UnhealthyTime] /\ miss' = 0
         ELSE UNCHANGED <<leader, miss>>
    /\ Reply(n, "notify")
    /\ UNCHANGED beat

\* Mutant: only winning the election is noted.
Notify_GainOnly(n) ==
    /\ doing[n] = "notify"
    /\ last' = [last EXCEPT ![n] = last[n] \/ leader.node = n]
    /\ IF last'[n] # last[n] /\ n \in Listening
         THEN Goto(n, "callback") /\ UNCHANGED <<task, handle, nap, started>>
         ELSE TickEnds(n)
    /\ UNCHANGED <<keys, election, closing, closed, astray, miss, fails>>

\* The second GET: a change is noted and the callback, if any, called.
Notify(n) ==
    /\ doing[n] = "notify"
    /\ last' = [last EXCEPT ![n] = (leader.node = n)]
    /\ IF last'[n] # last[n] /\ n \in Listening
         THEN Goto(n, "callback") /\ UNCHANGED <<task, handle, nap, started>>
         ELSE TickEnds(n)
    /\ UNCHANGED <<keys, election, closing, closed, astray, miss, fails>>

\* The callback returns or raises.
CallbackEnds(n) ==
    /\ doing[n] = "callback"
    /\ TickEnds(n) \/ TickRaises(n)
    /\ UNCHANGED <<keys, election, last, closing, closed, astray, miss, fails>>

-----------------------------------------------------------------------------
\* Mutant: the loop is left running, its next tick would raise anyway.
CloseStarts_NoStop(n) ==
    /\ election[n] /\ closing[n] = "no"
    /\ closing' = [closing EXCEPT ![n] = "resign"]
    /\ started' = [started EXCEPT ![n] = FALSE]
    /\ astray' = [astray EXCEPT ![n] = (task[n] # "none" /\ ~handle[n])]
    /\ handle' = [handle EXCEPT ![n] = FALSE]
    /\ UNCHANGED <<keys, election, last, task, doing, nap, closed, miss, fails>>

\* close() is called in another task: the loop is cancelled wherever it is.
\* A first tick still running in enable_election is not, nor a loop of which
\* an earlier close, called by the callback, lost the handle and then failed.
CloseStarts(n) ==
    /\ election[n] /\ closing[n] = "no"
    /\ closing' = [closing EXCEPT ![n] = "resign"]
    /\ started' = [started EXCEPT ![n] = FALSE]
    /\ astray' = [astray EXCEPT ![n] = (task[n] # "none" /\ ~handle[n])]
    /\ handle' = [handle EXCEPT ![n] = FALSE]
    /\ IF handle[n]
         THEN /\ task' = [task EXCEPT ![n] = "none"]
              /\ Goto(n, "idle")
              /\ nap' = [nap EXCEPT ![n] = 0]
         ELSE UNCHANGED <<task, doing, nap>>
    /\ UNCHANGED <<keys, election, last, closed, miss, fails>>

\* The callback calls close() itself: the task cancels and awaits itself,
\* which raises the CancelledError that close suppresses.  The loop lives on.
CallbackCloses(n) ==
    /\ doing[n] = "callback" /\ election[n] /\ closing[n] = "no"
    /\ closing' = [closing EXCEPT ![n] = "resign"]
    /\ started' = [started EXCEPT ![n] = FALSE]
    /\ handle' = [handle EXCEPT ![n] = FALSE]
    /\ Goto(n, "closing")
    /\ UNCHANGED <<keys, election, last, task, nap, closed, astray, miss, fails>>

\* The first command of the cleanup deletes the leader key if it is n's.
Resign(n) ==
    /\ closing[n] = "resign"
    /\ closing' = [closing EXCEPT ![n] = "hush"]
    /\ leader' = IF leader.node = n THEN NoLeader ELSE leader
    /\ UNCHANGED <<beat, election, last, tickVars, closed, astray, miss, fails>>

\* A close that was called by the callback ends there.
CloseEnds(n) ==
    /\ closing' = [closing EXCEPT ![n] = "no"]
    /\ astray' = [astray EXCEPT ![n] = FALSE]
    /\ doing' = IF doing[n] = "closing" THEN [doing EXCEPT ![n] = "callback"] ELSE doing

\* The heartbeat is deleted, if it is kept, and close returns.
CloseReturns(n) ==
    /\ closing[n] = "hush"
    /\ CloseEnds(n)
    /\ beat' = [beat EXCEPT ![n] = FALSE]
    /\ election' = [election EXCEPT ![n] = FALSE]
    /\ last' = [last EXCEPT ![n] = FALSE]
    /\ closed' = [closed EXCEPT ![n] = ~astray[n]]
    /\ UNCHANGED <<leader, task, handle, nap, started, miss, fails>>

\* A command of the cleanup raises, the last one perhaps with effect: close
\* raises, the node stays enabled.
CloseFails(n) ==
    /\ closing[n] # "no"
    /\ Fail
    /\ CloseEnds(n)
    /\ \/ closing[n] = "hush" /\ beat' = [beat EXCEPT ![n] = FALSE]
       \/ UNCHANGED beat
    /\ UNCHANGED <<leader, election, last, task, handle, nap, started, closed, miss>>

-----------------------------------------------------------------------------
\* The process dies, a new one has yet to enable its election.
Crash(n) ==
    /\ election[n] \/ task[n] # "none"
    /\ election' = [election EXCEPT ![n] = FALSE]
    /\ last' = [last EXCEPT ![n] = FALSE]
    /\ task' = [task EXCEPT ![n] = "none"]
    /\ Goto(n, "idle")
    /\ handle' = [handle EXCEPT ![n] = FALSE]
    /\ nap' = [nap EXCEPT ![n] = 0]
    /\ closing' = [closing EXCEPT ![n] = "no"]
    /\ started' = [started EXCEPT ![n] = FALSE]
    /\ closed' = [closed EXCEPT ![n] = FALSE]
    /\ astray' = [astray EXCEPT ![n] = FALSE]
    /\ UNCHANGED <<keys, miss, fails>>

\* Time that passes while a tick is due or under way delays it.
TimePasses ==
    /\ leader' = IF leader.left > 1 THEN [leader EXCEPT !.left = leader.left - 1]
                                    ELSE NoLeader
    /\ nap' = [n \in Nodes |-> IF nap[n] > 0 THEN nap[n] - 1 ELSE 0]
    /\ IF \E n \in Nodes : leader.node = n /\ task[n] # "none" /\ nap[n] = 0
         THEN Missed(leader.node) ELSE UNCHANGED miss
    /\ UNCHANGED <<beat, election, last, task, doing, handle, closing, started, closed,
                   astray, fails>>

TickStep(n) ==
    \/ NotEnabled(n) \/ Wake(n) \/ Beat(n) \/ GetLeader(n) \/ RenewLease(n)
    \/ SetLeader(n) \/ Notify(n) \/ CallbackEnds(n)

CloseStep(n) == Resign(n) \/ CloseReturns(n)

ElectionNext ==
    \/ TimePasses
    \/ \E n \in Nodes :
          \/ Enable(n) \/ TickStep(n) \/ TickFails(n)
          \/ CloseStarts(n) \/ CallbackCloses(n) \/ CloseStep(n) \/ CloseFails(n)
          \/ Crash(n)

ElectionSafetySpec == ElectionInit /\ [][ElectionNext]_electionVars

\* The event loops run the tasks that are ready, the server answers, the
\* callbacks come to an end and time goes on.
ElectionSpec ==
    /\ ElectionSafetySpec
    /\ WF_electionVars(TimePasses)
    /\ \A n \in Nodes : WF_electionVars(TickStep(n))

-----------------------------------------------------------------------------
(* A live leader key passes to nobody else, and only a renewal of its own  *)
(* node makes it live longer: not one decided on before the lease ended    *)
(* and another node was elected (redis.py:212-224).                        *)
LeaseIsItsOwners ==
    [][leader.node # NoNode =>
          /\ leader'.node \in {leader.node, NoNode}
          /\ leader'.left > leader.left => doing[leader.node] = "renew"]_electionVars

\* What is left of the lease that n has by the leader key.
Claim == [n \in Nodes |-> IF leader.node = n THEN leader.left ELSE 0]

(* SET NX and the compares of the scripts together implement the leader's  *)
(* lease (redis.py:203-234).                                               *)
Leader == INSTANCE LeaderLease WITH claim <- Claim, Lease <- UnhealthyTime
RefinesLeaderLease == Leader!Spec

\* A lease that the least interval fits into three times, 0.15 s.
LongLease == 3 * MinInterval <= UnhealthyTime

(* A leader whose loop runs loses its key only when its renewal is held up *)
(* twice: one failed tick, or one unit of delay, costs no leadership.  So  *)
(* it is with a lease of 0.15 s at least; the floor under the interval     *)
(* makes it more than a third of a shorter one (redis.py:195-201,315-318). *)
OneMissKeepsLeader ==
    [][\A n \in Nodes :
          LongLease /\ started[n] /\ started'[n] /\ leader.node = n /\ leader'.node # n
              => miss' = MaxMiss]_electionVars

(* After a close that found no tick it could not stop nothing of the node  *)
(* is left at the server: no command of a cancelled tick or of a callback  *)
(* that closed its own node comes after the cleanup (redis.py:170-193,     *)
(* 228-234).                                                               *)
ClosedNodeIsGone ==
    \A n \in Nodes : closed[n] => leader.node # n /\ ~beat[n]

(* While a node that may lead runs its loop, the group does not stay       *)
(* without a leader, whoever crashed, closed or lost a reply               *)
(* (redis.py:195-224).                                                     *)
Failover ==
    (leader.node = NoNode /\ \E n \in Willing : started[n])
        ~> (leader.node # NoNode \/ \A n \in Willing : ~started[n])

(* A running node whose callback was last told something else than the     *)
(* truth is told it, or the truth changes back (redis.py:195-201,271-290). *)
TruthIsTold ==
    \A n \in Nodes :
        (started[n] /\ last[n] # (leader.node = n))
            ~> (~started[n] \/ last[n] = (leader.node = n))

(* No loop outlives its node's close: README.md:21 asks for explicit       *)
(* shutdown semantics of async resources.                                  *)
LoopEndsWithClose ==
    \A n \in Nodes : closed[n] => ~(task[n] = "loop" /\ doing[n] = "sleep")
=============================================================================
