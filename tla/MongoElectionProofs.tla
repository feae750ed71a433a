------------------------ MODULE MongoElectionProofs ------------------------
(***************************************************************************)
(* Proofs about MongoElection, for any number of nodes, any lease, readings*)
(* of the clock that are any number of units old, short of a lease, and    *)
(* any number of failed commands.                                          *)
(***************************************************************************)
EXTENDS MongoElection, TLAPS

\* The case split on the next-state relation that the step proofs use.
LEMMA StepCases ==
    ASSUME [Next]_vars
    PROVE  \/ Tick \/ TtlPurge
           \/ \E n \in Nodes :
                 \/ Enable(n) \/ NotEnabled(n) \/ Wake(n) \/ Beat(n) \/ Find(n)
                 \/ Renew(n) \/ Replace(n) \/ Insert(n) \/ Notify(n) \/ CallbackEnds(n)
                 \/ CommandFails(n) \/ CloseStarts(n) \/ Resign(n) \/ CloseReturns(n)
                 \/ CloseFails(n) \/ Crash(n)
           \/ UNCHANGED vars
  BY Zenon DEF Next, TickStep

LEMMA IntervalType == Interval \in Nat
<1>1. Lease \div 3 \in Nat /\ Timeout \in Nat /\ MinInterval \in Nat
  BY LeaseAssumption
<1>2. QED
  BY <1>1 DEF Interval

\* A document is none or has a node, by which the two are told apart.
LEMMA DocType ==
    ASSUME NEW d \in Docs
    PROVE  /\ d.node = None <=> d = NoDoc
           /\ d # NoDoc => d.node \in Nodes /\ d.left \in (-MaxAge)..Lease
           /\ d.left \in Int
  BY NodeAssumption, LeaseAssumption DEF Docs, NoDoc

LEMMA NewDocType ==
    ASSUME TypeOK, NEW n \in Nodes
    PROVE  /\ NewDoc(n) \in Docs /\ NewDoc(n).node = n
           /\ NewDoc(n).left \in 1..Lease
  BY LeaseAssumption DEF TypeOK, NewDoc, Docs

LEMMA AgedType ==
    ASSUME NEW d \in Docs
    PROVE  /\ Aged(d) \in Docs
           /\ Aged(d).node = d.node
           /\ Aged(d).left \in {d.left, d.left - 1}
           /\ d.left > 0 => Aged(d).left = d.left - 1
<1>1. CASE d = NoDoc
  BY <1>1 DEF Aged, NoDoc
<1>2. CASE d \in [node : Nodes, left : (-MaxAge)..Lease]
  <2>1. d # NoDoc
    BY <1>2, NodeAssumption DEF NoDoc
  <2>2. CASE d.left > -MaxAge
    <3>1. Aged(d) = [node |-> d.node, left |-> d.left - 1]
      BY <1>2, <2>1, <2>2 DEF Aged
    <3>2. d.left - 1 \in (-MaxAge)..Lease
      BY <1>2, <2>2, LeaseAssumption
    <3>3. QED
      BY <1>2, <3>1, <3>2 DEF Docs
  <2>3. CASE ~(d.left > -MaxAge)
    BY <1>2, <2>3, LeaseAssumption DEF Aged, Docs
  <2>4. QED
    BY <2>2, <2>3
<1>3. QED
  BY <1>1, <1>2 DEF Docs

-----------------------------------------------------------------------------
\* The part of the type invariant that a node's tick has to keep.
TickType ==
    /\ age \in [Nodes -> 0..MaxAge]
    /\ seen \in [Nodes -> Docs]
    /\ task \in [Nodes -> {"none", "enable", "loop"}]
    /\ pc \in [Nodes -> Pending \cup {"idle", "sleep", "notify", "callback"}]
    /\ nap \in [Nodes -> 0..Interval]
    /\ \A n \in Nodes :
          /\ task[n] = "none" <=> pc[n] = "idle"
          /\ pc[n] = "sleep" => task[n] = "loop"

LEMMA EndsInType ==
    ASSUME TypeOK, NEW n \in Nodes, NEW t \in {"none", "loop"}, EndsIn(n, t)
    PROVE  TickType'
<1>1. 0 \in 0..MaxAge /\ NoDoc \in Docs /\ 0 \in 0..Interval /\ Interval \in 0..Interval
  BY IntervalType, LeaseAssumption DEF Docs
<1>2. QED
  BY <1>1 DEF EndsIn, Forget, TypeOK, TickType

LEMMA GotoType ==
    ASSUME TypeOK, NEW n \in Nodes, task[n] # "none",
           NEW where \in Pending \cup {"notify", "callback"}, Goto(n, where)
    PROVE  TickType'
  BY DEF Goto, TypeOK, TickType, Pending

LEMMA ForgetType ==
    ASSUME TypeOK, NEW n \in Nodes, task[n] # "none",
           Forget(n), pc' = [pc EXCEPT ![n] = "notify"], UNCHANGED <<task, nap>>
    PROVE  TickType'
<1>1. 0 \in 0..MaxAge /\ NoDoc \in Docs
  BY LeaseAssumption DEF Docs
<1>2. QED
  BY <1>1 DEF Forget, TypeOK, TickType, Pending

LEMMA FailType ==
    ASSUME TypeOK, NEW n \in Nodes, Fail(n)
    PROVE  fails' \in 0..MaxFails
  BY FailAssumption DEF Fail, TypeOK

LEMMA WrittenType ==
    ASSUME TypeOK, NEW n \in Nodes, task[n] # "none", Written(n)
    PROVE  TickType' /\ fails' \in 0..MaxFails
  BY ForgetType, EndsInType, FailType DEF Written, TickRaises, TypeOK

\* What the type invariant says besides.
OtherType ==
    /\ doc \in Docs
    /\ election \in [Nodes -> BOOLEAN]
    /\ last \in [Nodes -> BOOLEAN]
    /\ closing \in [Nodes -> {"no", "resign", "hush"}]
    /\ fails \in 0..MaxFails
    /\ \A n \in Nodes : closing[n] # "no" => election[n]

LEMMA TypeParts == (TypeOK <=> TickType /\ OtherType) /\ (TypeOK' <=> TickType' /\ OtherType')
  BY DEF TypeOK, TickType, OtherType

(* The nodes, their tasks and the document stay well formed: a node whose  *)
(* close is under way is enabled, one without a task is at no command.     *)
THEOREM MongoElectionType == SafetySpec => []TypeOK
<1>1. Init => TypeOK
  BY IntervalType, FailAssumption, LeaseAssumption DEF Init, TypeOK, Docs
<1>2. TypeOK /\ [Next]_vars => TypeOK'
  <2> SUFFICES ASSUME TypeOK, [Next]_vars
               PROVE  TickType' /\ OtherType'
    BY TypeParts
  <2>0. TickType /\ OtherType
    BY TypeParts
  <2>1. CASE Tick
    <3>1. doc' \in Docs /\ seen' \in [Nodes -> Docs]
      BY <2>1, <2>0, AgedType DEF Tick, TickType, OtherType
    <3>2. age' \in [Nodes -> 0..MaxAge]
      BY <2>1, <2>0, LeaseAssumption DEF Tick, TickType
    <3>3. nap' \in [Nodes -> 0..Interval]
      BY <2>1, <2>0, IntervalType DEF Tick, TickType
    <3>4. QED
      BY <2>0, <2>1, <3>1, <3>2, <3>3 DEF Tick, TickType, OtherType
  <2>2. CASE TtlPurge
    BY <2>0, <2>2 DEF TtlPurge, TickType, OtherType, tickVars, Docs
  <2>3. ASSUME NEW n \in Nodes, Enable(n)
        PROVE  TickType' /\ OtherType'
    BY <2>0, <2>3 DEF Enable, First, TickType, OtherType, Pending
  <2>4. ASSUME NEW n \in Nodes,
               NotEnabled(n) \/ Wake(n) \/ Beat(n) \/ CallbackEnds(n) \/ CommandFails(n)
        PROVE  TickType' /\ OtherType'
    <3>1. task[n] # "none"
      BY <2>0, <2>4 DEF NotEnabled, Wake, Beat, CallbackEnds, CommandFails, TickType
    <3>2. \/ \E t \in {"none", "loop"} : EndsIn(n, t)
          \/ \E where \in Pending : Goto(n, where)
      BY <2>4 DEF NotEnabled, Wake, Beat, CallbackEnds, CommandFails, TickEnds, TickRaises,
                  First, Pending
    <3>3. TickType'
      BY <3>1, <3>2, EndsInType, GotoType
    <3>4. fails' \in 0..MaxFails
      BY <2>0, <2>4, FailType
         DEF NotEnabled, Wake, Beat, CallbackEnds, CommandFails, OtherType
    <3>5. UNCHANGED <<doc, election, last, closing>>
      BY <2>4 DEF NotEnabled, Wake, Beat, CallbackEnds, CommandFails
    <3>6. QED
      BY <2>0, <3>3, <3>4, <3>5 DEF OtherType
  <2>5. ASSUME NEW n \in Nodes, Find(n)
        PROVE  TickType' /\ OtherType'
    <3>1. task[n] # "none"
      BY <2>0, <2>5 DEF Find, TickType
    <3>2. OtherType'
      BY <2>0, <2>5 DEF Find, OtherType
    <3>3. CASE Goto(n, "renew")
      BY <3>1, <3>2, <3>3, GotoType DEF Pending
    <3>4. CASE /\ pc' = [pc EXCEPT ![n] = IF doc = NoDoc THEN "insert" ELSE "replace"]
               /\ seen' = [seen EXCEPT ![n] = doc]
               /\ UNCHANGED <<age, task, nap>>
      BY <2>0, <3>1, <3>2, <3>4 DEF TickType, OtherType, Pending
    <3>5. CASE Forget(n) /\ pc' = [pc EXCEPT ![n] = "notify"] /\ UNCHANGED <<task, nap>>
      BY <3>1, <3>2, <3>5, ForgetType
    <3>6. QED
      BY <2>5, <3>3, <3>4, <3>5 DEF Find
  <2>6. ASSUME NEW n \in Nodes, Renew(n) \/ Replace(n)
        PROVE  TickType' /\ OtherType'
    <3>1. task[n] # "none" /\ Written(n)
      BY <2>0, <2>6 DEF Renew, Replace, TickType
    <3>2. doc' \in Docs
      BY <2>0, <2>6, NewDocType DEF Renew, Replace, OtherType
    <3>3. QED
      BY <2>0, <3>1, <3>2, WrittenType DEF Written, OtherType
  <2>7. ASSUME NEW n \in Nodes, Insert(n)
        PROVE  TickType' /\ OtherType'
    <3>1. task[n] # "none"
      BY <2>0, <2>7 DEF Insert, TickType
    <3>2. doc' \in Docs
      BY <2>0, <2>7, NewDocType DEF Insert, OtherType
    <3>3. fails' \in 0..MaxFails
      BY <2>0, <2>7, FailType DEF Insert, OtherType
    <3>4. TickType'
      BY <2>7, <3>1, ForgetType DEF Insert
    <3>5. QED
      BY <2>0, <2>7, <3>2, <3>3, <3>4 DEF Insert, OtherType
  <2>8. ASSUME NEW n \in Nodes, Notify(n)
        PROVE  TickType' /\ OtherType'
    <3>1. task[n] # "none"
      BY <2>0, <2>8 DEF Notify, TickType
    <3>2. (\E t \in {"none", "loop"} : EndsIn(n, t)) \/ Goto(n, "callback")
      BY <2>8 DEF Notify, TickEnds
    <3>3. TickType'
      BY <3>1, <3>2, EndsInType, GotoType
    <3>4. (doc.node = n /\ doc.left > 0) \in BOOLEAN
      OBVIOUS
    <3>5. last' \in [Nodes -> BOOLEAN]
      BY <2>0, <2>8, <3>4 DEF Notify, OtherType
    <3>6. QED
      BY <2>0, <2>8, <3>3, <3>5 DEF Notify, OtherType
  <2>9. ASSUME NEW n \in Nodes, CloseStarts(n)
        PROVE  TickType' /\ OtherType'
    <3>1. TickType'
      <4>1. CASE task[n] = "loop"
        BY <2>9, <4>1, EndsInType DEF CloseStarts
      <4>2. CASE task[n] # "loop"
        BY <2>0, <2>9, <4>2 DEF CloseStarts, TickType, tickVars
      <4>3. QED
        BY <4>1, <4>2
    <3>2. QED
      BY <2>0, <2>9, <3>1 DEF CloseStarts, OtherType
  <2>10. ASSUME NEW n \in Nodes, Resign(n) \/ CloseReturns(n)
         PROVE  TickType' /\ OtherType'
    <3>1. TickType'
      BY <2>0, <2>10 DEF Resign, CloseReturns, TickType, tickVars
    <3>2. CASE Resign(n)
      <4>1. doc' \in Docs
        BY <2>0, <3>2 DEF Resign, OtherType, Docs
      <4>2. QED
        BY <2>0, <3>1, <3>2, <4>1 DEF Resign, OtherType
    <3>3. CASE CloseReturns(n)
      BY <2>0, <3>1, <3>3 DEF CloseReturns, OtherType
    <3>4. QED
      BY <2>10, <3>2, <3>3
  <2>11. ASSUME NEW n \in Nodes, CloseFails(n)
         PROVE  TickType' /\ OtherType'
    <3>1. fails' \in 0..MaxFails
      BY <2>11, FailType DEF CloseFails
    <3>2. QED
      BY <2>0, <2>11, <3>1 DEF CloseFails, TickType, OtherType, tickVars
  <2>12. ASSUME NEW n \in Nodes, Crash(n)
         PROVE  TickType' /\ OtherType'
    <3>1. TickType'
      BY <2>12, EndsInType DEF Crash
    <3>2. QED
      BY <2>0, <2>12, <3>1 DEF Crash, OtherType
  <2>13. CASE UNCHANGED vars
    BY <2>0, <2>13 DEF vars, tickVars, TickType, OtherType
  <2>14. QED
    BY <2>1, <2>2, <2>3, <2>4, <2>5, <2>6, <2>7, <2>8, <2>9, <2>10, <2>11, <2>12, <2>13,
       StepCases
<1>3. QED
  BY <1>1, <1>2, PTL DEF SafetySpec

-----------------------------------------------------------------------------
\* The document that a replacing update is to replace had expired by the
\* tick's reading of the clock, and so before the update, however old that is.
SeenExpired ==
    \A n \in Nodes : pc[n] = "replace" => seen[n] # NoDoc /\ seen[n].left <= -age[n]

IInv == TypeOK /\ SeenExpired

LEMMA SeenExpiredStep == IInv /\ [Next]_vars => SeenExpired'
<1> SUFFICES ASSUME TypeOK, SeenExpired, [Next]_vars, NEW m \in Nodes, pc'[m] = "replace"
             PROVE  (seen[m] # NoDoc /\ seen[m].left <= -age[m])'
  BY DEF IInv, SeenExpired
<1>1. CASE Tick
  <2>1. pc[m] = "replace" /\ seen[m] # NoDoc /\ seen[m].left <= -age[m]
    BY <1>1 DEF Tick, SeenExpired
  <2>2. age[m] \in 0..MaxAge /\ age[m] < MaxAge /\ age'[m] = age[m] + 1
    BY <1>1, <2>1 DEF Tick, TypeOK, Pending
  <2>3. seen[m] \in [node : Nodes, left : (-MaxAge)..Lease] /\ seen'[m] = Aged(seen[m])
    BY <1>1, <2>1 DEF Tick, TypeOK, Docs
  <2>4. seen'[m].node \in Nodes
    BY <2>3, AgedType DEF Docs
  <2>5. seen'[m].left <= -age'[m]
    <3>1. CASE seen[m].left > -MaxAge
      <4>1. seen'[m].left = seen[m].left - 1
        BY <2>1, <2>3, <3>1 DEF Aged
      <4>2. QED
        BY <2>1, <2>2, <2>3, <4>1, LeaseAssumption
    <3>2. CASE ~(seen[m].left > -MaxAge)
      <4>1. seen'[m].left = seen[m].left
        BY <2>3, <3>2 DEF Aged
      <4>2. QED
        BY <2>2, <2>3, <3>2, <4>1, LeaseAssumption
    <3>3. QED
      BY <3>1, <3>2
  <2>6. QED
    BY <2>4, <2>5, NodeAssumption DEF NoDoc
<1>2. CASE TtlPurge \/ UNCHANGED vars
  BY <1>2 DEF TtlPurge, vars, tickVars, SeenExpired
<1>3. ASSUME NEW n \in Nodes, Find(n)
      PROVE  (seen[m] # NoDoc /\ seen[m].left <= -age[m])'
  <2>1. CASE m # n
    BY <1>3, <2>1 DEF Find, Goto, Forget, SeenExpired, TypeOK
  <2>2. CASE m = n
    <3>1. /\ ~Alive(n) /\ doc # NoDoc
          /\ seen' = [seen EXCEPT ![n] = doc]
          /\ UNCHANGED age
      BY <1>3, <2>2 DEF Find, Goto, TypeOK
    <3>2. doc.left \in Int /\ age[n] \in Int
      BY DocType, LeaseAssumption DEF TypeOK
    <3>3. doc.left <= -age[n]
      BY <3>1, <3>2 DEF Alive
    <3>4. QED
      BY <2>2, <3>1, <3>3 DEF TypeOK
  <2>3. QED
    BY <2>1, <2>2
<1>4. ASSUME NEW n \in Nodes,
             \/ Enable(n) \/ NotEnabled(n) \/ Wake(n) \/ Beat(n) \/ Renew(n) \/ Replace(n)
             \/ Insert(n) \/ Notify(n) \/ CallbackEnds(n) \/ CommandFails(n)
             \/ CloseStarts(n) \/ Resign(n) \/ CloseReturns(n) \/ CloseFails(n)
             \/ Crash(n)
      PROVE  (seen[m] # NoDoc /\ seen[m].left <= -age[m])'
  <2>1. \/ UNCHANGED tickVars
        \/ EndsIn(n, "none") \/ EndsIn(n, "loop") \/ Goto(n, "callback") \/ Goto(n, First(n))
        \/ Goto(n, "find")
        \/ Forget(n) /\ pc' = [pc EXCEPT ![n] = "notify"]
        \/ pc' = [pc EXCEPT ![n] = First(n)] /\ UNCHANGED <<age, seen>>
    BY <1>4
       DEF Enable, NotEnabled, Wake, Beat, Renew, Replace, Insert, Notify, CallbackEnds,
           CommandFails, CloseStarts, Resign, CloseReturns, CloseFails, Crash, TickEnds,
           TickRaises, Written, tickVars
  <2>2. First(n) # "replace"
    BY DEF First
  <2>3. pc[m] = "replace" /\ UNCHANGED <<age[m], seen[m]>>
    BY <2>1, <2>2 DEF tickVars, EndsIn, Goto, Forget, TypeOK
  <2>4. QED
    BY <2>3 DEF SeenExpired
<1>5. QED
  BY <1>1, <1>2, <1>3, <1>4, StepCases

\* A step that is not the clock's leaves the document alone, deletes it, or
\* writes a new one for a node that has it or when it has expired.
LEMMA DocStep ==
    ASSUME IInv, [Next]_vars, ~Tick
    PROVE  \/ doc' \in {doc, NoDoc}
           \/ \E n \in Nodes : doc' = NewDoc(n) /\ (doc.node = n \/ doc.left <= 0)
<1>1. ASSUME NEW n \in Nodes, Renew(n)
      PROVE  doc' = doc \/ (doc' = NewDoc(n) /\ doc.node = n)
  BY <1>1 DEF Renew
<1>2. ASSUME NEW n \in Nodes, Replace(n)
      PROVE  doc' = doc \/ (doc' = NewDoc(n) /\ doc.left <= 0)
  <2>1. doc' = doc \/ (doc' = NewDoc(n) /\ doc = seen[n])
    BY <1>2 DEF Replace, Matches
  <2>2. seen[n].left <= -age[n] /\ age[n] \in 0..MaxAge /\ seen[n].left \in Int
    BY <1>2, DocType DEF Replace, IInv, SeenExpired, TypeOK
  <2>3. QED
    BY <2>1, <2>2, LeaseAssumption
<1>3. ASSUME NEW n \in Nodes, Insert(n)
      PROVE  doc' = doc \/ (doc' = NewDoc(n) /\ doc.left <= 0)
  BY <1>3 DEF Insert, NoDoc
<1>4. ASSUME NEW n \in Nodes, Resign(n)
      PROVE  doc' \in {doc, NoDoc}
  BY <1>4 DEF Resign
<1>5. ASSUME NEW n \in Nodes,
             \/ Enable(n) \/ NotEnabled(n) \/ Wake(n) \/ Beat(n) \/ Find(n) \/ Notify(n)
             \/ CallbackEnds(n) \/ CommandFails(n) \/ CloseStarts(n) \/ CloseReturns(n)
             \/ CloseFails(n) \/ Crash(n)
      PROVE  doc' = doc
  BY <1>5, Zenon
     DEF Enable, NotEnabled, Wake, Beat, Find, Notify, CallbackEnds, CommandFails,
         CloseStarts, CloseReturns, CloseFails, Crash
<1>6. TtlPurge \/ UNCHANGED vars => doc' \in {doc, NoDoc}
  BY DEF TtlPurge, vars
<1>7. QED
  BY <1>1, <1>2, <1>3, <1>4, <1>5, <1>6, StepCases

(* The election implements the leader's lease, whatever fails, crashes or  *)
(* is closed and however old a reading is that a write is based on.        *)
THEOREM MongoElectionImplementsLease == SafetySpec => RefinesLeaderLease
<1>1. Init => IInv /\ Leader!Init
  <2>1. ASSUME Init
        PROVE  SeenExpired /\ Leader!Init
    BY <2>1, NodeAssumption DEF Init, SeenExpired, NoDoc, Leader!Init, Claim
  <2>2. QED
    BY <2>1, IntervalType, FailAssumption, LeaseAssumption DEF Init, IInv, TypeOK, Docs
<1>2. IInv /\ [Next]_vars => [Leader!Next]_Claim
  <2> SUFFICES ASSUME IInv, [Next]_vars
               PROVE  [Leader!Next]_Claim
    OBVIOUS
  <2>0. doc \in Docs
    BY DEF IInv, TypeOK
  <2>1. CASE Tick
    <3>1. doc' = Aged(doc)
      BY <2>1 DEF Tick
    <3>2. /\ doc'.node = doc.node
          /\ doc.left > 0 => doc'.left = doc.left - 1
          /\ doc.left <= 0 => doc'.left <= 0
      BY <2>0, <3>1, AgedType, DocType
    <3>3. ASSUME NEW n \in Nodes
          PROVE  Claim'[n] = IF Claim[n] > 0 THEN Claim[n] - 1 ELSE 0
      <4>1. doc.left \in Int /\ doc'.left \in Int
        BY <2>0, <3>1, AgedType, DocType
      <4>2. CASE doc.node = n /\ doc.left > 0
        BY <3>2, <4>1, <4>2 DEF Claim
      <4>3. CASE ~(doc.node = n /\ doc.left > 0)
        BY <3>2, <4>1, <4>3 DEF Claim
      <4>4. QED
        BY <4>2, <4>3
    <3>4. Claim' = [n \in Nodes |-> IF Claim[n] > 0 THEN Claim[n] - 1 ELSE 0]
      BY <3>3 DEF Claim
    <3>5. QED
      BY <3>4 DEF Leader!Next, Leader!Tick, Leader!Leads
  <2>2. CASE doc' = doc
    BY <2>2 DEF Claim
  <2>3. CASE doc' = NoDoc
    <3>1. CASE doc = NoDoc
      BY <2>3, <3>1 DEF Claim
    <3>2. CASE doc # NoDoc
      <4>1. doc.node \in Nodes
        BY <2>0, <3>2, DocType
      <4>2. Leader!Resign(doc.node)
        BY <2>3, <4>1, NodeAssumption DEF Leader!Resign, Claim, NoDoc
      <4>3. QED
        BY <4>1, <4>2 DEF Leader!Next
    <3>3. QED
      BY <3>1, <3>2
  <2>4. ASSUME NEW n \in Nodes, doc' = NewDoc(n), doc.node = n \/ doc.left <= 0
        PROVE  [Leader!Next]_Claim
    <3>1. doc'.node = n /\ doc'.left \in 1..Lease
      BY <2>4, NewDocType DEF IInv
    <3>2. doc.left \in Int
      BY <2>0, DocType
    <3>3. \A m \in Nodes \ {n} : Claim[m] = 0 /\ Claim'[m] = 0
      BY <2>4, <3>1, <3>2 DEF Claim
    <3>4. Claim'[n] = doc'.left
      BY <3>1, LeaseAssumption DEF Claim
    <3>5. Claim' = [Claim EXCEPT ![n] = doc'.left]
      <4>1. DOMAIN Claim = Nodes /\ DOMAIN Claim' = Nodes
        BY DEF Claim
      <4>2. Claim' = [m \in Nodes |-> Claim'[m]] /\ Claim = [m \in Nodes |-> Claim[m]]
        BY DEF Claim
      <4>3. QED
        BY <3>3, <3>4, <4>1, <4>2
    <3>6. Leader!Elect(n)
      <4>1. doc'.left \in 0..Lease
        BY <3>1, LeaseAssumption
      <4>2. \A m \in Nodes \ {n} : ~(Claim[m] > 0)
        BY <3>3
      <4>3. QED
        BY <3>5, <4>1, <4>2 DEF Leader!Elect, Leader!Leads
    <3>7. QED
      BY <3>6 DEF Leader!Next
  <2>5. QED
    BY <2>1, <2>2, <2>3, <2>4, DocStep
<1>3. SafetySpec => []IInv
  <2>1. TypeOK /\ SeenExpired /\ [Next]_vars => SeenExpired'
    BY SeenExpiredStep DEF IInv
  <2>2. Init => SeenExpired
    BY <1>1 DEF IInv
  <2>3. QED
    BY <2>1, <2>2, MongoElectionType, PTL DEF SafetySpec, IInv
<1>4. QED
  BY <1>1, <1>2, <1>3, PTL DEF SafetySpec, RefinesLeaderLease, Leader!Spec
=============================================================================
