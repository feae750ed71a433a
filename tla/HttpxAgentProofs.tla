-------------------------- MODULE HttpxAgentProofs --------------------------
(***************************************************************************)
(* Proofs about HttpxAgent for any number of handlers and attempts and any *)
(* timeouts.                                                               *)
(***************************************************************************)
EXTENDS HttpxAgent, TLAPS

\* The case split on the next-state relation that every step proof uses.
LEMMA StepCases ==
    ASSUME [Next]_vars
    PROVE  \/ Tick \/ Request \/ UNCHANGED vars
           \/ \E h \in Handlers :
                 \/ Receive(h) \/ Leave(h) \/ Gone(h) \/ Call(h) \/ CallAgain(h)
                 \/ Begin(h) \/ BeforeEnds(h) \/ ResolveEnds(h) \/ TimesOut(h)
                 \/ HandleEnds(h) \/ Wake(h) \/ Answer(h) \/ ReadEnds(h)
                 \/ Cancel(h) \/ CloseStream(h)
                 \/ \E kind \in {"network", "final"} : ExchangeFails(h, kind)
  BY Zenon DEF Next, CallStep

-----------------------------------------------------------------------------
\* What becomes of a call whose attempt fails: a backoff that may be, or its
\* end.
Failed(h) ==
    /\ pc[h] \in Working
    /\ pc' = [pc EXCEPT ![h] = pc'[h]] /\ pc'[h] \in {"backoff", "ended"}
    /\ timer' = [timer EXCEPT ![h] = timer'[h]] /\ timer'[h] \in Timeouts
    /\ pc'[h] = "backoff" => attempt[h] < Attempts(h) /\ timer'[h] < left[h]
    /\ child' = [child EXCEPT ![h] = None]
    /\ UNCHANGED <<request, call>>

LEMMA FailsFailed ==
    ASSUME TypeOK, NEW h \in Handlers, pc[h] \in Working, NEW kind, Fails(h, kind)
    PROVE  Failed(h) /\ (~Retryable(kind) => pc'[h] = "ended")
<1>1. PICK d \in Delays(attempt[h]) :
          IF attempt[h] < Attempts(h) /\ Retryable(kind) /\ d < left[h]
            THEN Goto(h, "backoff") /\ timer' = [timer EXCEPT ![h] = d]
            ELSE Goto(h, "ended") /\ timer' = [timer EXCEPT ![h] = 0]
  BY DEF Fails
<1>2. d \in Timeouts
  BY TimeAssumption DEF Delays, Timeouts
<1>3. CASE attempt[h] < Attempts(h) /\ Retryable(kind) /\ d < left[h]
  BY <1>1, <1>2, <1>3 DEF Failed, Fails, Goto, TypeOK, Types
<1>4. CASE ~(attempt[h] < Attempts(h) /\ Retryable(kind) /\ d < left[h])
  BY <1>1, <1>2, <1>4, TimeAssumption DEF Failed, Fails, Goto, TypeOK, Types, Timeouts
<1>5. QED
  BY <1>3, <1>4

LEMMA CancelFailed ==
    ASSUME TypeOK, NEW h \in Handlers, Cancel(h)
    PROVE  Failed(h) /\ pc'[h] = "ended"
  BY TimeAssumption DEF Cancel, Failed, Goto, TypeOK, Types, Timeouts

\* The client of a call whose attempt fails is closed, or left behind.
LEMMA FailedType ==
    ASSUME TypeOK, NEW h \in Handlers, Failed(h),
           client' = [client EXCEPT ![h] = "none"], leaked' \in [Handlers -> Nat]
    PROVE  TypeOK'
<1>1. /\ up' \in [Handlers -> Handlers \cup {None}]
      /\ asked' \in [Handlers -> 0..(Budget \div Ms)] /\ lag' \in [Handlers -> Timeouts]
      /\ ctx' \in [Handlers -> Timeouts \cup {None}]
      /\ left' \in [Handlers -> Timeouts \cup {None}]
      /\ attempt' \in [Handlers -> 0..MaxAttempts] /\ header' \in [Handlers -> Timeouts]
  BY Zenon DEF TypeOK, Types, Failed, request, call
<1>2. /\ pc' \in [Handlers -> Working \cup {"idle", "transit", "ready", "ended", "replied"}]
      /\ child' \in [Handlers -> Handlers \cup {None}]
      /\ client' \in [Handlers -> {"none", "open", "held"}]
  BY DEF TypeOK, Types, InPlace, Failed, Working
<1>3. timer' \in [Handlers -> Timeouts \cup {None}]
  BY DEF TypeOK, Types, Failed
<1>4. ASSUME NEW x \in Handlers
      PROVE  InPlace(x)'
  <2>1. CASE x = h
    BY <2>1, HandlerAssumption DEF TypeOK, Types, InPlace, Failed, Working, request, call, Timeouts
  <2>2. CASE x # h
    BY <2>2, HandlerAssumption DEF TypeOK, Types, InPlace, Failed, Working, request, call
  <2>3. QED
    BY <2>1, <2>2
<1>5. QED
  BY <1>1, <1>2, <1>3, <1>4 DEF TypeOK, Types

LEMMA LeakType ==
    ASSUME TypeOK, NEW h \in Handlers, Leak(h)
    PROVE  /\ client' = [client EXCEPT ![h] = "none"]
           /\ leaked' \in [Handlers -> Nat]
  BY DEF TypeOK, Types, Leak

LEMMA Division ==
    ASSUME NEW x \in Nat, NEW m \in Nat \ {0}
    PROVE  /\ x \div m \in Nat
           /\ \A y \in Nat : x <= y => x \div m <= y \div m
           /\ \A y \in 0..(x \div m) : y * m \in Nat /\ y * m <= x
<1>1. x \div m \in Nat /\ (x \div m) * m <= x /\ x < (x \div m + 1) * m
  OBVIOUS
<1>2. ASSUME NEW y \in Nat, x <= y
      PROVE  x \div m <= y \div m
  <2>1. y \div m \in Nat /\ y < (y \div m + 1) * m
    OBVIOUS
  <2>2. SUFFICES ASSUME y \div m + 1 <= x \div m PROVE FALSE
    BY <1>1, <2>1
  <2>3. (y \div m + 1) * m <= (x \div m) * m
    BY <1>1, <2>1, <2>2
  <2>4. QED
    BY <1>1, <1>2, <2>1, <2>3
<1>3. ASSUME NEW y \in 0..(x \div m)
      PROVE  y * m \in Nat /\ y * m <= x
  <2>1. y * m <= (x \div m) * m
    BY <1>1
  <2>2. QED
    BY <1>1, <2>1
<1>4. QED
  BY <1>1, <1>2, <1>3

\* A request goes out, with what was left when its header was made.
LEMMA SendType ==
    ASSUME TypeOK, NEW h \in Handlers, pc[h] \in {"before", "resolve"},
           header' \in [Handlers -> Timeouts], left[h] <= header'[h],
           \A x \in Handlers \ {h} : header'[x] = header[x],
           Send(h)
    PROVE  TypeOK'
<1>1. PICK c \in {x \in Handlers \ {Root} : pc[x] = "idle"} \cup {None}, slow \in BOOLEAN :
        /\ pc' = [x \in Handlers |->
                    IF x = h THEN "wait" ELSE IF x = c THEN "transit" ELSE pc[x]]
        /\ up' = [x \in Handlers |-> IF x = c THEN h ELSE up[x]]
        /\ asked' = [x \in Handlers |-> IF x = c THEN HeaderMs(h) ELSE asked[x]]
        /\ lag' = [x \in Handlers |-> IF x = c THEN header'[h] - left[h] ELSE lag[x]]
        /\ child' = [child EXCEPT ![h] = c]
        /\ timer' = [timer EXCEPT ![h] =
                       IF slow THEN None ELSE IF left[h] < Ms THEN Ms ELSE left[h]]
        /\ client' = [client EXCEPT ![h] = IF h \in Streaming THEN "open" ELSE "none"]
        /\ UNCHANGED <<ctx, left, attempt, leaked>>
  BY Zenon DEF Send
<1>2. /\ left[h] \in Timeouts /\ c # h /\ Ms \in Nat \ {0} /\ Ms <= Budget
      /\ header'[h] \in Timeouts /\ header'[h] \in Nat
  <2>1. left[h] \in Timeouts
    BY DEF TypeOK, Types, InPlace, Working
  <2>2. c # h
    BY HandlerAssumption
  <2>3. QED
    BY <2>1, <2>2, TimeAssumption DEF Timeouts
<1>3. HeaderMs(h) \in 0..(Budget \div Ms) /\ header'[h] - left[h] \in Timeouts
  <2>1. /\ header'[h] \div Ms \in Nat /\ Budget \div Ms \in Nat
        /\ header'[h] \div Ms <= Budget \div Ms
    BY <1>2, Division, TimeAssumption DEF Timeouts
  <2>2. HeaderMs(h) \in 0..(Budget \div Ms)
    BY <2>1 DEF HeaderMs
  <2>3. QED
    BY <1>2, <2>2, TimeAssumption DEF Timeouts
<1>4. /\ pc' \in [Handlers -> Working \cup {"idle", "transit", "ready", "ended", "replied"}]
      /\ child' \in [Handlers -> Handlers \cup {None}]
      /\ client' \in [Handlers -> {"none", "open", "held"}]
      /\ up' \in [Handlers -> Handlers \cup {None}]
  BY <1>1 DEF TypeOK, Types, InPlace, Working
<1>5. asked' \in [Handlers -> 0..(Budget \div Ms)] /\ lag' \in [Handlers -> Timeouts]
  BY <1>1, <1>3 DEF TypeOK, Types
<1>6. timer' \in [Handlers -> Timeouts \cup {None}]
  BY <1>1, <1>2 DEF TypeOK, Types, Timeouts
<1>7. ASSUME NEW x \in Handlers
      PROVE  InPlace(x)'
  <2>1. CASE x = h
    BY <1>1, <1>2, <2>1, HandlerAssumption DEF TypeOK, Types, InPlace, Working
  <2>2. CASE x # h
    BY <1>1, <1>2, <2>2, HandlerAssumption DEF TypeOK, Types, InPlace, Working
  <2>3. QED
    BY <2>1, <2>2
<1>8. QED
  BY <1>1, <1>4, <1>5, <1>6, <1>7 DEF TypeOK, Types

-----------------------------------------------------------------------------
\* A request is received: its context's deadline is within the bound.
LEMMA EnterType ==
    ASSUME TypeOK, NEW h \in Handlers, pc[h] \in {"idle", "transit"},
           NEW ms \in 0..(Budget \div Ms) \cup {None}, Enter(h, ms)
    PROVE  TypeOK'
<1>1. PICK max \in {0, MaxTimeout} :
          LET wanted  == IF ms = None THEN Default ELSE ms * Ms
              timeout == IF max > 0 /\ (wanted = 0 \/ wanted > max) THEN max ELSE wanted
          IN  ctx' = [ctx EXCEPT ![h] = IF timeout > 0 THEN timeout ELSE None]
  BY DEF Enter
<1> DEFINE wanted == IF ms = None THEN Default ELSE ms * Ms
<1>2. wanted \in 0..Budget
  <2>1. ms # None => ms * Ms \in Nat /\ ms * Ms <= Budget
    BY Division, TimeAssumption
  <2>2. QED
    BY <2>1, TimeAssumption
<1>3. ctx' \in [Handlers -> Timeouts \cup {None}]
  <2> HIDE DEF wanted
  <2> DEFINE timeout == IF max > 0 /\ (wanted = 0 \/ wanted > max) THEN max ELSE wanted
  <2>1. timeout \in Timeouts
    BY <1>2, TimeAssumption DEF Timeouts
  <2>2. ctx' = [ctx EXCEPT ![h] = IF timeout > 0 THEN timeout ELSE None]
    BY <1>1 DEF wanted
  <2>3. QED
    BY <2>1, <2>2 DEF TypeOK, Types
<1>4. pc' = [pc EXCEPT ![h] = "ready"] /\ UNCHANGED <<up, asked, lag, call, timer, child, client, leaked>>
  BY DEF Enter
<1>5. QED
  BY <1>3, <1>4 DEF TypeOK, Types, InPlace, Working, call

(* The calls keep their types; a client of do_stream is open exactly       *)
(* during an exchange, and whoever is waited for works for the waiter.     *)
THEOREM AgentType == SafetySpec => []TypeOK
<1>1. Init => TypeOK
  BY HandlerAssumption, TimeAssumption DEF Init, TypeOK, Types, InPlace, Working, Timeouts
<1>2. TypeOK /\ [Next]_vars => TypeOK'
  <2> SUFFICES ASSUME TypeOK, [Next]_vars
               PROVE  TypeOK'
    OBVIOUS
  <2>1. CASE Tick
    BY <2>1, HandlerAssumption, TimeAssumption DEF Tick, Less, TypeOK, Types, InPlace, Working, Timeouts
  <2>2. CASE Request
    BY <2>2, EnterType, HandlerAssumption DEF Request
  <2>3. ASSUME NEW h \in Handlers, Receive(h)
        PROVE  TypeOK'
    BY <2>3, EnterType DEF Receive, TypeOK, Types
  <2>4. ASSUME NEW h \in Handlers, Leave(h) \/ Gone(h)
        PROVE  TypeOK'
    <3>1. Types'
      BY <2>4, HandlerAssumption, TimeAssumption
         DEF Leave, Gone, Goto, Disown, Clear, TypeOK, Types, Working, Timeouts
    <3>2. ASSUME NEW x \in Handlers PROVE InPlace(x)'
      <4>1. InPlace(h)'
        BY <2>4, HandlerAssumption
           DEF Leave, Gone, Goto, Disown, Clear, TypeOK, Types, InPlace, Working
      <4>2. CASE x # h
        BY <2>4, <4>2, HandlerAssumption
           DEF Leave, Gone, Goto, Disown, Clear, TypeOK, Types, InPlace, Working
      <4>3. QED
        BY <4>1, <4>2
    <3>3. QED
      BY <3>1, <3>2 DEF TypeOK, Types
  <2>5. ASSUME NEW h \in Handlers, Call(h)
        PROVE  TypeOK'
    <3>1. Types'
      BY <2>5, HandlerAssumption, TimeAssumption
         DEF Call, Deadlines, Goto, TypeOK, Types, Working, Timeouts, request
    <3>2. ASSUME NEW x \in Handlers PROVE InPlace(x)'
      <4>1. Deadlines(h) # None
        BY HandlerAssumption, TimeAssumption DEF Deadlines
      <4>2. InPlace(h)'
        BY <2>5, <4>1, HandlerAssumption
           DEF Call, Goto, TypeOK, Types, InPlace, Working, request
      <4>3. CASE x # h
        BY <2>5, <4>3, HandlerAssumption
           DEF Call, Goto, TypeOK, Types, InPlace, Working, request
      <4>4. QED
        BY <4>2, <4>3
    <3>3. QED
      BY <3>1, <3>2 DEF TypeOK, Types
  <2>6. ASSUME NEW h \in Handlers, CallAgain(h)
        PROVE  TypeOK'
    BY <2>6, HandlerAssumption, TimeAssumption
       DEF CallAgain, Goto, Disown, TypeOK, Types, InPlace, Working, Timeouts
  <2>7. ASSUME NEW h \in Handlers, Failed(h), Leak(h)
        PROVE  TypeOK'
    BY <2>7, FailedType, LeakType
  <2>8. ASSUME NEW h \in Handlers, Failed(h), pc[h] \notin {"wait", "read"} \/ h \notin Streaming,
               UNCHANGED <<client, leaked>>
        PROVE  TypeOK'
    <3>1. client[h] = "none"
      BY <2>8 DEF TypeOK, Types, InPlace, Failed, Working
    <3>2. client' = [client EXCEPT ![h] = "none"] /\ leaked' \in [Handlers -> Nat]
      BY <2>8, <3>1 DEF TypeOK, Types
    <3>3. QED
      BY <2>8, <3>2, FailedType
  <2>9. ASSUME NEW h \in Handlers, Begin(h)
        PROVE  TypeOK'
    <3>1. CASE Fails(h, "final")
      BY <2>8, <2>9, <3>1, FailsFailed DEF Begin, Working
    <3>2. CASE ~Fails(h, "final")
      BY <2>9, <3>2, HandlerAssumption
         DEF Begin, Goto, TypeOK, Types, InPlace, Working, request, call
    <3>3. QED
      BY <3>1, <3>2
  <2>10. ASSUME NEW h \in Handlers, pc[h] \in {"before", "resolve", "handle"}, Raises(h)
         PROVE  TypeOK'
    BY <2>8, <2>10, FailsFailed DEF Raises, Working
  <2>11. ASSUME NEW h \in Handlers, BeforeEnds(h)
         PROVE  TypeOK'
    <3>1. CASE left[h] = 0 /\ Fails(h, "final") /\ UNCHANGED <<client, leaked>>
      BY <2>8, <2>11, <3>1, FailsFailed DEF BeforeEnds, Working
    <3>2. CASE Inject(h)
      <4>1. /\ pc[h] = "before" /\ left[h] \in Timeouts
            /\ header' = [header EXCEPT ![h] = left[h]]
        BY <2>11, <3>2 DEF BeforeEnds, Inject, TypeOK, Types, InPlace, Working
      <4>2. header' \in [Handlers -> Timeouts] /\ header'[h] = left[h]
        BY <4>1 DEF TypeOK, Types
      <4>3. CASE Send(h)
        BY <4>1, <4>2, <4>3, SendType, TimeAssumption DEF Timeouts, TypeOK, Types
      <4>4. CASE /\ Goto(h, "resolve")
                 /\ UNCHANGED <<request, left, attempt, timer, child, client, leaked>>
        BY <4>1, <4>2, <4>4, HandlerAssumption, TimeAssumption
           DEF Goto, TypeOK, Types, InPlace, Working, request, Timeouts
      <4>5. QED
        BY <3>2, <4>3, <4>4 DEF Inject
    <3>3. CASE Raises(h)
      BY <2>10, <2>11, <3>3 DEF BeforeEnds
    <3>4. QED
      BY <2>11, <3>1, <3>2, <3>3 DEF BeforeEnds
  <2>12. ASSUME NEW h \in Handlers, ResolveEnds(h)
         PROVE  TypeOK'
    <3>1. CASE UNCHANGED header /\ Send(h)
      BY <2>12, <3>1, SendType DEF ResolveEnds, TypeOK, Types, InPlace
    <3>2. QED
      BY <2>10, <2>12, <3>1 DEF ResolveEnds
  <2>13. ASSUME NEW h \in Handlers,
                TimesOut(h) \/ \E kind \in {"network", "final"} : ExchangeFails(h, kind)
         PROVE  TypeOK'
    BY <2>7, <2>13, FailsFailed DEF TimesOut, ExchangeFails, Working
  <2>14. ASSUME NEW h \in Handlers, Cancel(h)
         PROVE  TypeOK'
    BY <2>7, <2>14, CancelFailed DEF Cancel
  <2>15. ASSUME NEW h \in Handlers, HandleEnds(h)
         PROVE  TypeOK'
    <3>1. CASE Raises(h)
      BY <2>10, <2>15, <3>1 DEF HandleEnds
    <3>2. CASE ~Raises(h)
      BY <2>15, <3>2, HandlerAssumption
         DEF HandleEnds, Goto, TypeOK, Types, InPlace, Working, request, call
    <3>3. QED
      BY <3>1, <3>2
  <2>16. ASSUME NEW h \in Handlers, Wake(h)
         PROVE  TypeOK'
    BY <2>16, HandlerAssumption, TimeAssumption
       DEF Wake, Goto, TypeOK, Types, InPlace, Working, request, Attempts
  <2>17. ASSUME NEW h \in Handlers, Answer(h)
         PROVE  TypeOK'
    <3>1. CASE /\ h \notin Streaming
               /\ Fails(h, "marked") \/ Fails(h, "final")
               /\ UNCHANGED <<client, leaked>>
      BY <2>8, <2>17, <3>1, FailsFailed DEF Answer, Working
    <3>2. CASE /\ h \notin Streaming
               /\ Goto(h, "handle")
               /\ child' = [child EXCEPT ![h] = None]
               /\ timer' = [timer EXCEPT ![h] = 0]
               /\ UNCHANGED <<request, call, client, leaked>>
      BY <2>17, <3>2, HandlerAssumption, TimeAssumption
         DEF Answer, Goto, TypeOK, Types, InPlace, Working, request, call, Timeouts
    <3>3. CASE /\ h \in Streaming
               /\ \/ Goto(h, "read") /\ UNCHANGED <<timer, client>>
                  \/ /\ Goto(h, "ended")
                     /\ client' = [client EXCEPT ![h] = "held"]
                     /\ timer' = [timer EXCEPT ![h] = 0]
               /\ child' = [child EXCEPT ![h] = None]
               /\ UNCHANGED <<request, call, leaked>>
      <4>1. Types'
        BY <2>17, <3>3, TimeAssumption
           DEF Answer, Goto, TypeOK, Types, Working, request, call, Timeouts
      <4>2. ASSUME NEW x \in Handlers PROVE InPlace(x)'
        BY <2>17, <3>3, HandlerAssumption
           DEF Answer, Goto, TypeOK, Types, InPlace, Working, request, call
      <4>3. QED
        BY <4>1, <4>2 DEF TypeOK, Types
    <3>4. QED
      BY <2>17, <3>1, <3>2, <3>3 DEF Answer
  <2>18. ASSUME NEW h \in Handlers, ReadEnds(h)
         PROVE  TypeOK'
    BY <2>18, FailsFailed, FailedType DEF ReadEnds, Working, TypeOK, Types
  <2>19. ASSUME NEW h \in Handlers, CloseStream(h)
         PROVE  TypeOK'
    BY <2>19, LeakType DEF CloseStream, TypeOK, Types, InPlace, Working, request, call
  <2>20. CASE UNCHANGED vars
    BY <2>20 DEF vars, TypeOK, Types, InPlace
  <2>21. QED
    BY <2>1, <2>2, <2>3, <2>4, <2>5, <2>6, <2>9, <2>11, <2>12, <2>13, <2>14, <2>15,
       <2>16, <2>17, <2>18, <2>19, <2>20, StepCases
<1>3. QED
  BY <1>1, <1>2, PTL DEF SafetySpec

-----------------------------------------------------------------------------
(* A request that leaves after the deadline was held up by a resolver:     *)
(* inject_trace_headers looks at the deadline again.                       *)
THEOREM AgentLateOnlyBehindResolver == SafetySpec => LateOnlyBehindResolver
<1>1. TypeOK /\ [Next]_vars
        => [\A h \in Handlers :
              pc[h] # "wait" /\ pc'[h] = "wait" /\ left[h] = 0 => pc[h] = "resolve"]_vars
  <2> SUFFICES ASSUME TypeOK, [Next]_vars, NEW x \in Handlers,
                      pc[x] # "wait", pc'[x] = "wait", left[x] = 0
               PROVE  pc[x] = "resolve"
    BY Zenon
  <2>1. ASSUME NEW h \in Handlers, Failed(h) PROVE FALSE
    BY <2>1 DEF Failed, TypeOK, Types
  <2>2. ASSUME NEW h \in Handlers, pc[h] \in Working, NEW kind, Fails(h, kind) PROVE FALSE
    BY <2>1, <2>2, FailsFailed
  <2>3. ASSUME NEW h \in Handlers, Send(h) PROVE x = h
    BY <2>3 DEF Send
  <2>4. ASSUME NEW h \in Handlers, BeforeEnds(h) \/ ResolveEnds(h)
        PROVE  pc[x] = "resolve"
    <3>1. ~Raises(h)
      BY <2>2, <2>4 DEF Raises, BeforeEnds, ResolveEnds, Working
    <3>2. CASE BeforeEnds(h)
      <4>1. Inject(h)
        BY <2>2, <3>1, <3>2 DEF BeforeEnds, Working
      <4>2. x # h
        BY <4>1, TimeAssumption DEF Inject
      <4>3. Goto(h, "resolve")
        BY <2>3, <4>1, <4>2 DEF Inject
      <4>4. QED
        BY <4>2, <4>3 DEF Goto, TypeOK, Types
    <3>3. CASE ResolveEnds(h)
      BY <2>3, <3>1, <3>3 DEF ResolveEnds
    <3>4. QED
      BY <2>4, <3>2, <3>3
  <2>5. ASSUME NEW h \in Handlers,
               \/ Begin(h) \/ TimesOut(h) \/ HandleEnds(h) \/ Answer(h) \/ ReadEnds(h)
               \/ Cancel(h) \/ \E kind \in {"network", "final"} : ExchangeFails(h, kind)
        PROVE  FALSE
    <3>1. pc[h] \in Working
      BY <2>5 DEF Begin, TimesOut, HandleEnds, Answer, ReadEnds, Cancel, ExchangeFails, Working
    <3>2. \A kind : ~Fails(h, kind)
      BY <2>2, <3>1
    <3>3. \E w \in {"before", "ended", "handle", "read"} : Goto(h, w)
      BY <2>5, <3>2, Zenon
         DEF Begin, TimesOut, HandleEnds, Raises, Answer, ReadEnds, Cancel, ExchangeFails
    <3>4. QED
      BY <3>3 DEF Goto, TypeOK, Types
  <2>6. ASSUME NEW h \in Handlers, NEW w, w # "wait", pc' = [pc EXCEPT ![h] = w] PROVE FALSE
    BY <2>6 DEF TypeOK, Types
  <2>7. pc' # pc
    OBVIOUS
  <2>8. QED
    BY <2>4, <2>5, <2>6, <2>7, StepCases, HandlerAssumption
       DEF Tick, Request, Receive, Enter, Leave, Gone, Call, CallAgain, Wake, CloseStream,
           Goto, vars
<1>2. QED
  BY <1>1, AgentType, PTL DEF SafetySpec, LateOnlyBehindResolver

-----------------------------------------------------------------------------
\* A call that goes on, or has handed out its stream, has left no client.
Clients ==
    \A h \in Handlers :
        /\ pc[h] \in Working \/ client[h] # "none" => leaked[h] = 0
        /\ leaked[h] <= 1

LEMMA ClientsStep ==
    ASSUME TypeOK, Clients, NEW h \in Handlers,
           \A x \in Handlers \ {h} :
              /\ pc'[x] \in Working => pc[x] \in Working
              /\ client'[x] = client[x] /\ leaked'[x] = leaked[x],
           \/ leaked'[h] = 0
           \/ pc'[h] \notin Working /\ client'[h] = "none" /\ leaked'[h] <= 1
    PROVE  Clients'
  BY DEF Clients

\* A call whose attempt failed for good, or was cancelled.
LEMMA ClientsEnd ==
    ASSUME TypeOK, Clients, NEW h \in Handlers, Failed(h), pc'[h] = "ended", Leak(h)
    PROVE  Clients'
<1>1. leaked[h] = 0
  BY DEF Clients, Failed
<1>2. \A x \in Handlers \ {h} :
              /\ pc'[x] \in Working => pc[x] \in Working
              /\ client'[x] = client[x] /\ leaked'[x] = leaked[x]
  BY DEF Failed, Leak, TypeOK, Types
<1>3. pc'[h] \notin Working /\ client'[h] = "none" /\ leaked'[h] <= 1
  BY <1>1 DEF Leak, TypeOK, Types, Working
<1>4. QED
  BY <1>2, <1>3, ClientsStep

(* However many attempts a stream takes, its call has at most one client   *)
(* open: an error that loses one is never retried.                         *)
THEOREM AgentOneClientPerCall == SafetySpec => []OneClientPerCall
<1>1. Init => Clients
  <2> SUFFICES ASSUME Init PROVE Clients
    OBVIOUS
  <2>1. \A h \in Handlers : leaked[h] = 0
    BY DEF Init
  <2>2. ASSUME NEW h \in Handlers PROVE leaked[h] <= 1
    <3>1. leaked[h] = 0
      BY <2>1
    <3>2. QED
      BY <3>1
  <2>3. \A h \in Handlers : leaked[h] <= 1
    BY <2>2
  <2>4. QED
    BY <2>1, <2>3 DEF Clients
<1>2. TypeOK /\ Clients /\ [Next]_vars => Clients'
  <2> SUFFICES ASSUME TypeOK, Clients, [Next]_vars
               PROVE  Clients'
    OBVIOUS
  <2>1. ASSUME NEW h \in Handlers,
               pc'[h] \in Working => pc[h] \in Working,
               \A x \in Handlers \ {h} : pc'[x] \in Working => pc[x] \in Working,
               UNCHANGED <<client, leaked>>
        PROVE  Clients'
    BY <2>1 DEF Clients
  <2>2. ASSUME NEW h \in Handlers, NEW w, pc' = [pc EXCEPT ![h] = w],
               pc[h] \in Working \/ w \notin Working, UNCHANGED <<client, leaked>>
        PROVE  Clients'
    BY <2>1, <2>2 DEF TypeOK, Types
  <2>3. ASSUME NEW h \in Handlers, pc[h] \in Working, NEW kind, Fails(h, kind),
               UNCHANGED <<client, leaked>>
        PROVE  Clients'
    BY <2>2, <2>3, FailsFailed DEF Failed
  <2>4. ASSUME NEW h \in Handlers, pc[h] \in Working, Send(h), leaked[h] = 0
        PROVE  Clients'
    <3>1. \A x \in Handlers \ {h} :
              /\ pc'[x] \in Working => pc[x] \in Working
              /\ client'[x] = client[x] /\ leaked'[x] = leaked[x]
      BY <2>4 DEF Send, Working, TypeOK, Types
    <3>2. leaked'[h] = 0
      BY <2>4 DEF Send
    <3>3. QED
      BY <3>1, <3>2, ClientsStep
  <2>5. CASE Tick \/ UNCHANGED vars
    BY <2>5 DEF Tick, vars, Clients
  <2>6. CASE Request
    BY <2>2, <2>6, HandlerAssumption DEF Request, Enter, Working
  <2>7. ASSUME NEW h \in Handlers, Receive(h)
        PROVE  Clients'
    BY <2>2, <2>7 DEF Receive, Enter, Working
  <2>8. ASSUME NEW h \in Handlers, CallAgain(h)
        PROVE  Clients'
    BY <2>2, <2>8 DEF CallAgain, Goto, Working
  <2>9. ASSUME NEW h \in Handlers, Leave(h) \/ Gone(h)
        PROVE  Clients'
    BY <2>9 DEF Leave, Gone, Goto, Clear, Clients, Working, TypeOK, Types
  <2>10. ASSUME NEW h \in Handlers, Call(h)
         PROVE  Clients'
    BY <2>10 DEF Call, Goto, Clients, TypeOK, Types
  <2>11. ASSUME NEW h \in Handlers, Begin(h)
         PROVE  Clients'
    BY <2>2, <2>3, <2>11 DEF Begin, Goto, Working
  <2>12. ASSUME NEW h \in Handlers, BeforeEnds(h) \/ ResolveEnds(h)
         PROVE  Clients'
    <3>1. pc[h] \in Working /\ leaked[h] = 0
      BY <2>12 DEF BeforeEnds, ResolveEnds, Clients, Working
    <3>2. CASE Raises(h)
      BY <2>3, <3>1, <3>2 DEF Raises
    <3>3. CASE Send(h)
      BY <2>4, <3>1, <3>3
    <3>4. CASE Fails(h, "final") /\ UNCHANGED <<client, leaked>>
      BY <2>3, <3>1, <3>4
    <3>5. CASE Goto(h, "resolve") /\ UNCHANGED <<client, leaked>>
      BY <2>2, <3>1, <3>5 DEF Goto
    <3>6. QED
      BY <2>12, <3>2, <3>3, <3>4, <3>5, Zenon DEF BeforeEnds, ResolveEnds, Inject
  <2>13. ASSUME NEW h \in Handlers,
                TimesOut(h) \/ \E kind \in {"network", "final"} : ExchangeFails(h, kind)
         PROVE  Clients'
    BY <2>13, FailsFailed, ClientsEnd DEF TimesOut, ExchangeFails, Retryable, Working
  <2>14. ASSUME NEW h \in Handlers, Cancel(h)
         PROVE  Clients'
    BY <2>14, CancelFailed, ClientsEnd DEF Cancel
  <2>15. ASSUME NEW h \in Handlers, HandleEnds(h)
         PROVE  Clients'
    BY <2>2, <2>3, <2>15 DEF HandleEnds, Raises, Goto, Working
  <2>16. ASSUME NEW h \in Handlers, Wake(h)
         PROVE  Clients'
    BY <2>2, <2>16 DEF Wake, Goto, Working
  <2>17. ASSUME NEW h \in Handlers, Answer(h)
         PROVE  Clients'
    <3>1. pc[h] \in Working /\ leaked[h] = 0
      BY <2>17 DEF Answer, Clients, Working
    <3>2. CASE h \notin Streaming
      BY <2>2, <2>3, <2>17, <3>1, <3>2 DEF Answer, Goto
    <3>3. CASE h \in Streaming
      BY <2>17, <3>1, <3>3 DEF Answer, Goto, Clients, TypeOK, Types
    <3>4. QED
      BY <3>2, <3>3
  <2>18. ASSUME NEW h \in Handlers, ReadEnds(h)
         PROVE  Clients'
    <3>1. pc[h] \in Working /\ leaked[h] = 0
      BY <2>18 DEF ReadEnds, Clients, Working
    <3>2. Failed(h)
      BY <2>18, <3>1, FailsFailed DEF ReadEnds
    <3>3. QED
      BY <2>18, <3>1, <3>2 DEF ReadEnds, Failed, Clients, TypeOK, Types
  <2>19. ASSUME NEW h \in Handlers, CloseStream(h)
         PROVE  Clients'
    BY <2>19 DEF CloseStream, Leak, Clients, TypeOK, Types, InPlace, Working
  <2>20. QED
    BY <2>5, <2>6, <2>7, <2>8, <2>9, <2>10, <2>11, <2>12, <2>13, <2>14, <2>15, <2>16,
       <2>17, <2>18, <2>19, StepCases
<1>3. TypeOK /\ Clients => OneClientPerCall
  <2> SUFFICES ASSUME TypeOK, Clients, NEW h \in Handlers
               PROVE  leaked[h] + (IF client[h] = "none" THEN 0 ELSE 1) <= 1
    BY DEF OneClientPerCall
  <2>1. leaked[h] \in Nat
    BY DEF TypeOK, Types
  <2>2. CASE client[h] = "none"
    BY <2>1, <2>2 DEF Clients
  <2>3. CASE client[h] # "none"
    BY <2>1, <2>3 DEF Clients
  <2>4. QED
    BY <2>2, <2>3
<1>4. QED
  BY <1>1, <1>2, <1>3, AgentType, PTL DEF SafetySpec

-----------------------------------------------------------------------------
(* A backoff leaves time for its attempt, whatever the delays, as long as  *)
(* it is woken in time: both clocks run down together.                     *)
THEOREM AgentNoWastedBackoff == SafetySpec => []NoWastedBackoff
<1>1. Init => NoWastedBackoff
  BY DEF Init, NoWastedBackoff
<1>2. TypeOK /\ NoWastedBackoff /\ [Next]_vars => NoWastedBackoff'
  <2> SUFFICES ASSUME TypeOK, NoWastedBackoff, [Next]_vars, NEW x \in Handlers,
                      pc'[x] = "backoff", timer'[x] > 0
               PROVE  timer'[x] < left'[x]
    BY DEF NoWastedBackoff
  <2>1. ASSUME pc[x] = "backoff", timer'[x] = timer[x], left'[x] = left[x]
        PROVE  timer'[x] < left'[x]
    BY <2>1 DEF NoWastedBackoff
  <2>2. ASSUME NEW h \in Handlers, Failed(h)
        PROVE  timer'[x] < left'[x]
    <3>1. left'[x] = left[x]
      BY <2>2 DEF Failed, call
    <3>2. CASE x = h
      BY <2>2, <3>1, <3>2 DEF Failed
    <3>3. CASE x # h
      <4>1. pc[x] = "backoff" /\ timer'[x] = timer[x]
        BY <2>2, <3>3 DEF Failed, TypeOK, Types
      <4>2. QED
        BY <2>1, <3>1, <4>1
    <3>4. QED
      BY <3>2, <3>3
  <2>3. ASSUME NEW h \in Handlers, pc[h] \in Working, NEW kind, Fails(h, kind)
        PROVE  timer'[x] < left'[x]
    BY <2>2, <2>3, FailsFailed
  <2>4. ASSUME NEW h \in Handlers, NEW w, w # "backoff", pc' = [pc EXCEPT ![h] = w],
               \A y \in Handlers \ {h} : timer'[y] = timer[y] /\ left'[y] = left[y]
        PROVE  timer'[x] < left'[x]
    <3>1. x # h /\ pc[x] = "backoff"
      BY <2>4 DEF TypeOK, Types
    <3>2. QED
      BY <2>1, <2>4, <3>1
  <2>5. ASSUME NEW h \in Handlers, pc[h] \in Working, Send(h)
        PROVE  timer'[x] < left'[x]
    <3>1. x # h /\ pc[x] = "backoff" /\ timer'[x] = timer[x] /\ left'[x] = left[x]
      BY <2>5 DEF Send, TypeOK, Types
    <3>2. QED
      BY <2>1, <3>1
  <2>6. CASE Tick
    <3>1. /\ pc[x] = "backoff" /\ timer[x] \in Timeouts /\ left[x] \in Timeouts
      BY <2>6 DEF Tick, TypeOK, Types, InPlace, Working
    <3>2. timer[x] \in Nat /\ left[x] \in Nat
      BY <3>1, TimeAssumption DEF Timeouts
    <3>3. timer'[x] = Less(timer[x]) /\ left'[x] = Less(left[x])
      BY <2>6 DEF Tick
    <3>4. timer[x] > 0 /\ timer'[x] = timer[x] - 1
      BY <2>6, <3>2, <3>3, HandlerAssumption DEF Less
    <3>5. timer[x] < left[x]
      BY <3>1, <3>4 DEF NoWastedBackoff
    <3>6. left'[x] = left[x] - 1
      BY <3>2, <3>3, <3>4, <3>5, HandlerAssumption DEF Less
    <3>7. QED
      BY <3>2, <3>4, <3>5, <3>6
  <2>7. CASE UNCHANGED vars
    BY <2>1, <2>7 DEF vars, call
  <2>8. CASE Request
    BY <2>4, <2>8, HandlerAssumption DEF Request, Enter, call
  <2>9. ASSUME NEW h \in Handlers,
               \/ Receive(h) \/ Leave(h) \/ Gone(h) \/ Call(h) \/ CallAgain(h) \/ Wake(h)
        PROVE  timer'[x] < left'[x]
    <3>1. \A y \in Handlers \ {h} : timer'[y] = timer[y] /\ left'[y] = left[y]
      BY <2>9 DEF Receive, Enter, Leave, Gone, Clear, Call, CallAgain, Wake, call,
                  TypeOK, Types
    <3>2. \E w \in {"ready", "replied", "idle", "ended", "begin"} :
             pc' = [pc EXCEPT ![h] = w]
      BY <2>9, Zenon DEF Receive, Enter, Leave, Gone, Call, CallAgain, Wake, Goto
    <3>3. QED
      BY <2>4, <3>1, <3>2
  <2>10. ASSUME NEW h \in Handlers, Begin(h) \/ HandleEnds(h)
         PROVE  timer'[x] < left'[x]
    BY <2>3, <2>4, <2>10 DEF Begin, HandleEnds, Raises, Goto, call, Working
  <2>11. ASSUME NEW h \in Handlers, BeforeEnds(h) \/ ResolveEnds(h)
         PROVE  timer'[x] < left'[x]
    <3>1. pc[h] \in Working
      BY <2>11 DEF BeforeEnds, ResolveEnds, Working
    <3>2. CASE Raises(h)
      BY <2>3, <3>1, <3>2 DEF Raises
    <3>3. CASE Send(h)
      BY <2>5, <3>1, <3>3
    <3>4. CASE Fails(h, "final")
      BY <2>3, <3>1, <3>4
    <3>5. CASE Goto(h, "resolve") /\ UNCHANGED <<left, timer>>
      BY <2>4, <3>5 DEF Goto
    <3>6. QED
      BY <2>11, <3>2, <3>3, <3>4, <3>5, Zenon DEF BeforeEnds, ResolveEnds, Inject
  <2>12. ASSUME NEW h \in Handlers,
                \/ TimesOut(h) \/ ReadEnds(h)
                \/ \E kind \in {"network", "final"} : ExchangeFails(h, kind)
         PROVE  timer'[x] < left'[x]
    BY <2>3, <2>12 DEF TimesOut, ReadEnds, ExchangeFails, Working
  <2>13. ASSUME NEW h \in Handlers, Answer(h)
         PROVE  timer'[x] < left'[x]
    <3>1. pc[h] \in Working
      BY <2>13 DEF Answer, Working
    <3>2. CASE Fails(h, "marked") \/ Fails(h, "final")
      BY <2>3, <3>1, <3>2
    <3>3. CASE \E w \in {"read", "ended", "handle"} :
                 Goto(h, w) /\ UNCHANGED call /\ \A y \in Handlers \ {h} : timer'[y] = timer[y]
      BY <2>4, <3>3 DEF Goto, call
    <3>4. QED
      BY <2>13, <3>2, <3>3 DEF Answer, TypeOK, Types
  <2>14. ASSUME NEW h \in Handlers, Cancel(h)
         PROVE  timer'[x] < left'[x]
    BY <2>2, <2>14, CancelFailed
  <2>15. ASSUME NEW h \in Handlers, CloseStream(h)
         PROVE  timer'[x] < left'[x]
    BY <2>1, <2>15 DEF CloseStream, call
  <2>16. QED
    BY <2>6, <2>7, <2>8, <2>9, <2>10, <2>11, <2>12, <2>13, <2>14, <2>15, StepCases
<1>3. QED
  BY <1>1, <1>2, AgentType, PTL DEF SafetySpec

-----------------------------------------------------------------------------
\* The inductive form of DownstreamBudget: it covers requests under way, and
\* a handler is never left with a caller whose deadline was reset.
Away == {"idle", "transit", "replied"}

Bounded(h) ==
    /\ pc[h] = "idle" => up[h] = None
    /\ pc[h] \in Away => left[h] = None
    /\ up[h] # None => left[up[h]] # None
    /\ up[h] # None /\ asked[h] > 0 =>
          /\ pc[h] = "transit" => asked[h] * Ms <= left[up[h]] + lag[h]
          /\ pc[h] \notin Away =>
                /\ ctx[h] # None /\ ctx[h] <= left[up[h]] + lag[h]
                /\ left[h] # None => left[h] <= left[up[h]] + lag[h]

Budgets == \A h \in Handlers : Bounded(h)

\* A step that leaves the budgets alone, of calls that go on.
LEMMA BudgetsKept ==
    ASSUME TypeOK, Budgets, UNCHANGED <<request, left>>,
           \A x \in Handlers : pc'[x] = pc[x] \/ (pc[x] \notin Away /\ pc'[x] \notin Away)
    PROVE  Budgets'
<1>1. ASSUME NEW h \in Handlers
      PROVE  Bounded(h)'
  <2>1. Bounded(h) /\ (pc'[h] = pc[h] \/ (pc[h] \notin Away /\ pc'[h] \notin Away))
    BY DEF Budgets
  <2>2. /\ up'[h] = up[h] /\ asked'[h] = asked[h] /\ lag'[h] = lag[h]
        /\ ctx'[h] = ctx[h] /\ left' = left
    BY DEF request
  <2>3. pc'[h] = "idle" => pc[h] = "idle"
    BY <2>1 DEF Away
  <2>4. pc'[h] = "transit" => pc[h] = "transit"
    BY <2>1 DEF Away
  <2>5. pc'[h] \in Away <=> pc[h] \in Away
    BY <2>1
  <2>6. QED
    BY <2>1, <2>2, <2>3, <2>4, <2>5 DEF Bounded
<1>2. QED
  BY <1>1 DEF Budgets

LEMMA BudgetsGoto ==
    ASSUME TypeOK, Budgets, UNCHANGED <<request, left>>,
           NEW h \in Handlers, NEW w, w \notin Away, pc[h] \notin Away,
           pc' = [pc EXCEPT ![h] = w]
    PROVE  Budgets'
<1>1. ASSUME NEW x \in Handlers
      PROVE  pc'[x] = pc[x] \/ (pc[x] \notin Away /\ pc'[x] \notin Away)
  <2>1. pc'[x] = IF x = h THEN w ELSE pc[x]
    BY DEF TypeOK, Types
  <2>2. QED
    BY <2>1
<1>2. QED
  BY <1>1, BudgetsKept

LEMMA BudgetsFailed ==
    ASSUME TypeOK, Budgets, NEW h \in Handlers, Failed(h)
    PROVE  Budgets'
<1>1. pc[h] \notin Away /\ pc'[h] \notin Away
  BY DEF Failed, Away, Working
<1>2. QED
  BY <1>1, BudgetsGoto DEF Failed, call

LEMMA BudgetsSend ==
    ASSUME TypeOK, Budgets, NEW h \in Handlers, pc[h] \in {"before", "resolve"},
           header'[h] \in Timeouts, left[h] <= header'[h], Send(h)
    PROVE  Budgets'
<1>1. PICK c \in {x \in Handlers \ {Root} : pc[x] = "idle"} \cup {None} :
        /\ pc' = [x \in Handlers |->
                    IF x = h THEN "wait" ELSE IF x = c THEN "transit" ELSE pc[x]]
        /\ up' = [x \in Handlers |-> IF x = c THEN h ELSE up[x]]
        /\ asked' = [x \in Handlers |-> IF x = c THEN HeaderMs(h) ELSE asked[x]]
        /\ lag' = [x \in Handlers |-> IF x = c THEN header'[h] - left[h] ELSE lag[x]]
        /\ UNCHANGED <<ctx, left>>
  BY Zenon DEF Send
<1>2. left[h] # None /\ left[h] \in Nat /\ header'[h] \in Nat /\ Ms \in Nat \ {0}
  BY TimeAssumption DEF TypeOK, Types, InPlace, Working, Timeouts
<1>3. ASSUME NEW x \in Handlers
      PROVE  Bounded(x)'
  <2>1. Bounded(x) /\ left'[x] = left[x]
    BY <1>1 DEF Budgets
  <2>2. CASE x = c
    <3>1. /\ pc[x] = "idle" /\ pc'[x] = "transit" /\ up'[x] = h
          /\ asked'[x] = HeaderMs(h) /\ lag'[x] = header'[h] - left[h]
      BY <1>1, <2>2, HandlerAssumption
    <3>2. HeaderMs(h) * Ms <= header'[h]
      <4>1. header'[h] \div Ms \in 0..(header'[h] \div Ms)
        BY <1>2
      <4>2. QED
        BY <1>2, <4>1, Division DEF HeaderMs
    <3>3. left' = left /\ header'[h] = left[h] + (header'[h] - left[h])
      BY <1>1, <1>2
    <3>4. QED
      BY <1>2, <2>1, <3>1, <3>2, <3>3 DEF Bounded, Away
  <2>3. CASE x # c
    <3>1. /\ up'[x] = up[x] /\ asked'[x] = asked[x] /\ lag'[x] = lag[x] /\ ctx'[x] = ctx[x]
          /\ left' = left
      BY <1>1, <2>3
    <3>2. IF x = h THEN pc'[x] = "wait" ELSE pc'[x] = pc[x]
      BY <1>1, <2>3
    <3>3. CASE x = h
      BY <2>1, <3>1, <3>2, <3>3 DEF Bounded, Away
    <3>4. CASE x # h
      BY <2>1, <3>1, <3>2, <3>4 DEF Bounded
    <3>5. QED
      BY <3>3, <3>4
  <2>4. QED
    BY <2>2, <2>3
<1>4. QED
  BY <1>3 DEF Budgets

\* A context's deadline is at most what the header asked for.
LEMMA BudgetsEnter ==
    ASSUME TypeOK, Budgets, NEW h \in Handlers, pc[h] \in {"idle", "transit"},
           NEW ms \in 0..(Budget \div Ms) \cup {None}, Enter(h, ms),
           pc[h] = "transit" => ms = asked[h]
    PROVE  Budgets'
<1>1. PICK max \in {0, MaxTimeout} :
          LET wanted  == IF ms = None THEN Default ELSE ms * Ms
              timeout == IF max > 0 /\ (wanted = 0 \/ wanted > max) THEN max ELSE wanted
          IN  ctx' = [ctx EXCEPT ![h] = IF timeout > 0 THEN timeout ELSE None]
  BY DEF Enter
<1>2. /\ pc' = [pc EXCEPT ![h] = "ready"]
      /\ up' = up /\ asked' = asked /\ lag' = lag /\ left' = left
  BY DEF Enter, call
<1>3. ASSUME NEW x \in Handlers
      PROVE  Bounded(x)'
  <2>1. Bounded(x)
    BY DEF Budgets
  <2>2. CASE x # h
    <3>1. pc'[x] = pc[x] /\ ctx'[x] = ctx[x]
      BY <1>1, <1>2, <2>2 DEF TypeOK, Types
    <3>2. QED
      BY <1>2, <2>1, <3>1 DEF Bounded
  <2>3. CASE x = h
    <3>1. pc'[h] = "ready" /\ left[h] = None
      BY <1>2, <2>1, <2>3 DEF Bounded, Away, TypeOK, Types
    <3>2. CASE up[h] = None \/ ~(asked[h] > 0)
      BY <1>2, <2>1, <2>3, <3>1, <3>2 DEF Bounded, Away
    <3>3. CASE up[h] # None /\ asked[h] > 0
      <4>1. pc[h] = "transit" /\ ms = asked[h]
        BY <2>1, <2>3, <3>3 DEF Bounded
      <4>2. ms \in Nat \ {0} /\ ms # None /\ ms * Ms \in Nat \ {0}
        <5>1. ms \in Nat \ {0}
          BY <3>3, <4>1, TimeAssumption DEF TypeOK, Types
        <5>2. ms # None
          BY <5>1, HandlerAssumption
        <5>3. QED
          BY <5>1, <5>2, TimeAssumption
      <4>3. /\ ctx'[h] \in Nat /\ ctx'[h] <= ms * Ms
        BY <1>1, <4>2, TimeAssumption DEF TypeOK, Types
      <4>4. ctx'[h] # None
        BY <4>3, HandlerAssumption
      <4>5. ms * Ms <= left[up[h]] + lag[h] /\ left[up[h]] # None
        BY <2>1, <2>3, <3>3, <4>1 DEF Bounded
      <4>6. left[up[h]] \in Nat /\ lag[h] \in Nat
        BY <3>3, <4>5, TimeAssumption DEF TypeOK, Types, Timeouts
      <4>7. ctx'[h] <= left[up[h]] + lag[h]
        BY <4>2, <4>3, <4>5, <4>6
      <4>8. QED
        BY <1>2, <2>1, <2>3, <3>1, <4>4, <4>5, <4>7 DEF Bounded, Away
    <3>4. QED
      BY <3>2, <3>3
  <2>4. QED
    BY <2>2, <2>3
<1>4. QED
  BY <1>3 DEF Budgets

\* All clocks run alike, and a header's age makes up for the wait.
LEMMA BudgetsTick ==
    ASSUME TypeOK, Budgets, Tick
    PROVE  Budgets'
<1>1. ASSUME NEW h \in Handlers
      PROVE  Bounded(h)'
  <2>1. Bounded(h) /\ pc'[h] = pc[h] /\ up'[h] = up[h] /\ asked'[h] = asked[h]
    BY DEF Budgets, Tick
  <2>2. /\ \A x \in Handlers : left'[x] = Less(left[x])
        /\ ctx'[h] = Less(ctx[h])
        /\ lag'[h] = IF pc[h] = "transit" /\ lag[h] < Budget THEN lag[h] + 1 ELSE lag[h]
    BY DEF Tick
  <2>3. \A t \in Timeouts \cup {None} :
           /\ Less(t) = None <=> t = None
           /\ t # None => t \in Nat /\ Less(t) \in Nat /\ Less(t) <= t /\ t <= Less(t) + 1
           /\ t # None /\ t > 0 => Less(t) = t - 1
           /\ t = 0 => Less(t) = 0
    BY HandlerAssumption, TimeAssumption DEF Less, Timeouts
  <2>4. /\ left[h] \in Timeouts \cup {None} /\ ctx[h] \in Timeouts \cup {None}
        /\ lag[h] \in Nat /\ lag[h] <= Budget
    BY TimeAssumption DEF TypeOK, Types, Timeouts
  <2>5. CASE up[h] = None
    BY <2>1, <2>2, <2>3, <2>4, <2>5 DEF Bounded
  <2>6. CASE up[h] # None
    <3>1. left[up[h]] \in Timeouts /\ up[h] \in Handlers
      BY <2>1, <2>6 DEF Bounded, TypeOK, Types
    <3>2. /\ left'[up[h]] = Less(left[up[h]]) /\ left'[up[h]] # None
          /\ left[up[h]] \in Nat /\ left'[up[h]] \in Nat /\ left[up[h]] <= left'[up[h]] + 1
          /\ left[up[h]] > 0 => left'[up[h]] = left[up[h]] - 1
      BY <2>2, <2>3, <3>1, HandlerAssumption, TimeAssumption DEF Timeouts
    <3>3. left'[h] = Less(left[h]) /\ (left'[h] = None <=> left[h] = None)
      BY <2>2, <2>3, <2>4
    <3>4. CASE ~(asked[h] > 0)
      BY <2>1, <2>6, <3>2, <3>3, <3>4 DEF Bounded
    <3>5. CASE asked[h] > 0 /\ pc[h] = "transit"
      <4>1. PICK n \in Nat : n = asked[h] * Ms /\ n <= Budget
        BY Division, TimeAssumption DEF TypeOK, Types
      <4>2. n <= left[up[h]] + lag[h]
        BY <2>1, <2>6, <3>5, <4>1 DEF Bounded
      <4>3. n <= left'[up[h]] + lag'[h]
        BY <2>2, <2>4, <3>2, <3>5, <4>1, <4>2, TimeAssumption
      <4>4. QED
        BY <2>1, <2>6, <3>2, <3>3, <3>5, <4>1, <4>3 DEF Bounded, Away
    <3>6. CASE asked[h] > 0 /\ pc[h] # "transit"
      <4>1. lag'[h] = lag[h]
        BY <2>2, <3>6
      <4>2. ASSUME NEW t \in Timeouts \cup {None}, t # None, t <= left[up[h]] + lag[h]
            PROVE  Less(t) # None /\ Less(t) <= left'[up[h]] + lag'[h]
        BY <2>3, <2>4, <3>2, <4>1, <4>2
      <4>3. QED
        BY <2>1, <2>2, <2>4, <2>6, <3>2, <3>3, <3>6, <4>2 DEF Bounded
    <3>7. QED
      BY <3>4, <3>5, <3>6
  <2>7. QED
    BY <2>5, <2>6
<1>2. QED
  BY <1>1 DEF Budgets

\* A handler whose deadline is reset has no callees left, nor has a handler
\* that leaves or is gone.
LEMMA BudgetsReset ==
    ASSUME TypeOK, Budgets, NEW h \in Handlers, NEW w,
           pc' = [pc EXCEPT ![h] = w],
           \A x \in Handlers : up'[x] # h /\ (up'[x] = up[x] \/ up'[x] = None),
           \A x \in Handlers \ {h} :
              ctx'[x] = ctx[x] /\ left'[x] = left[x] /\ asked'[x] = asked[x] /\ lag'[x] = lag[x],
           left'[h] = None,
           \/ w = "idle" /\ up'[h] = None
           \/ w = "replied"
           \/ w = "ready" /\ pc[h] \notin Away /\ UNCHANGED <<ctx, asked, lag>>
    PROVE  Budgets'
<1>1. ASSUME NEW x \in Handlers
      PROVE  Bounded(x)'
  <2>1. Bounded(x) /\ (up'[x] = up[x] \/ up'[x] = None) /\ up'[x] # h
    BY DEF Budgets
  <2>2. pc'[x] = IF x = h THEN w ELSE pc[x]
    BY DEF TypeOK, Types
  <2>3. up'[x] # None => up'[x] = up[x] /\ left'[up[x]] = left[up[x]]
    BY <2>1 DEF TypeOK, Types
  <2>4. CASE x = h
    BY <2>1, <2>2, <2>3, <2>4 DEF Bounded, Away
  <2>5. CASE x # h
    BY <2>1, <2>2, <2>3, <2>5 DEF Bounded
  <2>6. QED
    BY <2>4, <2>5
<1>2. QED
  BY <1>1 DEF Budgets

(* No chain of calls, retries and hops, waited for or abandoned, gives a   *)
(* handler more time than its caller's deadline leaves and its own header  *)
(* spent on the way.                                                       *)
THEOREM AgentDownstreamBudget == SafetySpec => []DownstreamBudget
<1>1. Init => Budgets
  BY DEF Init, Budgets, Bounded, Away
<1>2. TypeOK /\ Budgets /\ [Next]_vars => Budgets'
  <2> SUFFICES ASSUME TypeOK, Budgets, [Next]_vars
               PROVE  Budgets'
    OBVIOUS
  <2>1. ASSUME NEW h \in Handlers, pc[h] \in Working, NEW kind, Fails(h, kind)
        PROVE  Budgets'
    BY <2>1, FailsFailed, BudgetsFailed
  <2>2. ASSUME NEW h \in Handlers, pc[h] \in Working, NEW w \in Working \cup {"ended"},
               Goto(h, w), UNCHANGED <<request, left>>
        PROVE  Budgets'
    <3>1. pc[h] \notin Away /\ w \notin Away
      BY <2>2 DEF Away, Working
    <3>2. QED
      BY <2>2, <3>1, BudgetsGoto DEF Goto
  <2>3. CASE UNCHANGED vars
    BY <2>3, BudgetsKept DEF vars, request, call
  <2>4. CASE Request
    BY <2>4, BudgetsEnter, HandlerAssumption DEF Request
  <2>5. ASSUME NEW h \in Handlers, Receive(h)
        PROVE  Budgets'
    <3>1. asked[h] \in 0..(Budget \div Ms)
      BY DEF TypeOK, Types
    <3>2. QED
      BY <2>5, <3>1, BudgetsEnter DEF Receive
  <2>6. ASSUME NEW h \in Handlers, Leave(h)
        PROVE  Budgets'
    <3>1. \A x \in Handlers : up'[x] # h /\ (up'[x] = up[x] \/ up'[x] = None)
      BY <2>6, HandlerAssumption DEF Leave, Disown
    <3>2. left'[h] = None /\ \A x \in Handlers \ {h} :
             ctx'[x] = ctx[x] /\ left'[x] = left[x] /\ asked'[x] = asked[x] /\ lag'[x] = lag[x]
      BY <2>6 DEF Leave, Clear, TypeOK, Types
    <3>3. QED
      BY <2>6, <3>1, <3>2, BudgetsReset DEF Leave, Goto
  <2>7. ASSUME NEW h \in Handlers, Gone(h)
        PROVE  Budgets'
    <3>1. left[h] = None
      BY <2>7 DEF Gone, Budgets, Bounded, Away
    <3>2. \A x \in Handlers : up'[x] # h /\ (up'[x] = up[x] \/ up'[x] = None)
      BY <2>7, <3>1, HandlerAssumption DEF Gone, Budgets, Bounded, TypeOK, Types
    <3>3. up'[h] = None /\ left'[h] = None /\ \A x \in Handlers \ {h} :
             ctx'[x] = ctx[x] /\ left'[x] = left[x] /\ asked'[x] = asked[x] /\ lag'[x] = lag[x]
      BY <2>7 DEF Gone, Clear, TypeOK, Types
    <3>4. QED
      BY <2>7, <3>2, <3>3, BudgetsReset DEF Gone, Goto
  <2>8. ASSUME NEW h \in Handlers, Call(h)
        PROVE  Budgets'
    <3>1. CASE UNCHANGED left
      <4>1. PICK w \in {"begin", "ended"} : pc' = [pc EXCEPT ![h] = w]
        BY <2>8, Zenon DEF Call, Goto
      <4>2. QED
        BY <2>8, <3>1, <4>1, BudgetsGoto DEF Call, Away
    <3>2. CASE left' # left
      <4>1. /\ pc[h] = "ready" /\ pc' = [pc EXCEPT ![h] = "begin"]
            /\ left' = [left EXCEPT ![h] = Deadlines(h)] /\ UNCHANGED request
        BY <2>8, <3>2 DEF Call, Goto
      <4>2. left[h] = None
        BY <3>2, <4>1 DEF Deadlines, TypeOK, Types
      <4>3. ASSUME NEW x \in Handlers
            PROVE  Bounded(x)'
        <5>1. /\ Bounded(x) /\ up'[x] = up[x] /\ asked'[x] = asked[x] /\ lag'[x] = lag[x]
              /\ ctx'[x] = ctx[x]
          BY <4>1 DEF Budgets, request
        <5>2. up[x] # None => up[x] # h /\ left'[up[x]] = left[up[x]]
          BY <4>1, <4>2, <5>1 DEF Bounded, TypeOK, Types
        <5>3. CASE x = h
          <6>1. pc'[h] = "begin" /\ (ctx[h] # None => left'[h] = ctx[h])
            BY <4>1, <4>2 DEF Deadlines, TypeOK, Types
          <6>2. QED
            BY <4>1, <5>1, <5>2, <5>3, <6>1 DEF Bounded, Away
        <5>4. CASE x # h
          BY <4>1, <5>1, <5>2, <5>4 DEF Bounded, TypeOK, Types
        <5>5. QED
          BY <5>3, <5>4
      <4>4. QED
        BY <4>3 DEF Budgets
    <3>3. QED
      BY <3>1, <3>2
  <2>9. ASSUME NEW h \in Handlers, CallAgain(h)
        PROVE  Budgets'
    <3>1. CASE UNCHANGED <<left, up>>
      BY <2>9, <3>1, BudgetsGoto DEF CallAgain, Goto, Away, request
    <3>2. CASE left' = [left EXCEPT ![h] = None] /\ Disown(h)
      <4>1. \A x \in Handlers : up'[x] # h /\ (up'[x] = up[x] \/ up'[x] = None)
        BY <3>2, HandlerAssumption DEF Disown
      <4>2. left'[h] = None /\ \A x \in Handlers \ {h} :
              ctx'[x] = ctx[x] /\ left'[x] = left[x] /\ asked'[x] = asked[x] /\ lag'[x] = lag[x]
        BY <2>9, <3>2 DEF CallAgain, TypeOK, Types
      <4>3. QED
        BY <2>9, <4>1, <4>2, BudgetsReset DEF CallAgain, Goto, Away
    <3>3. QED
      BY <2>9, <3>1, <3>2 DEF CallAgain
  <2>10. ASSUME NEW h \in Handlers, Begin(h) \/ HandleEnds(h)
         PROVE  Budgets'
    BY <2>1, <2>2, <2>10 DEF Begin, HandleEnds, Raises, Working, call
  <2>11. ASSUME NEW h \in Handlers, BeforeEnds(h) \/ ResolveEnds(h)
         PROVE  Budgets'
    <3>1. pc[h] \in {"before", "resolve"} /\ pc[h] \in Working
      BY <2>11 DEF BeforeEnds, ResolveEnds, Working
    <3>2. CASE Raises(h)
      BY <2>1, <3>1, <3>2 DEF Raises
    <3>3. CASE Fails(h, "final")
      BY <2>1, <3>1, <3>3
    <3>4. CASE Goto(h, "resolve") /\ UNCHANGED <<request, left>>
      BY <2>2, <3>1, <3>4 DEF Working
    <3>5. CASE Send(h) /\ (header' = [header EXCEPT ![h] = left[h]]
                              \/ (pc[h] = "resolve" /\ UNCHANGED header))
      <4>1. left[h] \in Timeouts /\ header'[h] \in Timeouts /\ left[h] <= header'[h]
        BY <3>1, <3>5, TimeAssumption DEF TypeOK, Types, InPlace, Timeouts
      <4>2. QED
        BY <3>1, <3>5, <4>1, BudgetsSend
    <3>6. CASE Inject(h)
      BY <3>4, <3>5, <3>6, Zenon DEF Inject
    <3>7. CASE ResolveEnds(h)
      BY <3>2, <3>5, <3>7, Zenon DEF ResolveEnds
    <3>8. QED
      BY <2>11, <3>2, <3>3, <3>6, <3>7, Zenon DEF BeforeEnds
  <2>12. ASSUME NEW h \in Handlers,
                \/ TimesOut(h) \/ ReadEnds(h)
                \/ \E kind \in {"network", "final"} : ExchangeFails(h, kind)
         PROVE  Budgets'
    BY <2>1, <2>12 DEF TimesOut, ReadEnds, ExchangeFails, Working
  <2>13. ASSUME NEW h \in Handlers, Answer(h)
         PROVE  Budgets'
    <3>1. pc[h] \in Working
      BY <2>13 DEF Answer, Working
    <3>2. CASE Fails(h, "marked") \/ Fails(h, "final")
      BY <2>1, <3>1, <3>2
    <3>3. CASE \E w \in {"read", "ended", "handle"} : Goto(h, w) /\ UNCHANGED <<request, call>>
      BY <2>2, <3>1, <3>3 DEF Working, call
    <3>4. QED
      BY <2>13, <3>2, <3>3, Zenon DEF Answer
  <2>14. ASSUME NEW h \in Handlers, Cancel(h)
         PROVE  Budgets'
    BY <2>14, CancelFailed, BudgetsFailed
  <2>15. ASSUME NEW h \in Handlers, CloseStream(h)
         PROVE  Budgets'
    BY <2>15, BudgetsKept DEF CloseStream, call
  <2>16. ASSUME NEW h \in Handlers, Wake(h)
         PROVE  Budgets'
    BY <2>2, <2>16 DEF Wake, Working
  <2>17. QED
    BY <2>3, <2>4, <2>5, <2>6, <2>7, <2>8, <2>9, <2>10, <2>11, <2>12, <2>13, <2>14,
       <2>15, <2>16, BudgetsTick, StepCases
<1>3. TypeOK /\ Budgets => DownstreamBudget
  <2> SUFFICES ASSUME TypeOK, Budgets, NEW h \in Handlers, up[h] # None, asked[h] > 0,
                      pc[h] \notin {"transit", "replied"}
               PROVE  BudgetOf(h) <= left[up[h]] + lag[h]
    BY DEF DownstreamBudget
  <2>1. Bounded(h) /\ pc[h] \notin Away
    BY DEF Budgets, Bounded, Away
  <2>2. QED
    BY <2>1 DEF Bounded, BudgetOf
<1>4. QED
  BY <1>1, <1>2, <1>3, AgentType, PTL DEF SafetySpec
=============================================================================
