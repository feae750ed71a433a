----------------------------- MODULE HttpxAgent -----------------------------
(***************************************************************************)
(* httpx.py: requests that call on.  A service handles a request in the    *)
(* context that context_from_headers made, calls do() or do_stream() of an *)
(* Agent, and the request that an attempt sends may be handled by another  *)
(* service of the same kind.  What a caller no longer waits for goes on:   *)
(* a request under way, a handler at work, an answer.                      *)
(***************************************************************************)
EXTENDS Naturals

CONSTANTS Handlers,     \* requests being handled, with one Agent each
          Root,         \* the handler that requests from outside come to
          None,         \* no handler, no deadline, no header, no timeout
          Retrying,     \* agents with a retry option and a method it may retry
          Discovering,  \* agents with service discovery
          Streaming,    \* agents used by do_stream
          MaxAttempts,  \* attempts of the retry option
          BaseDelay, MaxDelay,
          Ms,           \* units of time in a millisecond
          Quota,        \* timeout_quota
          Default,      \* default_timeout of context_from_headers
          MaxTimeout,   \* its max_timeout, where it is given
          Budget        \* bound: the largest of all timeouts

ASSUME HandlerAssumption ==
    /\ None \notin Handlers /\ Root \in Handlers
    /\ None \notin Nat
    /\ Retrying \cup Discovering \cup Streaming \subseteq Handlers
ASSUME TimeAssumption ==
    /\ {MaxAttempts, BaseDelay, MaxDelay, Default} \subseteq Nat
    /\ {Ms, Quota, MaxTimeout, Budget} \subseteq Nat \ {0}
    /\ MaxAttempts >= 1
    /\ \A t \in {Ms, Quota, Default, MaxTimeout, MaxDelay} : t <= Budget

VARIABLES pc,       \* where the handler is
          up,       \* whose attempt it handles
          asked,    \* the milliseconds its request's header gave it
          lag,      \* history: how old the header was when it was received
          ctx,      \* what is left of its context's deadline
          left,     \* what is left of its agent's _deadline, None: not set
          attempt,  \* the attempt of the call
          header,   \* what was left of the deadline when the attempt's header
                    \* was made
          timer,    \* what is left of a backoff, or of the time the other side
                    \* has; None: it sends bits in time, for ever perhaps
          child,    \* who handles the attempt, None: a service of another kind
          client,   \* the client of do_stream: open, or held by the caller
          leaked    \* history: clients of this call that nobody will close

vars == <<pc, up, asked, lag, ctx, left, attempt, header, timer, child, client, leaked>>

Working == {"begin", "before", "resolve", "wait", "read", "handle", "backoff"}
Timeouts == 0..Budget

Attempts(h) == IF h \in Retrying THEN MaxAttempts ELSE 1

\* What a handler has while it is somewhere.
InPlace(h) ==
    /\ pc[h] \in Working => left[h] # None
    /\ child[h] # None =>
          pc[h] = "wait" /\ up[child[h]] = h /\ pc[child[h]] # "idle"
    /\ client[h] = "open" <=> h \in Streaming /\ pc[h] \in {"wait", "read"}
    /\ client[h] = "held" => pc[h] = "ended"
    /\ timer[h] = None => pc[h] \in {"wait", "read"}
    /\ pc[h] = "backoff" => attempt[h] < Attempts(h)
    /\ pc[h] = "resolve" => left[h] <= header[h]

Types ==
    /\ pc \in [Handlers -> Working \cup {"idle", "transit", "ready", "ended", "replied"}]
    /\ up \in [Handlers -> Handlers \cup {None}]
    /\ asked \in [Handlers -> 0..(Budget \div Ms)]
    /\ lag \in [Handlers -> Timeouts]
    /\ ctx \in [Handlers -> Timeouts \cup {None}]
    /\ left \in [Handlers -> Timeouts \cup {None}]
    /\ attempt \in [Handlers -> 0..MaxAttempts]
    /\ header \in [Handlers -> Timeouts]
    /\ timer \in [Handlers -> Timeouts \cup {None}]
    /\ child \in [Handlers -> Handlers \cup {None}]
    /\ client \in [Handlers -> {"none", "open", "held"}]
    /\ leaked \in [Handlers -> Nat]

TypeOK == Types /\ \A h \in Handlers : InPlace(h)

Init ==
    /\ pc = [h \in Handlers |-> "idle"]
    /\ up = [h \in Handlers |-> None]
    /\ asked = [h \in Handlers |-> 0]
    /\ lag = [h \in Handlers |-> 0]
    /\ ctx = [h \in Handlers |-> None]
    /\ left = [h \in Handlers |-> None]
    /\ attempt = [h \in Handlers |-> 0]
    /\ header = [h \in Handlers |-> 0]
    /\ timer = [h \in Handlers |-> 0]
    /\ child = [h \in Handlers |-> None]
    /\ client = [h \in Handlers |-> "none"]
    /\ leaked = [h \in Handlers |-> 0]

request == <<up, asked, lag, ctx>>
call == <<left, attempt, header>>

Goto(h, where) == pc' = [pc EXCEPT ![h] = where]

\* _retry_delay after attempt k: a random part of the second half.
Delays(k) ==
    LET grown == BaseDelay * 2^(k - 1)
        delay == IF grown < MaxDelay THEN grown ELSE MaxDelay
    IN  {d \in 0..MaxDelay : delay \div 2 <= d /\ d <= delay}

-----------------------------------------------------------------------------
\* A handler forgets its callees: what they do no longer concerns it.
Disown(h) == up' = [c \in Handlers |-> IF up[c] = h THEN None ELSE up[c]]

\* context_from_headers: no header, or none it can read, gives the default.
Enter(h, ms) ==
    /\ pc' = [pc EXCEPT ![h] = "ready"]
    /\ \E max \in {0, MaxTimeout} :
          LET wanted  == IF ms = None THEN Default ELSE ms * Ms
              timeout == IF max > 0 /\ (wanted = 0 \/ wanted > max) THEN max ELSE wanted
          IN  ctx' = [ctx EXCEPT ![h] = IF timeout > 0 THEN timeout ELSE None]
    /\ UNCHANGED <<up, asked, lag, call, timer, child, client, leaked>>

\* A request from outside.
Request ==
    /\ pc[Root] = "idle"
    /\ \E ms \in 0..(Budget \div Ms) \cup {None} : Enter(Root, ms)

\* The request of an attempt arrives; it may never do.
Receive(h) == pc[h] = "transit" /\ Enter(h, asked[h])

Clear(h) ==
    /\ ctx' = [ctx EXCEPT ![h] = None]
    /\ left' = [left EXCEPT ![h] = None]
    /\ attempt' = [attempt EXCEPT ![h] = 0]
    /\ header' = [header EXCEPT ![h] = 0]
    /\ asked' = [asked EXCEPT ![h] = 0]
    /\ lag' = [lag EXCEPT ![h] = 0]
    /\ leaked' = [leaked EXCEPT ![h] = 0]
    /\ UNCHANGED <<timer, child, client>>

\* The service answers, after its call or without one.
Leave(h) ==
    /\ pc[h] \in {"ready", "ended"} /\ client[h] = "none"
    /\ Goto(h, "replied") /\ Disown(h) /\ Clear(h)

\* The answer, or a request under way, of which the caller waits no more.
Gone(h) ==
    /\ pc[h] \in {"transit", "replied"}
    /\ \A p \in Handlers : child[p] # h
    /\ Goto(h, "idle")
    /\ up' = [up EXCEPT ![h] = None]
    /\ Clear(h)

-----------------------------------------------------------------------------
\* _init_deadline, or the deadline that an earlier call on the agent left.
Deadlines(h) ==
    IF left[h] # None THEN left[h] ELSE IF ctx[h] = None THEN Quota ELSE ctx[h]

\* do() or do_stream() up to the first attempt: a budget that is exhausted
\* already raises before the agent has a deadline.
Call(h) ==
    /\ pc[h] = "ready"
    /\ IF left[h] = None /\ ctx[h] = 0
         THEN Goto(h, "ended") /\ UNCHANGED <<left, attempt>>
         ELSE /\ Goto(h, "begin")
              /\ left' = [left EXCEPT ![h] = Deadlines(h)]
              /\ attempt' = [attempt EXCEPT ![h] = 1]
    /\ leaked' = [leaked EXCEPT ![h] = 0]
    /\ UNCHANGED <<request, header, timer, child, client>>

\* Another call, on the same agent or on a new one.
CallAgain(h) ==
    /\ pc[h] = "ended" /\ client[h] = "none"
    /\ Goto(h, "ready")
    /\ \/ UNCHANGED <<left, up>>
       \/ left' = [left EXCEPT ![h] = None] /\ Disown(h)
    /\ attempt' = [attempt EXCEPT ![h] = 0]
    /\ header' = [header EXCEPT ![h] = 0]
    /\ UNCHANGED <<asked, lag, ctx, timer, child, client, leaked>>

\* is_retryable_error follows the causes to a RetryableError.  A network
\* error gets one in _do_http, but raise ... from takes it off the chain.
Retryable(kind) == kind = "marked"

\* Mutant: the backoff may outlast the deadline.
Fails_AnyDelay(h, kind) ==
    /\ child' = [child EXCEPT ![h] = None]
    /\ IF attempt[h] < Attempts(h) /\ Retryable(kind)
         THEN \E d \in Delays(attempt[h]) :
                /\ Goto(h, "backoff") /\ timer' = [timer EXCEPT ![h] = d]
         ELSE Goto(h, "ended") /\ timer' = [timer EXCEPT ![h] = 0]
    /\ UNCHANGED <<request, call>>

\* The attempt raises: a backoff that ends before the deadline, or the call
\* raises.
Fails(h, kind) ==
    /\ child' = [child EXCEPT ![h] = None]
    /\ \E d \in Delays(attempt[h]) :
          IF attempt[h] < Attempts(h) /\ Retryable(kind) /\ d < left[h]
            THEN Goto(h, "backoff") /\ timer' = [timer EXCEPT ![h] = d]
            ELSE Goto(h, "ended") /\ timer' = [timer EXCEPT ![h] = 0]
    /\ UNCHANGED <<request, call>>

\* Code of the user, a handler or a resolver, may raise anything.
Raises(h) ==
    /\ \E kind \in {"marked", "network", "final"} : Fails(h, kind)
    /\ UNCHANGED <<client, leaked>>

\* The client is left behind.
Leak(h) ==
    /\ client' = [client EXCEPT ![h] = "none"]
    /\ leaked' = [leaked EXCEPT ![h] = IF client[h] = "none" THEN leaked[h]
                                                             ELSE leaked[h] + 1]

Begin(h) ==
    /\ pc[h] = "begin"
    /\ \/ left[h] = 0 /\ Fails(h, "final")
       \/ left[h] > 0 /\ Goto(h, "before") /\ UNCHANGED <<request, call, timer, child>>
    /\ UNCHANGED <<client, leaked>>

\* Mutant: the header is rounded up.
HeaderMs_Up(h) == (header'[h] + Ms - 1) \div Ms

\* The header: whole milliseconds.
HeaderMs(h) == header'[h] \div Ms

\* The request goes out: to a free handler or elsewhere; the other side has
\* the rest of the deadline, a millisecond at least, for each bit it sends.
Send(h) ==
    \E c \in {x \in Handlers \ {Root} : pc[x] = "idle"} \cup {None}, slow \in BOOLEAN :
        /\ pc' = [x \in Handlers |->
                    IF x = h THEN "wait" ELSE IF x = c THEN "transit" ELSE pc[x]]
        /\ up' = [x \in Handlers |-> IF x = c THEN h ELSE up[x]]
        /\ asked' = [x \in Handlers |-> IF x = c THEN HeaderMs(h) ELSE asked[x]]
        /\ lag' = [x \in Handlers |-> IF x = c THEN header'[h] - left[h] ELSE lag[x]]
        /\ child' = [child EXCEPT ![h] = c]
        /\ timer' = [timer EXCEPT ![h] =
                       IF slow THEN None ELSE IF left[h] < Ms THEN Ms ELSE left[h]]
        /\ client' = [client EXCEPT ![h] = IF h \in Streaming THEN "open" ELSE "none"]
        /\ UNCHANGED <<ctx, left, attempt, leaked>>

\* Mutant: the budget is not looked at again.
Inject_Unchecked(h) ==
    /\ header' = [header EXCEPT ![h] = left[h]]
    /\ IF h \in Discovering
         THEN /\ Goto(h, "resolve")
              /\ UNCHANGED <<request, left, attempt, timer, child, client, leaked>>
         ELSE Send(h)

\* inject_trace_headers, then the resolver or the request.
Inject(h) ==
    /\ left[h] > 0
    /\ header' = [header EXCEPT ![h] = left[h]]
    /\ IF h \in Discovering
         THEN /\ Goto(h, "resolve")
              /\ UNCHANGED <<request, left, attempt, timer, child, client, leaked>>
         ELSE Send(h)

\* The request handlers are through.
BeforeEnds(h) ==
    /\ pc[h] = "before"
    /\ \/ Inject(h)
       \/ left[h] = 0 /\ Fails(h, "final") /\ UNCHANGED <<client, leaked>>
       \/ Raises(h)

ResolveEnds(h) ==
    /\ pc[h] = "resolve"
    /\ \/ UNCHANGED header /\ Send(h)
       \/ Raises(h)

-----------------------------------------------------------------------------
\* The connection is refused or lost; or what is wrong with the exchange is
\* not the network, too many redirects.
ExchangeFails(h, kind) == pc[h] \in {"wait", "read"} /\ Fails(h, kind) /\ Leak(h)

\* Mutant: the body of an error is awaited for ever.
TimesOut_NotRead(h) ==
    pc[h] = "wait" /\ timer[h] = 0 /\ Fails(h, "network") /\ Leak(h)

\* The other side was silent for too long.
TimesOut(h) ==
    pc[h] \in {"wait", "read"} /\ timer[h] = 0 /\ Fails(h, "network") /\ Leak(h)

\* An answer: expected, to be retried, or neither.  do_stream has yet to read
\* the body of an answer that is not expected.
Answer(h) ==
    /\ pc[h] = "wait"
    /\ \A c \in Handlers : child[h] = c => pc[c] = "replied"
    /\ \/ /\ h \in Streaming
          /\ \/ Goto(h, "read") /\ UNCHANGED <<timer, client>>
             \/ /\ Goto(h, "ended")
                /\ client' = [client EXCEPT ![h] = "held"]
                /\ timer' = [timer EXCEPT ![h] = 0]
          /\ child' = [child EXCEPT ![h] = None]
          /\ UNCHANGED <<request, call, leaked>>
       \/ /\ h \notin Streaming
          /\ Goto(h, "handle")
          /\ child' = [child EXCEPT ![h] = None]
          /\ timer' = [timer EXCEPT ![h] = 0]
          /\ UNCHANGED <<request, call, client, leaked>>
       \/ /\ h \notin Streaming
          /\ Fails(h, "marked") \/ Fails(h, "final")
          /\ UNCHANGED <<client, leaked>>

\* Mutant: the client of an answer that was not expected stays open.
ReadEnds_NoClose(h) ==
    /\ pc[h] = "read"
    /\ Fails(h, "marked") \/ Fails(h, "final")
    /\ Leak(h)

\* The body is read and the client closed.
ReadEnds(h) ==
    /\ pc[h] = "read"
    /\ Fails(h, "marked") \/ Fails(h, "final")
    /\ client' = [client EXCEPT ![h] = "none"]
    /\ UNCHANGED leaked

\* The response handler returns or raises.
HandleEnds(h) ==
    /\ pc[h] = "handle"
    /\ \/ /\ Goto(h, "ended")
          /\ UNCHANGED <<request, call, timer, child, client, leaked>>
       \/ Raises(h)

Wake(h) ==
    /\ pc[h] = "backoff" /\ timer[h] = 0
    /\ Goto(h, "begin")
    /\ attempt' = [attempt EXCEPT ![h] = attempt[h] + 1]
    /\ UNCHANGED <<request, left, header, timer, child, client, leaked>>

\* The call is cancelled while it waits for something.
Cancel(h) ==
    /\ pc[h] \in Working \ {"begin"}
    /\ Goto(h, "ended")
    /\ child' = [child EXCEPT ![h] = None]
    /\ timer' = [timer EXCEPT ![h] = 0]
    /\ Leak(h)
    /\ UNCHANGED <<request, call>>

\* The caller closes the stream it was given, which may fail.
CloseStream(h) ==
    /\ client[h] = "held"
    /\ \/ client' = [client EXCEPT ![h] = "none"] /\ UNCHANGED leaked
       \/ Leak(h)
    /\ UNCHANGED <<pc, request, call, timer, child>>

-----------------------------------------------------------------------------
Less(t) == IF t = None \/ t = 0 THEN t ELSE t - 1

Tick ==
    /\ ctx' = [h \in Handlers |-> Less(ctx[h])]
    /\ left' = [h \in Handlers |-> Less(left[h])]
    /\ timer' = [h \in Handlers |-> Less(timer[h])]
    /\ lag' = [h \in Handlers |->
                 IF pc[h] = "transit" /\ lag[h] < Budget THEN lag[h] + 1 ELSE lag[h]]
    /\ UNCHANGED <<pc, up, asked, attempt, header, child, client, leaked>>

\* What the call does by itself, and the code of the user in it.
CallStep(h) ==
    \/ Begin(h) \/ BeforeEnds(h) \/ ResolveEnds(h) \/ TimesOut(h)
    \/ HandleEnds(h) \/ Wake(h)

Next ==
    \/ Tick \/ Request
    \/ \E h \in Handlers :
          \/ Receive(h) \/ Leave(h) \/ Gone(h) \/ Call(h) \/ CallAgain(h)
          \/ CallStep(h) \/ Answer(h) \/ ReadEnds(h) \/ Cancel(h) \/ CloseStream(h)
          \/ \E kind \in {"network", "final"} : ExchangeFails(h, kind)

SafetySpec == Init /\ [][Next]_vars

\* Time goes on, tasks that are ready run, and the user's handlers and
\* resolvers come to an end.  Nothing is assumed of other services.
Spec ==
    /\ SafetySpec
    /\ WF_vars(Tick)
    /\ \A h \in Handlers : WF_vars(CallStep(h))

-----------------------------------------------------------------------------
BudgetOf(h) == IF left[h] = None THEN ctx[h] ELSE left[h]

(* Whoever works for an attempt, waited for or not, has at most what its   *)
(* caller's deadline leaves plus the time that the header was on the way:  *)
(* retries, resolvers and further hops never add to it.  A header of 0 ms  *)
(* is exempt: it asks for the receiver's own limits (httpx.py:809-852).    *)
DownstreamBudget ==
    \A h \in Handlers :
        up[h] # None /\ asked[h] > 0 /\ pc[h] \notin {"transit", "replied"}
            => BudgetOf(h) <= left[up[h]] + lag[h]

(* However many attempts a stream takes and however they fail, the call    *)
(* has one client open at most, handed out or lost: what is retried was    *)
(* closed before (httpx.py:481-505,672-709).                               *)
OneClientPerCall ==
    \A h \in Handlers :
        leaked[h] + (IF client[h] = "none" THEN 0 ELSE 1) <= 1

(* A backoff that is woken in time leaves time for the attempt it was for  *)
(* (httpx.py:474-477).                                                     *)
NoWastedBackoff ==
    \A h \in Handlers :
        pc[h] = "backoff" /\ timer[h] > 0 => timer[h] < left[h]

(* A request leaves after the deadline only if a resolver took that long:  *)
(* request handlers that did are found out (httpx.py:513-522,809-812).     *)
LateOnlyBehindResolver ==
    [][\A h \in Handlers :
          pc[h] # "wait" /\ pc'[h] = "wait" /\ left[h] = 0 => pc[h] = "resolve"]_vars

(* No call hangs on a service that does not answer: it ends, unless the    *)
(* other side keeps sending bits in time (httpx.py:454-505,525-526).       *)
CallSettles ==
    \A h \in Handlers :
        pc[h] \in Working ~> (pc[h] = "ended" \/ timer[h] = None)

(* A lost connection is retried while attempts and time are left, as       *)
(* httpx.py:556-559 and 699-702 mean it to be.                             *)
NetworkErrorRetried ==
    [][\A h \in Handlers :
          ExchangeFails(h, "network") /\ attempt[h] < Attempts(h) /\ MaxDelay < left[h]
              => pc'[h] = "backoff"]_vars
=============================================================================
