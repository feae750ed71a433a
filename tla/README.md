# Verification of core_py

TLA+ models of the Python library `core_py` (`src/src/core_py`), checked with
TLC on small instances and, where it matters most, proved with TLAPS for every
value of the constants. `PROJECT.json` lists the components, the runs, the
mutants that each property is tested with, the source lines behind every
definition, the findings, the hazards and the theorems.

## 1. The system

`core_py` is a library: its state lives in objects of the calling process, in
context variables, and in Redis or MongoDB. Its code is asyncio: between two
`await`s a task runs alone in its thread, at every `await` anything else may
happen, including cancellation.

| Component | State | Operations | What is hard | What makes it correct |
|---|---|---|---|---|
| Mutexes `dkit/memory.py`, `redis.py`, `mongo.py` | a lock entry (owner or identity, expiry) per key in a table, a Redis key or a document; what each mutex object remembers of its own lock | `try_lock`, `lock`, `unlock`, `exist_lock` | expiry between two steps, stale reads, lost replies, re-entrant identities | no two unexpired leases; a holder that lost its lock learns of it at `unlock` |
| Kit `dkit/kit.py` | a call of `mutex_do` or `mutex_try_do` in progress | the two calls, with the wait loop of `lock` | actions that fail, are cancelled or outlive the lease | clean calls ran alone, nothing is left locked, every call settles |
| Election in `redis.py`, `mongo.py` | the leader key or document, heartbeats; per node `_election`, `_election_task`, `_last_is_leader` | `enable_election`, the loop's tick, notification, `close`, `is_leader`, `alive_nodes` | crashes, late ticks, lost replies, close during a tick, close from the callback | a live lease is its owner's, the group fails over, callbacks learn the truth, a closed node leaves nothing |
| Machine ids: `get_unique_random_number`, `new_default_kit` | a set, keys or documents of leased numbers | lease a number | leases that end while in use, lost replies | no two live kits share a machine id |
| Default kit registry `kit.py` | one module variable | `set_`, `use_`, `reset_default_kit` | overlapping scopes | a scope that ended leaves no trace |
| HTTP agent `httpx.py` | an `Agent`: options, deadline, retry state; a client per stream | `do`, `do_stream`, retries, discovery, `context_from_headers` | deadline against retries, backoff and a slow resolver; leaks | no attempt after the deadline, a budget that never grows downstream, nothing left open |
| Resource manager `resource.py`, `_async.py` | an open `Stream`, a temporary file | `open`, `download`, `upload`, the size limit | failure or cancellation part way, limits at their boundary | all or nothing, everything closed |
| Mongo repository `model/mongox` | documents with audit fields, isolation values, soft deletion | create, get, list, feed, replace, patch, upsert, delete | concurrent updates, filters that have to carry every condition | no lost update, no access across tenants |
| Audit, options, context `model/*.py`, `context.py` | the context variable and the options in it | scopes, merging | sharing between tasks | a scope does not leak |
| Configuration `config.py` | none after loading; while loading, the merged mapping and its `source_map` | `load`: files, variables and flags, validation, masking, decoding | sources that contradict each other in value, type and shape | the last word holds, secrets come from where they may and stay out of the log |
| Codec, data types, logging, trace ids | none | conversions | - | out of scope |

How they interact: the kit calls a mutex of whichever backend its `Atomic`
makes; `Atomic` also leases the machine id of the kit's id generator; election
and mutexes share a server but no keys. The repository reads tenant, user and
options from the context and ids from the default kit. The agent takes its
deadline and its trace headers from the context, and the resource manager
opens HTTP streams of its own.

`PROJECT.json` lists every hazard with its line, and the properties that cover
it or the reason why none does.

## 2. Modules

| Module | Models | State | Actions |
|---|---|---|---|
| `LeaseLock` | the promise of every mutex, abstractly | the clock, the lease each owner was last told of | Tick, Grant, Release |
| `MemoryMutex` | `dkit/memory.py`: the mutexes of one key | `_locks[key]`, `_locked_owner` | TryLock, UnlockReleases, UnlockRaises, ExistLock: one step each, as the RLock makes them |
| `LeaderLease` | the promise of every election, abstractly | what is left of each node's lease to lead | Elect, Resign, Tick |
| `KitMutex` | `mutex_do`, `mutex_try_do`, `_run_locked_action` and the loop of `lock`, on `MemoryMutex` | where each task is, `start`, the end of its sleep, how its action ended | one action per stretch between awaits and locks |
| `RedisMutex` | `dkit/redis.py` `RedisMutex` | the key, `_locked_owner`, the command each call is at | GET, SET, SET NX, the unlock script: each with its reply, without it, or failing |
| `MongoMutex` | `dkit/mongo.py` `MongoMutex` | the document, `_lock_detail`, the operation and the clock reading of each call | find, insert, compare-and-set, delete, the probe of `exist_lock`, the TTL index |
| `RedisElection` | `dkit/redis.py`, election of `RedisAtomic` | leader key, heartbeats, `_election`, `_last_is_leader`, `_election_task`, the command each tick is at, the progress of `close` | one action per command, plus waking, notification, the callback, `close` from outside and from the callback, crash |
| `MongoElection` | `dkit/mongo.py`, election of `MongoAtomic` | the leader document, `_election`, `_last_is_leader`, `_election_task`, and per tick its reading of the clock, the document it found and the operation it is at | heartbeat, find, update of the own document, compare-and-set of an expired one, insert, notification, callback, `close`, crash, the TTL index |
| `HttpxAgent` | `httpx.py`: services that handle a request and call on with an `Agent` each | per handler: what is left of its context's deadline and of `_deadline`, the attempt, the header sent, the timer, the client of a stream, who handles its attempt | `context_from_headers`, `do` and `do_stream` from await to await: request handlers, resolver, exchange, answer, body, backoff; cancellation, lost and abandoned requests |
| `VersionedRegister` | the promise of the optimistic lock, abstractly | the value, which version each caller has a copy of, who has a call under way | Read, Begin, Update, Create, Remove, Fail, Sweep, Mark |
| `MongoRepository` | `model/mongox/repository.py`: one document, and callers that write it from objects they read | the document and each caller's object (`updated_at`, `created_at`, `deleted_at`, `tenant_id`), the command each call is at and the `updated_at` in its filter | the audit of create, update, upsert, patch and delete; their commands, each with its reply, without it, or failing; get; `patch_raw` and batch deletion |
| `ResourceDownload` | `resource.py` `Manager.open` and `download`, the handlers of data, http and registered identifiers, `_LimitReadCloser`, the adapter of `_async.py` | per call: where it is, what is left at the source, in `_buffer`, counted, read and written, its temporary file and stream; the target file | from await to await: opening, refusing, creating the temporary file, fetching pieces, reading under the limit or without, writing, replacing, closing; failures, cancellation and the thread it leaves, crashes |
| `ConfigLoad` | `config.py` `load` | the merged mapping, `source_map`, `env_map` and `flag_map` as they are made, the summary and the decoded object | a file, a variable or a flag at a time, the merge of overrides, each check, decoding, the validators |

`MemoryMutex`, `RedisMutex` and `MongoMutex` each implement `LeaseLock`
(`RefinesLeaseLock`, with `granted` for what the owners were told), and
`RedisElection` and `MongoElection` each implement `LeaderLease`
(`RefinesLeaderLease`, with `Claim` for what is left of the leader's lease).
`MongoRepository` implements `VersionedRegister` (`RefinesRegister`): `Copy`
tells a caller's version by comparing the stamp that its object has, or that
its call has in the filter, with the document's, as the code does, and needs no
history but `hasty`. `KitMutex` extends `MemoryMutex`. `MC*` modules hold
the bounds, `*Proofs` modules the theorems. Definitions with an underscore in
their names (`Expired_Early`) are mutants: the plausible bug that shows what a
property catches. No specification uses them.

### Abstractions

- One key, one isolation group: keys do not share anything.
- Time is a natural number. In the mutexes it is the unit in which the store
  keeps expiry, so `expires <= now` and `expires < now` differ as in the code.
  One clock is shared by clients and server; a client's *reading* of it may be
  arbitrarily old (`MongoMutex`), which covers slow clients but not clocks
  that are wrong. In `RedisElection` the server counts down what is left of a
  px, so time has no bound there.
- Each mutex object serves one call at a time. `KitMutex` makes one per call,
  as the code does.
- `granted` is a history variable: the end of the lease each owner was last
  told of. It is what the caller may rely on, so it drops to 0 when the caller
  unlocks, whatever the reply. `intruded`, `started`, `closed`, `astray` and
  `miss` are histories, too.
- `plain` in `RedisMutex` and `MongoMutex` says once and for all how the mutexes
  are used. Plain callers pass no identity and do not lock a mutex again that
  they hold or that raised; with MongoDB they do not call `exist_lock` and get
  the replies of their unlocks. `RefinesLeaseLock` promises its lock to them;
  the other properties hold of all callers. What goes wrong for the others is
  in section 4.
- A document's owner in `MongoMutex` is history as well: the code stores only
  the identity and `expires`, and the guards use only these.
- `HeldLost` may happen at any held check: MongoDB stores milliseconds and the
  mutex remembers microseconds, so the comparison fails unpredictably.
- A command that raises in the client may have taken effect or not. A command
  whose task is cancelled has taken effect by the time the task goes on, or
  never does. So a command still in a socket's buffer when `close` sends its
  deletes over another connection is left out: it would leave the key behind
  until its lease ends, and `ClosedNodeIsGone` is about the commands' order in
  the code, not on the network.
- Deadlines in `HttpxAgent` are kept as what is left of them, so time has no
  bound; `Ms` units make a millisecond, which the header cannot divide. A
  request that the caller no longer waits for is handled all the same. The
  timer of an exchange is the client's timeout between two bits of the answer:
  `None` is a server that keeps sending some in time, which no timeout ends.
  Trace and request ids, decoding, wrappers and what the options put in a
  request are left out, and so is an `_opener`, which replaces the client.
- `DownstreamBudget` exempts a header of 0 ms: `context_from_headers` takes it
  for a caller without a limit, so less than a millisecond downstream turns
  into `max_timeout`, or no limit. No line of the repository says otherwise.
- `OneClientPerCall` allows one client to be lost: a `do_stream` whose
  `client.send` fails or is cancelled does not close it, and it is garbage.
- `MongoRepository` follows one document: a command for many is one for each,
  in any order, and those of a batch that failed are commands that failed. A
  stamp is a millisecond, as MongoDB keeps it. `patch` takes two stamps, and
  the object keeps the first. What the fields hold besides is left out, so a
  write may or may not modify. Isolation is by tenant; by user or app it only
  differs in the field. A caller's tenant and options do not change, and
  neither is missing. `stale`, `retry`, `taken` and `hasty` are histories:
  `stale` says that the document was written since the object was read.
- `OptimisticLock` and `ConflictIsReal` exempt runs in which some millisecond
  was stamped twice: there the lock cannot tell the versions apart. Two calls
  get past `TenantWalls` and `DeletedStaysDeleted`, which name both: an upsert
  of an object without `created_at` has no lock and no isolation in its filter
  (`pc[c] = "fresh"`), and a `patch_raw` with `skip_inject_cond` has only what
  its caller put there (`PatchRaw(c, TRUE)`, which may find any document). Of
  the audit fields a payload of `patch_raw` sets the stamp alone. Reads come
  from the primary: a replica that lags is not modelled. A conflict after a failed call or a patch may be
  with the caller itself: the object has a stamp that was not written.
- `RedisElection` leaves out when a heartbeat expires: nothing in the code
  acts on it, and the property about heartbeats is that close deletes them.
- `MongoElection` leaves out heartbeat documents altogether, but not their
  updates, which take time and may fail. What a tick writes comes at most
  `MaxAge`, less than a lease, after its reading of the clock: a node that
  stalls longer writes a lease that is over, and without that bound only
  documents of the past would be added. After `close` any command may raise,
  because the client is closed. A callback that closes its own node does the
  same with MongoDB as with Redis and is in `RedisElection` only.
- `ResourceDownload` keeps contents as numbers of bytes; a content without end
  is one of `Endless` bytes of which none is ever missing. That makes reads
  fetch, and the target hold, no more than the model can tell apart. The limits
  on redirects, attempts and time of an HTTP request are `HttpxAgent`'s; here
  a request gives a stream, or fails with everything closed. `slips` is a
  history of where cleaning up itself went wrong.
- `ConfigLoad` keeps a nested mapping as a function from the paths in it to
  what is there, inner mappings included; so what the code does by recursion
  is said of all paths at once, and can be proved. A list is the scalars in
  it, each with the keys below which it is: a list without scalars counts as
  empty, and the keys of one mapping within a list differ by more than their
  case. Keys and texts are wholes: what `lower()`, `int()` and
  `_mask_uri` make of them is given by constants, and a path is sensitive by
  any of its keys, where the code looks for the words anywhere in it. Keys
  hold no dot. A number is the `str()` of it; which texts `int()` and `float()`
  read, and what is left of a float when `int()` cuts off its fraction, are
  constants, too (`IntOf`, `FloatOf`, `TruncOf`). The dates that YAML knows are
  left out. `GivenAssumption` says of
  files what a parser makes true (`File`: every path once, and in a mapping),
  and of the model that it is a tree of classes, mappings, texts, integers,
  floats and booleans, each with a default or without. A class that lacks a
  field without one is the `TypeError` of `RefuseIncomplete`, once its own
  fields are decoded. `heard` and `said` are
  histories, from which the properties say what the result must be without
  merging anything: `Decides` says on which paths a source has a say, and
  `LastOn` is the last source that has one.

## 3. Runs

| Run | Bounds | Shows |
|---|---|---|
| `memory` | 3 mutexes, 1 shared identity, leases 1 and 2, clock to 4 | `LeaseKept`, `IntrusionReported`, `RefinesLeaseLock` |
| `kit` | 3 tasks, lease and wait 2, spin 1, clock to 4 | `CleanCallWasAlone`, `NoLockLeftBehind`, `OneActionInLease`, `NoOversleep`, and the liveness `CallSettles` |
| `redis` | 3 mutexes, 1 shared identity, lease 2, clock to 4; two mutexes in use unless the callers are plain | `RefinesLeaseLock`, `IntrusionReported` |
| `mongo` | 3 mutexes, 1 shared identity, lease 1, clock to 3; two mutexes in use unless the callers are plain | `LiveDocNotOverwritten`, `RefinesLeaseLock` |
| `redis_election` | 2 nodes, lease 3, timeout 2, least interval 1, so interval 1; one failed command; any number of crashes, restarts and closes | `ClosedNodeIsGone`, `RefinesLeaderLease`, `OneMissKeepsLeader`, liveness `Failover` and `TruthIsTold` |
| `redis_election_close` | 1 node | `LoopEndsWithClose` violated |
| `mongo_election` | 2 nodes, lease 3, timeout 2, interval 1, readings up to 1 old, purge after 1; one failed command; any number of crashes, restarts and closes | `RefinesLeaderLease`, liveness `ClosedNodeFades` and `Failover` |
| `httpx` | 2 handlers: the first with a resolver, the second opening streams; 2 attempts, delays to 2, milliseconds of 2 units, timeouts to 2 units | `DownstreamBudget`, `OneClientPerCall`, `NoWastedBackoff`, `LateOnlyBehindResolver`, liveness `CallSettles` |
| `httpx_retry` | 1 handler, timeouts to 3 units | `NetworkErrorRetried` violated |
| `resource` | 2 calls, limits, chunks and pieces of 2 bytes, contents of 1 to 3 bytes and without end, lengths declared as unknown, at and over the limit | `WholeContent`, `ReportIsTrue`, `RefusalIsTrue`, `NothingLeft`, liveness `CallSettles` |
| `repository` | 2 callers of one tenant and 1 of another with `SOFT_DELETE_DISABLE`, two objects at a time, 3 milliseconds | `OptimisticLock`, `ConflictIsReal`, `DeletedStaysDeleted`, `TenantWalls`, `RefinesRegister` |
| `config` | 80 sets of files, 9 environments in every order, 6 lists of flags, strict or not | `LastWordHolds`, `SourcesAreTrue`, `SecretsAreSafe`, `SummaryHidesSecrets`, `FieldsTakeTheirTexts` |

No run checks a type invariant: each module's `TypeOK` (`KitTypeOK` of the
calls of the kit, `ElectionTypeOK` of the Redis election) is proved for all
constants. That of `ConfigLoad` is in `ConfigLoadProofs`, because its sets of
mappings are beyond what TLC can enumerate.

Why the bounds are enough: an exclusion failure takes a holder, one that comes
after it and one that profits from the confusion, hence three mutexes; with
leases of one or two units and a clock to four, a lease can run out, be
followed by another and that one run out too, at every point of a call. In
`KitMutex` calls start only while the clock has room for the longest wait and
one sleep (`Call`), so no wait is cut off by the bound. In the election, two
nodes are the leader and the one that takes over; one node of them has the
heartbeat and the callback, and always stands for election, the other one does
without and may refuse. A lease of three units is the smallest of which the
third is a unit. The one failed command may hit any step of any tick or close.
With MongoDB a reading one unit old makes a live document of the reader an
expired one of the writer and the other way round, and the TTL index may
delete it in between; in `mongo` and `redis` three mutexes are needed for
plain callers, whose exclusion is promised, and two are enough for a pair that
shares an identity.

In `HttpxAgent` a chain of two is where a budget passes a hop, and the handler
below may be abandoned and serve on while its caller retries elsewhere; the
theorem is for chains of any length. Two units to the millisecond and a
timeout of one or two make both a budget that is a whole millisecond and one
that is cut to 0, and two attempts have one backoff between them.

In `MongoRepository` three stamps are those of the version, of the write over
it and of the update that comes too late. States after a coincidence of stamps
are only followed in the first millisecond and with one object (`Bound` in the
MC module): the lock is exempt there, and the theorems hold without the bound.
The two callers of one tenant are alike, so they are a symmetry set.

In `ResourceDownload` contents of one byte below, at and over a limit of two
are the boundary; pieces and chunks of two make reads that are filled by one
piece, by two, or cut short by the end. Two calls are enough for one that
crosses another over the target; one of them is then of a single byte by a
registered handler (`OneSmall`), since all they share is the target.

The inputs of `ConfigLoad` are chosen for conflicts: scalars where another
source has a mapping, and empty mappings; keys that differ in case; variables
of which one is above another; numerals and words that may be booleans, with
and without a hint, `80.9` for an integer field and for a float one among
them; a required field without a default; secrets in every source, as text, number, placeholder and
within lists; a deployment called `local`.

`RedisElection` and `MongoElection` do not enable a node again while a tick of
it is left over from before its close (`Enable`). Runs whose specification stops when the
clock reaches its bound can only tick until then; `CHECK_DEADLOCK FALSE` is
set for `kit`, `resource` and `config`, where every call ends.

### Fairness

- `KitSpec`: weak fairness of the clock and of every step of a task that is
  ready: the event loop runs what is ready. None for an action, which may
  never return, for cancellation, or for new calls.
- `RedisElection!ElectionSpec`: weak fairness of the clock and of the tick's own steps
  (waking, commands, callback). Failures are bounded by `MaxFails`, so the
  server answers from some point on; nothing is assumed of closes, crashes or
  restarts. `Failover` counts on nodes in `Willing`, whose `can_elect` agrees.
- `MongoElection!Spec`: the same.
- `HttpxAgent!Spec`: weak fairness of the clock and of what a call does by
  itself, which includes the user's request handlers, resolvers and response
  handlers coming to an end. Nothing is assumed of the network and of other
  services: they may never answer.
- `ResourceDownload!Spec`: weak fairness of what a call does by itself and of
  the answers it waits for: the next piece comes or the client's timeout fails
  the call, and files answer. None for failures, cancellation or new calls.

## 4. Findings and known behaviour

1. `redis.py:192`: `close()` from `on_leader_changed` awaits its own task and
   suppresses the cancellation; the loop outlives the close
   (`redis_election_close`).
2. `httpx.py:572`: a network error is marked as retryable inside the
   `CallError`, where `is_retryable_error` does not look, because `raise ...
   from exc` makes the bare error its cause. Lost connections and timeouts are
   never retried (`httpx_retry`); `do_stream` does the same at line 709.

What the models contain, and the properties therefore exempt or describe:

- `redis.py:52`: the renewing SET of `try_lock` is unconditional: a holder
  whose lease ends between GET and SET takes the lock from the one that came
  after it. `RedisMutex` promises exclusion to callers that do not lock a
  mutex again which they hold; `IntrusionReported` tells whoever lost a lock.
- `mongo.py:117`: `exist_lock` deletes by `_id` alone, and so deletes a lock
  that was taken after it looked. Exclusion is promised to callers that do not
  probe.
- `mongo.py:83`: a mutex that finds its identity's document adopts it, and the
  unlock of the first mutex deletes it under the second.
- `mongo.py:50`: the comparison of microseconds with the milliseconds that are
  stored lets a holder fail to recognise its own document.
- `mongo.py:269`: heartbeats are keyed by node alone, whatever the group.
- `redis.py:316`, `mongo.py:428`: the interval is 0.05 s at least. With a lease
  below 0.15 s it is more than a third of it, and one miss may lose the leader:
  `OneMissKeepsLeader` promises nothing then (`LongLease`).
- `redis.py:172`: `close()` during the first tick of `enable_election` finds no
  task to stop; `MongoAtomic` does the same, and `ClosedNodeFades` is what
  remains of a promise there.
- `resource.py:555`: content of exactly `max_bytes` is refused when it is read
  in chunks; `RefusalIsTrue` therefore says "at least".
- `resource.py:317`: nothing closes the stream when the target's directory or
  the temporary file cannot be had; `resource.py:338`: a `close` that raises
  skips the removal of the temporary file.
- `model/mongox/repository.py:278`: `skip_inject_cond`, a public field of
  `PatchRawInput`, leaves out the isolation and the soft deletion, and line 404
  does so for an upsert of an object without `created_at`.
- `config.py:361`: nobody looks into lists for secrets, so a sensitive key in a
  list (`db: [{uri: ...}]`) may come from any file, while the README of the
  repository (line 70) wants sensitive values from the environment or the local
  file. `SecretsAreSafe` names this exception (`Overlooked`); the summary does
  mask such values.
- `config.py:323`: a secret in digits, from a variable, is an int when it is
  checked, and `load` raises `AttributeError`.
- `config.py:261`: `"1"` and `"0"` without a hint are booleans, so an integer
  field without a lower source refuses them, and a text field of `"yes"`
  becomes `"True"`; digits lose leading zeros.
- `config.py:266`, `config.py:422`: `"80.9"` without a hint is a float, so an
  integer field takes 80; where a lower source has an integer it stays a text,
  and the field refuses it. A text field of `"1.10"` becomes `"1.1"`.
- `config.py:403`: a field that has neither a value nor a default is a bare
  `TypeError`, where `load` raises `ValidationError` otherwise.
- `model/mongox/query.py:67`: feed pages skip rows that tie with the last one.

## 5. Proofs

Every theorem holds for any number of mutexes, tasks or identities, any lease
lengths and any bound of the clock; in the repository, of callers and tenants.

- `KitMutexProofs`, the part on `MemoryMutex`: the abstract lock is exclusive
  (`LeaseLockExclusion`). The inductive invariant is `TypeOK` with `LeaseKept`
  (a live lease that was granted is in the table, with its end) and a part for
  intrusions (once another owner got in, the mutex's own name is in the table
  no more until it is granted again). `LeaseKept` is what makes exclusion
  inductive: the table has one entry, so there is one live lease.
  `IntrusionReported` and `RefinesLeaseLock` follow step by step.
- The part on `KitMutex`: a step of a call is a step of the mutexes or leaves
  them alone (`KitUsesMutexes`), so the theorems above carry over. `KitInv`
  ties `pc` to the mutex: past the grant and before the unlock, and only then,
  the task has its own name as locked owner; a task that is done owns no entry.
- `RedisProofs`, the part on `RedisMutex`: types and `RedisIntrusionReported` for every use;
  exclusion and refinement for plain callers. The invariant says that then a
  live lease is under the key with its end, and that a mutex which may still
  lock has not its name there already (`Unused`), so that the renewing SET,
  which would overwrite whatever another owner set meanwhile, is never reached.
- `MongoMutexProofs`: types, `MongoReadsPast` (a call's reading of the clock is
  never ahead of it, the expired document it found was expired then) and
  `MongoLiveDocNotOverwritten` for every use; exclusion and refinement for
  plain callers. The invariant: of the documents a mutex remembers or was
  granted, the live one is the document in the collection.
- The part on `RedisElection`: types, `ElectionLeaseIsItsOwners` straight from the
  steps, `ElectionImplementsLease` from the lemma `LeaderStep`,
  `ElectionClosedNodeIsGone` and `ElectionOneMissKeepsLeader`. "Nothing is
  left at the server" is not inductive: a tick still before a command could
  put it back. `ElectionIInv` adds that during a close that stopped the ticks the node
  is at no command (`CloseQuiet`), and that a tick left over afterwards, the
  loop's sleep or the callback that called close, can only end, because
  `_election` is gone (`ClosedQuiet`). For the one miss, `OnTime` bounds from
  below what is left of the leader's lease at each point of its tick: all but
  the misses after the renewal, less the time slept in the loop, less one
  interval if a tick failed. As the interval is a third of the lease at most,
  which takes a lease of three least intervals (`LongLease`, `IntervalFacts`),
  a leader with one miss has an interval left at its next renewal.
- `MongoElectionProofs`: types and `MongoElectionImplementsLease`. Its invariant `SeenExpired` says that a document
  which a tick found expired has run out by its reading, and so by the clock:
  whoever still matches it writes over a lease that is over.
- `HttpxAgentProofs`: all safety properties, for any number of handlers,
  attempts and any timeouts. `NoWastedBackoff` is inductive with the types,
  `LateOnlyBehindResolver` follows step by step. For `OneClientPerCall`,
  `Clients` adds that a call which goes on, or has handed out its stream, has
  lost no client: the errors that lose one are not retried. For
  `DownstreamBudget`, `Budgets` covers requests under way, for which the
  milliseconds asked for take the place of the deadline, and says that no
  handler keeps a caller whose deadline was reset; `Division` is the lemma
  that rounding down never adds.
- `MongoRepositoryProofs`: all of its properties. `Versions` is what makes
  `OptimisticLock` inductive: while stamps do not coincide, nobody else has the
  stamp of a call in flight (`OwnStamp`), so the version of a stale object is
  the document's no more, unless a batch deletion, which leaves `updated_at`
  alone, made it stale (`Outdated`); a version that is not stale is the
  document's (`Current`), which gives `ConflictIsReal`. For `RefinesRegister`,
  each action is a step of the register or none: what a call writes has a
  stamp that nobody else has (`WritesOwnStamp`), so every other copy is over
  (`WriteOutdates`), and a call that failed is left with a stamp that was not
  written (`RaiseIsFail`). `RepositoryNoLostUpdate` is what follows from the
  abstract register: it covers callers with `SOFT_DELETE_DISABLE` as well,
  whom `OptimisticLock` exempts, because a batch's deletion makes no version.
- `ResourceDownloadProofs`: all safety properties, for any number of calls, any
  limits, chunks and pieces. `CountsOK` is the balance of bytes: what the
  source has left, what the adapter buffers, what was read and what was written
  make up the content, and what the limit has counted is what was read.
  `WholeOK` follows where a read finds the end: then everything was written,
  which gives `WholeContent` when the file takes the target's place, together
  with the limit that no count exceeds. `ReportOK` and `HoldsOK` say of a call
  that has ended its work what holds of its result and of its stream and
  temporary file before they are cleaned up. Steps of other calls only touch
  the target (`Frame`). The one assumption besides the constants' types is that
  `Endless` is beyond the limit by a piece. `DownloadSettles` is the half of
  `CallSettles` that needs no fairness: every step of a call, and everything
  that breaks one off, takes from a natural number (`Effort`: what may still be
  fetched, read and found to be the end, and the stages that follow), the
  steps of others and a late thread give none back, and a call has none left
  just when it has ended. For an http content without end that holds only
  because the limit counts what it reads; any other content is finite.

- `ConfigLoadProofs`: all of its properties, for any files, variables, flags
  and models of the configuration. The inductive invariant `IInv` is
  `Gathered`, of what has been read, with `Checked`, of what the checks have
  judged. `Gathered` says that `merged` has on each path the last word said on
  it (`Holds`, which is `LastWordHolds` path by path), that each path somebody
  spoke of has a last word (`LastsFound`), and `SourcesAreTrue`. The word of a
  new source is the last on whatever it has a say on, and leaves the others'
  where they were (`OneMore`); a merge does just that to the mapping
  (`MergeIs`, `MergeHolds`). It takes that every source speaks in a tree, in
  which nothing is below a scalar: a file is one after its keys are normalized
  because of two entries that end up in one path the last hides the other, at
  the first key where they differ (`FirstDifference`, `KeptOnce`,
  `NormalizeType`); overrides are one in whatever order the variables come,
  because the texts that are heard are never below each other, and what was
  set is them and the mappings above them (`OverrideKeeps`, `OverridesSpeak`).
  From there on nothing is gathered, so what was judged stays true
  (`SameJudgement`, `StepChecks`), and the properties of secrets, of the
  summary and of fields are read off `merged` by its last words.

Every safety property that a run checks is proved. Only model-checked are the
liveness properties (`CallSettles` of three modules, `Failover` of both
elections, `TruthIsTold`, `ClosedNodeFades`), for liveness under fairness is
beyond the prover's reach. Of a download's `CallSettles` what is left to TLC is
that a step remains possible and fairness takes it; that there are but so many
is `DownloadSettles`. That the two violations are there, a trace shows.

## 6. Plan

The order follows what the library is used for and what is hard in it. Done:
mutexes and kit, both elections, `HttpxAgent` with the deadline of a chain of
services, `MongoRepository` with audit stamps and the optimistic lock,
`ResourceDownload`, `ConfigLoad`, and the proofs of all their safety
properties. What would come next:

1. For `MongoRepository`, feed pages over several documents.
2. The scopes of the context with the options kept in it (`set_*` change an
   object that outer scopes share), of the default kit, and the machine ids.
3. `ResourceDownload` over the streams of `HttpxAgent`: one deadline for the
   request and its body.

## 7. Not modelled

Machine ids, the default kit registry and the context: each is one variable or
a loop over free numbers, and what can go wrong with them is in the hazards.
The Sonyflake generator (a library), key and document encoding, parsing of
identifiers and headers, log and error wording, random trace ids, the hash of
a configuration, the codec and the package exports. `PROJECT.json` gives the
reason per component.
