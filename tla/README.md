# redis-lean in TLA+

A verification project for redis-lean (`src/`): a Redis client for Lean 4 over hiredis,
with a connection pool, caching helpers, and tools for mathlib developments that keep
shared state in Redis.  Every module is translated from the source; line numbers refer
to files under `src/`.

Contents: [inventory](#inventory), [modules](#modules), [runs](#runs),
[fairness](#fairness-and-deadlock), [proofs](#proofs),
[divergences](#where-the-code-and-its-documents-disagree),
[left out](#what-is-not-modelled), [plan](#plan).

## Inventory

The program is a library.  Its own logic is in four layers; the server, hiredis and the
Lean runtime are external and appear through their effect on keys, replies and references.

| Part | Source | State it keeps | Operations | Hard behaviour |
|---|---|---|---|---|
| C layer | `hiredis/*.c` | a context per connection with its buffers and error, SSL contexts, one wrapper per command | connect (seven ways), free, reconnect, one wrapper per command, append, flush, getReply, subscribe | replies that no longer belong to the call that reads them; failures half-way through connecting; kinds of replies a wrapper does not expect |
| Client monad | `RedisLean/Monad.lean`, `FFI.lean`, `Ops.lean`, `Error.lean` | connection and metrics in a state monad | `runRedis`, `executePipeline`, typed commands, error mapping | free in `finally`; Redis errors are exceptions, IO errors pass every `catch` of `RedisM` |
| Connection pool | `RedisLean/Pool.lean` | `connections`, `lockFlag`, counters, each an `IO.Ref`; `inUse` of each connection | create, acquire, release, withConnection, pruneIdleConnections, close | threads interleave between reads and writes of the references |
| Caching helpers | `RedisLean/Cache.lean` | cache key, lock key, the caller's own store | memoize, recompute, getOrComputeWithLock, cacheAside, writeThrough(Ex), writeBehind, refreshCache, invalidate | stampedes, expiry between two commands, a failing computation, writers that race |
| Metrics | `RedisLean/Metrics.lean` | counters and a ring of latency samples | record, percentiles, reset | wrap-around of the ring |
| Distributed proof queue | `RedisLean/Mathlib/DistProof.lean` | job records, queue, dependency sets, complete set, locks, counters, worker records | initializeJobs, claimJob, updateProgress, completeJob, releaseJob, requeueStaleJobs, registerWorker, heartbeat, removeWorker, cleanupDeadWorkers | several processes interleave between any two commands; locks expire, claims are called stale while their worker lives, workers die, calls end half-way |
| Proof states | `Mathlib/ProofState.lean` | sessions, steps, parent links | startSession, recordStep, endSession, deleteSession, getTrace, getPathToStep | TTLs dropped by re-writing, records that vanish, a walk over parents with a bound |
| Declarations | `Mathlib/Declaration.lean` | records, forward and reverse dependency sets | store, delete, closure queries | both directions must agree after re-registration and removal |
| Theorem search | `Mathlib/TheoremSearch.lean` | records and index sets | index, search, remove, clear | removal must undo indexing |
| Tactic and instance caches | `Mathlib/TacticCache.lean`, `InstanceCache.lean` | expiring entries, hit counters | lookup, store, invalidate | EXISTS and GET of an expiring key |
| Arrow streams and tables | `RedisArrow/*.lean` | stream position, batches, manifest, latest pointer | read loop, store, delete, compact | manifest, batches and pointer written in steps |
| Axiomatic Redis, mock server | `RedisModel/`, `RedisTests/Mock.lean` | a map from keys to values | SET, GET, DEL, EXISTS; a larger subset in the mock | do the axioms hold of an implementation? |
| Configuration, enums, codecs, typed keys, logging, expressions, examples | remaining Lean files | none | conversions | none |

How they interact: an application thread borrows a connection from the pool, runs a
`RedisM` action with it (the monad calls the FFI, the FFI calls hiredis), and gives it
back.  Cache, DistProof and the other mathlib tools are sequences of single commands in
`RedisM`: no transaction or script is used, so between any two commands other clients run
and keys expire.  Processes share nothing but Redis; threads of one process share a pool.

What makes each part correct:

* *Queue*: one holder per module; dependencies first; the stored record names the holder;
  counters agree with the records; every module is settled in the end; what a dead worker
  claimed is given back.
* *Pool*: a connection is lent to one thread, stays open and pooled while lent, and is
  given back; nothing leaks; size limits hold; every call ends.
* *Cache*: one computation per miss; locks are not left behind; calls end; stale entries
  are temporary.
* *C layer*: what a failed connect allocated is freed; a reply goes to the command that
  caused it and keeps its order; errors are never results; nothing the server answers is
  dropped unnoticed; calls end.
* *Mathlib stores and tables*: indexes and records agree after any sequence of calls; a
  reader of a table never follows a pointer to a missing batch.

The hazards, at their lines, with the properties that cover them, are in `PROJECT.json`.

## Modules

### The distributed proof queue

`DistProof.tla` models `RedisLean/Mathlib/DistProof.lean` with **one Redis command per
step**.  Its variables are the keys of the queue (`job`, `queue`, `deps`, `complete`,
`lock` with `ttl`, `progress`, and `claimedJobs` of the worker records) and the locals of
each client; `pc[c]` names the command that client `c` sends next.

| In the model | In the code |
|---|---|
| `InitializeJobs` (`PutJob`, `Enqueue`, `AddDep`, `ResetCounters`) | `initializeJobs` 208-248: SET, ZADD, SADD for each module, then five HSETs |
| `ClaimJob` (`ClaimStart`, `Scan`, `CheckDep`, `TryLock`, `VerifyLock`, `ExpireLock`, then `Load`, `Store`, `LoadWorker`, `StoreWorker`, two `Count`) | `claimJob` 281-349 with `dependenciesSatisfied` 265-278 |
| `UpdateProgress` | `updateProgress` 352-369 |
| `CompleteJob` then `ForgetClaim` | `completeJob` 372-428 |
| `ReleaseJob` then `ForgetClaim` | `releaseJob` 431-476 |
| `RequeueStaleJobs` (`PassStart`, `Inspect`, `RequeueNext`, then release or complete) | `checkStaleClaims`, `requeueStaleJobs` 506-539 |
| `Expire`, `Abort` | the server drops a lock; a call throws, or its process stops, before any command |

`Load`, `Store`, `Count`, `LoadWorker` and `StoreWorker` are the GET, SET and HINCRBY that
several calls share; each use names the command before and after it.

Abstractions.  Priorities order the candidates, their numbers do not matter.  Time is a
choice: a lock that carries a TTL may expire at any moment and an active claim may be found
stale at any moment, which covers every value of `lockTimeoutSeconds` and
`staleThresholdSeconds`.  Names of files, progress lines, timestamps and error texts are
left out.  In `DistProof` workers are registered and stay so; the prefix starts empty.

`DistWorkers.tla` composes `DistProof` with the life of the workers: the type of each worker
record (absent, the JSON string of `registerWorker`, or the hash that a `heartbeat` makes of
an absent key) becomes state, and every step of `DistProof` that touches a record is refined
by the EXISTS before it and by the exception that a GET throws on a hash or a vanished key.
A live or dead worker's record may be found too old at any time, or never: the ages are
differences between the monotonic clocks of two machines, which no bound relates.  The history
variable `owed` of `HSpec` remembers, for the removal that a monitor has in progress, which of
the claims on the victim's record are still what they were when the removal began.

| In the model | In the code |
|---|---|
| `RegisterWorker`, `Heartbeat` | `registerWorker`, `heartbeat` 250-262: HSET works only where there is no string |
| `FindRecord`, `Found`, `GetFails` | EXISTS, GET and SET of worker records in `claimJob`, `completeJob`, `releaseJob` |
| `CleanupStart`, `ListOne`, `CleanupFails` | `listWorkers` and the age test of `cleanupDeadWorkers` |
| `RemoveWorker` (`RemoveNext`, `GetVictim`, `ReleaseNext`, `DeleteRecord`, `LeaveMembers`) | `removeWorker` 590: GET, `releaseJob` for each claim, DEL, SREM |
| `Die` | a process stops for good, or starts again under its name |

`DistProofProperties.tla` states what the queue promises, `JobLease.tla` is its abstract
specification (a lease per module; granted only when all dependencies are published, ended
by its holder, published by a worker that held it), and `LeaseSpec` instantiates it with
`holder <- lock`, `done <- complete` and the workers between the DEL of the lock and the
SADD to the complete set as `passed`.

### The connection pool

`Pool.tla` models `RedisLean/Pool.lean` with **one access to a shared `IO.Ref` per step**.
`lockFlag`, `connections` and `inUse` are the references; `open` and `made` record which
contexts FFI.connect returned and which have been freed; `mine`, `todo` and `kept` are
locals: the connection in hand, the rest of the snapshot that a loop still has to visit,
and the array being built by `pruneIdleConnections`.

| In the model | In the code |
|---|---|
| `GetFlag`, `SetFlag`, `Unlock` | `acquireLock` 133-142, `releaseLock` 144-146 |
| `Snapshot`, `FindAvailable`, `Take`, `CreateConnection`, `Push` | `findAvailable`, `createConnection`, `acquire` 180-245 |
| `TimedOut`, `Sleep` | an acquire that gives up, or gives the lock up and retries, 229-238 |
| `Finish`, `Release` | `withConnection`'s `finally`, `release` 247-278 |
| `PruneOne`, `CloseOne`, `Replace` | `pruneIdleConnections` 300-317, `close` 319-326 |

`Preempt` chooses between the lock as written (`get`, then `set`) and a lock that excludes.

### The caching helpers

`CacheLock.tla` models `getOrComputeWithLock` with `computeWithLock`, `acquireLock` and
`waitAndRetry`, and `memoize`, which shares its first read; `recompute` is `compute` and
`store` without the lock.  The cached value is absent, corrupt or good; the lock key
remembers who set it, which the code does not, so that properties can.  An IO error of
`compute` passes every handler, as it does in `RedisM`.  Counters record what excuses a
second computation: values lost from the cache (`lapses`), locks that ran out (`unlocked`)
and locks deleted by another than their owner (`stolen`): the DEL at the end of
`computeWithLock` (125) does not ask whose lock it is.

`CacheWrite.tla` models the helpers that keep a cache and a store in step: `writeThrough` and
`writeBehind`, which set no TTL, and `writeThroughEx`, which does (`BeginWrite`, `Write`,
`Persist`: `writeBehind` is the same steps, because its `catch` does not see what `persist`
throws); `cacheAside` with or without a TTL and `refreshCache` (`Exists`, `Get`, `Fetch`,
`Fill`); `invalidate` and `invalidatePattern` (`Keys`, `Invalidate`); `touchCache` (`Touch`).
A value is its version, and `mortal` says whether the key has a TTL, which may run out at
any moment (`Expire`).  `alone` and `spoiled` remember whether the last write or fill has
overlapped with others, from its first command that matters to its last.

### The command layer

One wrapper of `src/hiredis` sends one command and turns the kind of the reply into a Lean
value or an error.  `Replies.tla` models this decision: a wrapper is a record of what it
sends, what it answers to arguments it does not send, its result for each kind of reply, and
what becomes of the elements of an array; `Result(w, r)` evaluates it, and the constructors
of `errors.c` are the possible failures.  The chains of tests on `r->type` that most wrappers
end in are named once (`Reads`, `ReadsElseNull`, `ReadsOrNull`, `ReadsAny`).

`StringCommands`, `CollectionCommands` (hashes, lists, sets), `SortedSetCommands` (with geo)
and `ServerCommands` (keys, streams, scripts, transactions, server, connection) are the tables
of the wrappers, one definition for each C function.  `Commands.tla` lets a program call any
of them on a connection that may speak RESP2 or RESP3 and be inside MULTI; the catalogue of
what the server may answer to each command is external.

### One connection

`Session.tla` models the exchange beneath the wrappers: a command travels from the output
buffer (`obuf`) to the server (`todo`), its reply waits in the socket (`ans`) and in the
reader (`inbuf`) until a call takes it.  Nothing but this order ties a reply to a command; the
model numbers the commands so that properties can tell whose reply a call returns.

| In the model | In the code |
|---|---|
| `Connect`, `CreateSslContext`, `Dial`, `Handshake`, `Wrap` | the seven connect functions (`connect*.c`, `ssl_connect.c`) and `create_redis_connection`; every failing step frees what it must |
| `Free`, `Reconnect`, `ClearError`, `SetNonblock` | `free`, `reconnect`, `clear_error`, `set_nonblock` |
| `Sync`, `TakeReply`, `NoReplyYet`, `WriteOut`, `Await`, `Timeout` | `redisCommand` and `redisGetReply`, step by step |
| `AppendCommand`, `GetReply`, `BufferWrite`, `BufferRead`, `GetReplyNonblock` | `pipeline.c`, `async.c` |
| `ExecutePipeline`, `Flush` | `executePipeline` (FFI.lean:1455): append all, flush, read replies until one is an error |
| `Serve`, `Publish`, `LinkLost` | external: the server answers in order, publishes, the link goes down |

`owed` counts the replies the program knows it has to fetch, `adrift` is set when a call leaves
a reply behind that nobody expects.  `TracedSpec` adds `strays`, the replies that pipelines ended
by an error have left and nobody has taken since, and `loose`, set by the other ways to fall out
of step (a context that does not block, a subscription, a cleared error); `AnswersLag` says
what an abandoned pipeline does to every call after it.

### The mathlib stores and tables

Four parts keep records in Redis together with sets that point to them.  They share the way
their calls run, which is `StoreCalls.tla`: a call begins, sends its commands one per step and
returns, other clients come in between, and a client may stop before any command.  `raced` and
`torn` remember what was worked on by two calls that do not go together and by calls that
were stopped, so that the invariants can say what still holds then and what does not.

| Module | In the code |
|---|---|
| `Declarations` | `Mathlib/Declaration.lean`: `storeDecl` (HSETs, SADD of each dependency, SADD of each reverse edge, EXPIREs) and `deleteDecl` (SMEMBERS, SREM for each dependency, one DEL) |
| `TheoremIndex` | `Mathlib/TheoremSearch.lean`: `indexTheorem` (SET, then ZADD or SADD to each index set), `removeTheorem` (EXISTS, GET, ZREM or SREM from each, DEL), `clear` (KEYS, DEL); `Decoded` is what `fromJson?` (Core.lean:96) makes of a stored pattern |
| `ProofSessions` | `Mathlib/ProofState.lean`: `startSession`, `recordStep`, `recordTrace`, `endSession`, `deleteSession` with the TTL and the Redis type of each key |
| `ArrowTable` | `RedisArrow/Table.lean`: `storeSchema`, `storeBatch` (SET, ZADD with the time, SET of the head), `deleteBatch`, `deleteTable`, `compactToRecent`; each client reads ids and times from the monotonic clocks of its own machine, which start anew with a reboot (`Reboot`) |

`Stores.tla` puts them side by side: they share no key, so its variable `store` says which of
them a behaviour uses.

Abstractions.  The fields of declarations, goals, tactics, scores and the Arrow bytes are
left out, and so are reads.  A HSET per field is one step: no other command of the store tells
the fields apart.  `After` sorts equal scores by id, as ZRANGE does; `generateBatchId` draws an
id above the last one of its machine, and no two machines draw the same nanosecond.  A TTL may run out at any moment, except that the list of
steps, renewed by each `recordStep`, does not expire before a step it names unless a call
that renews it is on its way or was stopped.

The `MC` modules give the constants of each specification their values.

## Runs

| Run | Question | Instance and why it is enough |
|---|---|---|
| `dist_core` | Do lock, record and lease hold between workers, is a lock left behind, and is every module settled? `MutualExclusion`, `LockOwned`, `HolderOnRecord`, refinement of `JobLease`, `Settled` | two fair workers, module `top` that imports `base`, no faults: both contend for each module, lost races throw, finished modules are claimed again from a stale snapshot (82,285 states) |
| `dist_faults` | What survives double owners? `DepsRespected`, `CompleteClosed` | a worker and a monitor, module `top` that imports `base`, locks that expire, calls that abort, budget 2, no retries: the worker releases a module that the monitor fails, or completes one that it has failed, or is called again after an abort (592,985 states) |
| `dist_workers` | Is what a removed worker had claimed given back first, and do the counters stay right? `WTypeOK`, `CountersConserved`, `CompletedCounted`, `RemovedIsReleased` | a worker that registers, dies or restarts and a monitor; one module, locks that expire, calls that throw, a worker that dies between the two commands of an update, budget 2, one retry: the monitor releases a module that the worker still completes, and retries reach `MaxRetries`; a removal stops half-way and is taken up by the next one (504,075 states) |
| `dist_requeue` | violation of `ReleasedIsQueued` | two workers, one module, one release |
| `pool_locked` | The pool given that its lock excludes: `TypeOK`, `ExclusiveUse`, `HeldIsPooled`, `NothingLost`, `SizeBounded`, `StatsBalanced`, `MinKept`, `Quiesces` | three users for at most two connections (one has to wait), a pruner, a closer, four calls, three contexts (a pruned one is replaced), minimum one |
| `pool_preempted` | The lock as written: `AvailableAtRest` | three users, five calls, any two of them inside together |
| `pool_race` | violation of `ExclusiveUse` | two users, one connection |
| `cache_lock` | One computation per miss, no lock left behind, every call ends: `LockCleared`, `OneComputes`, `ComputedOnce`, `NeverThrownBack`, `CallsEnd` | three callers and a memoizer that miss together; values and locks expire, computations throw, callers stop; budget 4, so that a late owner can delete a second caller's lock and let a third in (91,590 states) |
| `cache_fresh` | When do cache and store agree again after calls that overlapped or threw? `PutRight` | two writers, two readers, with and without a TTL, two writes and three reads begun, persisting may fail: two writers and two fills overlap in every way, and one more read comes after them (1,702,434 states) |
| `commands` | What does each wrapper make of each reply? `ErrorsAreReported`, `AnswersUnderstood`, `NothingSilentlyLost`, `QueuedIsNoResult` | every wrapper, every kind of reply with up to two elements (`MaxItems`), every error, RESP2, RESP3, inside and outside MULTI (4,454 states) |
| `session` | Does a reply reach the call that asked for it, does anything leak, do calls end? `NothingLeaks`, `OwnAnswer`, `RepliesAccounted`, `AnswersLag`, `CallsEnd` | three commands in flight, so that one is late, one aborted and one answered; two connections after each other; one published message; a pipeline that is abandoned, and a call after it (429,196 states) |
| `stores` | Do records and the sets that point to them agree? `TypeOK`, `EdgesAgree`, `IndexAgrees`, `SessionsAccounted`, `RecentReadable` | two clients, four calls, stops or expiries; two declarations that may depend on each other, one theorem with two versions, one session with two steps, three batches from two machines whose clocks take two values and reboot (720,979 states) |

The types of the queue, the cache lock and the session are proved (`TypeCorrect` of each) for
every value of the constants; their runs leave them out.

Bounds: `Budget` (releases, aborts, expiries and monitor passes of the queue; calls, expiries
and failures of the cache; calls, expiries and stops of the stores), `Calls` (operations
begun on the pool), `MaxVersion` and `MaxReads` (cache writes and reads), `MaxCommands`,
`MaxLinks` and `MaxMessages` (commands sent, connections made and messages published in a
session), `MaxBatches`, `MaxItems` (elements of a list reply).  They stop the environment,
never the code: once a call is begun it runs to its end.  Two processes and one or two faults suffice for the races listed as
hazards; the theorems below remove the bounds for the properties that matter most.

Symmetry is used in `pool_preempted` only, which checks no liveness property and where users
and contexts are treated alike.

Each property has a mutant, a definition changed the way a plausible bug would change the
code (`\* Mutant:` in the modules), that violates it under the run's own configuration.

## Fairness and deadlock

* Queue: the coordinator and every worker keep sending commands (weak fairness of each
  process); a worker that reports progress again and again at last completes (strong
  fairness of `BeginComplete`: a check ends).  Releases, aborts and monitor passes need not
  happen.  Between commands the code has no wait, so a live process does take its next step.
* Workers: no fairness is assumed and no progress claimed.  That a dead worker's record is found
  old in the end would take clocks that agree between machines (Core.lean:223 reads a monotonic
  one), and a heartbeat that lands after the DEL of a removal (596) leaves a hash under the name
  of a member, on which every later `cleanupDeadWorkers` throws.
* Pool: every thread runs (weak fairness); the deadline of an acquire that goes round and
  round passes (strong fairness of `TimedOut`, the clock test at 230).  A thread that spins
  for the lock is not promised to win a particular round; that is why `Quiesces` is about
  finitely many calls.
* Cache: every call in progress of `CacheLock` takes steps (weak fairness); `CacheWrite` has no
  liveness property and assumes none.
* Session: a C function that has been called runs (weak fairness of `Connecting` and
  `Exchanging`), and the server answers what it has received (weak fairness of `Serve`).  Timeouts,
  lost links and further calls of the program are not promised.

Every configuration but `Commands.cfg` sets `CHECK_DEADLOCK FALSE`: the bounds on calls and
faults let each model stop, with all calls finished.  That calls do finish is what the liveness
properties check.

## Proofs

TLAPS proves the following for all values of the constants; the runs check the same
properties on their instances.

| Module | Theorem | Says | Assumes |
|---|---|---|---|
| `DistProofProofs` | `TypeCorrect` | `Spec => []TypeOK` | nothing |
| `DistProofProofs` | `MutualExclusionHolds` | `Spec => []MutualExclusion` | `Undisturbed`: no monitors, no lock expiry |
| `DistProofProofs` | `NoLockIsLeft` | `Spec => []LockOwned` | `~Aborts`: no call is aborted |
| `DistProofProofs` | `DependenciesRespected`, `PublishedIsClosed`, `CountersAreConserved`, `CompletionsAreCounted` | `Spec => []DepsRespected`, `[]CompleteClosed`, `[]CountersConserved`, `[]CompletedCounted` | `~EarlyStart`: workers start after `initializeJobs` |
| `DistProofProofs` | `HolderStaysOnRecord` | `Spec => []HolderOnRecord` | `Orderly`: `Undisturbed` and `~EarlyStart` |
| `DistProofProofs` | `ImplementsLease` | `Spec => LeaseSpec` | `Orderly` |
| `DistWorkersProofs` | `WTypeCorrect` | `WSpec => []WTypeOK` | nothing |
| `DistWorkersProofs` | `WorkersRespectDeps`, `WorkersKeepCounters` | `WSpec => [](DepsRespected /\ CompleteClosed)`, `WSpec => [](CountersConserved /\ CompletedCounted)` | `~EarlyStart` |
| `PoolProofs` | `TypeCorrect` | `Spec => []TypeOK` | nothing |
| `PoolProofs` | `LendingIsExclusive`, `LentStaysPooled`, `NoneLeaks`, `StaysBounded`, `StatsTellLent`, `PruneLeavesEnough` | the safety properties of `pool_locked` | `~Preempt` |
| `PoolProofs` | `AllComesBack` | `Spec => []AvailableAtRest` | `UsersOnly`: nobody prunes or closes |
| `SessionProofs` | `TypeCorrect`, `NothingIsLeaked` | `Spec => []TypeOK`, `[]NothingLeaks` | nothing |
| `SessionProofs` | `AnswersAreOwn`, `RepliesAreAccounted` | `Spec => []OwnAnswer`, `[]RepliesAccounted` | nothing |
| `CacheLockProofs` | `TypeCorrect`, `LockIsCleared`, `OneCallerComputes`, `NoStampede`, `NoneIsThrownBack` | `Spec => []TypeOK`, `[]LockCleared`, `[]OneComputes`, `[]ComputedOnce`, `NeverThrownBack` | nothing beyond the assumptions on the constants |
| `StoresProofs` | `StoresAreTyped`, `GraphAgrees`, `RecentIsReadable` | `Spec => []TypeOK`, `[]EdgesAgree`, `[]RecentReadable` | nothing beyond the assumptions on the constants |
| `IndexProofs` | `IndexIsRight` | `Spec => []IndexAgrees` | `IndexAssumption`: what is indexed is a record, its hypotheses and tags are sequences |
| `IndexProofs` | `SessionsAreAccounted` | `Spec => []SessionsAccounted` | nothing beyond the assumptions on the constants |
| `CommandsProofs` | `ErrorsSurface`, `QueuedIsTold`, `RepliesAreUnderstood`, `ListsAreReturnedWhole` | `Spec => []ErrorsAreReported`, `[]QueuedIsNoResult`, `[]AnswersUnderstood`, `[]NothingSilentlyLost` | nothing |

The assumptions are the ones whose failure `pool_race` exhibits or that the faults runs drop:
with a monitor or an expiring lock a module has two holders by design of the code (the lock
lives 300 s, a claim is stale after 600 s), with `EarlyStart` a worker finds a module queued
before its dependencies are stored, and with `Preempt` a connection is lent twice.  Aborted
calls are allowed in every theorem about the queue but `NoLockIsLeft`: a worker that stops between
SET NX (297) and EXPIRE (307) does leave a lock, and for ever.

The arguments:

* *Mutual exclusion.*  `MutualExclusion` is not inductive: a DEL of the lock by another
  client would break it one step later.  `LockHeld` (the lock of a held module has its
  holder's name) is, because SET NX writes only where there is no lock and only a holder
  reaches a DEL.
* *No lock left behind.*  `LockOwned` is inductive with the types: a lock is written only by a client
  that holds none, whoever leaves without a DEL has found another name in the lock or no lock,
  and deletions by monitors and expiries only take locks away.
* *Dependencies.*  `complete` only grows, so a check done once stays true.  `DepsInv` adds
  what `initializeJobs` has stored so far (`DepsStored`), that no worker claims before it
  returns (`WorkersWait`), and that a worker past its check, and whoever stores a
  "completed" record, has its dependencies in `complete` (`DepsChecked`): a monitor only
  ever fails a module.  Neither lock nor ownership is needed, which is why the theorem holds
  with monitors, expiry and aborts.
* *Counters.*  `Balance` is the sum of the four counters, of the clients in a gap (between the
  two commands of an update) and of the steps lost to aborts.  Each command is calm, opens a
  gap or closes one, and none of them changes the balance; an abort inside a gap moves one from
  the gap to the loss.  What is published, or about to be, grows by at most the one that the
  "count" command has added to the completed counter.  `CountersStart` describes the counters
  until `initializeJobs` returns.  Nothing is needed about locks: with two owners, and with
  counters that turn negative, the sum is still right.
* *Holder on record.*  `ClaimInv` adds `OwnRecord`: between a holder's GET and its SET no
  one else writes the record, so the copy is the record.  It needs `LockHeld`.
* *Refinement.*  Each action maps to a lease action or a stutter: `TryLock` to `Acquire`
  (the dependencies were checked), `Unlock` to `GiveUp` or `Pass`, `AddComplete` to
  `Publish`, `Abort` to `Lose`.  Two facts make the mapping exact: a lock is deleted by its
  holder, and a pair leaves `passed` only with a publication or an abort.
* *Workers that come and go.*  A step of `DistWorkers` is a step of `DistProof`, or it moves one
  client to another command and leaves jobs, counters and the complete set alone (`Shift`, shown
  by `StepOrShift`): a GET that throws, a cleanup that turns to the next claim, a death.  The
  invariants of the queue take the set of commands as a parameter (`DepsKept(L)`,
  `CountersKept(L)`), so their step lemmas serve both specifications, and each has a second,
  short lemma for `Shift`.  A shift from a gap between two counter commands would break the
  balance; only `Die` leaves a gap, and it is the abort of `DistProof`.  `CleanupsWait` is what
  the composition adds: nobody registers before `initializeJobs` returns, so no cleanup releases
  a module whose counters are not set yet.
* *Pool.*  `PoolInv` consists of `Excludes` (one thread inside the lock), `Roles` (who is at
  which line), `Lending` (a connection is marked exactly while somebody has it) and `Books`
  (the array and the open connections differ only by what the thread inside has in hand; a
  pruner that has freed something keeps at least the minimum), besides the properties.  Each
  step lemma has one case per action.
* *Pool, with the lock as written.*  `AvailableAtRest` needs no exclusion: connections stay in the
  array, so a release finds its own in the snapshot that it has read, and whatever is marked is
  in some thread's hand (`RestInv`).  It does need that nobody prunes: of two pruners inside
  together the slower one can put back a connection that the faster one has freed.
* *Session, own answers.*  Unless the stream is adrift, the replies due are consecutive numbers
  that end with the last command issued, and a synchronous call that waits has issued that
  last one.  So the reply at the head is its own when the replies due before it are taken.  The
  same positions say that on a link that works as many replies are outstanding as are due
  (`RepliesAccounted`), the safety half of `CallsEnd`: what is left is that they travel.
* *Cache lock.*  Tokens are counted, not callers followed.  Every caller past the lock and every
  lock free to be taken is a token; a token comes from the first SET NX, from a lock that ran out
  or from a foreign DEL: `Overlap` bounds those inside and the free lock by `unlocked + 1`, and
  `Slots` bounds what has been and will certainly be computed by
  `lapses + unlocked + stolen + 1`.  A caller that looks again after taking the lock keeps its
  token without computing when the value is there.
* *Calls of the cache end.*  `StepsLeft` is a measure on the label and the retries left of a call;
  every step of the call lowers it (`MovesShorten`) and no step of another touches it.  `CallsEnd`
  adds only that a scheduled client takes its steps.
* *Dependency graph.*  `Linked` and `Known` are `EdgesAgree` with the calls in progress.  A call of
  `storeDecl` tells a dependency only what it has stored as one (`Done`), and a deletion that has
  read the dependencies takes the name from all that know it, because nobody stores the name
  meanwhile (`Rivals`); a missing reverse edge is owed by a call in progress (`Owes`).
* *Table.*  Nothing is assumed about clocks, and calls may overlap and stop as they like.  What a
  compaction has chosen to delete, and not deleted yet, has as many batches above it as the
  compaction keeps (`AFormed`): the manifest only grows until `deleteTable` empties all of it, and
  a batch about to be listed, which could come back with another score, is in nobody's list to
  delete (`Disjoint`), because two calls never draw the same id.
* *Theorem index.*  `IndexAgrees` speaks of quiet theorems only, so `TInv` says for each theorem how
  far the calls in progress have got.  The keys of a record are those already written and those
  still in the `todo` of the call (`Adds`), and likewise for a removal (`Erases`); the record is
  written before its entry in the set of all and deleted after it (`Recorded`), which holds
  because that set comes last in `todo` (`KeySeq`); every entry comes from a version that was
  indexed (`Sourced`).  A theorem indexed with two versions may be left under the former one, which
  is why the erased part is claimed for `OneVersion`, and `versions` has to be finite.
* *Proof sessions.*  `PInv` follows each session through its calls.  A started session belongs to
  the call that starts it (`Owned`), so it is in no set before (`Unborn`); it leaves the active set
  only on its way to the completed one (`Placed`).  A step with a record is in the list or about
  to be (`Indexed`), unless the list expired between ZADD and EXPIRE, which `unlisted`
  remembers; so a deletion that has read the list has read every step (`Deletion`), and what it
  deletes is not written again, because a recording that overlaps has raced (`Isolated`).
* *Wrappers.*  `Reading` says of a chain of tests that it fails on error replies, and whether it takes
  QUEUED for a value; each combinator of `Replies` keeps it, so each wrapper has it (`Sound`), by one
  step for each chain.  `ErrorFails` does not look at the catalogue of answers: an error is
  reported whatever elements come with it.  `QueuedIsTold` does, because only a command that is
  queued is answered QUEUED; `quit` would take it for a value, but QUIT is never queued.
* *Replies.*  A reply without elements has nothing to lose (`BareIsComplete`), and a list whose
  kinds of elements all have their place in the answer is complete at any length
  (`PlacedIsComplete`), so `MaxItems` does not matter.  What is left is a table for each kind of
  answer: what the server says to the command (`Answers(2, "GET") = ...`), what the chain of
  tests makes of that (`ChainsTell`) and what becomes of the elements (`ElementsAreKept`).  For RESP3
  most wrappers need no table: one that looks at no element, or lets a strange element void or fail
  the answer, loses nothing whatever the reply (`ReaderKeeps`).

Only model-checked: all liveness (`Settled`, `Quiesces`, both `CallsEnd`), which is out of the
prover's reach; `AnswersLag`, `PutRight` and `RemovedIsReleased`.

## Where the code and its documents disagree

Shown by violation runs:

* `dist_requeue`: `completeJob` deletes the lock (398) before it removes the module from the
  queue (413).  A worker that claims and releases in between re-queues the module (449), and
  the late ZREM takes it out for good.
* `pool_race`: the spin lock "for thread safety" (Pool.lean:117) is a `get` and a `set`.

Met while modelling, and present in the models without a run of their own.

*The queue (`Mathlib/DistProof.lean`).*

* `initializeJobs` queues a module (235) before it stores its dependencies (238-240), against
  "respects dependencies" (280); `DependenciesRespected` needs `~EarlyStart`.
* A snapshot of the queue (286) outlives completions, so `claimJob` can claim a finished module
  again; losing the SET NX race throws out of `claimJob` (297), so the comparison that follows
  (299-304) only matters when a lock expired in between; a worker that stops between 297 and 307
  leaves a lock without expiry.
* Worker records are read, changed and written back by several clients (334, 425), so
  `claimedJobs` can lose an entry.  `getProgress` (503) shows 0 for negative counters.  A failed
  module blocks its dependents for ever.
* `heartbeat` sends HSET to a key that `registerWorker` created with SET (262), so it always fails
  with WRONGTYPE, live workers look dead, and `cleanupDeadWorkers` removes them; on an absent
  key it makes a hash that later GETs throw on.  Removing a "dead" worker may release a module that
  another worker holds, or one that is completed.
* Ages are differences of `nowSeconds` (Core.lean), the monotonic clock of one machine.

*The pool and the cache.*

* `close` of the pool frees connections that are lent; `l_hiredis_free` reads the `freed` flag of
  memory it may have released (`ssl_connect.c:128-137`).
* `writeThrough` "writes to both cache and persistent storage" (Cache.lean:45; "simultaneously",
  README:402) with a SET (49) and a call of `persist` (50) that nothing ties together.  Writer 1
  sets the key, writer 2 sets it and persists, writer 1 persists: the key holds 2 and the store 1,
  for ever, since the SET gives no TTL.  `PutRight` tells what ends this: a later write or fill
  that does not overlap with another, or an invalidation.  `writeBehind` is the
  same code: its "catch errors" (61) does not catch an IO error of `persist`.
* `ttlSeconds` of the cache helpers (Cache.lean:23) goes to `setex`, which takes milliseconds
  (Ops.lean:442): values live a thousandth of what "Memoization with TTL" (8) promises.
* The loser of the lock race throws (139) where the comment (88) promises waiting; the lock has
  no TTL until 140; a lock that expires during a computation lets a second caller compute and
  is then deleted by the first (125), which lets a third in, and so on.  The `catch` of
  `writeBehind` (62) does not see IO errors of `persist`.  EXISTS followed by GET throws when
  the key expires in between.

*The C layer.*

* `executePipeline` (FFI.lean:1455) throws at the first error and leaves the other replies unread;
  the next command takes one of them.  `OwnAnswer` and `RepliesAccounted` excuse such a stream as
  `adrift`; `AnswersLag` says that each later answer is late by exactly the replies left.
* `parse_command_args` returns its count inside the `if` that handles a last word without quotes
  (command.c:125).  For a line that ends in a blank or in a quoted word it runs off its end: argv is
  not handed over and the count is undefined (`RunsOffTheEnd` has the outcomes).
* `append_command` sends a whole line as one word; `get_reply` returns an empty byte array for
  replies without text; `set_nonblock` is inverted (`async.c:171-183`); `connect_nonblock` takes an
  IO error for success; `get_pending_count` counts commands not yet sent; `is_connected` asks
  nobody.
* `hello` defaults to protocol 3 (FFI.lean:771), after which `hgetall`, `smembers` and `zscore` fail
  on every reply, the wrappers in `LosesInResp3` drop elements (`zmscore` all scores, `geopos`
  gives (0.0, 0.0)), a counted `SPOP` pops and then reports an error, and a subscription never
  answers.
* The wrappers in `TakesQueued` return the QUEUED of a transaction as the command's result.
* `xrange`, `slowlog` and `hello` return a fixed text instead of the reply; `incr` returns a
  negative number as a large unsigned one.
* `withAutoReconnect` (RedisExamples/Features/Reconnection.lean:141) repeats actions that the server
  may have carried out.

*The stores.*

* Declarations: storing a declaration again keeps its old dependencies and an old `value` field;
  `deleteDecl` drops the dependents of the deleted declaration with it (259), so that
  `getDependents` misses them when it is stored again; reverse edges never expire.
* Theorem index: `removeTheorem` decodes stored patterns as constants (Core.lean:100), whose hash
  differs, so the ZREMs of conclusion and hypotheses (242-251) miss their keys; indexing a theorem
  again leaves it under its former conclusion.
* Proof sessions: `endSession` sends HSET to a string key (359) and throws unless the record has
  expired, in which case it makes a hash; the SET at 256 drops the session's TTL; a step whose list
  expires between ZADD and EXPIRE is not found by `deleteSession`; `getTrace` returns the newest
  entry first.
* Arrow tables: `deleteBatch` and `compactToRecent` leave the manifest as it is, and reading a batch
  that is missing throws where "Skip missing batches" (Table.lean:153) stands; overlapping writers
  can leave a head that is not the newest batch of the manifest; a compaction to one batch between
  ZADD and SET leaves the head pointing to a deleted batch for a moment.
* "latest batch_id" (13) and "keep only N most recent" (218): scores are `IO.monoMsNow` (100), which
  each machine counts from a start of its own and anew after a reboot.  A machine that has run for
  long stores a batch, one just started stores the next: the second has the lower score, so
  `compactToRecent 1` deletes it, keeps the older one, and `getHeadBatch` finds nothing.  What does
  hold is `RecentReadable`: what is deleted had enough batches after it *in the manifest*.
* `processStreamToBatches` (Stream.lean) does not move its position on and counts any reply as one
  entry; `TacticCache.clear` deletes the statistics too.

## What is not modelled

* Re-initialisation of a prefix in use (DistProof.lean:211); the prefix starts empty.
* In `Session`: TCP keepalive, observers that change nothing (`is_connected`, `get_fd`, ...),
  reconnecting over TLS.  Subscriptions appear in RESP2 only.
* Effects of commands on keys, in `Commands`: they are the server's; the modules above that
  use Redis model the commands they send.
* Snapshots (Declaration.lean:262-300): one SET, GET or DEL of a key of their own.
* The stream reader of RedisArrow (`Stream.lean`): it turns what one process reads into a batch.
* Metrics: counters in one process that no other part reads.  Tactic and instance caches:
  independent keys with a TTL; looking one up is the read of `CacheLock`.
* The axioms of `RedisModel` and the mock server: no code of the library uses them.
* Configuration, enumerations, codecs, logging, typed keys, expressions, examples: conversions and
  single commands without shared state.
* Wording, timestamps, sizes and byte layout.  The read-only operations (`getProgress`,
  `getReadyModules`, `stats`, searches) change no state; what they may miss is said above.

## Plan

Done: the queue with its workers and its refinement, the pool, the caching helpers, the wrappers,
the connection, the mathlib stores and tables; proofs for the queue, the pool, the connection, the
cache lock, and all four stores, for the queue together with its workers, and for the wrappers.

Left, in order of importance:

1. The composition of `Session` with `Pool`: a lent connection that fails is not lent again
   before it is replaced.
2. Re-initialisation of a queue in use, as a further operation of `DistWorkers`.
3. The percentile buffer of `Metrics` and the stream reader of RedisArrow.
