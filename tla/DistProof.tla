------------------------------ MODULE DistProof -----------------------------
(***************************************************************************)
(* RedisLean/Mathlib/DistProof.lean, one Redis command per step: the calls *)
(* of several processes interleave between any two of their commands.      *)
(*                                                                         *)
(* Clients are the workers, the monitors that run requeueStaleJobs, and    *)
(* the coordinator that runs initializeJobs.  pc[c] names the command that *)
(* client c sends next.  The key prefix starts empty and nothing deletes a *)
(* job or worker record, so EXISTS k followed by GET k is one read here    *)
(* (no state reaches the returns for a missing record).  Time is left out: *)
(* a lock with a TTL may expire at any moment when                         *)
(* LockExpiry holds and a claim may be found stale at any moment, which    *)
(* covers every lockTimeoutSeconds and staleThresholdSeconds.              *)
(***************************************************************************)
EXTENDS Integers, FiniteSets

CONSTANTS Workers, Monitors, Coord,  \* the client processes
          Nobody,                    \* no worker
          Modules, Jobs, Deps,       \* names, modules to check, dependencies
          Priority,                  \* [Jobs -> Nat], 1000 - complexity
          MaxRetries,                \* DistConfig.maxRetries
          EarlyStart,                \* may workers claim before initializeJobs returns?
          LockExpiry,                \* may a lock's TTL run out?
          Aborts,                    \* may a call end in an exception or a crash?
          Budget                     \* bound on releases, aborts, expiries, monitor passes

Clients == Workers \cup Monitors \cup {Coord}

ASSUME DistAssumption ==
  /\ IsFiniteSet(Clients)
  /\ Workers \cap Monitors = {} /\ Coord \notin Workers \cup Monitors
  /\ Nobody \notin Workers
  /\ Jobs \subseteq Modules
  /\ Deps \in [Jobs -> SUBSET Modules]
  /\ Priority \in [Jobs -> Nat]
  /\ IsFiniteSet(Jobs) /\ Jobs # {}
  /\ MaxRetries \in Nat /\ Budget \in Nat
  /\ {EarlyStart, LockExpiry, Aborts} \subseteq BOOLEAN

VARIABLES
  job,       \* {prefix}:dist:job:<id>, the JSON record, or NoJob
  queue,     \* {prefix}:dist:jobs, a sorted set: members here, order from Priority
  deps,      \* {prefix}:dist:deps:<id>
  complete,  \* {prefix}:dist:complete
  lock,      \* {prefix}:dist:lock:<id>: its value, or Nobody when the key is absent
  ttl,       \* does the lock key carry an expiry?
  progress,  \* {prefix}:dist:progress, the counters
  claimedJobs, \* the claimedJobs of each worker record
  pc, cj, cand, left, rec, wloc, ok, stale,  \* locals of each client
  spent,     \* how much of Budget is used
  dropped    \* history: calls abandoned between two counter updates

redis == <<job, queue, deps, complete, lock, ttl, progress, claimedJobs>>
locals == <<cj, cand, left, rec, wloc, ok, stale>>
vars == <<redis, pc, locals, spent, dropped>>

Active == {"claimed", "checking"}
Status == Active \cup {"pending", "completed", "failed", "none"}
Counters == {"total", "pending", "inProgress", "completed", "failed"}
JobRecord == [st : Status, by : Workers \cup {Nobody}, retries : Nat]
NoJob == [st |-> "none", by |-> Nobody, retries |-> 0]

\* A client between a decrement and the matching increment.
Gap == {"incProgress", "count", "incPending"}

Goto(c, label) == pc' = [pc EXCEPT ![c] = label]
\* Mutant: a counter that stops at zero.
BumpFromZero(f, n) ==
  progress' = [progress EXCEPT ![f] = IF @ + n < 0 THEN 0 ELSE @ + n]
Bump(f, n) == progress' = [progress EXCEPT ![f] = @ + n]
Owner(r) == IF r.st \in Active THEN r.by ELSE Nobody
Return(c) == IF c \in Monitors THEN "requeue" ELSE "idle"

Init ==
  /\ job = [j \in Jobs |-> NoJob]
  /\ queue = {} /\ complete = {}
  /\ deps = [j \in Jobs |-> {}]
  /\ lock = [j \in Jobs |-> Nobody]
  /\ ttl = [j \in Jobs |-> FALSE]
  /\ progress = [f \in Counters |-> 0]
  /\ claimedJobs = [w \in Workers |-> {}]
  /\ pc = [c \in Clients |-> IF c = Coord THEN "module" ELSE "idle"]
  /\ cj = [c \in Clients |-> CHOOSE j \in Jobs : TRUE]
  /\ cand = [c \in Clients |-> IF c = Coord THEN Jobs ELSE {}]
  /\ left = [c \in Clients |-> {}]
  /\ rec = [c \in Clients |-> NoJob]
  /\ wloc = [c \in Clients |-> {}]
  /\ ok = [c \in Clients |-> FALSE]
  /\ stale = [c \in Clients |-> {}]
  /\ spent = 0 /\ dropped = 0

-----------------------------------------------------------------------------
(* initializeJobs: a fresh prefix, so KEYS finds nothing to delete.        *)

PutJob(c) ==
  /\ pc[c] = "module"
  /\ \E j \in cand[c] :
       /\ job' = [job EXCEPT ![j] = [st |-> "pending", by |-> Nobody, retries |-> 0]]
       /\ cj' = [cj EXCEPT ![c] = j]
       /\ cand' = [cand EXCEPT ![c] = @ \ {j}]
       /\ left' = [left EXCEPT ![c] = Deps[j]]
  /\ Goto(c, "enqueue")
  /\ UNCHANGED <<queue, deps, complete, lock, ttl, progress, claimedJobs,
                 rec, wloc, ok, stale, spent, dropped>>

Enqueue(c) ==
  /\ pc[c] = "enqueue"
  /\ queue' = queue \cup {cj[c]}
  /\ Goto(c, IF left[c] = {} THEN "module" ELSE "addDep")
  /\ UNCHANGED <<job, deps, complete, lock, ttl, progress, claimedJobs,
                 locals, spent, dropped>>

AddDep(c) ==
  /\ pc[c] = "addDep"
  /\ \E d \in left[c] :
       /\ deps' = [deps EXCEPT ![cj[c]] = @ \cup {d}]
       /\ left' = [left EXCEPT ![c] = @ \ {d}]
       /\ Goto(c, IF left[c] = {d} THEN "module" ELSE "addDep")
  /\ UNCHANGED <<job, queue, complete, lock, ttl, progress, claimedJobs,
                 cj, cand, rec, wloc, ok, stale, spent, dropped>>

\* HSET of one counter; the five are sent in this order.
SetCounter(c, label, f, n, next) ==
  /\ pc[c] = label
  /\ progress' = [progress EXCEPT ![f] = n]
  /\ Goto(c, next)
  /\ UNCHANGED <<job, queue, deps, complete, lock, ttl, claimedJobs,
                 locals, spent, dropped>>

ResetCounters(c) ==
  \/ cand[c] = {} /\ SetCounter(c, "module", "total", Cardinality(Jobs), "setPending")
  \/ SetCounter(c, "setPending", "pending", Cardinality(Jobs), "setInProgress")
  \/ SetCounter(c, "setInProgress", "inProgress", 0, "setCompleted")
  \/ SetCounter(c, "setCompleted", "completed", 0, "setFailed")
  \/ SetCounter(c, "setFailed", "failed", 0, "done")

InitializeJobs(c) == PutJob(c) \/ Enqueue(c) \/ AddDep(c) \/ ResetCounters(c)

-----------------------------------------------------------------------------
(* claimJob                                                                *)

\* ZREVRANGE: a snapshot of the queue.
ClaimStart(c) ==
  /\ pc[c] = "idle"
  /\ EarlyStart \/ pc[Coord] = "done"
  /\ cand' = [cand EXCEPT ![c] = queue]
  /\ Goto(c, "scan")
  /\ UNCHANGED <<redis, cj, left, rec, wloc, ok, stale, spent, dropped>>

\* SMEMBERS of the best candidate left; without candidates the call returns none.
Scan(c) ==
  /\ pc[c] = "scan"
  /\ \/ /\ cand[c] = {}
        /\ Goto(c, "idle")
        /\ UNCHANGED <<cj, cand, left>>
     \/ \E j \in cand[c] :
          /\ \A k \in cand[c] : Priority[k] <= Priority[j]
          /\ cj' = [cj EXCEPT ![c] = j]
          /\ cand' = [cand EXCEPT ![c] = @ \ {j}]
          /\ left' = [left EXCEPT ![c] = deps[j]]
          /\ Goto(c, IF deps[j] = {} THEN "setnx" ELSE "checkDeps")
  /\ UNCHANGED <<redis, rec, wloc, ok, stale, spent, dropped>>

\* Mutant: a missing dependency is skipped.
SkipMissingDep(c) ==
  /\ pc[c] = "checkDeps"
  /\ left' = [left EXCEPT ![c] = {}]
  /\ Goto(c, "setnx")
  /\ UNCHANGED <<redis, cj, cand, rec, wloc, ok, stale, spent, dropped>>

\* Mutant: a missing dependency ends the call, not just the candidate.
CheckDepGivesUp(c) ==
  /\ pc[c] = "checkDeps"
  /\ left' = [left EXCEPT ![c] = {}]
  /\ Goto(c, IF left[c] \subseteq complete THEN "setnx" ELSE "idle")
  /\ UNCHANGED <<redis, cj, cand, rec, wloc, ok, stale, spent, dropped>>

\* SISMEMBER of one dependency; the first one missing ends the candidate.
CheckDep(c) ==
  /\ pc[c] = "checkDeps"
  /\ \E d \in left[c] :
       \/ /\ d \in complete
          /\ left' = [left EXCEPT ![c] = @ \ {d}]
          /\ Goto(c, IF left[c] = {d} THEN "setnx" ELSE "checkDeps")
       \/ /\ d \notin complete
          /\ left' = [left EXCEPT ![c] = {}]
          /\ Goto(c, "scan")
  /\ UNCHANGED <<redis, cj, cand, rec, wloc, ok, stale, spent, dropped>>

\* Mutant: a plain SET.
SetLock(c) ==
  /\ pc[c] = "setnx"
  /\ lock' = [lock EXCEPT ![cj[c]] = c]
  /\ ttl' = [ttl EXCEPT ![cj[c]] = FALSE]
  /\ Goto(c, "getLock")
  /\ UNCHANGED <<job, queue, deps, complete, progress, claimedJobs,
                 locals, spent, dropped>>

\* SET NX.  A lock that exists is an error reply, thrown out of claimJob.
TryLock(c) ==
  /\ pc[c] = "setnx"
  /\ \/ /\ lock[cj[c]] = Nobody
        /\ lock' = [lock EXCEPT ![cj[c]] = c]
        /\ ttl' = [ttl EXCEPT ![cj[c]] = FALSE]
        /\ Goto(c, "getLock")
        /\ UNCHANGED cand
     \/ /\ lock[cj[c]] # Nobody
        /\ Goto(c, "idle")
        /\ cand' = [cand EXCEPT ![c] = {}]
        /\ UNCHANGED <<lock, ttl>>
  /\ UNCHANGED <<job, queue, deps, complete, progress, claimedJobs,
                 cj, left, rec, wloc, ok, stale, spent, dropped>>

\* GET of the lock: a missing key throws, a foreign value skips the candidate.
VerifyLock(c) ==
  /\ pc[c] = "getLock"
  /\ \/ /\ lock[cj[c]] \notin {c, Nobody}
        /\ Goto(c, "scan")
        /\ UNCHANGED cand
     \/ /\ lock[cj[c]] \in {c, Nobody}
        /\ Goto(c, IF lock[cj[c]] = c THEN "expire" ELSE "idle")
        /\ cand' = [cand EXCEPT ![c] = {}]
  /\ UNCHANGED <<redis, cj, left, rec, wloc, ok, stale, spent, dropped>>

ExpireLock(c) ==
  /\ pc[c] = "expire"
  /\ ttl' = [ttl EXCEPT ![cj[c]] = lock[cj[c]] # Nobody]
  /\ Goto(c, "loadClaim")
  /\ UNCHANGED <<job, queue, deps, complete, lock, progress, claimedJobs,
                 locals, spent, dropped>>

\* GET of a job record, by every call that rewrites it.
Load(c, label, next) ==
  /\ pc[c] = label
  /\ rec' = [rec EXCEPT ![c] = job[cj[c]]]
  /\ Goto(c, next)
  /\ UNCHANGED <<redis, cj, cand, left, wloc, ok, stale, spent, dropped>>

\* SET of a job record computed from the copy read before; keep is what
\* the rest of the call needs of that copy.
Store(c, label, r, keep, next) ==
  /\ pc[c] = label
  /\ job' = [job EXCEPT ![cj[c]] = r]
  /\ rec' = [rec EXCEPT ![c] = keep]
  /\ Goto(c, next)
  /\ UNCHANGED <<queue, deps, complete, lock, ttl, progress, claimedJobs,
                 cj, cand, left, wloc, ok, stale, spent, dropped>>

\* HINCRBY of one counter.
Count(c, label, f, n, next) ==
  /\ pc[c] = label
  /\ Bump(f, n)
  /\ Goto(c, next)
  /\ UNCHANGED <<job, queue, deps, complete, lock, ttl, claimedJobs,
                 locals, spent, dropped>>

\* GET of the record of worker w, who may be unknown.
LoadWorker(c, label, w, next, return) ==
  /\ pc[c] = label
  /\ \/ /\ w \in Workers
        /\ wloc' = [wloc EXCEPT ![c] = claimedJobs[w]]
        /\ Goto(c, next)
        /\ UNCHANGED <<rec, ok>>
     \/ /\ w \notin Workers
        /\ rec' = [rec EXCEPT ![c] = NoJob]
        /\ ok' = [ok EXCEPT ![c] = FALSE]
        /\ Goto(c, return)
        /\ UNCHANGED wloc
  /\ UNCHANGED <<redis, cj, cand, left, stale, spent, dropped>>

\* SET of the record of worker w, computed from the copy read before.
StoreWorker(c, label, w, s, next) ==
  /\ pc[c] = label
  /\ claimedJobs' = [claimedJobs EXCEPT ![w] = s]
  /\ wloc' = [wloc EXCEPT ![c] = {}]
  /\ rec' = [rec EXCEPT ![c] = NoJob]
  /\ ok' = [ok EXCEPT ![c] = FALSE]
  /\ Goto(c, next)
  /\ UNCHANGED <<job, queue, deps, complete, lock, ttl, progress,
                 cj, cand, left, stale, spent, dropped>>

Claimed(c) == [st |-> "claimed", by |-> c, retries |-> rec[c].retries]

ClaimJob(c) ==
  \/ ClaimStart(c) \/ Scan(c) \/ CheckDep(c)
  \/ TryLock(c) \/ VerifyLock(c) \/ ExpireLock(c)
  \/ Load(c, "loadClaim", "storeClaim")
  \/ Store(c, "storeClaim", Claimed(c), NoJob, "loadSelf")
  \/ LoadWorker(c, "loadSelf", c, "storeSelf", "decPending")
  \/ StoreWorker(c, "storeSelf", c, wloc[c] \cup {cj[c]}, "decPending")
  \/ Count(c, "decPending", "pending", -1, "incProgress")
  \/ Count(c, "incProgress", "inProgress", 1, "working")

-----------------------------------------------------------------------------
(* updateProgress: only a claimed or checking record is written back.      *)

\* Mutant: the owner is not carried over.
CheckingUnowned(c) == [st |-> "checking", by |-> Nobody, retries |-> rec[c].retries]
Checking(c) == [st |-> "checking", by |-> rec[c].by, retries |-> rec[c].retries]

UpdateProgress(c) ==
  \/ Load(c, "working", "storeProgress")
  \/ rec[c].st \in Active /\ Store(c, "storeProgress", Checking(c), NoJob, "working")
  \/ /\ pc[c] = "storeProgress" /\ rec[c].st \notin Active
     /\ rec' = [rec EXCEPT ![c] = NoJob]
     /\ Goto(c, "working")
     /\ UNCHANGED <<redis, cj, cand, left, wloc, ok, stale, spent, dropped>>

-----------------------------------------------------------------------------
(* completeJob and releaseJob, called by workers and by monitors           *)

\* DEL of the lock, whoever owns it.
Unlock(c, label, next) ==
  /\ pc[c] = label
  /\ lock' = [lock EXCEPT ![cj[c]] = Nobody]
  /\ ttl' = [ttl EXCEPT ![cj[c]] = FALSE]
  /\ Goto(c, next)
  /\ UNCHANGED <<job, queue, deps, complete, progress, claimedJobs,
                 locals, spent, dropped>>

Finished(c) == [st |-> IF ok[c] THEN "completed" ELSE "failed",
                by |-> Owner(rec[c]), retries |-> rec[c].retries]

BeginComplete(c) ==
  /\ pc[c] = "working"
  /\ \E success \in BOOLEAN : ok' = [ok EXCEPT ![c] = success]
  /\ Goto(c, "loadComplete")
  /\ UNCHANGED <<redis, cj, cand, left, rec, wloc, stale, spent, dropped>>

AddComplete(c) ==
  /\ pc[c] = "addComplete"
  /\ complete' = complete \cup {cj[c]}
  /\ Goto(c, "dequeue")
  /\ UNCHANGED <<job, queue, deps, lock, ttl, progress, claimedJobs,
                 locals, spent, dropped>>

Dequeue(c) ==
  /\ pc[c] = "dequeue"
  /\ queue' = queue \ {cj[c]}
  /\ Goto(c, "loadOwner")
  /\ UNCHANGED <<job, deps, complete, lock, ttl, progress, claimedJobs,
                 locals, spent, dropped>>

\* Mutant: a success is published and never counted.
CompleteUncounted(c) ==
  \/ Load(c, "loadComplete", "storeComplete")
  \/ Store(c, "storeComplete", Finished(c), rec[c], "unlock")
  \/ Unlock(c, "unlock", "decProgress")
  \/ Count(c, "decProgress", "inProgress", -1, IF ok[c] THEN "addComplete" ELSE "count")
  \/ Count(c, "count", "failed", 1, "dequeue")
  \/ AddComplete(c) \/ Dequeue(c)

\* Mutant: the lock is deleted after a success only.
CompleteKeepsLock(c) ==
  \/ Load(c, "loadComplete", "storeComplete")
  \/ Store(c, "storeComplete", Finished(c), rec[c], IF ok[c] THEN "unlock" ELSE "decProgress")
  \/ Unlock(c, "unlock", "decProgress")
  \/ Count(c, "decProgress", "inProgress", -1, "count")
  \/ ok[c] /\ Count(c, "count", "completed", 1, "addComplete")
  \/ ~ok[c] /\ Count(c, "count", "failed", 1, "dequeue")
  \/ AddComplete(c) \/ Dequeue(c)

CompleteJob(c) ==
  \/ Load(c, "loadComplete", "storeComplete")
  \/ Store(c, "storeComplete", Finished(c), rec[c], "unlock")
  \/ Unlock(c, "unlock", "decProgress")
  \/ Count(c, "decProgress", "inProgress", -1, "count")
  \/ ok[c] /\ Count(c, "count", "completed", 1, "addComplete")
  \/ ~ok[c] /\ Count(c, "count", "failed", 1, "dequeue")
  \/ AddComplete(c)
  \/ Dequeue(c)

Released(c) == [st |-> "pending", by |-> Nobody, retries |-> rec[c].retries + 1]

BeginRelease(c) ==
  /\ pc[c] = "working" /\ spent < Budget
  /\ spent' = spent + 1
  /\ Goto(c, "loadRelease")
  /\ UNCHANGED <<redis, locals, dropped>>

Requeue(c) ==
  /\ pc[c] = "rezadd"
  /\ queue' = queue \cup {cj[c]}
  /\ Goto(c, "unlockRelease")
  /\ UNCHANGED <<job, deps, complete, lock, ttl, progress, claimedJobs,
                 locals, spent, dropped>>

ReleaseJob(c) ==
  \/ Load(c, "loadRelease", "storeRelease")
  \/ Store(c, "storeRelease", Released(c), rec[c], "rezadd")
  \/ Requeue(c)
  \/ Unlock(c, "unlockRelease", "decRelease")
  \/ Count(c, "decRelease", "inProgress", -1, "incPending")
  \/ Count(c, "incPending", "pending", 1, "loadOwner")

\* Both calls end by taking the job off its owner's record.
ForgetClaim(c) ==
  \/ LoadWorker(c, "loadOwner", Owner(rec[c]), "storeOwner", Return(c))
  \/ StoreWorker(c, "storeOwner", Owner(rec[c]), wloc[c] \ {cj[c]}, Return(c))

-----------------------------------------------------------------------------
(* requeueStaleJobs: checkStaleClaims first reads every record, then each  *)
(* stale one is released, or failed once its retries are used up.          *)

PassStart(c) ==
  /\ pc[c] = "idle" /\ spent < Budget
  /\ spent' = spent + 1
  /\ cand' = [cand EXCEPT ![c] = {j \in Jobs : job[j] # NoJob}]
  /\ stale' = [stale EXCEPT ![c] = {}]
  /\ Goto(c, "inspect")
  /\ UNCHANGED <<redis, cj, left, rec, wloc, ok, dropped>>

Inspect(c) ==
  /\ pc[c] = "inspect"
  /\ \/ /\ cand[c] = {}
        /\ Goto(c, "requeue")
        /\ UNCHANGED <<cand, stale>>
     \/ \E j \in cand[c] :
          /\ cand' = [cand EXCEPT ![c] = @ \ {j}]
          /\ \/ UNCHANGED stale
             \/ /\ job[j].st \in Active
                /\ stale' = [stale EXCEPT ![c] = @ \cup {[id |-> j, retries |-> job[j].retries]}]
          /\ UNCHANGED pc
  /\ UNCHANGED <<redis, cj, left, rec, wloc, ok, spent, dropped>>

RequeueNext(c) ==
  /\ pc[c] = "requeue"
  /\ \/ /\ stale[c] = {}
        /\ Goto(c, "idle")
        /\ UNCHANGED <<cj, ok, stale>>
     \/ \E s \in stale[c] :
          /\ stale' = [stale EXCEPT ![c] = @ \ {s}]
          /\ cj' = [cj EXCEPT ![c] = s.id]
          /\ ok' = [ok EXCEPT ![c] = FALSE]
          /\ Goto(c, IF s.retries < MaxRetries THEN "loadRelease" ELSE "loadComplete")
  /\ UNCHANGED <<redis, cand, left, rec, wloc, spent, dropped>>

RequeueStaleJobs(c) == PassStart(c) \/ Inspect(c) \/ RequeueNext(c)

-----------------------------------------------------------------------------
(* The environment                                                         *)

Expire(j) ==
  /\ LockExpiry /\ ttl[j] /\ spent < Budget
  /\ spent' = spent + 1
  /\ lock' = [lock EXCEPT ![j] = Nobody]
  /\ ttl' = [ttl EXCEPT ![j] = FALSE]
  /\ UNCHANGED <<job, queue, deps, complete, progress, claimedJobs, pc, locals, dropped>>

\* A command throws out of the call, or the process dies and is restarted
\* under the same name: what was done in Redis stays, the rest never happens.
Abort(c) ==
  /\ Aborts /\ pc[c] # "idle" /\ spent < Budget
  /\ spent' = spent + 1
  /\ dropped' = IF pc[c] \in Gap THEN dropped + 1 ELSE dropped
  /\ Goto(c, "idle")
  /\ cand' = [cand EXCEPT ![c] = {}] /\ left' = [left EXCEPT ![c] = {}]
  /\ rec' = [rec EXCEPT ![c] = NoJob] /\ wloc' = [wloc EXCEPT ![c] = {}]
  /\ ok' = [ok EXCEPT ![c] = FALSE] /\ stale' = [stale EXCEPT ![c] = {}]
  /\ UNCHANGED <<redis, cj>>

WorkerStep(w) ==
  \/ ClaimJob(w) \/ UpdateProgress(w) \/ BeginComplete(w) \/ CompleteJob(w)
  \/ ReleaseJob(w) \/ ForgetClaim(w)

MonitorStep(m) ==
  RequeueStaleJobs(m) \/ CompleteJob(m) \/ ReleaseJob(m) \/ ForgetClaim(m)

Next ==
  \/ InitializeJobs(Coord)
  \/ \E w \in Workers : WorkerStep(w) \/ BeginRelease(w)
  \/ \E m \in Monitors : MonitorStep(m)
  \/ \E j \in Jobs : Expire(j)
  \/ \E c \in Workers \cup Monitors : Abort(c)

Spec == Init /\ [][Next]_vars

\* Processes keep sending their commands, and a check that reports progress
\* again and again ends at last.  Nobody has to release or to abort.
Fairness ==
  /\ WF_vars(InitializeJobs(Coord))
  /\ \A w \in Workers : WF_vars(WorkerStep(w)) /\ SF_vars(BeginComplete(w))
  /\ \A m \in Monitors : WF_vars(MonitorStep(m))

FairSpec == Spec /\ Fairness
=============================================================================
