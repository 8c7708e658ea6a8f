-------------------------- MODULE DistProofProofs ---------------------------
(***************************************************************************)
(* Proofs about DistProof, for every set of workers, monitors and modules. *)
(***************************************************************************)
EXTENDS DistProofProperties, FiniteSetTheorems, TLAPS

LEMMA ClientTypes ==
  /\ Workers \subseteq Clients /\ Monitors \subseteq Clients /\ Coord \in Clients
  /\ \A w \in Workers : w # Coord /\ w # Nobody /\ w \notin Monitors
  /\ \A m \in Monitors : m # Coord
BY DistAssumption DEF Clients

LEMMA NoJobType == NoJob \in JobRecord
BY DEF NoJob, JobRecord, Status

\* The building blocks that the calls share keep the types.
LEMMA LoadType ==
  ASSUME NEW L, Labels \subseteq L, Typed(L), NEW c \in Clients, NEW l, NEW n \in Labels, Load(c, l, n)
  PROVE  Typed(L)'
BY DEF Load, Typed, Goto, redis

LEMMA StoreType ==
  ASSUME NEW L, Labels \subseteq L, Typed(L), NEW c \in Clients, NEW l, NEW n \in Labels,
         NEW r \in JobRecord, NEW k \in JobRecord, Store(c, l, r, k, n)
  PROVE  Typed(L)'
BY DEF Store, Typed, Goto

LEMMA CountType ==
  ASSUME NEW L, Labels \subseteq L, Typed(L), NEW c \in Clients, NEW l, NEW n \in Labels,
         NEW f \in Counters, NEW i \in Int, Count(c, l, f, i, n)
  PROVE  Typed(L)'
BY DEF Count, Typed, Goto, Bump, locals

LEMMA LoadWorkerType ==
  ASSUME NEW L, Labels \subseteq L, Typed(L), NEW c \in Clients, NEW l, NEW w, NEW n \in Labels,
         NEW r \in Labels, LoadWorker(c, l, w, n, r)
  PROVE  Typed(L)'
<1>1. CASE w \in Workers
  <2>1. claimedJobs[w] \in SUBSET Jobs
    BY <1>1 DEF Typed
  <2>2. wloc' = [wloc EXCEPT ![c] = claimedJobs[w]] /\ Goto(c, n) /\ UNCHANGED <<rec, ok>>
    BY <1>1 DEF LoadWorker
  <2> QED BY <2>1, <2>2 DEF LoadWorker, Typed, Goto, redis
<1>2. CASE w \notin Workers
  <2>1. ok' = [ok EXCEPT ![c] = FALSE] /\ rec' = [rec EXCEPT ![c] = NoJob]
    BY <1>2 DEF LoadWorker
  <2>2. ok' \in [Clients -> BOOLEAN] /\ rec' \in [Clients -> JobRecord]
    BY <2>1, NoJobType DEF Typed
  <2> QED BY <1>2, <2>2 DEF LoadWorker, Typed, Goto, redis
<1> QED BY <1>1, <1>2

LEMMA StoreWorkerType ==
  ASSUME NEW L, Labels \subseteq L, Typed(L), NEW c \in Clients, NEW l, NEW w, NEW s \in SUBSET Jobs,
         NEW n \in Labels, StoreWorker(c, l, w, s, n)
  PROVE  Typed(L)'
<1>1. rec' \in [Clients -> JobRecord] /\ ok' \in [Clients -> BOOLEAN]
  BY NoJobType DEF StoreWorker, Typed
<1>2. claimedJobs' \in [Workers -> SUBSET Jobs] /\ wloc' \in [Clients -> SUBSET Jobs]
  BY DEF StoreWorker, Typed
<1> QED BY <1>1, <1>2 DEF StoreWorker, Typed, Goto

LEMMA UnlockType ==
  ASSUME NEW L, Labels \subseteq L, Typed(L), NEW c \in Clients, NEW l, NEW n \in Labels, Unlock(c, l, n)
  PROVE  Typed(L)'
BY DEF Unlock, Typed, Goto, locals

LEMMA InitializeType ==
  ASSUME NEW L, Labels \subseteq L, Typed(L), InitializeJobs(Coord)
  PROVE  Typed(L)'
<1> USE ClientTypes, DistAssumption DEF Typed, Goto, locals
<1>1. CASE PutJob(Coord)
  <2>1. "enqueue" \in Labels
    BY DEF Labels
  <2> QED BY <2>1, <1>1 DEF PutJob, JobRecord, Status
<1>2. CASE Enqueue(Coord)
  <2>1. "module" \in Labels /\ "addDep" \in Labels
    BY DEF Labels
  <2> QED BY <2>1, <1>2 DEF Enqueue
<1>3. CASE AddDep(Coord)
  <2>1. "module" \in Labels /\ "addDep" \in Labels
    BY DEF Labels
  <2> QED BY <2>1, <1>3 DEF AddDep
<1>4. CASE ResetCounters(Coord)
  <2>1. Cardinality(Jobs) \in Nat
    BY FS_CardinalityType
  <2>2. \A l \in {"setPending", "setInProgress", "setCompleted", "setFailed", "done"} :
          l \in Labels
    BY DEF Labels
  <2>3. ASSUME NEW l, NEW f \in Counters, NEW i \in Int, NEW n \in Labels,
               SetCounter(Coord, l, f, i, n)
        PROVE  Typed(L)'
    BY <2>3 DEF SetCounter
  <2>4. \A f \in {"total", "pending", "inProgress", "completed", "failed"} : f \in Counters
    BY DEF Counters
  <2> HIDE DEF Typed
  <2> QED BY <2>1, <2>2, <2>3, <2>4, <1>4 DEF ResetCounters
<1> QED BY <1>1, <1>2, <1>3, <1>4 DEF InitializeJobs

LEMMA ClaimType ==
  ASSUME NEW L, Labels \subseteq L, Typed(L), NEW w \in Workers, ClaimJob(w)
  PROVE  Typed(L)'
<1> w \in Clients
  BY ClientTypes
<1>1. CASE ClaimStart(w)
  <2>1. "scan" \in Labels
    BY DEF Labels
  <2> QED BY <2>1, <1>1 DEF ClaimStart, Typed, Goto, redis
<1>2. CASE Scan(w)
  <2>1. "idle" \in Labels /\ "setnx" \in Labels /\ "checkDeps" \in Labels
    BY DEF Labels
  <2>2. cj' \in [Clients -> Jobs]
    BY <1>2 DEF Scan, Typed
  <2>5. cand' \in [Clients -> SUBSET Jobs]
    BY <1>2 DEF Scan, Typed
  <2>3. left' \in [Clients -> SUBSET Modules]
    BY <1>2 DEF Scan, Typed
  <2>4. pc' \in [Clients -> L]
    BY <1>2, <2>1 DEF Scan, Typed, Goto
  <2> QED BY <1>2, <2>2, <2>3, <2>4, <2>5 DEF Scan, Typed, redis
<1>3. CASE CheckDep(w)
  <2>1. "setnx" \in Labels /\ "checkDeps" \in Labels /\ "scan" \in Labels
    BY DEF Labels
  <2>2. pc' \in [Clients -> L]
    BY <2>1, <1>3 DEF CheckDep, Typed, Goto
  <2>3. left' \in [Clients -> SUBSET Modules]
    BY <1>3 DEF CheckDep, Typed
  <2> QED BY <1>3, <2>2, <2>3 DEF CheckDep, Typed, redis
<1>4. CASE TryLock(w)
  <2>1. "idle" \in Labels /\ "getLock" \in Labels
    BY DEF Labels
  <2>2. lock' \in [Jobs -> Workers \cup {Nobody}]
    BY <1>4 DEF TryLock, Typed
  <2>4. ttl' \in [Jobs -> BOOLEAN]
    <3>1. ttl' = [ttl EXCEPT ![cj[w]] = FALSE] \/ ttl' = ttl
      BY <1>4 DEF TryLock
    <3> QED BY <3>1 DEF Typed
  <2>3. cand' \in [Clients -> SUBSET Jobs]
    BY <1>4 DEF TryLock, Typed
  <2> QED BY <2>1, <2>2, <2>3, <2>4, <1>4 DEF TryLock, Typed, Goto
<1>5. CASE VerifyLock(w)
  <2>1. "scan" \in Labels /\ "expire" \in Labels /\ "idle" \in Labels
    BY DEF Labels
  <2>2. pc' \in [Clients -> L]
    BY <2>1, <1>5 DEF VerifyLock, Typed, Goto
  <2>3. cand' \in [Clients -> SUBSET Jobs]
    BY <1>5 DEF VerifyLock, Typed
  <2> QED BY <1>5, <2>2, <2>3 DEF VerifyLock, Typed, Goto, redis
<1>6. CASE ExpireLock(w)
  <2>1. "loadClaim" \in Labels
    BY DEF Labels
  <2> QED BY <2>1, <1>6 DEF ExpireLock, Typed, Goto, locals
<1>7. CASE Load(w, "loadClaim", "storeClaim")
  BY <1>7, LoadType DEF Labels
<1>8. CASE Store(w, "storeClaim", Claimed(w), NoJob, "loadSelf")
  <2>1. Claimed(w) \in JobRecord
    BY DEF Typed, Claimed, JobRecord, Status, Active
  <2>2. "loadSelf" \in Labels
    BY DEF Labels
  <2> QED BY <1>8, <2>1, <2>2, NoJobType, StoreType
<1>9. CASE LoadWorker(w, "loadSelf", w, "storeSelf", "decPending")
  BY <1>9, LoadWorkerType DEF Labels
<1>10. CASE StoreWorker(w, "storeSelf", w, wloc[w] \cup {cj[w]}, "decPending")
  <2>1. wloc[w] \cup {cj[w]} \in SUBSET Jobs
    BY DEF Typed
  <2> QED BY <1>10, <2>1, StoreWorkerType DEF Labels
<1>11. CASE Count(w, "decPending", "pending", -1, "incProgress")
  <2>1. "pending" \in Counters /\ "incProgress" \in Labels
    BY DEF Counters, Labels
  <2> QED BY <1>11, <2>1, CountType
<1>12. CASE Count(w, "incProgress", "inProgress", 1, "working")
  <2>1. "inProgress" \in Counters /\ "working" \in Labels
    BY DEF Counters, Labels
  <2> QED BY <1>12, <2>1, CountType
<1> QED BY <1>1, <1>2, <1>3, <1>4, <1>5, <1>6, <1>7, <1>8, <1>9, <1>10, <1>11, <1>12
        DEF ClaimJob

LEMMA ProgressType ==
  ASSUME NEW L, Labels \subseteq L, Typed(L), NEW w \in Workers, UpdateProgress(w)
  PROVE  Typed(L)'
<1> w \in Clients /\ "storeProgress" \in Labels /\ "working" \in Labels
  BY ClientTypes DEF Labels
<1>1. CASE Load(w, "working", "storeProgress")
  BY <1>1, LoadType
<1>2. CASE rec[w].st \in Active /\ Store(w, "storeProgress", Checking(w), NoJob, "working")
  <2>1. Checking(w) \in JobRecord
    BY DEF Typed, Checking, JobRecord, Status, Active
  <2> QED BY <1>2, <2>1, NoJobType, StoreType
<1>3. ASSUME rec' = [rec EXCEPT ![w] = NoJob], Goto(w, "working"),
             UNCHANGED <<redis, cj, cand, left, wloc, ok, stale, spent, dropped>>
      PROVE  Typed(L)'
  BY <1>3, NoJobType DEF Typed, Goto, redis
<1> QED BY <1>1, <1>2, <1>3 DEF UpdateProgress

LEMMA CompleteType ==
  ASSUME NEW L, Labels \subseteq L, Typed(L), NEW c \in Clients, CompleteJob(c)
  PROVE  Typed(L)'
<1>1. CASE Load(c, "loadComplete", "storeComplete")
  BY <1>1, LoadType DEF Labels
<1>2. CASE Store(c, "storeComplete", Finished(c), rec[c], "unlock")
  <2>1. Finished(c) \in JobRecord
    BY DEF Typed, Finished, Owner, JobRecord, Status, Active
  <2>2. "unlock" \in Labels /\ rec[c] \in JobRecord
    BY DEF Labels, Typed
  <2> QED BY <1>2, <2>1, <2>2, StoreType
<1>3. CASE Unlock(c, "unlock", "decProgress")
  BY <1>3, UnlockType DEF Labels
<1>4. ASSUME NEW l \in {"decProgress", "count"}, NEW f \in {"inProgress", "completed", "failed"},
             NEW i \in {-1, 1}, NEW n \in {"count", "addComplete", "dequeue"},
             Count(c, l, f, i, n)
      PROVE  Typed(L)'
  <2>1. f \in Counters /\ n \in Labels /\ i \in Int
    BY DEF Counters, Labels
  <2> QED BY <1>4, <2>1, CountType
<1>5. CASE AddComplete(c)
  <2>1. "dequeue" \in Labels
    BY DEF Labels
  <2> QED BY <1>5, <2>1 DEF AddComplete, Typed, Goto, locals
<1>6. CASE Dequeue(c)
  <2>1. "loadOwner" \in Labels
    BY DEF Labels
  <2> QED BY <1>6, <2>1 DEF Dequeue, Typed, Goto, locals
<1> QED BY <1>1, <1>2, <1>3, <1>4, <1>5, <1>6 DEF CompleteJob

LEMMA ReleaseType ==
  ASSUME NEW L, Labels \subseteq L, Typed(L), NEW c \in Clients, ReleaseJob(c)
  PROVE  Typed(L)'
<1>1. CASE Load(c, "loadRelease", "storeRelease")
  BY <1>1, LoadType DEF Labels
<1>2. CASE Store(c, "storeRelease", Released(c), rec[c], "rezadd")
  <2>1. Released(c) \in JobRecord
    BY DEF Typed, Released, JobRecord, Status
  <2>2. "rezadd" \in Labels /\ rec[c] \in JobRecord
    BY DEF Labels, Typed
  <2> QED BY <1>2, <2>1, <2>2, StoreType
<1>3. CASE Requeue(c)
  <2>1. "unlockRelease" \in Labels
    BY DEF Labels
  <2> QED BY <1>3, <2>1 DEF Requeue, Typed, Goto, locals
<1>4. CASE Unlock(c, "unlockRelease", "decRelease")
  BY <1>4, UnlockType DEF Labels
<1>5. ASSUME NEW l \in {"decRelease", "incPending"}, NEW f \in {"inProgress", "pending"},
             NEW i \in {-1, 1}, NEW n \in {"incPending", "loadOwner"},
             Count(c, l, f, i, n)
      PROVE  Typed(L)'
  <2>1. f \in Counters /\ n \in Labels /\ i \in Int
    BY DEF Counters, Labels
  <2> QED BY <1>5, <2>1, CountType
<1> QED BY <1>1, <1>2, <1>3, <1>4, <1>5 DEF ReleaseJob

LEMMA ForgetType ==
  ASSUME NEW L, Labels \subseteq L, Typed(L), NEW c \in Clients, ForgetClaim(c)
  PROVE  Typed(L)'
<1>1. Return(c) \in Labels /\ "storeOwner" \in Labels
  BY DEF Return, Labels
<1>2. wloc[c] \ {cj[c]} \in SUBSET Jobs
  BY DEF Typed
<1> QED BY <1>1, <1>2, LoadWorkerType, StoreWorkerType DEF ForgetClaim

LEMMA MonitorType ==
  ASSUME NEW L, Labels \subseteq L, Typed(L), NEW m \in Monitors, RequeueStaleJobs(m)
  PROVE  Typed(L)'
<1> m \in Clients
  BY ClientTypes
<1>1. CASE PassStart(m)
  <2>1. "inspect" \in Labels
    BY DEF Labels
  <2> QED BY <1>1, <2>1 DEF PassStart, Typed, Goto, redis
<1>2. CASE Inspect(m)
  <2>1. "requeue" \in Labels
    BY DEF Labels
  <2>2. cand' \in [Clients -> SUBSET Jobs]
    BY <1>2 DEF Inspect, Typed
  <2>3. stale' \in [Clients -> SUBSET [id : Jobs, retries : Nat]]
    <3>1. CASE cand[m] = {}
      BY <1>2, <3>1 DEF Inspect, Typed
    <3>2. ASSUME NEW j \in cand[m],
                 stale' = [stale EXCEPT ![m] = @ \cup {[id |-> j, retries |-> job[j].retries]}]
          PROVE  stale' \in [Clients -> SUBSET [id : Jobs, retries : Nat]]
      <4>1. j \in Jobs /\ job[j].retries \in Nat
        BY DEF Typed, JobRecord
      <4>2. stale[m] \cup {[id |-> j, retries |-> job[j].retries]}
              \in SUBSET [id : Jobs, retries : Nat]
        BY <4>1 DEF Typed
      <4> QED BY <3>2, <4>2 DEF Typed
    <3>3. UNCHANGED stale => stale' \in [Clients -> SUBSET [id : Jobs, retries : Nat]]
      BY DEF Typed
    <3> QED BY <1>2, <3>1, <3>2, <3>3 DEF Inspect
  <2> QED BY <1>2, <2>1, <2>2, <2>3 DEF Inspect, Typed, Goto, redis
<1>3. CASE RequeueNext(m)
  <2>1. "idle" \in Labels /\ "loadRelease" \in Labels /\ "loadComplete" \in Labels
    BY DEF Labels
  <2>2. cj' \in [Clients -> Jobs]
    BY <1>3 DEF RequeueNext, Typed
  <2>3. stale' \in [Clients -> SUBSET [id : Jobs, retries : Nat]]
    BY <1>3 DEF RequeueNext, Typed
  <2>4. ok' \in [Clients -> BOOLEAN]
    <3>1. ok' = [ok EXCEPT ![m] = FALSE] \/ ok' = ok
      BY <1>3 DEF RequeueNext
    <3> QED BY <3>1 DEF Typed
  <2>5. pc' \in [Clients -> L]
    BY <1>3, <2>1 DEF RequeueNext, Typed, Goto
  <2> QED BY <1>3, <2>2, <2>3, <2>4, <2>5 DEF RequeueNext, Typed, redis
<1> QED BY <1>1, <1>2, <1>3 DEF RequeueStaleJobs

LEMMA EnvironmentType ==
  ASSUME NEW L, Labels \subseteq L, Typed(L),
         \/ \E w \in Workers : BeginComplete(w) \/ BeginRelease(w)
         \/ \E j \in Jobs : Expire(j)
         \/ \E c \in Workers \cup Monitors : Abort(c)
  PROVE  Typed(L)'
<1>1. ASSUME NEW w \in Workers, BeginComplete(w)
      PROVE  Typed(L)'
  <2>1. w \in Clients /\ "loadComplete" \in Labels
    BY ClientTypes DEF Labels
  <2>2. ok' \in [Clients -> BOOLEAN]
    BY <1>1 DEF BeginComplete, Typed
  <2> QED BY <1>1, <2>1, <2>2 DEF BeginComplete, Typed, Goto, redis
<1>2. ASSUME NEW w \in Workers, BeginRelease(w)
      PROVE  Typed(L)'
  <2>1. w \in Clients /\ "loadRelease" \in Labels
    BY ClientTypes DEF Labels
  <2> QED BY <1>2, <2>1 DEF BeginRelease, Typed, Goto, redis, locals
<1>3. ASSUME NEW j \in Jobs, Expire(j)
      PROVE  Typed(L)'
  BY <1>3 DEF Expire, Typed, locals
<1>4. ASSUME NEW c \in Workers \cup Monitors, Abort(c)
      PROVE  Typed(L)'
  <2>1. c \in Clients /\ "idle" \in Labels
    BY ClientTypes DEF Labels
  <2>2. pc' \in [Clients -> L] /\ cand' \in [Clients -> SUBSET Jobs]
    BY <1>4, <2>1 DEF Abort, Typed, Goto
  <2>3. left' \in [Clients -> SUBSET Modules] /\ wloc' \in [Clients -> SUBSET Jobs]
    BY <1>4 DEF Abort, Typed
  <2>4. rec' \in [Clients -> JobRecord] /\ stale' \in [Clients -> SUBSET [id : Jobs, retries : Nat]]
    BY <1>4, NoJobType DEF Abort, Typed
  <2>5. ok' \in [Clients -> BOOLEAN]
    <3>1. ok' = [ok EXCEPT ![c] = FALSE]
      BY <1>4 DEF Abort
    <3> QED BY <3>1 DEF Typed
  <2>6. spent' \in Nat /\ dropped' \in Nat
    BY <1>4 DEF Abort, Typed
  <2> QED BY <1>4, <2>2, <2>3, <2>4, <2>5, <2>6 DEF Abort, Typed, redis
<1> QED BY <1>1, <1>2, <1>3, <1>4

LEMMA TypedStep ==
  ASSUME NEW L, Labels \subseteq L, Typed(L), [Next]_vars
  PROVE  Typed(L)'
<1>1. CASE UNCHANGED vars
  BY <1>1 DEF vars, redis, locals, Typed
<1>2. CASE Next
  <2> Workers \subseteq Clients /\ Monitors \subseteq Clients
    BY ClientTypes
  <2> QED BY <1>2, InitializeType, ClaimType, ProgressType, CompleteType, ReleaseType,
            ForgetType, MonitorType, EnvironmentType
            DEF Next, WorkerStep, MonitorStep
<1> QED BY <1>1, <1>2

LEMMA InitType == Init => TypeOK
<1> SUFFICES ASSUME Init PROVE TypeOK
  OBVIOUS
<1>1. (CHOOSE j \in Jobs : TRUE) \in Jobs
  BY DistAssumption
<1>2. \A l \in {"idle", "module"} : l \in Labels
  BY DEF Labels
<1> QED BY <1>1, <1>2, NoJobType DEF Init, TypeOK, Typed

\* Every state of the queue, whatever the clients, the faults and their
\* interleaving: no counter, set or record leaves its type.
THEOREM TypeCorrect == Spec => []TypeOK
<1>1. TypeOK /\ [Next]_vars => TypeOK'
  BY TypedStep DEF TypeOK
<1> QED BY InitType, <1>1, PTL DEF Spec

-----------------------------------------------------------------------------
(* Mutual exclusion.                                                       *)

\* The part of the type invariant that the arguments about workers use.
WorkerTypes ==
  /\ pc \in [Clients -> Labels] /\ cj \in [Clients -> Jobs]
  /\ lock \in [Jobs -> Workers \cup {Nobody}]
  /\ Workers \subseteq Clients /\ Coord \notin Workers /\ Nobody \notin Workers

LEMMA WorkerTypesOK == TypeOK => WorkerTypes
BY ClientTypes DEF TypeOK, Typed, WorkerTypes

LEMMA LockHeldStep ==
  ASSUME Undisturbed, TypeOK, LockHeld, [Next]_vars
  PROVE  LockHeld'
<1> USE DEF Goto
<1>t. WorkerTypes
  BY WorkerTypesOK
<1>p. ASSUME NEW w \in Workers, NEW l, NEW n, pc[w] = l, Goto(w, n),
             n \in Holding => l \in Holding, UNCHANGED <<lock, cj>>
      PROVE  LockHeld'
  BY <1>t, <1>p DEF LockHeld, WorkerTypes
<1>q. ASSUME NEW w \in Workers, UNCHANGED lock,
             \A v \in Workers \ {w} : pc'[v] = pc[v] /\ cj'[v] = cj[v],
             pc'[w] \notin Holding
      PROVE  LockHeld'
  BY <1>t, <1>q DEF LockHeld, WorkerTypes
<1>u. ASSUME NEW w \in Workers, NEW l \in Holding, NEW n, Unlock(w, l, n), n \notin Holding
      PROVE  LockHeld'
  BY <1>t, <1>u DEF LockHeld, WorkerTypes, Unlock, locals
<1>1. CASE InitializeJobs(Coord)
  <2>1. UNCHANGED lock /\ \A w \in Workers : pc'[w] = pc[w] /\ cj'[w] = cj[w]
    BY <1>t, <1>1 DEF InitializeJobs, PutJob, Enqueue, AddDep, ResetCounters, SetCounter,
                      WorkerTypes, locals
  <2> QED BY <2>1 DEF LockHeld
<1>2. ASSUME NEW w \in Workers, ClaimJob(w)
      PROVE  LockHeld'
  <2> w \in Clients
    BY <1>t DEF WorkerTypes
  <2>1. CASE ClaimStart(w) \/ Scan(w) \/ CheckDep(w)
    <3>1. pc'[w] \in {"scan", "idle", "setnx", "checkDeps"}
      BY <1>t, <2>1 DEF ClaimStart, Scan, CheckDep, WorkerTypes
    <3>2. UNCHANGED lock /\ \A v \in Workers \ {w} : pc'[v] = pc[v] /\ cj'[v] = cj[v]
      BY <1>t, <2>1 DEF ClaimStart, Scan, CheckDep, WorkerTypes, redis
    <3> QED BY <3>1, <3>2, <1>q DEF Holding
  <2>2. CASE TryLock(w)
    BY <1>t, <2>2 DEF TryLock, LockHeld, WorkerTypes, Holding
  <2>3. CASE VerifyLock(w)
    <3>1. UNCHANGED <<lock, cj>> /\ \E n : pc' = [pc EXCEPT ![w] = n]
      BY <2>3 DEF VerifyLock, redis
    <3>2. pc[w] = "getLock" /\ "getLock" \in Holding
      BY <2>3 DEF VerifyLock, Holding
    <3> QED BY <3>1, <3>2, <1>p
  <2>4. CASE ExpireLock(w)
    BY <2>4, <1>p DEF ExpireLock, locals, Holding
  <2>5. CASE Load(w, "loadClaim", "storeClaim")
    BY <2>5, <1>p DEF Load, redis, Holding
  <2>6. CASE Store(w, "storeClaim", Claimed(w), NoJob, "loadSelf")
    BY <2>6, <1>p DEF Store, Holding
  <2>7. CASE LoadWorker(w, "loadSelf", w, "storeSelf", "decPending")
    BY <2>7, <1>p DEF LoadWorker, redis, Holding
  <2>8. CASE StoreWorker(w, "storeSelf", w, wloc[w] \cup {cj[w]}, "decPending")
    BY <2>8, <1>p DEF StoreWorker, Holding
  <2>9. CASE Count(w, "decPending", "pending", -1, "incProgress")
    BY <2>9, <1>p DEF Count, locals, Holding
  <2>10. CASE Count(w, "incProgress", "inProgress", 1, "working")
    BY <2>10, <1>p DEF Count, locals, Holding
  <2> QED BY <1>2, <2>1, <2>2, <2>3, <2>4, <2>5, <2>6, <2>7, <2>8, <2>9, <2>10 DEF ClaimJob
<1>3. ASSUME NEW w \in Workers, UpdateProgress(w) \/ BeginComplete(w) \/ BeginRelease(w)
      PROVE  LockHeld'
  <2>1. UNCHANGED <<lock, cj>> /\ pc[w] \in Holding /\ \E n : Goto(w, n)
    BY <1>3 DEF UpdateProgress, BeginComplete, BeginRelease, Load, Store, redis, locals, Holding
  <2> QED BY <2>1, <1>p
<1>4. ASSUME NEW w \in Workers, CompleteJob(w)
      PROVE  LockHeld'
  <2>1. CASE Load(w, "loadComplete", "storeComplete")
    BY <2>1, <1>p DEF Load, redis, Holding
  <2>2. CASE Store(w, "storeComplete", Finished(w), rec[w], "unlock")
    BY <2>2, <1>p DEF Store, Holding
  <2>3. CASE Unlock(w, "unlock", "decProgress")
    BY <2>3, <1>u DEF Holding
  <2>4. ASSUME NEW l, NEW f, NEW i, NEW n \in {"count", "addComplete", "dequeue"},
               Count(w, l, f, i, n)
        PROVE  LockHeld'
    BY <2>4, <1>p DEF Count, locals, Holding
  <2>5. CASE AddComplete(w) \/ Dequeue(w)
    BY <2>5, <1>p DEF AddComplete, Dequeue, locals, Holding
  <2> QED BY <1>4, <2>1, <2>2, <2>3, <2>4, <2>5 DEF CompleteJob
<1>5. ASSUME NEW w \in Workers, ReleaseJob(w)
      PROVE  LockHeld'
  <2>1. CASE Load(w, "loadRelease", "storeRelease")
    BY <2>1, <1>p DEF Load, redis, Holding
  <2>2. CASE Store(w, "storeRelease", Released(w), rec[w], "rezadd")
    BY <2>2, <1>p DEF Store, Holding
  <2>3. CASE Requeue(w)
    BY <2>3, <1>p DEF Requeue, locals, Holding
  <2>4. CASE Unlock(w, "unlockRelease", "decRelease")
    BY <2>4, <1>u DEF Holding
  <2>5. ASSUME NEW l, NEW f, NEW i, NEW n \in {"incPending", "loadOwner"}, Count(w, l, f, i, n)
        PROVE  LockHeld'
    BY <2>5, <1>p DEF Count, locals, Holding
  <2> QED BY <1>5, <2>1, <2>2, <2>3, <2>4, <2>5 DEF ReleaseJob
<1>6. ASSUME NEW w \in Workers, ForgetClaim(w)
      PROVE  LockHeld'
  <2>1. UNCHANGED <<lock, cj>> /\ \E n \in {"storeOwner", Return(w)} : Goto(w, n)
    BY <1>6 DEF ForgetClaim, LoadWorker, StoreWorker, redis
  <2>2. "storeOwner" \notin Holding /\ Return(w) \notin Holding
    BY DEF Holding, Return
  <2> QED BY <2>1, <2>2, <1>p
<1>7. ASSUME NEW w \in Workers, Abort(w)
      PROVE  LockHeld'
  BY <1>7, <1>p DEF Abort, redis, Holding
<1>8. CASE UNCHANGED vars
  BY <1>8 DEF LockHeld, vars, redis, locals
<1> QED BY <1>1, <1>2, <1>3, <1>4, <1>5, <1>6, <1>7, <1>8
        DEF Next, WorkerStep, Undisturbed, Expire

\* Two workers never hold the same module, however many of them contend and
\* whichever of their calls are aborted, as long as nobody but the workers
\* releases jobs and no lock expires.
THEOREM MutualExclusionHolds ==
  ASSUME Undisturbed
  PROVE  Spec => []MutualExclusion
<1>1. Init => LockHeld
  BY ClientTypes DEF Init, LockHeld, Holding
<1>2. TypeOK /\ LockHeld => MutualExclusion
  BY DEF LockHeld, MutualExclusion
<1>3. TypeOK /\ LockHeld /\ [Next]_vars => LockHeld'
  BY LockHeldStep
<1> QED BY <1>1, <1>2, <1>3, TypeCorrect, PTL DEF Spec

-----------------------------------------------------------------------------
(* No lock is left behind.                                                 *)

LEMMA LockOwnedStep ==
  ASSUME ~Aborts, TypeOK, LockOwned, [Next]_vars
  PROVE  LockOwned'
<1> USE DEF Goto
<1>t. WorkerTypes /\ ttl \in [Jobs -> BOOLEAN]
  BY WorkerTypesOK DEF TypeOK, Typed
<1>p. ASSUME NEW w \in Workers, NEW l \in Holding, NEW n \in Holding, pc[w] = l, Goto(w, n),
             l \in {"getLock", "expire"} => n \in {"getLock", "expire"},
             UNCHANGED <<lock, ttl, cj>>
      PROVE  LockOwned'
  BY <1>t, <1>p DEF LockOwned, WorkerTypes
<1>q. ASSUME NEW c \in Clients, c \in Workers => pc[c] \notin Holding, UNCHANGED <<lock, ttl>>,
             \A v \in Workers \ {c} : pc'[v] = pc[v] /\ cj'[v] = cj[v]
      PROVE  LockOwned'
  BY <1>t, <1>q DEF LockOwned, WorkerTypes
<1>u. ASSUME NEW c \in Clients, NEW l, NEW n, Unlock(c, l, n)
      PROVE  LockOwned'
  <2>1. /\ lock' = [lock EXCEPT ![cj[c]] = Nobody] /\ ttl' = [ttl EXCEPT ![cj[c]] = FALSE]
        /\ pc' = [pc EXCEPT ![c] = n] /\ cj' = cj /\ cj[c] \in Jobs
    BY <1>t, <1>u DEF Unlock, locals, WorkerTypes
  <2>2. ASSUME NEW j \in Jobs, lock'[j] # Nobody
        PROVE  lock'[j] = lock[j] /\ ttl'[j] = ttl[j] /\ lock[j] # c /\ lock[j] \in Workers
    BY <1>t, <2>1, <2>2 DEF LockOwned, WorkerTypes
  <2>3. \A v \in Workers : v # c => pc'[v] = pc[v] /\ cj'[v] = cj[v]
    BY <1>t, <2>1 DEF WorkerTypes
  <2> QED BY <2>2, <2>3 DEF LockOwned
<1>1. CASE InitializeJobs(Coord)
  <2>1. UNCHANGED <<lock, ttl>> /\ \A w \in Workers : pc'[w] = pc[w] /\ cj'[w] = cj[w]
    BY <1>t, <1>1 DEF InitializeJobs, PutJob, Enqueue, AddDep, ResetCounters, SetCounter,
                      WorkerTypes, locals
  <2> QED BY <1>t, <2>1 DEF LockOwned, WorkerTypes
<1>2. ASSUME NEW w \in Workers, ClaimJob(w)
      PROVE  LockOwned'
  <2> w \in Clients
    BY <1>t DEF WorkerTypes
  <2>1. CASE ClaimStart(w) \/ Scan(w) \/ CheckDep(w)
    <3>1. pc[w] \notin Holding
      BY <2>1 DEF ClaimStart, Scan, CheckDep, Holding
    <3>2. UNCHANGED <<lock, ttl>> /\ \A v \in Workers \ {w} : pc'[v] = pc[v] /\ cj'[v] = cj[v]
      BY <1>t, <2>1 DEF ClaimStart, Scan, CheckDep, WorkerTypes, redis
    <3> QED BY <3>1, <3>2, <1>q
  <2>2. CASE TryLock(w)
    <3>1. pc[w] \notin Holding /\ cj' = cj /\ \A v \in Workers \ {w} : pc'[v] = pc[v]
      BY <1>t, <2>2 DEF TryLock, Holding, WorkerTypes
    <3>2. CASE lock[cj[w]] # Nobody
      BY <1>q, <2>2, <3>1, <3>2 DEF TryLock
    <3>3. CASE lock[cj[w]] = Nobody
      <4>1. /\ lock' = [lock EXCEPT ![cj[w]] = w] /\ ttl' = [ttl EXCEPT ![cj[w]] = FALSE]
            /\ pc' = [pc EXCEPT ![w] = "getLock"]
        BY <2>2, <3>3 DEF TryLock
      <4> QED BY <1>t, <3>1, <4>1 DEF LockOwned, WorkerTypes, Holding
    <3> QED BY <3>2, <3>3
  <2>3. CASE VerifyLock(w)
    <3>1. UNCHANGED <<lock, ttl, cj>> /\ pc[w] = "getLock" /\ "getLock" \in Holding /\ "expire" \in Holding
      BY <2>3 DEF VerifyLock, redis, Holding
    <3>2. CASE lock[cj[w]] = w
      <4>1. pc' = [pc EXCEPT ![w] = "expire"]
        BY <1>t, <2>3, <3>2 DEF VerifyLock, WorkerTypes
      <4> QED BY <3>1, <4>1, <1>p
    <3>3. CASE lock[cj[w]] # w
      <4>1. \A v \in Workers \ {w} : pc'[v] = pc[v]
        BY <1>t, <2>3 DEF VerifyLock, WorkerTypes
      <4>2. \A j \in Jobs : lock[j] # w
        BY <1>t, <3>3 DEF LockOwned, WorkerTypes
      <4> QED BY <1>t, <3>1, <4>1, <4>2 DEF LockOwned, WorkerTypes
    <3> QED BY <3>2, <3>3
  <2>4. CASE ExpireLock(w)
    <3>1. /\ pc[w] = "expire" /\ pc' = [pc EXCEPT ![w] = "loadClaim"] /\ UNCHANGED <<lock, cj>>
          /\ ttl' = [ttl EXCEPT ![cj[w]] = lock[cj[w]] # Nobody]
      BY <2>4 DEF ExpireLock, locals
    <3>2. "loadClaim" \in Holding
      BY DEF Holding
    <3> QED BY <1>t, <3>1, <3>2 DEF LockOwned, WorkerTypes
  <2>5. CASE Load(w, "loadClaim", "storeClaim")
    BY <2>5, <1>p DEF Load, redis, Holding
  <2>6. CASE Store(w, "storeClaim", Claimed(w), NoJob, "loadSelf")
    BY <2>6, <1>p DEF Store, Holding
  <2>7. CASE LoadWorker(w, "loadSelf", w, "storeSelf", "decPending")
    BY <2>7, <1>p DEF LoadWorker, redis, Holding
  <2>8. CASE StoreWorker(w, "storeSelf", w, wloc[w] \cup {cj[w]}, "decPending")
    BY <2>8, <1>p DEF StoreWorker, Holding
  <2>9. CASE Count(w, "decPending", "pending", -1, "incProgress")
    BY <2>9, <1>p DEF Count, locals, Holding
  <2>10. CASE Count(w, "incProgress", "inProgress", 1, "working")
    BY <2>10, <1>p DEF Count, locals, Holding
  <2> QED BY <1>2, <2>1, <2>2, <2>3, <2>4, <2>5, <2>6, <2>7, <2>8, <2>9, <2>10 DEF ClaimJob
<1>3. ASSUME NEW w \in Workers, UpdateProgress(w) \/ BeginComplete(w) \/ BeginRelease(w)
      PROVE  LockOwned'
  <2>1. CASE UpdateProgress(w)
    BY <2>1, <1>p DEF UpdateProgress, Load, Store, redis, Holding
  <2>2. CASE BeginComplete(w) \/ BeginRelease(w)
    BY <2>2, <1>p DEF BeginComplete, BeginRelease, redis, locals, Holding
  <2> QED BY <1>3, <2>1, <2>2
<1>4. ASSUME NEW w \in Workers, CompleteJob(w)
      PROVE  LockOwned'
  <2> w \in Clients
    BY <1>t DEF WorkerTypes
  <2>1. CASE Load(w, "loadComplete", "storeComplete")
    BY <2>1, <1>p DEF Load, redis, Holding
  <2>2. CASE Store(w, "storeComplete", Finished(w), rec[w], "unlock")
    BY <2>2, <1>p DEF Store, Holding
  <2>3. CASE Unlock(w, "unlock", "decProgress")
    BY <2>3, <1>u
  <2>4. ASSUME NEW l \in {"decProgress", "count"}, NEW f, NEW i, NEW n, Count(w, l, f, i, n)
        PROVE  LockOwned'
    <3>1. pc[w] \notin Holding /\ UNCHANGED <<lock, ttl>>
          /\ \A v \in Workers \ {w} : pc'[v] = pc[v] /\ cj'[v] = cj[v]
      BY <1>t, <2>4 DEF Count, locals, Holding, WorkerTypes
    <3> QED BY <3>1, <1>q
  <2>5. CASE AddComplete(w) \/ Dequeue(w)
    <3>1. pc[w] \notin Holding /\ UNCHANGED <<lock, ttl>>
          /\ \A v \in Workers \ {w} : pc'[v] = pc[v] /\ cj'[v] = cj[v]
      BY <1>t, <2>5 DEF AddComplete, Dequeue, locals, Holding, WorkerTypes
    <3> QED BY <3>1, <1>q
  <2> QED BY <1>4, <2>1, <2>2, <2>3, <2>4, <2>5 DEF CompleteJob
<1>5. ASSUME NEW w \in Workers, ReleaseJob(w)
      PROVE  LockOwned'
  <2> w \in Clients
    BY <1>t DEF WorkerTypes
  <2>1. CASE Load(w, "loadRelease", "storeRelease")
    BY <2>1, <1>p DEF Load, redis, Holding
  <2>2. CASE Store(w, "storeRelease", Released(w), rec[w], "rezadd")
    BY <2>2, <1>p DEF Store, Holding
  <2>3. CASE Requeue(w)
    BY <2>3, <1>p DEF Requeue, locals, Holding
  <2>4. CASE Unlock(w, "unlockRelease", "decRelease")
    BY <2>4, <1>u
  <2>5. ASSUME NEW l \in {"decRelease", "incPending"}, NEW f, NEW i, NEW n, Count(w, l, f, i, n)
        PROVE  LockOwned'
    <3>1. pc[w] \notin Holding /\ UNCHANGED <<lock, ttl>>
          /\ \A v \in Workers \ {w} : pc'[v] = pc[v] /\ cj'[v] = cj[v]
      BY <1>t, <2>5 DEF Count, locals, Holding, WorkerTypes
    <3> QED BY <3>1, <1>q
  <2> QED BY <1>5, <2>1, <2>2, <2>3, <2>4, <2>5 DEF ReleaseJob
<1>6. ASSUME NEW w \in Workers, ForgetClaim(w)
      PROVE  LockOwned'
  <2>1. pc[w] \notin Holding /\ UNCHANGED <<lock, ttl>> /\ w \in Clients
        /\ \A v \in Workers \ {w} : pc'[v] = pc[v] /\ cj'[v] = cj[v]
    BY <1>t, <1>6 DEF ForgetClaim, LoadWorker, StoreWorker, redis, Holding, WorkerTypes
  <2> QED BY <2>1, <1>q
<1>7. ASSUME NEW m \in Monitors, MonitorStep(m)
      PROVE  LockOwned'
  <2>1. m \in Clients /\ m \notin Workers
    BY ClientTypes
  <2>2. CASE Unlock(m, "unlock", "decProgress") \/ Unlock(m, "unlockRelease", "decRelease")
    BY <1>u, <2>1, <2>2
  <2>3. CASE ~Unlock(m, "unlock", "decProgress") /\ ~Unlock(m, "unlockRelease", "decRelease")
    <3>1. CASE RequeueStaleJobs(m)
      <4>1. UNCHANGED <<lock, ttl>> /\ \A v \in Workers : pc'[v] = pc[v] /\ cj'[v] = cj[v]
        BY <1>t, <2>1, <3>1 DEF RequeueStaleJobs, PassStart, Inspect, RequeueNext, redis, WorkerTypes
      <4> QED BY <1>q, <2>1, <4>1
    <3>2. CASE CompleteJob(m) \/ ReleaseJob(m) \/ ForgetClaim(m)
      <4>1. UNCHANGED <<lock, ttl>> /\ \A v \in Workers : pc'[v] = pc[v] /\ cj'[v] = cj[v]
        BY <1>t, <2>1, <2>3, <3>2 DEF CompleteJob, ReleaseJob, ForgetClaim, Load, Store, Count,
           AddComplete, Dequeue, Requeue, LoadWorker, StoreWorker, redis, locals, WorkerTypes
      <4> QED BY <1>q, <2>1, <4>1
    <3> QED BY <1>7, <3>1, <3>2 DEF MonitorStep
  <2> QED BY <2>2, <2>3
<1>8. ASSUME NEW j \in Jobs, Expire(j)
      PROVE  LockOwned'
  BY <1>t, <1>8 DEF Expire, LockOwned, WorkerTypes, locals
<1>9. CASE UNCHANGED vars
  BY <1>9 DEF LockOwned, vars, redis, locals
<1> QED BY <1>1, <1>2, <1>3, <1>4, <1>5, <1>6, <1>7, <1>8, <1>9 DEF Next, WorkerStep, Abort

\* Unless calls are aborted no lock is left behind, however many workers contend,
\* whatever monitors release or fail and whichever locks expire: each belongs to a
\* call that is on its way to the DEL, and has an expiry but for the moments
\* between SET NX and EXPIRE.
THEOREM NoLockIsLeft ==
  ASSUME ~Aborts
  PROVE  Spec => []LockOwned
<1>1. Init => LockOwned
  BY DEF Init, LockOwned
<1>2. TypeOK /\ LockOwned /\ [Next]_vars => LockOwned'
  BY LockOwnedStep
<1> QED BY <1>1, <1>2, TypeCorrect, PTL DEF Spec

-----------------------------------------------------------------------------
(* Proofs about the queue as a whole, for every dependency graph and all   *)
(* clients, and whatever monitors requeue, locks expire and calls are      *)
(* aborted, provided that workers start once initializeJobs is done:       *)
(* claimJob respects dependencies, and the counters add up.                *)

\* The inductive invariant, with labels L.
DepsKept(L) ==
  /\ Typed(L)
  /\ WorkersWait
  /\ DepsStored
  /\ DepsChecked
  /\ DepsRespected
  /\ CompleteClosed
DepsInv == DepsKept(Labels)

\* A step of a worker or a monitor.
ClientStep(c) ==
  \/ c \in Workers /\ (WorkerStep(c) \/ BeginRelease(c))
  \/ c \in Monitors /\ MonitorStep(c)
  \/ Abort(c)

\* The commands of a call move one client, and never touch dependencies.
Alone(c) ==
  /\ UNCHANGED deps
  /\ \A d \in Clients \ {c} :
       /\ pc'[d] = pc[d] /\ cj'[d] = cj[d] /\ cand'[d] = cand[d]
       /\ left'[d] = left[d] /\ ok'[d] = ok[d]

LEMMA ClientAlone ==
  ASSUME NEW L, Typed(L), NEW c \in Clients, ClientStep(c)
  PROVE  Alone(c)
<1> USE DEF Alone, Typed, Goto, redis, locals
<1>1. ASSUME ClaimJob(c) PROVE Alone(c)
  <2>1. CASE ClaimStart(c) \/ Scan(c)
    BY <2>1 DEF ClaimStart, Scan
  <2>2. CASE CheckDep(c) \/ TryLock(c)
    BY <2>2 DEF CheckDep, TryLock
  <2>3. CASE VerifyLock(c) \/ ExpireLock(c)
    BY <2>3 DEF VerifyLock, ExpireLock
  <2>4. CASE Load(c, "loadClaim", "storeClaim")
    BY <2>4 DEF Load
  <2>5. CASE Store(c, "storeClaim", Claimed(c), NoJob, "loadSelf")
    BY <2>5 DEF Store
  <2>6. CASE LoadWorker(c, "loadSelf", c, "storeSelf", "decPending")
    BY <2>6 DEF LoadWorker
  <2>7. CASE StoreWorker(c, "storeSelf", c, wloc[c] \cup {cj[c]}, "decPending")
    BY <2>7 DEF StoreWorker
  <2>8. CASE Count(c, "decPending", "pending", -1, "incProgress")
    BY <2>8 DEF Count
  <2>9. CASE Count(c, "incProgress", "inProgress", 1, "working")
    BY <2>9 DEF Count
  <2> QED BY <1>1, <2>1, <2>2, <2>3, <2>4, <2>5, <2>6, <2>7, <2>8, <2>9 DEF ClaimJob
<1>2. ASSUME UpdateProgress(c) \/ BeginComplete(c) \/ BeginRelease(c) PROVE Alone(c)
  BY <1>2 DEF UpdateProgress, Load, Store, BeginComplete, BeginRelease
<1>3. ASSUME CompleteJob(c) PROVE Alone(c)
  BY <1>3 DEF CompleteJob, Load, Store, Unlock, Count, AddComplete, Dequeue
<1>4. ASSUME ReleaseJob(c) PROVE Alone(c)
  BY <1>4 DEF ReleaseJob, Load, Store, Unlock, Count, Requeue
<1>5. ASSUME ForgetClaim(c) PROVE Alone(c)
  BY <1>5 DEF ForgetClaim, LoadWorker, StoreWorker
<1>6. ASSUME RequeueStaleJobs(c) PROVE Alone(c)
  BY <1>6 DEF RequeueStaleJobs, PassStart, Inspect, RequeueNext
<1>7. ASSUME Abort(c) PROVE Alone(c)
  BY <1>7 DEF Abort
<1> QED BY <1>1, <1>2, <1>3, <1>4, <1>5, <1>6, <1>7
        DEF ClientStep, WorkerStep, MonitorStep

-----------------------------------------------------------------------------
(* initializeJobs: what is stored of the dependencies.                     *)

LEMMA InitializeDeps ==
  ASSUME NEW L, DepsKept(L), InitializeJobs(Coord)
  PROVE  DepsStored'
<1> USE DistAssumption DEF DepsKept, DepsStored, Storing, Goto, locals
<1>t. /\ pc \in [Clients -> L] /\ cj \in [Clients -> Jobs] /\ Coord \in Clients
      /\ cand \in [Clients -> SUBSET Jobs] /\ left \in [Clients -> SUBSET Modules]
      /\ deps \in [Jobs -> SUBSET Modules] /\ cj[Coord] \in Jobs
  BY ClientTypes DEF Typed
<1>1. CASE PutJob(Coord)
  BY <1>t, <1>1 DEF PutJob
<1>2. CASE Enqueue(Coord)
  BY <1>t, <1>2 DEF Enqueue
<1>3. CASE AddDep(Coord)
  <2>1. PICK d \in left[Coord] :
          /\ deps' = [deps EXCEPT ![cj[Coord]] = @ \cup {d}]
          /\ left' = [left EXCEPT ![Coord] = @ \ {d}]
          /\ pc' = [pc EXCEPT ![Coord] = IF left[Coord] = {d} THEN "module" ELSE "addDep"]
    BY <1>3 DEF AddDep
  <2>2. pc[Coord] = "addDep" /\ UNCHANGED <<cj, cand>>
    BY <1>3 DEF AddDep
  <2>3. deps[cj[Coord]] \cup left[Coord] = Deps[cj[Coord]]
    BY <2>2
  <2>4. deps'[cj[Coord]] = deps[cj[Coord]] \cup {d} /\ left'[Coord] = left[Coord] \ {d}
    BY <1>t, <2>1
  <2>5. left[Coord] = {d} => deps'[cj[Coord]] = Deps[cj[Coord]]
    BY <2>3, <2>4
  <2>6. \A j \in Jobs : j # cj[Coord] => deps'[j] = deps[j]
    BY <1>t, <2>1
  <2>7. deps'[cj[Coord]] \cup left'[Coord] = Deps[cj[Coord]]
    BY <2>3, <2>4
  <2>8. pc'[Coord] = IF left[Coord] = {d} THEN "module" ELSE "addDep"
    BY <1>t, <2>1
  <2> QED BY <1>t, <2>2, <2>5, <2>6, <2>7, <2>8
<1>4. CASE ResetCounters(Coord)
  BY <1>t, <1>4 DEF ResetCounters, SetCounter
<1> QED BY <1>1, <1>2, <1>3, <1>4 DEF InitializeJobs

\* initializeJobs makes no module active or complete and moves no worker.
LEMMA InitializeRest ==
  ASSUME NEW L, DepsKept(L), InitializeJobs(Coord)
  PROVE  WorkersWait' /\ DepsChecked' /\ DepsRespected' /\ CompleteClosed'
<1> USE ClientTypes DEF DepsKept, Goto, locals
<1>t. /\ pc \in [Clients -> L] /\ cj \in [Clients -> Jobs]
      /\ left \in [Clients -> SUBSET Modules] /\ job \in [Jobs -> JobRecord]
  BY DEF Typed
<1>1. UNCHANGED <<complete, ok>>
  BY DEF InitializeJobs, PutJob, Enqueue, AddDep, ResetCounters, SetCounter
<1>2. \A c \in Workers \cup Monitors : pc'[c] = pc[c] /\ cj'[c] = cj[c] /\ left'[c] = left[c]
  BY <1>t DEF InitializeJobs, PutJob, Enqueue, AddDep, ResetCounters, SetCounter
<1>3. \A j \in Jobs : job'[j] = job[j] \/ job'[j].st = "pending"
  BY <1>t DEF InitializeJobs, PutJob, Enqueue, AddDep, ResetCounters, SetCounter
<1>4. pc[Coord] # "done"
  BY DEF InitializeJobs, PutJob, Enqueue, AddDep, ResetCounters, SetCounter
<1>5. WorkersWait'
  BY <1>2, <1>4 DEF WorkersWait
<1>6. DepsChecked'
  BY <1>1, <1>2 DEF DepsChecked
<1>7. DepsRespected'
  BY <1>1, <1>3 DEF DepsRespected, Active
<1>8. CompleteClosed'
  BY <1>1 DEF CompleteClosed
<1> QED BY <1>5, <1>6, <1>7, <1>8

-----------------------------------------------------------------------------
(* Workers and monitors.                                                   *)

\* The complete set only grows.
LEMMA CompleteGrows ==
  ASSUME NEW c \in Clients, ClientStep(c)
  PROVE  complete \subseteq complete'
<1> USE DEF redis, locals
<1>1. ASSUME ClaimJob(c) PROVE UNCHANGED complete
  BY <1>1 DEF ClaimJob, ClaimStart, Scan, CheckDep, TryLock, VerifyLock, ExpireLock,
              Load, Store, LoadWorker, StoreWorker, Count
<1>2. ASSUME UpdateProgress(c) \/ BeginComplete(c) \/ BeginRelease(c)
      PROVE  UNCHANGED complete
  BY <1>2 DEF UpdateProgress, Load, Store, BeginComplete, BeginRelease
<1>3. ASSUME CompleteJob(c) PROVE complete \subseteq complete'
  BY <1>3 DEF CompleteJob, Load, Store, Unlock, Count, AddComplete, Dequeue
<1>4. ASSUME ReleaseJob(c) \/ ForgetClaim(c) PROVE UNCHANGED complete
  BY <1>4 DEF ReleaseJob, Load, Store, Unlock, Count, Requeue, ForgetClaim,
              LoadWorker, StoreWorker
<1>5. ASSUME RequeueStaleJobs(c) \/ Abort(c) PROVE UNCHANGED complete
  BY <1>5 DEF RequeueStaleJobs, PassStart, Inspect, RequeueNext, Abort
<1> QED BY <1>1, <1>2, <1>3, <1>4, <1>5 DEF ClientStep, WorkerStep, MonitorStep

\* Where a client stands in its call, and what it has found out by then.
Stands(c) ==
  /\ pc[c] = "checkDeps" => Deps[cj[c]] \ left[c] \subseteq complete
  /\ pc[c] \in Ready => Deps[cj[c]] \subseteq complete

LEMMA WorkerStands ==
  ASSUME NEW L, DepsKept(L), ~EarlyStart, NEW w \in Workers, ClientStep(w)
  PROVE  Stands(w)'
<1>t. /\ pc \in [Clients -> L] /\ cj \in [Clients -> Jobs]
      /\ left \in [Clients -> SUBSET Modules] /\ cand \in [Clients -> SUBSET Jobs]
      /\ w \in Clients /\ w # Coord /\ w \notin Monitors
      /\ Stands(w) /\ complete \subseteq complete'
  BY ClientTypes, CompleteGrows DEF DepsKept, Typed, DepsChecked, Stands
<1>a. ASSUME NEW l \in Ready, NEW n \in Labels \ {"checkDeps"},
             pc[w] = l, Goto(w, n), UNCHANGED cj
      PROVE  Stands(w)'
  BY <1>t, <1>a DEF Stands, Goto
<1>b. ASSUME NEW n \in Labels \ (Ready \cup {"checkDeps"}), Goto(w, n)
      PROVE  Stands(w)'
  BY <1>t, <1>b DEF Stands, Goto
<1>1. CASE ClaimStart(w)
  <2>1. "scan" \in Labels \ (Ready \cup {"checkDeps"})
    BY DEF Labels, Ready, Holding
  <2> QED BY <1>1, <2>1, <1>b DEF ClaimStart
<1>2. CASE Scan(w)
  <2>1. CASE cand[w] = {} /\ Goto(w, "idle")
    <3>1. "idle" \in Labels \ (Ready \cup {"checkDeps"})
      BY DEF Labels, Ready, Holding
    <3> QED BY <2>1, <3>1, <1>b
  <2>2. CASE cand[w] # {}
    <3>1. PICK j \in cand[w] :
            /\ cj' = [cj EXCEPT ![w] = j]
            /\ left' = [left EXCEPT ![w] = deps[j]]
            /\ Goto(w, IF deps[j] = {} THEN "setnx" ELSE "checkDeps")
      BY <1>2, <2>2 DEF Scan
    <3>2. pc[w] = "scan" /\ j \in Jobs
      BY <1>t, <1>2 DEF Scan
    <3>3. pc[Coord] = "done"
      BY <3>2 DEF DepsKept, WorkersWait
    <3>4. deps[j] = Deps[j]
      BY <3>2, <3>3 DEF DepsKept, DepsStored, Storing
    <3>5. cj'[w] = j /\ left'[w] = Deps[j]
          /\ pc'[w] = IF Deps[j] = {} THEN "setnx" ELSE "checkDeps"
      BY <1>t, <3>1, <3>4 DEF Goto
    <3>6. "checkDeps" \notin Ready
      BY DEF Ready, Holding
    <3> QED BY <3>5, <3>6 DEF Stands
  <2> QED BY <1>2, <2>1, <2>2 DEF Scan
<1>3. CASE CheckDep(w)
  <2>1. PICK d \in left[w] :
          \/ /\ d \in complete
             /\ left' = [left EXCEPT ![w] = @ \ {d}]
             /\ Goto(w, IF left[w] = {d} THEN "setnx" ELSE "checkDeps")
          \/ Goto(w, "scan")
    BY <1>3 DEF CheckDep
  <2>2. pc[w] = "checkDeps" /\ UNCHANGED <<cj, complete>>
    BY <1>3 DEF CheckDep, redis
  <2>3. Deps[cj[w]] \ left[w] \subseteq complete
    BY <1>t, <2>2 DEF Stands
  <2>4. CASE Goto(w, "scan")
    <3>1. "scan" \in Labels \ (Ready \cup {"checkDeps"})
      BY DEF Labels, Ready, Holding
    <3> QED BY <2>4, <3>1, <1>b
  <2>5. CASE /\ d \in complete
             /\ left' = [left EXCEPT ![w] = @ \ {d}]
             /\ Goto(w, IF left[w] = {d} THEN "setnx" ELSE "checkDeps")
    <3>1. left'[w] = left[w] \ {d}
          /\ pc'[w] = IF left[w] = {d} THEN "setnx" ELSE "checkDeps"
      BY <1>t, <2>5 DEF Goto
    <3>2. Deps[cj[w]] \ left'[w] \subseteq complete
      BY <2>3, <2>5, <3>1
    <3>3. left[w] = {d} => Deps[cj[w]] \subseteq complete
      BY <2>3, <2>5
    <3>4. "checkDeps" \notin Ready
      BY DEF Ready, Holding
    <3> QED BY <2>2, <3>1, <3>2, <3>3, <3>4 DEF Stands
  <2> QED BY <2>1, <2>4, <2>5
<1>4. CASE TryLock(w) \/ VerifyLock(w) \/ ExpireLock(w)
  <2>1. /\ pc[w] \in {"setnx", "getLock", "expire"}
        /\ \E n \in {"getLock", "idle", "scan", "expire", "loadClaim"} : Goto(w, n)
        /\ UNCHANGED cj
    BY <1>4 DEF TryLock, VerifyLock, ExpireLock, locals
  <2>2. {"setnx", "getLock", "expire"} \subseteq Ready
        /\ {"getLock", "idle", "scan", "expire", "loadClaim"} \subseteq Labels \ {"checkDeps"}
    BY DEF Ready, Holding, Labels
  <2> QED BY <2>1, <2>2, <1>a
<1>5. CASE \/ Load(w, "loadClaim", "storeClaim")
           \/ Store(w, "storeClaim", Claimed(w), NoJob, "loadSelf")
           \/ LoadWorker(w, "loadSelf", w, "storeSelf", "decPending")
           \/ StoreWorker(w, "storeSelf", w, wloc[w] \cup {cj[w]}, "decPending")
           \/ Count(w, "decPending", "pending", -1, "incProgress")
           \/ Count(w, "incProgress", "inProgress", 1, "working")
           \/ UpdateProgress(w) \/ BeginComplete(w) \/ BeginRelease(w)
  <2>1. /\ pc[w] \in {"loadClaim", "storeClaim", "loadSelf", "storeSelf", "decPending",
                       "incProgress", "working", "storeProgress"}
        /\ \E n \in {"storeClaim", "loadSelf", "storeSelf", "decPending", "incProgress",
                     "working", "storeProgress", "loadComplete", "loadRelease"} : Goto(w, n)
        /\ UNCHANGED cj
    BY <1>5 DEF Load, Store, LoadWorker, StoreWorker, Count, UpdateProgress,
                BeginComplete, BeginRelease, locals
  <2>2. {"loadClaim", "storeClaim", "loadSelf", "storeSelf", "decPending",
         "incProgress", "working", "storeProgress"} \subseteq Ready
    BY DEF Ready, Holding
  <2>3. {"storeClaim", "loadSelf", "storeSelf", "decPending", "incProgress", "working",
         "storeProgress", "loadComplete", "loadRelease"} \subseteq Labels \ {"checkDeps"}
    BY DEF Labels
  <2> QED BY <2>1, <2>2, <2>3, <1>a
<1>6. CASE CompleteJob(w)
  <2>1. CASE Dequeue(w)
    <3>1. "loadOwner" \in Labels \ (Ready \cup {"checkDeps"})
      BY DEF Labels, Ready, Holding
    <3> QED BY <2>1, <3>1, <1>b DEF Dequeue
  <2>2. CASE ~Dequeue(w)
    <3>1. /\ pc[w] \in {"loadComplete", "storeComplete", "unlock", "decProgress",
                         "count", "addComplete"}
          /\ \E n \in {"storeComplete", "unlock", "decProgress", "count", "addComplete",
                       "dequeue"} : Goto(w, n)
          /\ UNCHANGED cj
      BY <1>6, <2>2 DEF CompleteJob, Load, Store, Unlock, Count, AddComplete, locals
    <3>2. /\ {"loadComplete", "storeComplete", "unlock", "decProgress", "count",
              "addComplete"} \subseteq Ready
          /\ {"storeComplete", "unlock", "decProgress", "count", "addComplete", "dequeue"}
                \subseteq Labels \ {"checkDeps"}
      BY DEF Ready, Holding, Labels
    <3> QED BY <3>1, <3>2, <1>a
  <2> QED BY <2>1, <2>2
<1>7. CASE ReleaseJob(w)
  <2>1. CASE \/ Load(w, "loadRelease", "storeRelease")
             \/ Store(w, "storeRelease", Released(w), rec[w], "rezadd")
             \/ Requeue(w)
    <3>1. /\ pc[w] \in {"loadRelease", "storeRelease", "rezadd"}
          /\ \E n \in {"storeRelease", "rezadd", "unlockRelease"} : Goto(w, n)
          /\ UNCHANGED cj
      BY <2>1 DEF Load, Store, Requeue, locals
    <3>2. /\ {"loadRelease", "storeRelease", "rezadd"} \subseteq Ready
          /\ {"storeRelease", "rezadd", "unlockRelease"} \subseteq Labels \ {"checkDeps"}
      BY DEF Ready, Holding, Labels
    <3> QED BY <3>1, <3>2, <1>a
  <2>2. CASE \/ Unlock(w, "unlockRelease", "decRelease")
             \/ Count(w, "decRelease", "inProgress", -1, "incPending")
             \/ Count(w, "incPending", "pending", 1, "loadOwner")
    <3>1. \E n \in {"decRelease", "incPending", "loadOwner"} : Goto(w, n)
      BY <2>2 DEF Unlock, Count
    <3>2. {"decRelease", "incPending", "loadOwner"} \subseteq Labels \ (Ready \cup {"checkDeps"})
      BY DEF Ready, Holding, Labels
    <3> QED BY <3>1, <3>2, <1>b
  <2> QED BY <1>7, <2>1, <2>2 DEF ReleaseJob
<1>8. CASE ForgetClaim(w) \/ Abort(w)
  <2>1. \E n \in {"storeOwner", "idle"} : Goto(w, n)
    BY <1>t, <1>8 DEF ForgetClaim, LoadWorker, StoreWorker, Return, Abort
  <2>2. {"storeOwner", "idle"} \subseteq Labels \ (Ready \cup {"checkDeps"})
    BY DEF Ready, Holding, Labels
  <2> QED BY <2>1, <2>2, <1>b
<1> QED BY <1>t, <1>1, <1>2, <1>3, <1>4, <1>5, <1>6, <1>7, <1>8
        DEF ClientStep, WorkerStep, ClaimJob

\* A monitor only completes with failure, so it publishes nothing.
LEMMA MonitorStands ==
  ASSUME NEW L, DepsKept(L), NEW m \in Monitors, ClientStep(m)
  PROVE  ~ok'[m] /\ pc'[m] # "addComplete"
<1>t. /\ pc \in [Clients -> L] /\ ok \in [Clients -> BOOLEAN]
      /\ m \in Clients /\ m \notin Workers
      /\ ~ok[m] /\ pc[m] # "addComplete"
  BY ClientTypes DEF DepsKept, Typed, DepsChecked
<1> USE DEF Goto, locals
<1>1. CASE RequeueStaleJobs(m)
  BY <1>t, <1>1 DEF RequeueStaleJobs, PassStart, Inspect, RequeueNext
<1>2. CASE CompleteJob(m)
  BY <1>t, <1>2 DEF CompleteJob, Load, Store, Unlock, Count, AddComplete, Dequeue
<1>3. CASE ReleaseJob(m)
  BY <1>t, <1>3 DEF ReleaseJob, Load, Store, Unlock, Count, Requeue
<1>4. CASE ForgetClaim(m) \/ Abort(m)
  BY <1>t, <1>4 DEF ForgetClaim, LoadWorker, StoreWorker, Return, Abort
<1> QED BY <1>t, <1>1, <1>2, <1>3, <1>4 DEF ClientStep, MonitorStep

LEMMA ClientChecked ==
  ASSUME NEW L, DepsKept(L), ~EarlyStart, NEW c \in Workers \cup Monitors, ClientStep(c)
  PROVE  DepsChecked'
<1>1. c \in Clients /\ Alone(c) /\ complete \subseteq complete'
  BY ClientTypes, ClientAlone, CompleteGrows DEF DepsKept
<1>2. \A w \in Workers : Stands(w)'
  <2> TAKE w \in Workers
  <2>1. CASE w = c
    BY <2>1, WorkerStands
  <2>2. CASE w # c
    <3>1. Stands(w) /\ w \in Clients
      BY ClientTypes DEF DepsKept, DepsChecked, Stands
    <3> QED BY <1>1, <2>2, <3>1 DEF Alone, Stands
  <2> QED BY <2>1, <2>2
<1>3. \A m \in Monitors : ~ok'[m] /\ pc'[m] # "addComplete"
  <2> TAKE m \in Monitors
  <2>1. CASE m = c
    BY <2>1, MonitorStands
  <2>2. CASE m # c
    BY <1>1, <2>2, ClientTypes DEF Alone, DepsKept, DepsChecked
  <2> QED BY <2>1, <2>2
<1> QED BY <1>2, <1>3 DEF DepsChecked, Stands

\* A record is made active or completed by a client that has checked the
\* dependencies, and only such a client publishes.
LEMMA ClientWrites ==
  ASSUME NEW L, DepsKept(L), NEW c \in Workers \cup Monitors, ClientStep(c)
  PROVE  /\ \A j \in Jobs : \/ job'[j] = job[j]
                           \/ job'[j].st \in {"pending", "failed"}
                           \/ Deps[j] \subseteq complete
         /\ \A j \in complete' : j \in complete \/ Deps[j] \subseteq complete
<1>t. /\ c \in Clients /\ pc \in [Clients -> L] /\ cj \in [Clients -> Jobs]
      /\ job \in [Jobs -> JobRecord]
      /\ c \in Workers => (pc[c] \in Ready => Deps[cj[c]] \subseteq complete)
      /\ c \in Monitors => ~ok[c] /\ pc[c] # "addComplete"
  BY ClientTypes DEF DepsKept, Typed, DepsChecked
<1>a. CASE UNCHANGED <<job, complete>>
  BY <1>a
<1>b. ASSUME NEW l, NEW r, NEW k, NEW n, Store(c, l, r, k, n),
             r.st \in {"pending", "failed"} \/ (c \in Workers /\ l \in Ready)
      PROVE  /\ UNCHANGED complete
             /\ \A j \in Jobs : \/ job'[j] = job[j]
                              \/ job'[j].st \in {"pending", "failed"}
                              \/ Deps[j] \subseteq complete
  BY <1>t, <1>b DEF Store
<1>c. {"storeClaim", "storeProgress", "storeComplete", "addComplete"} \subseteq Ready
  BY DEF Ready, Holding
<1>1. CASE c \in Workers /\ ClaimJob(c)
  <2>1. CASE Store(c, "storeClaim", Claimed(c), NoJob, "loadSelf")
    BY <1>1, <2>1, <1>b, <1>c
  <2>2. CASE ~Store(c, "storeClaim", Claimed(c), NoJob, "loadSelf")
    BY <1>1, <2>2, <1>a DEF ClaimJob, ClaimStart, Scan, CheckDep, TryLock, VerifyLock,
       ExpireLock, Load, LoadWorker, StoreWorker, Count, redis
  <2> QED BY <2>1, <2>2
<1>2. CASE c \in Workers /\ (UpdateProgress(c) \/ BeginComplete(c) \/ BeginRelease(c))
  <2>1. CASE Store(c, "storeProgress", Checking(c), NoJob, "working")
    BY <1>2, <2>1, <1>b, <1>c
  <2>2. CASE ~Store(c, "storeProgress", Checking(c), NoJob, "working")
    BY <1>2, <2>2, <1>a DEF UpdateProgress, Load, BeginComplete, BeginRelease, redis
  <2> QED BY <2>1, <2>2
<1>3. CASE CompleteJob(c)
  <2>1. CASE Store(c, "storeComplete", Finished(c), rec[c], "unlock")
    <3>1. Finished(c).st = "failed" \/ c \in Workers
      BY <1>t DEF Finished
    <3> QED BY <2>1, <3>1, <1>b, <1>c
  <2>2. CASE AddComplete(c)
    <3>1. c \in Workers /\ pc[c] = "addComplete"
      BY <1>t, <2>2 DEF AddComplete
    <3>2. Deps[cj[c]] \subseteq complete
      BY <1>t, <1>c, <3>1
    <3> QED BY <2>2, <3>2 DEF AddComplete
  <2>3. CASE ~Store(c, "storeComplete", Finished(c), rec[c], "unlock") /\ ~AddComplete(c)
    BY <1>3, <2>3, <1>a DEF CompleteJob, Load, Unlock, Count, Dequeue, redis
  <2> QED BY <2>1, <2>2, <2>3
<1>4. CASE ReleaseJob(c)
  <2>1. CASE Store(c, "storeRelease", Released(c), rec[c], "rezadd")
    <3>1. Released(c).st = "pending"
      BY DEF Released
    <3> QED BY <2>1, <3>1, <1>b
  <2>2. CASE ~Store(c, "storeRelease", Released(c), rec[c], "rezadd")
    BY <1>4, <2>2, <1>a DEF ReleaseJob, Load, Unlock, Count, Requeue, redis
  <2> QED BY <2>1, <2>2
<1>5. CASE ForgetClaim(c) \/ Abort(c) \/ RequeueStaleJobs(c)
  BY <1>5, <1>a DEF ForgetClaim, LoadWorker, StoreWorker, Abort, RequeueStaleJobs,
     PassStart, Inspect, RequeueNext, redis
<1> QED BY <1>1, <1>2, <1>3, <1>4, <1>5 DEF ClientStep, WorkerStep, MonitorStep

LEMMA ClientDeps ==
  ASSUME NEW L, DepsKept(L), ~EarlyStart, NEW c \in Workers \cup Monitors, ClientStep(c)
  PROVE  WorkersWait' /\ DepsStored' /\ DepsChecked' /\ DepsRespected' /\ CompleteClosed'
<1>1. c \in Clients /\ c # Coord /\ Alone(c) /\ complete \subseteq complete'
  BY ClientTypes, ClientAlone, CompleteGrows DEF DepsKept
<1>2. WorkersWait'
  <2>1. pc'[Coord] = pc[Coord]
    BY <1>1, ClientTypes DEF Alone
  <2>2. CASE pc[Coord] = "done"
    BY <2>1, <2>2 DEF WorkersWait
  <2>3. CASE pc[Coord] # "done"
    <3>1. \A w \in Workers : pc[w] = "idle"
      BY <2>3 DEF DepsKept, WorkersWait
    <3>2. c \notin Workers
      BY <2>3, <3>1, ClientTypes DEF ClientStep, WorkerStep, ClaimJob, ClaimStart, Scan, CheckDep,
         TryLock, VerifyLock, ExpireLock, Load, Store, LoadWorker, StoreWorker, Count,
         UpdateProgress, BeginComplete, BeginRelease, CompleteJob, Unlock, AddComplete,
         Dequeue, ReleaseJob, Requeue, ForgetClaim, Abort, MonitorStep, RequeueStaleJobs,
         PassStart, Inspect, RequeueNext
    <3> QED BY <1>1, <3>1, <3>2, ClientTypes DEF Alone, WorkersWait
  <2> QED BY <2>2, <2>3
<1>3. DepsStored'
  BY <1>1, ClientTypes DEF Alone, DepsKept, DepsStored, Storing
<1>4. DepsRespected'
  BY <1>1, ClientWrites DEF DepsKept, DepsRespected, Active
<1>5. CompleteClosed'
  BY <1>1, ClientWrites DEF DepsKept, CompleteClosed
<1> QED BY <1>2, <1>3, <1>4, <1>5, ClientChecked

LEMMA DepsInvInit == Init => DepsInv
<1> SUFFICES ASSUME Init PROVE DepsInv
  OBVIOUS
<1>1. TypeOK
  BY InitType
<1>2. pc[Coord] = "module" /\ cand[Coord] = Jobs
      /\ \A c \in Workers \cup Monitors : pc[c] = "idle" /\ ok[c] = FALSE
  BY ClientTypes DEF Init
<1>3. WorkersWait /\ DepsStored
  BY <1>2, DistAssumption DEF Init, WorkersWait, DepsStored, Storing
<1>4. DepsChecked
  BY <1>2 DEF DepsChecked, Ready, Holding
<1>5. DepsRespected /\ CompleteClosed
  BY DEF Init, DepsRespected, CompleteClosed, NoJob, Active
<1> QED BY <1>1, <1>3, <1>4, <1>5 DEF DepsInv, DepsKept, TypeOK

LEMMA DepsStep ==
  ASSUME ~EarlyStart, NEW L, Typed(L)', DepsKept(L), [Next]_vars
  PROVE  DepsKept(L)'
<1>1. CASE InitializeJobs(Coord)
  BY <1>1, InitializeDeps, InitializeRest DEF DepsKept
<1>2. ASSUME NEW c \in Workers \cup Monitors, ClientStep(c) PROVE DepsKept(L)'
  BY <1>2, ClientDeps DEF DepsKept
<1>3. ASSUME NEW j \in Jobs, Expire(j) PROVE DepsKept(L)'
  BY <1>3 DEF Expire, locals, DepsKept, WorkersWait, DepsStored, Storing, DepsChecked,
              DepsRespected, CompleteClosed
<1>4. CASE UNCHANGED vars
  BY <1>4 DEF vars, redis, locals, DepsKept, WorkersWait, DepsStored, Storing, DepsChecked,
              DepsRespected, CompleteClosed
<1> QED BY <1>1, <1>2, <1>3, <1>4 DEF Next, ClientStep

LEMMA DepsInvStep ==
  ASSUME ~EarlyStart, TypeOK', DepsInv, [Next]_vars
  PROVE  DepsInv'
BY DepsStep DEF DepsInv, TypeOK

LEMMA SpecDeps ==
  ASSUME ~EarlyStart
  PROVE  Spec => []DepsInv
<1>1. TypeOK' /\ DepsInv /\ [Next]_vars => DepsInv'
  BY DepsInvStep
<1> QED BY DepsInvInit, <1>1, TypeCorrect, PTL DEF Spec

\* No module is claimed, checked or completed before all of its dependencies
\* are in the complete set: whatever the dependency graph and the clients, and
\* although monitors may release claims that are alive, locks may expire and
\* calls may be aborted anywhere.
THEOREM DependenciesRespected ==
  ASSUME ~EarlyStart
  PROVE  Spec => []DepsRespected
<1>1. DepsInv => DepsRespected
  BY DEF DepsInv, DepsKept
<1> QED BY <1>1, SpecDeps, PTL

\* Under the same assumption the complete set that completeJob publishes to is
\* closed under dependencies at every moment.
THEOREM PublishedIsClosed ==
  ASSUME ~EarlyStart
  PROVE  Spec => []CompleteClosed
<1>1. DepsInv => CompleteClosed
  BY DEF DepsInv, DepsKept
<1> QED BY <1>1, SpecDeps, PTL

-----------------------------------------------------------------------------
(* The four progress counters.  A command opens a gap between two of them, *)
(* closes one, or leaves the balance calm.                                 *)

\* What CountersConserved adds up, and what CompletedCounted counts.
Balance ==
  progress["pending"] + progress["inProgress"] + progress["completed"]
    + progress["failed"] + Cardinality(InGap) + dropped
Published == complete \cup {cj[c] : c \in {d \in Clients : pc[d] = "addComplete"}}

LEMMA CountsAreFinite ==
  ASSUME NEW L, Typed(L)
  PROVE  /\ IsFiniteSet(InGap) /\ Cardinality(InGap) \in Nat
         /\ IsFiniteSet(Published) /\ Cardinality(Published) \in Nat
         /\ Cardinality(Jobs) \in Nat
<1>1. InGap \subseteq Clients /\ Published \subseteq Jobs
  BY DEF InGap, Published, Typed
<1> QED BY <1>1, DistAssumption, FS_Subset, FS_CardinalityType

LEMMA CountsStayFinite ==
  ASSUME NEW L, Typed(L)'
  PROVE  Cardinality(InGap') \in Nat /\ Cardinality(Published') \in Nat
<1>1. InGap' \subseteq Clients /\ Published' \subseteq Jobs
  BY DEF InGap, Published, Typed
<1> QED BY <1>1, DistAssumption, FS_Subset, FS_CardinalityType

\* A client that enters a gap adds one to those between two counters; one that
\* leaves it takes one away.
LEMMA GapMoves ==
  ASSUME NEW L, Typed(L), Typed(L)', NEW c \in Clients, Alone(c)
  PROVE  /\ (pc[c] \in Gap <=> pc'[c] \in Gap) => InGap' = InGap
         /\ pc[c] \notin Gap /\ pc'[c] \in Gap => Cardinality(InGap') = Cardinality(InGap) + 1
         /\ pc[c] \in Gap /\ pc'[c] \notin Gap => Cardinality(InGap') = Cardinality(InGap) - 1
<1>1. \A d \in Clients \ {c} : d \in InGap <=> d \in InGap'
  BY DEF Alone, InGap
<1>2. InGap \subseteq Clients /\ InGap' \subseteq Clients
  BY DEF InGap
<1>3. (c \in InGap <=> pc[c] \in Gap) /\ (c \in InGap' <=> pc'[c] \in Gap)
  BY DEF InGap
<1>4. CASE pc[c] \in Gap <=> pc'[c] \in Gap
  BY <1>1, <1>2, <1>3, <1>4
<1>5. CASE pc[c] \notin Gap /\ pc'[c] \in Gap
  <2>1. InGap' = InGap \cup {c} /\ c \notin InGap
    BY <1>1, <1>2, <1>3, <1>5
  <2> QED BY <1>5, <2>1, CountsAreFinite, FS_AddElement
<1>6. CASE pc[c] \in Gap /\ pc'[c] \notin Gap
  <2>1. InGap' = InGap \ {c} /\ c \in InGap
    BY <1>1, <1>2, <1>3, <1>6
  <2> QED BY <1>6, <2>1, CountsAreFinite, FS_RemoveElement
<1> QED BY <1>4, <1>5, <1>6

\* What is published, or about to be, grows by what a call counts.
LEMMA PublishedGrows ==
  ASSUME NEW L, Typed(L), NEW c \in Clients, Alone(c),
         complete' \subseteq complete \cup (IF pc[c] = "addComplete" THEN {cj[c]} ELSE {})
  PROVE  /\ pc'[c] # "addComplete" => Published' \subseteq Published
         /\ cj'[c] = cj[c] => Published' \subseteq Published \cup {cj[c]}
<1>1. \A d \in Clients \ {c} : pc'[d] = pc[d] /\ cj'[d] = cj[d]
  BY DEF Alone
<1>2. complete' \subseteq Published
  BY DEF Published
<1>3. \A d \in Clients \ {c} : pc'[d] = "addComplete" => cj'[d] \in Published
  BY <1>1 DEF Published
<1>4. \A x \in Published' : x \in complete' \/ \E d \in Clients : pc'[d] = "addComplete" /\ x = cj'[d]
  BY DEF Published
<1> HIDE DEF Published
<1> QED BY <1>2, <1>3, <1>4

LEMMA OneMore ==
  ASSUME NEW S, IsFiniteSet(S), NEW T, NEW x, T \subseteq S \cup {x}
  PROVE  Cardinality(T) <= Cardinality(S) + 1
<1>0. Cardinality(S) \in Nat
  BY FS_CardinalityType
<1>1. IsFiniteSet(S \cup {x}) /\ Cardinality(S \cup {x}) <= Cardinality(S) + 1
  <2>1. /\ IsFiniteSet(S \cup {x})
        /\ Cardinality(S \cup {x}) = IF x \in S THEN Cardinality(S) ELSE Cardinality(S) + 1
    BY FS_AddElement
  <2> QED BY <1>0, <2>1
<1>2. T \in SUBSET (S \cup {x})
  OBVIOUS
<1>3. IsFiniteSet(T) /\ Cardinality(T) <= Cardinality(S \cup {x})
  BY <1>1, <1>2, FS_Subset
<1>4. Cardinality(T) \in Nat /\ Cardinality(S \cup {x}) \in Nat
  BY <1>1, <1>3, FS_CardinalityType
<1> QED BY <1>0, <1>1, <1>3, <1>4

\* A command that is no counter update and moves its client neither into a gap
\* nor out of one changes nothing that is counted; publishing what has been
\* counted is such a command.
Calm(c) ==
  /\ UNCHANGED <<progress, dropped>>
  /\ pc[c] \notin Gap /\ pc'[c] \notin Gap \cup {"addComplete"}
  /\ complete' \subseteq complete \cup (IF pc[c] = "addComplete" THEN {cj[c]} ELSE {})

Counted == Balance = Cardinality(Jobs) /\ progress["completed"] >= Cardinality(Published)

LEMMA CalmCounts ==
  ASSUME NEW L, Typed(L), Typed(L)', NEW c \in Clients, Alone(c), Calm(c), Counted
  PROVE  Counted'
<1>1. InGap' = InGap
  BY GapMoves DEF Calm
<1>2. Balance' = Balance
  BY <1>1 DEF Calm, Balance
<1>3. Published' \in SUBSET Published
  BY PublishedGrows DEF Calm
<1>4. Cardinality(Published') <= Cardinality(Published)
  BY <1>3, CountsAreFinite, FS_Subset
<1>5. Cardinality(Published') \in Nat /\ Cardinality(Published) \in Nat
  BY CountsAreFinite, CountsStayFinite
<1>6. progress'["completed"] = progress["completed"] /\ progress["completed"] \in Int
  BY DEF Calm, Typed, Counters
<1> QED BY <1>2, <1>4, <1>5, <1>6 DEF Counted

\* HINCRBY by -1 opens a gap, by 1 it closes one.
LEMMA CountCounts ==
  ASSUME NEW L, Typed(L), Typed(L)', NEW c \in Clients, Alone(c), Counted,
         NEW l, NEW f \in Counters \ {"total"}, NEW n \in {-1, 1}, NEW next,
         Count(c, l, f, n, next),
         n = -1 => l \notin Gap /\ next \in Gap /\ f # "completed",
         n = 1 => l \in Gap /\ next \notin Gap,
         next = "addComplete" => f = "completed" /\ n = 1
  PROVE  Counted'
<1>0. pc[c] = l /\ pc'[c] = next /\ dropped' = dropped /\ complete' = complete /\ cj' = cj
      /\ progress' = [progress EXCEPT ![f] = @ + n]
  BY DEF Count, Goto, Bump, locals, Typed
<1>1. progress \in [Counters -> Int] /\ dropped \in Nat
  BY DEF Typed
<1>2. /\ Cardinality(InGap) \in Nat /\ Cardinality(InGap') \in Nat
      /\ Cardinality(InGap') = Cardinality(InGap) - n
  BY <1>0, GapMoves, CountsAreFinite, CountsStayFinite
<1>3. Balance' = Balance
  BY <1>0, <1>1, <1>2 DEF Balance, Counters
<1>4. Cardinality(Published') \in Nat /\ Cardinality(Published) \in Nat
  BY CountsAreFinite, CountsStayFinite
<1>5. progress'["completed"] >= Cardinality(Published')
  <2>1. CASE next = "addComplete"
    <3>1. progress'["completed"] = progress["completed"] + 1
      BY <1>0, <1>1, <2>1 DEF Counters
    <3>2. Published' \subseteq Published \cup {cj[c]}
      BY <1>0, PublishedGrows
    <3>3. Cardinality(Published') <= Cardinality(Published) + 1
      BY <3>2, CountsAreFinite, OneMore
    <3> QED BY <1>1, <1>4, <3>1, <3>3 DEF Counted, Counters
  <2>2. CASE next # "addComplete"
    <3>1. progress'["completed"] >= progress["completed"]
      BY <1>0, <1>1 DEF Counters
    <3>2. Published' \in SUBSET Published
      BY <1>0, <2>2, PublishedGrows
    <3>3. Cardinality(Published') <= Cardinality(Published)
      BY <3>2, CountsAreFinite, FS_Subset
    <3>4. progress'["completed"] \in Int /\ progress["completed"] \in Int
      BY <1>0, <1>1 DEF Counters
    <3> QED BY <1>4, <3>1, <3>3, <3>4 DEF Counted
  <2> QED BY <2>1, <2>2
<1> QED BY <1>3, <1>5 DEF Counted

\* The six counter updates of the calls.
LEMMA UpdatesCount ==
  ASSUME NEW L, Typed(L), Typed(L)', NEW c \in Clients, Alone(c), Counted
  PROVE  /\ Count(c, "decPending", "pending", -1, "incProgress") => Counted'
         /\ Count(c, "incProgress", "inProgress", 1, "working") => Counted'
         /\ Count(c, "decProgress", "inProgress", -1, "count") => Counted'
         /\ Count(c, "count", "completed", 1, "addComplete") => Counted'
         /\ Count(c, "count", "failed", 1, "dequeue") => Counted'
         /\ Count(c, "decRelease", "inProgress", -1, "incPending") => Counted'
         /\ Count(c, "incPending", "pending", 1, "loadOwner") => Counted'
<1>1. \A f \in {"pending", "inProgress", "completed", "failed"} : f \in Counters \ {"total"}
  BY DEF Counters
<1>2. ASSUME NEW l \in {"decPending", "decProgress", "decRelease"},
             NEW f \in {"pending", "inProgress"}, NEW next \in Gap, Count(c, l, f, -1, next)
      PROVE  Counted'
  <2>1. l \notin Gap /\ next # "addComplete"
    BY DEF Gap
  <2> QED BY <1>1, <1>2, <2>1, CountCounts
<1>3. ASSUME NEW l \in Gap, NEW f \in {"pending", "inProgress", "completed", "failed"},
             NEW next \in {"working", "addComplete", "dequeue", "loadOwner"},
             Count(c, l, f, 1, next), next = "addComplete" => f = "completed"
      PROVE  Counted'
  <2>1. next \notin Gap
    BY DEF Gap
  <2> QED BY <1>1, <1>3, <2>1, CountCounts
<1> QED BY <1>2, <1>3 DEF Gap

LEMMA AbortCounts ==
  ASSUME NEW L, Typed(L), Typed(L)', NEW c \in Clients, Alone(c), Counted, Abort(c)
  PROVE  Counted'
<1>0. /\ pc'[c] = "idle" /\ complete' = complete /\ progress' = progress
      /\ dropped' = IF pc[c] \in Gap THEN dropped + 1 ELSE dropped
      /\ pc'[c] \notin Gap
  BY DEF Abort, Goto, redis, Typed, Gap
<1>1. progress \in [Counters -> Int] /\ dropped \in Nat
  BY DEF Typed
<1>2. /\ Cardinality(InGap) \in Nat /\ Cardinality(InGap') \in Nat
      /\ pc[c] \in Gap => Cardinality(InGap') = Cardinality(InGap) - 1
      /\ pc[c] \notin Gap => Cardinality(InGap') = Cardinality(InGap)
  BY <1>0, GapMoves, CountsAreFinite, CountsStayFinite
<1>3. Balance' = Balance
  BY <1>0, <1>1, <1>2 DEF Balance, Counters
<1>4. Published' \in SUBSET Published
  BY <1>0, PublishedGrows
<1>5. Cardinality(Published') <= Cardinality(Published)
  BY <1>4, CountsAreFinite, FS_Subset
<1>6. Cardinality(Published') \in Nat /\ Cardinality(Published) \in Nat
      /\ progress'["completed"] = progress["completed"] /\ progress["completed"] \in Int
  BY <1>0, <1>1, CountsAreFinite, CountsStayFinite DEF Counters
<1> QED BY <1>3, <1>5, <1>6 DEF Counted

LEMMA ClientCounts ==
  ASSUME NEW L, Typed(L), Typed(L)', NEW c \in Workers \cup Monitors, ClientStep(c), Counted
  PROVE  Counted'
<1>0. c \in Clients /\ Alone(c) /\ pc \in [Clients -> L]
  BY ClientTypes, ClientAlone DEF Typed
<1>1. SUFFICES Calm(c) \/ Counted'
  BY <1>0, CalmCounts
<1> USE <1>0 DEF Calm, Goto, Gap, redis, locals
<1>2. ASSUME ClaimJob(c) PROVE Calm(c) \/ Counted'
  <2>1. CASE ClaimStart(c) \/ Scan(c) \/ CheckDep(c)
    BY <2>1 DEF ClaimStart, Scan, CheckDep
  <2>2. CASE TryLock(c) \/ VerifyLock(c) \/ ExpireLock(c)
    BY <2>2 DEF TryLock, VerifyLock, ExpireLock
  <2>3. CASE Load(c, "loadClaim", "storeClaim")
    BY <2>3 DEF Load
  <2>4. CASE Store(c, "storeClaim", Claimed(c), NoJob, "loadSelf")
    BY <2>4 DEF Store
  <2>5. CASE LoadWorker(c, "loadSelf", c, "storeSelf", "decPending")
    BY <2>5 DEF LoadWorker
  <2>6. CASE StoreWorker(c, "storeSelf", c, wloc[c] \cup {cj[c]}, "decPending")
    BY <2>6 DEF StoreWorker
  <2>7. CASE Count(c, "decPending", "pending", -1, "incProgress")
    BY <2>7, UpdatesCount
  <2>8. CASE Count(c, "incProgress", "inProgress", 1, "working")
    BY <2>8, UpdatesCount
  <2> QED BY <1>2, <2>1, <2>2, <2>3, <2>4, <2>5, <2>6, <2>7, <2>8 DEF ClaimJob
<1>3. ASSUME UpdateProgress(c) \/ BeginComplete(c) \/ BeginRelease(c) PROVE Calm(c)
  BY <1>3 DEF UpdateProgress, Load, Store, BeginComplete, BeginRelease
<1>4. ASSUME CompleteJob(c) PROVE Calm(c) \/ Counted'
  <2>1. CASE Load(c, "loadComplete", "storeComplete")
    BY <2>1 DEF Load
  <2>2. CASE Store(c, "storeComplete", Finished(c), rec[c], "unlock")
    BY <2>2 DEF Store
  <2>3. CASE Unlock(c, "unlock", "decProgress")
    BY <2>3 DEF Unlock
  <2>4. CASE Count(c, "decProgress", "inProgress", -1, "count")
    BY <2>4, UpdatesCount
  <2>5. CASE Count(c, "count", "completed", 1, "addComplete")
    BY <2>5, UpdatesCount
  <2>6. CASE Count(c, "count", "failed", 1, "dequeue")
    BY <2>6, UpdatesCount
  <2>7. CASE AddComplete(c) \/ Dequeue(c)
    BY <2>7 DEF AddComplete, Dequeue
  <2> QED BY <1>4, <2>1, <2>2, <2>3, <2>4, <2>5, <2>6, <2>7 DEF CompleteJob
<1>5. ASSUME ReleaseJob(c) PROVE Calm(c) \/ Counted'
  <2>1. CASE Load(c, "loadRelease", "storeRelease")
    BY <2>1 DEF Load
  <2>2. CASE Store(c, "storeRelease", Released(c), rec[c], "rezadd")
    BY <2>2 DEF Store
  <2>3. CASE Requeue(c) \/ Unlock(c, "unlockRelease", "decRelease")
    BY <2>3 DEF Requeue, Unlock
  <2>4. CASE Count(c, "decRelease", "inProgress", -1, "incPending")
    BY <2>4, UpdatesCount
  <2>5. CASE Count(c, "incPending", "pending", 1, "loadOwner")
    BY <2>5, UpdatesCount
  <2> QED BY <1>5, <2>1, <2>2, <2>3, <2>4, <2>5 DEF ReleaseJob
<1>6. ASSUME ForgetClaim(c) PROVE Calm(c)
  BY <1>6 DEF ForgetClaim, LoadWorker, StoreWorker, Return
<1>7. ASSUME RequeueStaleJobs(c) PROVE Calm(c)
  BY <1>7 DEF RequeueStaleJobs, PassStart, Inspect, RequeueNext
<1>8. ASSUME Abort(c) PROVE Counted'
  BY <1>8, AbortCounts
<1> QED BY <1>2, <1>3, <1>4, <1>5, <1>6, <1>7, <1>8 DEF ClientStep, WorkerStep, MonitorStep

\* The inductive invariant, with labels L.
CountersKept(L) ==
  /\ Typed(L)
  /\ CountersStart(L)
  /\ pc[Coord] = "done" => Counted
CountersInv == CountersKept(Labels)

\* Before initializeJobs returns, workers wait and monitors find no claim.
LEMMA WaitingClient ==
  ASSUME ~EarlyStart, NEW L, Labels \subseteq L, Typed(L), CountersStart(L), pc[Coord] # "done",
         NEW c \in Workers \cup Monitors, ClientStep(c)
  PROVE  CountersStart(L)'
<1>0. /\ c \in Clients /\ c # Coord /\ Coord \in Clients /\ Alone(c)
      /\ pc \in [Clients -> L] /\ stale \in [Clients -> SUBSET [id : Jobs, retries : Nat]]
  BY ClientTypes, ClientAlone DEF Typed
<1>1. /\ pc[c] \in Resting /\ stale[c] = {}
      /\ \A j \in Jobs : job[j].st \notin Active
  BY <1>0 DEF CountersStart
<1>2. PassStart(c) \/ Inspect(c) \/ RequeueNext(c) \/ Abort(c)
  <2>1. ~ClaimJob(c) /\ ~UpdateProgress(c) /\ ~BeginComplete(c) /\ ~BeginRelease(c)
    BY <1>1 DEF Resting, ClaimJob, ClaimStart, Scan, CheckDep, TryLock, VerifyLock, ExpireLock, Load, Store,
       LoadWorker, StoreWorker, Count, UpdateProgress, BeginComplete, BeginRelease
  <2>2. ~CompleteJob(c) /\ ~ReleaseJob(c) /\ ~ForgetClaim(c)
    BY <1>1 DEF Resting, CompleteJob, ReleaseJob, ForgetClaim, Load, Store, Unlock, Count, AddComplete,
       Dequeue, Requeue, LoadWorker, StoreWorker
  <2> QED BY <2>1, <2>2 DEF ClientStep, WorkerStep, MonitorStep, RequeueStaleJobs
<1>3. /\ UNCHANGED <<job, complete, progress, dropped>>
      /\ pc'[c] \in {"idle", "inspect", "requeue"} /\ stale'[c] = {}
      /\ \A d \in Clients \ {c} : stale'[d] = stale[d]
  <2>1. CASE PassStart(c)
    BY <1>0, <2>1 DEF PassStart, Goto, redis
  <2>2. CASE Inspect(c)
    <3>1. stale' = stale
      BY <1>1, <2>2, <1>0 DEF Inspect, Typed
    <3> QED BY <1>0, <1>1, <2>2, <3>1 DEF Inspect, Goto, redis
  <2>3. CASE RequeueNext(c)
    BY <1>0, <1>1, <2>3 DEF RequeueNext, Goto, redis
  <2>4. CASE Abort(c)
    BY <1>0, <1>1, <2>4 DEF Abort, Goto, Gap, Resting, redis
  <2> QED BY <1>2, <2>1, <2>2, <2>3, <2>4
<1>4. \A d \in Clients \ {c} : pc'[d] = pc[d]
  BY <1>0 DEF Alone
<1>5. pc'[c] \in L \cap Resting
  BY <1>3 DEF Resting, Labels
<1> QED BY <1>0, <1>3, <1>4, <1>5, ClientTypes DEF CountersStart

LEMMA InitializeStart ==
  ASSUME NEW L, Labels \subseteq L, Typed(L), CountersStart(L), InitializeJobs(Coord)
  PROVE  CountersStart(L)'
<1>0. /\ Coord \in Clients /\ pc \in [Clients -> L] /\ progress \in [Counters -> Int]
      /\ job \in [Jobs -> JobRecord] /\ pc[Coord] # "done"
      /\ \A c \in Workers \cup Monitors : c \in Clients /\ c # Coord
  BY ClientTypes DEF Typed, InitializeJobs, PutJob, Enqueue, AddDep, ResetCounters, SetCounter
<1>1. /\ UNCHANGED <<complete, dropped, stale>>
      /\ \A c \in Workers \cup Monitors : pc'[c] = pc[c]
  BY <1>0 DEF InitializeJobs, PutJob, Enqueue, AddDep, ResetCounters, SetCounter, Goto, locals
<1>2. \A j \in Jobs : job'[j].st \notin Active
  BY <1>0 DEF InitializeJobs, PutJob, Enqueue, AddDep, ResetCounters, SetCounter,
     CountersStart, Active
<1>3. pc'[Coord] \in Initializing \cup {"done"}
  BY <1>0 DEF InitializeJobs, PutJob, Enqueue, AddDep, ResetCounters, SetCounter, Goto,
     Initializing
<1>4. \A f \in {"inProgress", "completed", "failed"} : progress'[f] = 0
  BY <1>0 DEF InitializeJobs, PutJob, Enqueue, AddDep, ResetCounters, SetCounter,
     CountersStart, Counters
<1>5. pc'[Coord] \in {"setInProgress", "setCompleted", "setFailed", "done"}
        => progress'["pending"] = Cardinality(Jobs)
  BY <1>0 DEF InitializeJobs, PutJob, Enqueue, AddDep, ResetCounters, SetCounter, Goto,
     CountersStart, Counters
<1> QED BY <1>0, <1>1, <1>2, <1>3, <1>4, <1>5 DEF CountersStart

\* When initializeJobs returns, the counters say that all modules are pending.
LEMMA InitializeCounts ==
  ASSUME NEW L, Labels \subseteq L, Typed(L), CountersStart(L), InitializeJobs(Coord), pc'[Coord] = "done"
  PROVE  Counted'
<1>0. /\ Coord \in Clients /\ pc \in [Clients -> L] /\ progress \in [Counters -> Int]
      /\ Clients = Workers \cup Monitors \cup {Coord}
      /\ \A c \in Workers \cup Monitors : c # Coord
  BY ClientTypes DEF Typed, Clients
<1>1. SetCounter(Coord, "setFailed", "failed", 0, "done")
  BY <1>0 DEF InitializeJobs, PutJob, Enqueue, AddDep, ResetCounters, SetCounter, Goto
<1>2. /\ progress'["pending"] = Cardinality(Jobs) /\ complete' = {} /\ dropped' = 0
      /\ progress'["inProgress"] = 0 /\ progress'["completed"] = 0 /\ progress'["failed"] = 0
  BY <1>0, <1>1 DEF SetCounter, CountersStart, Counters
<1>3. \A c \in Clients : pc'[c] \in Resting \cup {"done"}
  BY <1>0, <1>1 DEF SetCounter, CountersStart, Goto
<1>4. InGap' = {} /\ Published' = {}
  BY <1>2, <1>3 DEF InGap, Published, Gap, Resting
<1>5. Cardinality(InGap') = 0 /\ Cardinality(Published') = 0 /\ Cardinality(Jobs) \in Nat
  BY <1>4, FS_EmptySet, FS_CardinalityType, DistAssumption
<1>6. Balance' = Cardinality(Jobs)
  BY <1>2, <1>5 DEF Balance
<1> QED BY <1>2, <1>5, <1>6 DEF Counted

LEMMA CountersStep ==
  ASSUME ~EarlyStart, NEW L, Labels \subseteq L, Typed(L)', CountersKept(L), [Next]_vars
  PROVE  CountersKept(L)'
<1>1. CASE InitializeJobs(Coord)
  BY <1>1, InitializeStart, InitializeCounts DEF CountersKept
<1>2. ASSUME NEW c \in Workers \cup Monitors, ClientStep(c) PROVE CountersKept(L)'
  <2>1. pc'[Coord] = pc[Coord] /\ Coord \in Clients
    <3>1. c \in Clients /\ Alone(c) /\ Coord \in Clients \ {c}
      BY <1>2, ClientTypes, ClientAlone DEF CountersKept
    <3> QED BY <3>1 DEF Alone
  <2>2. CASE pc[Coord] = "done"
    BY <1>2, <2>1, <2>2, ClientCounts DEF CountersKept, CountersStart
  <2>3. CASE pc[Coord] # "done"
    BY <1>2, <2>1, <2>3, WaitingClient DEF CountersKept
  <2> QED BY <2>2, <2>3
<1>3. ASSUME NEW j \in Jobs, Expire(j) PROVE CountersKept(L)'
  BY <1>3 DEF Expire, locals, CountersKept, CountersStart, Counted, Balance, Published, InGap
<1>4. CASE UNCHANGED vars
  BY <1>4 DEF vars, redis, locals, CountersKept, CountersStart, Counted, Balance, Published, InGap
<1> QED BY <1>1, <1>2, <1>3, <1>4 DEF Next, ClientStep

LEMMA CountersInvStep ==
  ASSUME ~EarlyStart, TypeOK', CountersInv, [Next]_vars
  PROVE  CountersInv'
BY CountersStep DEF CountersInv, TypeOK

LEMMA CountersInvInit == Init => CountersInv
<1> SUFFICES ASSUME Init PROVE CountersInv
  OBVIOUS
<1>1. TypeOK
  BY InitType
<1>2. pc[Coord] = "module" /\ \A c \in Workers \cup Monitors : pc[c] = "idle" /\ stale[c] = {}
  BY ClientTypes DEF Init
<1>3. \A f \in {"inProgress", "completed", "failed"} : progress[f] = 0
  BY DEF Init, Counters
<1>4. \A j \in Jobs : job[j].st \notin Active
  BY DEF Init, NoJob, Active
<1> QED BY <1>1, <1>2, <1>3, <1>4 DEF CountersInv, CountersKept, CountersStart, Resting, Initializing, Labels, TypeOK, Init

LEMMA SpecCounters ==
  ASSUME ~EarlyStart
  PROVE  Spec => []CountersInv
<1>1. TypeOK' /\ CountersInv /\ [Next]_vars => CountersInv'
  BY CountersInvStep
<1> QED BY CountersInvInit, <1>1, TypeCorrect, PTL DEF Spec

\* Whatever clients do, and wherever calls are aborted, the four counters of
\* the queue add up to the number of modules, but for the calls that stand, or
\* were aborted, between a decrement and its increment.
THEOREM CountersAreConserved ==
  ASSUME ~EarlyStart
  PROVE  Spec => []CountersConserved
<1>1. CountersInv => CountersConserved
  BY DEF CountersInv, CountersKept, Counted, Balance, CountersConserved
<1> QED BY <1>1, SpecCounters, PTL

\* The counter of completions is never behind the complete set, although
\* modules are completed twice and calls are aborted between the two.
THEOREM CompletionsAreCounted ==
  ASSUME ~EarlyStart
  PROVE  Spec => []CompletedCounted
<1>1. CountersInv => CompletedCounted
  BY DEF CountersInv, CountersKept, Counted, Published, CompletedCounted
<1> QED BY <1>1, SpecCounters, PTL

-----------------------------------------------------------------------------
(* Proofs about undisturbed workers: the records tell who works on what,   *)
(* and claimJob, updateProgress, completeJob and releaseJob implement the  *)
(* lease of JobLease.                                                      *)

Orderly == Undisturbed /\ ~EarlyStart

\* The inductive invariant: dependencies, locks and records together.
ClaimInv == DepsInv /\ LockHeld /\ OwnRecord

\* The part of OwnRecord that is about worker w.
Owns(w) ==
  /\ pc[w] \in OnRecord => job[cj[w]].st \in Active /\ job[cj[w]].by = w
  /\ pc[w] \in {"storeProgress", "storeComplete", "storeRelease"} => rec[w] = job[cj[w]]
  /\ pc[w] \in {"decPending", "incProgress", "working", "storeProgress"}
       => cj[w] \in claimedJobs[w]
  /\ pc[w] \in Leaving => Owner(rec[w]) = w

\* What a worker's step leaves alone: the copies and the records of others.
LEMMA WorkerFrame ==
  ASSUME ClaimInv, NEW w \in Workers, ClientStep(w)
  PROVE  /\ \A v \in Workers \ {w} : rec'[v] = rec[v] /\ claimedJobs'[v] = claimedJobs[v]
         /\ \A j \in Jobs : job'[j] = job[j] \/ (j = cj[w] /\ pc[w] \in Holding)
<1>t. /\ pc \in [Clients -> Labels] /\ cj \in [Clients -> Jobs]
      /\ rec \in [Clients -> JobRecord] /\ job \in [Jobs -> JobRecord]
      /\ claimedJobs \in [Workers -> SUBSET Jobs]
      /\ w \in Clients /\ w \notin Monitors /\ Workers \subseteq Clients
      /\ pc[w] \in Leaving => Owner(rec[w]) = w
  BY ClientTypes DEF ClaimInv, DepsInv, DepsKept, TypeOK, Typed, OwnRecord
<1>1. \A v \in Workers \ {w} : rec'[v] = rec[v]
  <2>1. CASE ClaimJob(w)
    BY <1>t, <2>1 DEF ClaimJob, ClaimStart, Scan, CheckDep, TryLock, VerifyLock, ExpireLock,
       Load, Store, LoadWorker, StoreWorker, Count, locals
  <2>2. CASE UpdateProgress(w) \/ BeginComplete(w) \/ BeginRelease(w)
    BY <1>t, <2>2 DEF UpdateProgress, Load, Store, BeginComplete, BeginRelease, locals
  <2>3. CASE CompleteJob(w)
    BY <1>t, <2>3 DEF CompleteJob, Load, Store, Unlock, Count, AddComplete, Dequeue, locals
  <2>4. CASE ReleaseJob(w)
    BY <1>t, <2>4 DEF ReleaseJob, Load, Store, Unlock, Count, Requeue, locals
  <2>5. CASE ForgetClaim(w) \/ Abort(w)
    BY <1>t, <2>5 DEF ForgetClaim, LoadWorker, StoreWorker, Abort
  <2> QED BY <1>t, <2>1, <2>2, <2>3, <2>4, <2>5 DEF ClientStep, WorkerStep
<1>2. \A v \in Workers \ {w} : claimedJobs'[v] = claimedJobs[v]
  <2>1. CASE ClaimJob(w)
    BY <1>t, <2>1 DEF ClaimJob, ClaimStart, Scan, CheckDep, TryLock, VerifyLock, ExpireLock,
       Load, Store, LoadWorker, StoreWorker, Count, redis
  <2>2. CASE UpdateProgress(w) \/ BeginComplete(w) \/ BeginRelease(w)
    BY <2>2 DEF UpdateProgress, Load, Store, BeginComplete, BeginRelease, redis
  <2>3. CASE CompleteJob(w)
    BY <2>3 DEF CompleteJob, Load, Store, Unlock, Count, AddComplete, Dequeue, redis
  <2>4. CASE ReleaseJob(w)
    BY <2>4 DEF ReleaseJob, Load, Store, Unlock, Count, Requeue, redis
  <2>5. CASE ForgetClaim(w)
    <3>1. "loadOwner" \in Leaving /\ "storeOwner" \in Leaving
      BY DEF Leaving
    <3> QED BY <1>t, <2>5, <3>1 DEF ForgetClaim, LoadWorker, StoreWorker, redis
  <2>6. CASE Abort(w)
    BY <2>6 DEF Abort, redis
  <2> QED BY <1>t, <2>1, <2>2, <2>3, <2>4, <2>5, <2>6 DEF ClientStep, WorkerStep
<1>3. \A j \in Jobs : job'[j] = job[j] \/ (j = cj[w] /\ pc[w] \in Holding)
  <2>1. \A l \in {"storeClaim", "storeProgress", "storeComplete", "storeRelease"} : l \in Holding
    BY DEF Holding
  <2>2. CASE ClaimJob(w)
    BY <1>t, <2>1, <2>2 DEF ClaimJob, ClaimStart, Scan, CheckDep, TryLock, VerifyLock,
       ExpireLock, Load, Store, LoadWorker, StoreWorker, Count, redis
  <2>3. CASE UpdateProgress(w) \/ BeginComplete(w) \/ BeginRelease(w)
    BY <1>t, <2>1, <2>3 DEF UpdateProgress, Load, Store, BeginComplete, BeginRelease, redis
  <2>4. CASE CompleteJob(w)
    BY <1>t, <2>1, <2>4 DEF CompleteJob, Load, Store, Unlock, Count, AddComplete, Dequeue, redis
  <2>5. CASE ReleaseJob(w)
    BY <1>t, <2>1, <2>5 DEF ReleaseJob, Load, Store, Unlock, Count, Requeue, redis
  <2>6. CASE ForgetClaim(w) \/ Abort(w)
    BY <2>6 DEF ForgetClaim, LoadWorker, StoreWorker, Abort, redis
  <2> QED BY <1>t, <2>2, <2>3, <2>4, <2>5, <2>6 DEF ClientStep, WorkerStep
<1> QED BY <1>1, <1>2, <1>3

LEMMA OthersOwn ==
  ASSUME ClaimInv, NEW w \in Workers, ClientStep(w), NEW v \in Workers \ {w}
  PROVE  Owns(v)'
<1>1. Owns(v) /\ Alone(w) /\ v \in Clients /\ cj[v] \in Jobs
  BY ClientTypes, ClientAlone DEF ClaimInv, DepsInv, DepsKept, OwnRecord, Owns, TypeOK, Typed
<1>2. pc[v] \in OnRecord => job'[cj[v]] = job[cj[v]]
  <2>1. pc[v] \in OnRecord => pc[v] \in Holding
    BY DEF OnRecord, Holding
  <2>2. pc[v] \in Holding /\ pc[w] \in Holding => cj[v] # cj[w]
    BY ClientTypes DEF ClaimInv, LockHeld
  <2> QED BY <1>1, <2>1, <2>2, WorkerFrame
<1>3. {"storeProgress", "storeComplete", "storeRelease"} \subseteq OnRecord
  BY DEF OnRecord
<1>4. pc'[v] = pc[v] /\ cj'[v] = cj[v] /\ rec'[v] = rec[v] /\ claimedJobs'[v] = claimedJobs[v]
  BY <1>1, WorkerFrame DEF Alone
<1> QED BY <1>1, <1>2, <1>3, <1>4 DEF Owns, Owner

\* Labels about which OwnRecord says nothing.
Silent == Labels \ (OnRecord \cup Leaving \cup {"decPending", "incProgress", "working"})

LEMMA SelfOwns ==
  ASSUME ClaimInv, Orderly, NEW w \in Workers, ClientStep(w)
  PROVE  Owns(w)'
<1>t. /\ pc \in [Clients -> Labels] /\ cj \in [Clients -> Jobs]
      /\ rec \in [Clients -> JobRecord] /\ job \in [Jobs -> JobRecord]
      /\ claimedJobs \in [Workers -> SUBSET Jobs] /\ wloc \in [Clients -> SUBSET Jobs]
      /\ w \in Clients /\ w # Nobody /\ w \notin Monitors /\ Owns(w)
      /\ Monitors = {} /\ cj[w] \in Jobs
  BY ClientTypes DEF ClaimInv, DepsInv, DepsKept, TypeOK, Typed, OwnRecord, Owns, Orderly, Undisturbed
<1>s. ASSUME NEW n \in Silent, Goto(w, n)
      PROVE  Owns(w)'
  BY <1>t, <1>s DEF Owns, Goto, Silent, OnRecord, Leaving
<1>o. OnRecord \cap Leaving = {}
      /\ {"storeProgress", "storeComplete", "storeRelease", "working"} \subseteq OnRecord
      /\ {"decPending", "incProgress"} \subseteq OnRecord
  BY DEF OnRecord, Leaving
<1>1. CASE ClaimStart(w) \/ Scan(w) \/ CheckDep(w) \/ TryLock(w) \/ VerifyLock(w)
           \/ ExpireLock(w) \/ Load(w, "loadClaim", "storeClaim") \/ Abort(w)
  <2>1. \E n \in {"idle", "scan", "setnx", "checkDeps", "getLock", "expire", "loadClaim",
                  "storeClaim"} : Goto(w, n)
    BY <1>1 DEF ClaimStart, Scan, CheckDep, TryLock, VerifyLock, ExpireLock, Load, Abort
  <2>2. {"idle", "scan", "setnx", "checkDeps", "getLock", "expire", "loadClaim",
         "storeClaim"} \subseteq Silent
    BY DEF Silent, Labels, OnRecord, Leaving
  <2> QED BY <2>1, <2>2, <1>s
<1>2. CASE Store(w, "storeClaim", Claimed(w), NoJob, "loadSelf")
  <2>1. pc'[w] = "loadSelf" /\ cj' = cj /\ job'[cj[w]] = Claimed(w)
    BY <1>t, <1>2 DEF Store, Goto
  <2>2. "loadSelf" \notin Leaving
    BY DEF Leaving
  <2> QED BY <2>1, <2>2 DEF Owns, Claimed, Active
<1>3. CASE \/ LoadWorker(w, "loadSelf", w, "storeSelf", "decPending")
           \/ StoreWorker(w, "storeSelf", w, wloc[w] \cup {cj[w]}, "decPending")
           \/ Count(w, "decPending", "pending", -1, "incProgress")
           \/ Count(w, "incProgress", "inProgress", 1, "working")
  <2>1. /\ UNCHANGED <<cj, job>>
        /\ pc[w] \in {"loadSelf", "storeSelf", "decPending", "incProgress"}
        /\ pc'[w] \in {"storeSelf", "decPending", "incProgress", "working"}
    BY <1>t, <1>3 DEF LoadWorker, StoreWorker, Count, Goto, redis, locals
  <2>2. pc'[w] \in {"decPending", "incProgress", "working"} => cj[w] \in claimedJobs'[w]
    BY <1>t, <1>3 DEF LoadWorker, StoreWorker, Count, Goto, redis, locals, Owns
  <2>3. {"loadSelf", "storeSelf", "decPending", "incProgress"} \subseteq OnRecord
        /\ {"storeSelf", "decPending", "incProgress", "working"} \cap Leaving = {}
    BY DEF OnRecord, Leaving
  <2> QED BY <1>t, <2>1, <2>2, <2>3 DEF Owns
<1>4. CASE Load(w, "working", "storeProgress") \/ Load(w, "loadComplete", "storeComplete")
           \/ Load(w, "loadRelease", "storeRelease")
  <2>1. /\ UNCHANGED <<cj, job, claimedJobs>>
        /\ pc[w] \in {"working", "loadComplete", "loadRelease"}
        /\ pc'[w] \in {"storeProgress", "storeComplete", "storeRelease"}
        /\ pc'[w] = "storeProgress" => pc[w] = "working"
        /\ rec'[w] = job[cj[w]]
    BY <1>t, <1>4 DEF Load, Goto, redis
  <2>2. {"working", "loadComplete", "loadRelease"} \subseteq OnRecord
        /\ {"storeProgress", "storeComplete", "storeRelease"} \cap Leaving = {}
    BY DEF OnRecord, Leaving
  <2> QED BY <1>t, <2>1, <2>2 DEF Owns
<1>5. CASE UpdateProgress(w) /\ ~Load(w, "working", "storeProgress")
  <2>1. /\ pc[w] = "storeProgress" /\ pc'[w] = "working"
        /\ UNCHANGED <<cj, claimedJobs>>
        /\ job'[cj[w]] = job[cj[w]] \/ job'[cj[w]] = Checking(w)
    BY <1>t, <1>5 DEF UpdateProgress, Store, Goto, redis
  <2>2. rec[w].by = w /\ "working" \notin Leaving
    BY <1>t, <1>o, <2>1 DEF Owns, Leaving
  <2> QED BY <1>t, <1>o, <2>1, <2>2 DEF Owns, Checking, Active
<1>6. CASE BeginComplete(w) \/ BeginRelease(w)
  <2>1. /\ pc[w] = "working" /\ pc'[w] \in {"loadComplete", "loadRelease"}
        /\ UNCHANGED <<cj, job>>
    BY <1>t, <1>6 DEF BeginComplete, BeginRelease, Goto, redis, locals
  <2>2. {"loadComplete", "loadRelease"} \cap Leaving = {}
    BY DEF Leaving
  <2> QED BY <1>t, <1>o, <2>1, <2>2 DEF Owns
<1>7. CASE \/ Store(w, "storeComplete", Finished(w), rec[w], "unlock")
           \/ Store(w, "storeRelease", Released(w), rec[w], "rezadd")
  <2>1. /\ pc[w] \in {"storeComplete", "storeRelease"} /\ pc'[w] \in {"unlock", "rezadd"}
        /\ rec'[w] = rec[w]
    BY <1>t, <1>7 DEF Store, Goto
  <2>2. Owner(rec[w]) = w
    BY <1>t, <1>o, <2>1 DEF Owns, Owner
  <2>3. {"unlock", "rezadd"} \cap OnRecord = {}
    BY DEF OnRecord
  <2> QED BY <1>o, <2>1, <2>2, <2>3 DEF Owns, Owner
<1>8. CASE \/ CompleteJob(w) /\ ~Load(w, "loadComplete", "storeComplete")
              /\ ~Store(w, "storeComplete", Finished(w), rec[w], "unlock")
           \/ ReleaseJob(w) /\ ~Load(w, "loadRelease", "storeRelease")
              /\ ~Store(w, "storeRelease", Released(w), rec[w], "rezadd")
  <2>1. /\ pc[w] \in Leaving /\ rec' = rec
        /\ pc'[w] \in {"decProgress", "count", "addComplete", "dequeue", "loadOwner",
                      "unlockRelease", "decRelease", "incPending"}
    BY <1>t, <1>8 DEF CompleteJob, ReleaseJob, Unlock, Count, AddComplete, Dequeue, Requeue,
       Goto, locals, Leaving
  <2>2. {"decProgress", "count", "addComplete", "dequeue", "loadOwner", "unlockRelease",
         "decRelease", "incPending"} \cap OnRecord = {}
    BY DEF OnRecord
  <2> QED BY <1>t, <1>o, <2>1, <2>2 DEF Owns, Owner
<1>9. CASE ForgetClaim(w)
  <2>1. CASE LoadWorker(w, "loadOwner", Owner(rec[w]), "storeOwner", Return(w))
    <3>1. pc[w] = "loadOwner" /\ "loadOwner" \in Leaving
      BY <2>1 DEF LoadWorker, Leaving
    <3>2. Owner(rec[w]) = w
      BY <1>t, <3>1 DEF Owns
    <3>3. pc'[w] = "storeOwner" /\ rec' = rec /\ "storeOwner" \notin OnRecord
      BY <1>t, <2>1, <3>2 DEF LoadWorker, Goto, OnRecord
    <3> QED BY <1>o, <3>2, <3>3 DEF Owns, Owner
  <2>2. CASE StoreWorker(w, "storeOwner", Owner(rec[w]), wloc[w] \ {cj[w]}, Return(w))
    <3>1. Goto(w, "idle") /\ "idle" \in Silent
      BY <1>t, <2>2 DEF StoreWorker, Return, Silent, Labels, OnRecord, Leaving
    <3> QED BY <3>1, <1>s
  <2> QED BY <1>9, <2>1, <2>2 DEF ForgetClaim
<1> QED BY <1>t, <1>1, <1>2, <1>3, <1>4, <1>5, <1>6, <1>7, <1>8, <1>9
        DEF ClientStep, WorkerStep, ClaimJob, UpdateProgress, CompleteJob, ReleaseJob

LEMMA InitializeOwn ==
  ASSUME ClaimInv, InitializeJobs(Coord)
  PROVE  OwnRecord'
<1>1. pc[Coord] # "done"
  BY DEF InitializeJobs, PutJob, Enqueue, AddDep, ResetCounters, SetCounter
<1>2. \A w \in Workers : pc'[w] = "idle"
  BY <1>1, ClientTypes DEF InitializeJobs, PutJob, Enqueue, AddDep, ResetCounters, SetCounter,
     Goto, ClaimInv, DepsInv, DepsKept, TypeOK, Typed, WorkersWait
<1> QED BY <1>2 DEF OwnRecord, OnRecord, Leaving

LEMMA ClaimInvInit == Init => ClaimInv
<1> SUFFICES ASSUME Init PROVE ClaimInv
  OBVIOUS
<1>1. \A w \in Workers : pc[w] = "idle"
  BY ClientTypes DEF Init
<1> QED BY <1>1, DepsInvInit DEF ClaimInv, LockHeld, Holding, OwnRecord, OnRecord, Leaving

LEMMA ClaimInvStep ==
  ASSUME Orderly, TypeOK', ClaimInv, [Next]_vars
  PROVE  ClaimInv'
<1>1. DepsInv' /\ LockHeld'
  <2>1. TypeOK /\ DepsInv /\ LockHeld
    BY DEF ClaimInv, DepsInv, DepsKept, TypeOK
  <2> QED BY <2>1, DepsInvStep, LockHeldStep DEF Orderly
<1>2. OwnRecord'
  <2>1. CASE InitializeJobs(Coord)
    BY <2>1, InitializeOwn
  <2>2. ASSUME NEW w \in Workers, ClientStep(w) PROVE OwnRecord'
    <3>1. \A v \in Workers : Owns(v)'
      BY <2>2, SelfOwns, OthersOwn
    <3> QED BY <3>1 DEF OwnRecord, Owns
  <2>3. CASE UNCHANGED vars
    BY <2>3 DEF vars, redis, locals, ClaimInv, OwnRecord, Owner
  <2> QED BY <2>1, <2>2, <2>3 DEF Next, ClientStep, Orderly, Undisturbed, Expire
<1> QED BY <1>1, <1>2 DEF ClaimInv

\* While workers check modules undisturbed, the record of a module names the
\* worker that holds it, from the claim to the write that ends it, through any
\* number of progress reports, and the worker's own record lists the module.
THEOREM HolderStaysOnRecord ==
  ASSUME Orderly
  PROVE  Spec => []HolderOnRecord
<1>1. TypeOK' /\ ClaimInv /\ [Next]_vars => ClaimInv'
  BY ClaimInvStep
<1>2. ClaimInv => HolderOnRecord
  BY DEF ClaimInv, OwnRecord, HolderOnRecord
<1> QED BY ClaimInvInit, <1>1, <1>2, TypeCorrect, PTL DEF Spec

-----------------------------------------------------------------------------
(* The lease.                                                              *)

\* A module is published by a call that was asked to report success.
PublishesSuccess == \A w \in Workers : pc[w] = "addComplete" => ok[w]

\* Lease results that are on their way to the complete set.
Passed == {<<w, cj[w]>> : w \in Publishing}

LEMMA PublishesSuccessStep ==
  ASSUME ClaimInv, Orderly, PublishesSuccess, [Next]_vars
  PROVE  PublishesSuccess'
<1>t. pc \in [Clients -> Labels] /\ ok \in [Clients -> BOOLEAN]
      /\ Workers \subseteq Clients /\ Coord \notin Workers /\ Coord \in Clients
  BY ClientTypes DEF ClaimInv, DepsInv, DepsKept, TypeOK, Typed
<1> USE DEF Goto, locals
<1>1. CASE InitializeJobs(Coord)
  BY <1>t, <1>1 DEF InitializeJobs, PutJob, Enqueue, AddDep, ResetCounters, SetCounter,
     PublishesSuccess
<1>2. ASSUME NEW w \in Workers, ClientStep(w) PROVE PublishesSuccess'
  <2>1. Alone(w) /\ w \in Clients
    BY <1>t, <1>2, ClientAlone DEF ClaimInv, DepsInv, DepsKept
  <2>2. pc'[w] = "addComplete" => ok'[w]
    <3>1. CASE ClaimJob(w) \/ UpdateProgress(w) \/ BeginComplete(w) \/ BeginRelease(w)
      <4>1. pc'[w] # "addComplete"
        BY <1>t, <2>1, <3>1 DEF ClaimJob, ClaimStart, Scan, CheckDep, TryLock, VerifyLock,
           ExpireLock, Load, Store, LoadWorker, StoreWorker, Count, UpdateProgress,
           BeginComplete, BeginRelease
      <4> QED BY <4>1
    <3>2. CASE CompleteJob(w)
      BY <1>t, <2>1, <3>2 DEF CompleteJob, Load, Store, Unlock, Count, AddComplete, Dequeue
    <3>3. CASE ReleaseJob(w) \/ ForgetClaim(w) \/ Abort(w)
      <4>1. pc'[w] # "addComplete"
        BY <1>t, <2>1, <3>3 DEF ReleaseJob, Load, Store, Requeue, Unlock, Count, ForgetClaim,
           LoadWorker, StoreWorker, Return, Abort
      <4> QED BY <4>1
    <3> QED BY <1>2, <3>1, <3>2, <3>3, ClientTypes DEF ClientStep, WorkerStep
  <2> QED BY <1>t, <2>1, <2>2 DEF Alone, PublishesSuccess
<1>3. CASE UNCHANGED vars
  BY <1>3 DEF vars, PublishesSuccess
<1> QED BY <1>1, <1>2, <1>3 DEF Next, ClientStep, Orderly, Undisturbed, Expire

-----------------------------------------------------------------------------
(* Each step of a worker is a step of the lease, or none.                  *)

LEMMA Stutters ==
  ASSUME NEW w \in Workers, Alone(w), Workers \subseteq Clients, UNCHANGED <<lock, complete>>,
         w \in Publishing <=> w \in Publishing',
         w \in Publishing => cj'[w] = cj[w]
  PROVE  UNCHANGED <<lock, Passed, complete>>
<1>1. \A v \in Workers : (v \in Publishing <=> v \in Publishing')
                         /\ (v \in Publishing => cj'[v] = cj[v])
  BY DEF Alone, Publishing
<1>2. Publishing \subseteq Workers /\ Publishing' \subseteq Workers
  BY DEF Publishing
<1> QED BY <1>1, <1>2 DEF Passed

\* A worker that is about to publish, and its result.
LEMMA PassedChange ==
  ASSUME NEW w \in Workers, Alone(w), Workers \subseteq Clients, UNCHANGED cj
  PROVE  /\ w \notin Publishing /\ w \in Publishing' => Passed' = Passed \cup {<<w, cj[w]>>}
         /\ w \in Publishing /\ w \notin Publishing' => Passed' = Passed \ {<<w, cj[w]>>}
<1>1. \A v \in Workers \ {w} : v \in Publishing <=> v \in Publishing'
  BY DEF Alone, Publishing
<1>2. Publishing \subseteq Workers /\ Publishing' \subseteq Workers
  BY DEF Publishing
<1> QED BY <1>1, <1>2 DEF Passed

LEMMA LeaseStep ==
  ASSUME ClaimInv, Orderly, PublishesSuccess, NEW w \in Workers, ClientStep(w)
  PROVE  \/ \E j \in Jobs : \/ Lease!Acquire(w, j) \/ Lease!GiveUp(w, j)
                            \/ Lease!Pass(w, j) \/ Lease!Publish(w, j) \/ Lease!Lose(w, j)
         \/ UNCHANGED <<lock, Passed, complete>>
<1>t. /\ pc \in [Clients -> Labels] /\ ok \in [Clients -> BOOLEAN]
      /\ cj[w] \in Jobs /\ w \in Clients /\ Workers \subseteq Clients
      /\ lock \in [Jobs -> Workers \cup {Nobody}]
      /\ Alone(w) /\ w \notin Monitors
      /\ pc[w] \in Holding => lock[cj[w]] = w
  BY ClientTypes, ClientAlone DEF ClaimInv, DepsInv, DepsKept, TypeOK, Typed, LockHeld
<1> USE DEF Goto
<1>n. ASSUME UNCHANGED <<lock, complete>>,
             pc[w] \notin {"decProgress", "count", "addComplete"},
             pc'[w] \notin {"decProgress", "count", "addComplete"}
      PROVE  UNCHANGED <<lock, Passed, complete>>
  BY <1>t, <1>n, Stutters DEF Publishing
<1>1. CASE TryLock(w)
  <2>1. CASE lock[cj[w]] = Nobody
    <3>1. Deps[cj[w]] \subseteq complete
      BY <1>1 DEF TryLock, ClaimInv, DepsInv, DepsKept, DepsChecked, Ready
    <3>2. lock' = [lock EXCEPT ![cj[w]] = w] /\ UNCHANGED <<complete, cj>>
      BY <1>1, <2>1 DEF TryLock
    <3>3. w \notin Publishing /\ w \notin Publishing'
      BY <1>t, <1>1 DEF TryLock, Publishing
    <3>4. Passed' = Passed
      <4>1. \A v \in Workers : v \in Publishing <=> v \in Publishing'
        BY <1>t, <3>3 DEF Alone, Publishing
      <4>2. Publishing \subseteq Workers /\ Publishing' \subseteq Workers
        BY DEF Publishing
      <4> QED BY <3>2, <4>1, <4>2 DEF Passed
    <3>5. Lease!Acquire(w, cj[w])
      BY <2>1, <3>1, <3>2, <3>4 DEF Lease!Acquire, Passed
    <3> QED BY <1>t, <3>5
  <2>2. CASE lock[cj[w]] # Nobody
    BY <1>t, <1>1, <2>2, <1>n DEF TryLock
  <2> QED BY <2>1, <2>2
<1>2. CASE \/ ClaimStart(w) \/ Scan(w) \/ CheckDep(w) \/ VerifyLock(w) \/ ExpireLock(w)
           \/ Load(w, "loadClaim", "storeClaim")
           \/ Store(w, "storeClaim", Claimed(w), NoJob, "loadSelf")
  BY <1>t, <1>2, <1>n DEF ClaimStart, Scan, CheckDep, VerifyLock, ExpireLock, Load, Store, redis
<1>3. CASE \/ LoadWorker(w, "loadSelf", w, "storeSelf", "decPending")
           \/ StoreWorker(w, "storeSelf", w, wloc[w] \cup {cj[w]}, "decPending")
           \/ Count(w, "decPending", "pending", -1, "incProgress")
           \/ Count(w, "incProgress", "inProgress", 1, "working")
           \/ UpdateProgress(w) \/ BeginComplete(w) \/ BeginRelease(w) \/ ForgetClaim(w)
  BY <1>t, <1>3, <1>n DEF LoadWorker, StoreWorker, Count, UpdateProgress, Load, Store,
     BeginComplete, BeginRelease, ForgetClaim, Return, redis
<1>4. CASE Unlock(w, "unlock", "decProgress")
  <2>1. lock[cj[w]] = w /\ lock' = [lock EXCEPT ![cj[w]] = Nobody]
        /\ UNCHANGED <<complete, cj, ok>>
    BY <1>t, <1>4 DEF Unlock, Holding, locals
  <2>2. w \notin Publishing /\ (w \in Publishing' <=> ok[w])
    BY <1>t, <1>4, <2>1 DEF Unlock, Publishing
  <2>3. CASE ok[w]
    BY <1>t, <2>1, <2>2, <2>3, PassedChange DEF Lease!Pass, Passed
  <2>4. CASE ~ok[w]
    <3>1. Passed' = Passed
      <4>1. \A v \in Workers : v \in Publishing <=> v \in Publishing'
        BY <1>t, <2>2, <2>4 DEF Alone, Publishing
      <4>2. Publishing \subseteq Workers /\ Publishing' \subseteq Workers
        BY DEF Publishing
      <4> QED BY <2>1, <4>1, <4>2 DEF Passed
    <3> QED BY <1>t, <2>1, <3>1 DEF Lease!GiveUp, Passed
  <2> QED BY <2>3, <2>4
<1>5. CASE Unlock(w, "unlockRelease", "decRelease")
  <2>1. lock[cj[w]] = w /\ lock' = [lock EXCEPT ![cj[w]] = Nobody]
        /\ UNCHANGED <<complete, cj, ok>>
    BY <1>t, <1>5 DEF Unlock, Holding, locals
  <2>2. w \notin Publishing /\ w \notin Publishing'
    BY <1>t, <1>5 DEF Unlock, Publishing
  <2>3. Passed' = Passed
    <3>1. \A v \in Workers : v \in Publishing <=> v \in Publishing'
      BY <1>t, <2>2 DEF Alone, Publishing
    <3>2. Publishing \subseteq Workers /\ Publishing' \subseteq Workers
      BY DEF Publishing
    <3> QED BY <2>1, <3>1, <3>2 DEF Passed
  <2> QED BY <1>t, <2>1, <2>3 DEF Lease!GiveUp, Passed
<1>6. CASE \/ Count(w, "decProgress", "inProgress", -1, "count")
           \/ ok[w] /\ Count(w, "count", "completed", 1, "addComplete")
           \/ ~ok[w] /\ Count(w, "count", "failed", 1, "dequeue")
  <2>1. UNCHANGED <<lock, complete, cj, ok>>
    BY <1>6 DEF Count, locals
  <2>2. w \in Publishing <=> w \in Publishing'
    BY <1>t, <1>6, <2>1 DEF Count, Publishing
  <2> QED BY <1>t, <2>1, <2>2, Stutters
<1>7. CASE AddComplete(w)
  <2>1. complete' = complete \cup {cj[w]} /\ UNCHANGED <<lock, cj, ok>>
    BY <1>7 DEF AddComplete, locals
  <2>2. w \in Publishing /\ w \notin Publishing'
    BY <1>t, <1>7 DEF AddComplete, PublishesSuccess, Publishing
  <2>3. <<w, cj[w]>> \in Passed
    BY <2>2 DEF Passed
  <2> QED BY <1>t, <2>1, <2>2, <2>3, PassedChange DEF Lease!Publish, Passed
<1>8. CASE \/ Load(w, "loadComplete", "storeComplete")
           \/ Store(w, "storeComplete", Finished(w), rec[w], "unlock")
           \/ Dequeue(w)
           \/ Load(w, "loadRelease", "storeRelease")
           \/ Store(w, "storeRelease", Released(w), rec[w], "rezadd")
           \/ Requeue(w)
  BY <1>t, <1>8, <1>n DEF Load, Store, Dequeue, Requeue, redis
<1>9. CASE \/ Count(w, "decRelease", "inProgress", -1, "incPending")
           \/ Count(w, "incPending", "pending", 1, "loadOwner")
  BY <1>t, <1>9, <1>n DEF Count
<1>10. CASE Abort(w)
  <2>1. UNCHANGED <<lock, complete, cj>> /\ pc'[w] = "idle"
    BY <1>t, <1>10 DEF Abort, redis
  <2>2. w \notin Publishing'
    BY <2>1 DEF Publishing
  <2>3. CASE w \in Publishing
    <3>1. <<w, cj[w]>> \in Passed
      BY <2>3 DEF Passed
    <3> QED BY <1>t, <2>1, <2>2, <2>3, <3>1, PassedChange DEF Lease!Lose, Passed
  <2>4. CASE w \notin Publishing
    BY <1>t, <2>1, <2>2, <2>4, Stutters
  <2> QED BY <2>3, <2>4
<1> QED BY <1>t, <1>1, <1>2, <1>3, <1>4, <1>5, <1>6, <1>7, <1>8, <1>9, <1>10
        DEF ClientStep, WorkerStep, ClaimJob, CompleteJob, ReleaseJob

\* Workers that nobody disturbs get leases and publish results exactly as
\* JobLease allows: one holder at a time, only after the dependencies, and
\* only holders publish, whatever calls are aborted and at which command.
THEOREM ImplementsLease ==
  ASSUME Orderly
  PROVE  Spec => LeaseSpec
<1>1. Init => ClaimInv /\ PublishesSuccess
  BY ClaimInvInit, ClientTypes DEF Init, PublishesSuccess
<1>2. TypeOK' /\ ClaimInv /\ PublishesSuccess /\ [Next]_vars => ClaimInv' /\ PublishesSuccess'
  BY ClaimInvStep, PublishesSuccessStep
<1>3. Init => Lease!Init
  <2> SUFFICES ASSUME Init PROVE Lease!Init
    OBVIOUS
  <2>1. Publishing = {}
    BY ClientTypes DEF Init, Publishing
  <2> QED BY <2>1 DEF Init, Lease!Init
<1>4. ClaimInv /\ PublishesSuccess /\ [Next]_vars => [Lease!Next]_(Lease!leaseVars)
  <2> SUFFICES ASSUME ClaimInv, PublishesSuccess, [Next]_vars
               PROVE  [Lease!Next]_(Lease!leaseVars)
    OBVIOUS
  <2>1. CASE InitializeJobs(Coord)
    <3>1. UNCHANGED <<lock, complete, ok>> /\ \A w \in Workers : pc'[w] = pc[w] /\ cj'[w] = cj[w]
      BY <2>1, ClientTypes DEF InitializeJobs, PutJob, Enqueue, AddDep, ResetCounters,
         SetCounter, Goto, locals, ClaimInv, DepsInv, DepsKept, TypeOK, Typed
    <3>2. Publishing' = Publishing /\ Publishing \subseteq Workers
      BY <3>1 DEF Publishing
    <3>3. Passed' = Passed
      BY <3>1, <3>2 DEF Passed
    <3> QED BY <3>1, <3>3 DEF Lease!leaseVars, Passed
  <2>2. ASSUME NEW w \in Workers, ClientStep(w) PROVE [Lease!Next]_(Lease!leaseVars)
    BY <2>2, LeaseStep DEF Lease!Next, Lease!leaseVars, Passed
  <2>3. CASE UNCHANGED vars
    BY <2>3 DEF vars, redis, locals, Lease!leaseVars, Publishing
  <2> QED BY <2>1, <2>2, <2>3 DEF Next, ClientStep, Orderly, Undisturbed, Expire
<1> QED BY <1>1, <1>2, <1>3, <1>4, TypeCorrect, PTL DEF Spec, LeaseSpec, Lease!Spec
=============================================================================
