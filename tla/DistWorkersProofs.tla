------------------------- MODULE DistWorkersProofs --------------------------
(***************************************************************************)
(* Proofs about DistWorkers: what DistProof promises about dependencies    *)
(* and counters also holds while workers register, die, and are removed,   *)
(* and only a JSON record lists claims.                                    *)
(***************************************************************************)
EXTENDS DistWorkers, DistProofProofs

-----------------------------------------------------------------------------
(* What a step of DistWorkers does to the state of DistProof: a step of    *)
(* DistProof, or one client shifts to another command of its own.          *)

\* A client goes on with another command; jobs, counters and the complete set
\* stay, and it goes into no gap and past no check.
Shift(c) ==
  /\ UNCHANGED <<job, deps, complete, progress, dropped>>
  /\ \A d \in Clients \ {c} :
       /\ pc'[d] = pc[d] /\ cj'[d] = cj[d] /\ cand'[d] = cand[d]
       /\ left'[d] = left[d] /\ ok'[d] = ok[d] /\ stale'[d] = stale[d]
  /\ pc[c] \notin Gap /\ pc'[c] \notin Gap \cup {"addComplete", "checkDeps"}
  /\ pc'[c] \in Ready => c \in Monitors \/ (pc[c] \in Ready /\ cj'[c] = cj[c])
  /\ (ok'[c] => ok[c]) /\ stale'[c] \subseteq stale[c]
  /\ pc[Coord] # "done" => c \in Monitors /\ pc'[c] \in {"idle", "list"}

\* Nobody has registered before initializeJobs returns, so nobody is removed.
CleanupsWait ==
  pc[Coord] # "done" =>
    members = {} /\ \A m \in Monitors : listed[m] = {} /\ doomed[m] = {} /\ victim[m] = Nobody

\* The inductive invariant of the composition, but for the dependencies.
WInv == WTypeOK /\ CountersKept(WLabels) /\ CleanupsWait

LEMMA WorkerLabels ==
  /\ Labels \subseteq WLabels
  /\ \A l \in {"register", "list", "getVictim", "delete", "leave"} : l \in WLabels /\ l \notin Labels
  /\ Removing \subseteq WLabels /\ Removing \cap Labels = {}
BY DEF WLabels, Labels, Removing

\* A step that DistProof has moves its client to a command of DistProof.
LEMMA GoesTo ==
  ASSUME NEW c \in Clients, ClientStep(c)
  PROVE  \E n \in Labels : pc' = [pc EXCEPT ![c] = n] \/ pc' = pc
<1> USE DEF Goto, locals
<1>1. CASE ClaimJob(c)
  <2>1. \E n \in {"scan", "idle", "setnx", "checkDeps", "getLock", "expire", "loadClaim",
                  "storeClaim", "loadSelf", "storeSelf", "decPending", "incProgress", "working"} :
          pc' = [pc EXCEPT ![c] = n]
    BY <1>1 DEF ClaimJob, ClaimStart, Scan, CheckDep, TryLock, VerifyLock, ExpireLock,
                Load, Store, LoadWorker, StoreWorker, Count
  <2> QED BY <2>1 DEF Labels
<1>2. CASE UpdateProgress(c) \/ BeginComplete(c) \/ BeginRelease(c)
  <2>1. \E n \in {"storeProgress", "working", "loadComplete", "loadRelease"} :
          pc' = [pc EXCEPT ![c] = n]
    BY <1>2 DEF UpdateProgress, BeginComplete, BeginRelease, Load, Store
  <2> QED BY <2>1 DEF Labels
<1>3. CASE CompleteJob(c)
  <2>1. \E n \in {"storeComplete", "unlock", "decProgress", "count", "addComplete", "dequeue",
                  "loadOwner"} : pc' = [pc EXCEPT ![c] = n]
    BY <1>3 DEF CompleteJob, Load, Store, Unlock, Count, AddComplete, Dequeue
  <2> QED BY <2>1 DEF Labels
<1>4. CASE ReleaseJob(c)
  <2>1. \E n \in {"storeRelease", "rezadd", "unlockRelease", "decRelease", "incPending",
                  "loadOwner"} : pc' = [pc EXCEPT ![c] = n]
    BY <1>4 DEF ReleaseJob, Load, Store, Unlock, Count, Requeue
  <2> QED BY <2>1 DEF Labels
<1>5. CASE ForgetClaim(c) \/ Abort(c)
  <2>1. \E n \in {"storeOwner", "requeue", "idle"} : pc' = [pc EXCEPT ![c] = n]
    BY <1>5 DEF ForgetClaim, LoadWorker, StoreWorker, Return, Abort
  <2> QED BY <2>1 DEF Labels
<1>6. CASE RequeueStaleJobs(c)
  <2>1. pc' = pc \/ \E n \in {"inspect", "requeue", "idle", "loadRelease", "loadComplete"} :
          pc' = [pc EXCEPT ![c] = n]
    BY <1>6 DEF RequeueStaleJobs, PassStart, Inspect, RequeueNext
  <2> QED BY <2>1 DEF Labels
<1> QED BY <1>1, <1>2, <1>3, <1>4, <1>5, <1>6 DEF ClientStep, WorkerStep, MonitorStep

-----------------------------------------------------------------------------
(* Types.                                                                  *)

\* What WTypeOK says about the keys and locals that DistProof does not have.
RecordsOK ==
  /\ record \in [Workers -> {"none", "json", "hash"}]
  /\ members \subseteq Workers /\ starting \subseteq Workers /\ dead \subseteq Workers
  /\ \A w \in Workers : record[w] # "json" => claimedJobs[w] = {}
CleanupsOK ==
  /\ found \in [Clients -> BOOLEAN]
  /\ listed \in [Monitors -> SUBSET Workers] /\ doomed \in [Monitors -> SUBSET Workers]
  /\ victim \in [Monitors -> Workers \cup {Nobody}] /\ claims \in [Monitors -> SUBSET Jobs]
  /\ \A m \in Monitors : pc[m] \in Removing => victim[m] # Nobody

LEMMA WTypeParts == WTypeOK <=> Typed(WLabels) /\ RecordsOK /\ CleanupsOK
BY DEF WTypeOK, RecordsOK, CleanupsOK

\* A step of DistProof rewrites the worker record it was about to SET, or none.
LEMMA OneRecord ==
  ASSUME claimedJobs \in [Workers -> SUBSET Jobs],
         NEW c \in Workers \cup Monitors, ClientStep(c), NEW w \in Workers
  PROVE  \/ claimedJobs'[w] = claimedJobs[w]
         \/ pc[c] = "storeSelf" /\ w = c
         \/ pc[c] = "storeOwner" /\ w = Owner(rec[c])
<1> USE DEF redis, locals
<1>1. CASE ClaimJob(c)
  <2>1. CASE StoreWorker(c, "storeSelf", c, wloc[c] \cup {cj[c]}, "decPending")
    BY <2>1 DEF StoreWorker
  <2>2. CASE ~StoreWorker(c, "storeSelf", c, wloc[c] \cup {cj[c]}, "decPending")
    BY <1>1, <2>2 DEF ClaimJob, ClaimStart, Scan, CheckDep, TryLock, VerifyLock, ExpireLock,
                      Load, Store, LoadWorker, Count
  <2> QED BY <2>1, <2>2
<1>2. CASE UpdateProgress(c) \/ BeginComplete(c) \/ BeginRelease(c)
  BY <1>2 DEF UpdateProgress, BeginComplete, BeginRelease, Load, Store
<1>3. CASE CompleteJob(c)
  BY <1>3 DEF CompleteJob, Load, Store, Unlock, Count, AddComplete, Dequeue
<1>4. CASE ReleaseJob(c)
  BY <1>4 DEF ReleaseJob, Load, Store, Unlock, Count, Requeue
<1>5. CASE ForgetClaim(c)
  <2>1. CASE StoreWorker(c, "storeOwner", Owner(rec[c]), wloc[c] \ {cj[c]}, Return(c))
    BY <2>1 DEF StoreWorker
  <2>2. CASE LoadWorker(c, "loadOwner", Owner(rec[c]), "storeOwner", Return(c))
    BY <2>2 DEF LoadWorker
  <2> QED BY <1>5, <2>1, <2>2 DEF ForgetClaim
<1>6. CASE RequeueStaleJobs(c) \/ Abort(c)
  BY <1>6 DEF RequeueStaleJobs, PassStart, Inspect, RequeueNext, Abort
<1> QED BY <1>1, <1>2, <1>3, <1>4, <1>5, <1>6 DEF ClientStep, WorkerStep, MonitorStep

\* A step of DistProof, whose client has found the record it is about to GET.
LEMMA FoundTypes ==
  ASSUME WTypeOK, NEW c \in Workers \cup Monitors, ClientStep(c), Found(c, TRUE)
  PROVE  WTypeOK'
<1>0. c \in Clients /\ Typed(WLabels) /\ RecordsOK /\ CleanupsOK
  BY ClientTypes, WTypeParts
<1>1. Typed(WLabels)'
  BY <1>0, WorkerLabels, TypedStep DEF Next, ClientStep
<1>2. RecordsOK'
  <2>1. /\ record' = IF pc[c] \in {"storeSelf", "storeOwner"}
                       THEN [record EXCEPT ![Key(c)] = "json"] ELSE record
        /\ UNCHANGED <<members, starting, dead>>
    BY DEF Found
  <2>2. record \in [Workers -> {"none", "json", "hash"}] /\ claimedJobs \in [Workers -> SUBSET Jobs]
    BY <1>0 DEF RecordsOK, Typed
  <2>3. pc[c] = "storeSelf" => Key(c) = c
    BY DEF Key
  <2>4. pc[c] = "storeOwner" => Key(c) = Owner(rec[c])
    BY DEF Key
  <2>5. ASSUME NEW w \in Workers, record'[w] # "json" PROVE claimedJobs'[w] = {}
    <3>1. record[w] # "json" => claimedJobs[w] = {}
      BY <1>0 DEF RecordsOK
    <3>2. record'[w] = record[w] /\ ~(pc[c] \in {"storeSelf", "storeOwner"} /\ w = Key(c))
      BY <2>1, <2>2, <2>5
    <3>3. claimedJobs'[w] = claimedJobs[w]
      BY <2>2, <2>3, <2>4, <3>2, OneRecord
    <3> QED BY <2>5, <3>1, <3>2, <3>3
  <2>6. record' \in [Workers -> {"none", "json", "hash"}]
    BY <2>1, <2>2
  <2> QED BY <1>0, <2>1, <2>5, <2>6 DEF RecordsOK
<1>3. CleanupsOK'
  <2>1. found' = [found EXCEPT ![c] = FALSE] /\ UNCHANGED <<listed, doomed, victim, claims>>
    BY DEF Found, reaping
  <2>2. found' \in [Clients -> BOOLEAN]
    BY <1>0, <2>1 DEF CleanupsOK
  <2>3. ASSUME NEW m \in Monitors, pc'[m] \in Removing PROVE pc[m] \in Removing
    <3>1. PICK n \in Labels : pc' = [pc EXCEPT ![c] = n] \/ pc' = pc
      BY <1>0, GoesTo
    <3>2. n \notin Removing
      BY WorkerLabels
    <3>3. pc \in [Clients -> WLabels] /\ m \in Clients
      BY <1>0, ClientTypes DEF Typed
    <3> QED BY <2>3, <3>1, <3>2, <3>3
  <2> QED BY <1>0, <2>1, <2>2, <2>3 DEF CleanupsOK
<1> QED BY <1>1, <1>2, <1>3 DEF WTypeOK, RecordsOK, CleanupsOK
LEMMA ForgetTypes ==
  ASSUME CleanupsOK, NEW c \in Clients, Forget(c)
  PROVE  /\ found' \in [Clients -> BOOLEAN]
         /\ listed' \in [Monitors -> SUBSET Workers] /\ doomed' \in [Monitors -> SUBSET Workers]
         /\ victim' \in [Monitors -> Workers \cup {Nobody}] /\ claims' \in [Monitors -> SUBSET Jobs]
         /\ \A m \in Monitors : m # c => victim'[m] = victim[m]
<1>1. found' \in [Clients -> BOOLEAN]
  BY DEF Forget, CleanupsOK
<1>2. listed' \in [Monitors -> SUBSET Workers] /\ doomed' \in [Monitors -> SUBSET Workers]
  BY DEF Forget, CleanupsOK
<1>3. victim' \in [Monitors -> Workers \cup {Nobody}] /\ claims' \in [Monitors -> SUBSET Jobs]
  BY DEF Forget, CleanupsOK
<1> QED BY <1>1, <1>2, <1>3 DEF Forget

\* A client whose call ends, by itself or not, forgets its cleanup.
LEMMA ForgottenCleanup ==
  ASSUME CleanupsOK, Typed(WLabels), NEW c \in Clients, Forget(c), Goto(c, "idle")
  PROVE  CleanupsOK'
<1>1. ASSUME NEW m \in Monitors, pc'[m] \in Removing PROVE victim'[m] # Nobody
  <2>1. m # c
    BY <1>1, ClientTypes DEF Goto, Typed, Removing
  <2>2. pc'[m] = pc[m] /\ victim'[m] = victim[m]
    BY <2>1, ForgetTypes, ClientTypes DEF Goto, Typed
  <2> QED BY <1>1, <2>2 DEF CleanupsOK
<1> QED BY <1>1, ForgetTypes DEF CleanupsOK

LEMMA ThrowTypes ==
  ASSUME WTypeOK, NEW c \in Clients, Throw(c), Forget(c), UNCHANGED <<keys, starting, dead>>
  PROVE  WTypeOK'
<1>0. Typed(WLabels) /\ RecordsOK /\ CleanupsOK /\ "idle" \in WLabels
  BY WTypeParts, WorkerLabels DEF Labels
<1>1. Typed(WLabels)'
  <2>1. pc' \in [Clients -> WLabels] /\ cand' \in [Clients -> SUBSET Jobs]
    BY <1>0 DEF Throw, Typed, Goto
  <2>2. left' \in [Clients -> SUBSET Modules] /\ wloc' \in [Clients -> SUBSET Jobs]
    BY <1>0 DEF Throw, Typed
  <2>3. rec' \in [Clients -> JobRecord] /\ stale' \in [Clients -> SUBSET [id : Jobs, retries : Nat]]
    BY <1>0, NoJobType DEF Throw, Typed
  <2>4. ok' \in [Clients -> BOOLEAN]
    <3>1. ok' = [ok EXCEPT ![c] = FALSE]
      BY DEF Throw
    <3> QED BY <1>0, <3>1 DEF Typed
  <2> QED BY <1>0, <2>1, <2>2, <2>3, <2>4 DEF Throw, Typed, redis
<1>2. RecordsOK'
  BY <1>0 DEF RecordsOK, Throw, redis, keys
<1>3. CleanupsOK'
  BY <1>0, ForgottenCleanup DEF Throw
<1> QED BY <1>1, <1>2, <1>3 DEF WTypeOK, RecordsOK, CleanupsOK

LEMMA DieTypes ==
  ASSUME WTypeOK, NEW c \in Workers \cup Monitors, Die(c)
  PROVE  WTypeOK'
<1>0. c \in Clients /\ Typed(WLabels) /\ RecordsOK /\ CleanupsOK
  BY ClientTypes, WTypeParts
<1>1. Typed(WLabels)'
  BY <1>0, WorkerLabels, TypedStep DEF Next, Die
<1>2. RecordsOK'
  BY <1>0 DEF RecordsOK, Die, Abort, redis, keys
<1>3. CleanupsOK'
  BY <1>0, ForgottenCleanup DEF Die, Abort
<1> QED BY <1>1, <1>2, <1>3 DEF WTypeOK, RecordsOK, CleanupsOK

\* A step that leaves the records alone and moves no client into a removal.
LEMMA MovedOnly ==
  ASSUME WTypeOK, NEW c \in Clients, NEW n \in WLabels \ Removing, Goto(c, n),
         UNCHANGED <<record, claimedJobs, victim, found, claims, listed, doomed>>,
         members' \subseteq Workers, starting' \subseteq Workers, dead' \subseteq Workers
  PROVE  RecordsOK' /\ CleanupsOK'
<1>0. Typed(WLabels) /\ RecordsOK /\ CleanupsOK
  BY WTypeParts
<1>1. RecordsOK'
  BY <1>0 DEF RecordsOK
<1>2. \A m \in Monitors : pc'[m] \in Removing => pc[m] \in Removing
  BY <1>0, ClientTypes DEF Typed, Goto
<1>3. CleanupsOK'
  BY <1>0, <1>2 DEF CleanupsOK
<1> QED BY <1>1, <1>3

LEMMA RegisterTypes ==
  ASSUME WTypeOK, NEW w \in Workers, RegisterWorker(w)
  PROVE  WTypeOK'
<1>0. w \in Clients /\ w \notin Monitors /\ Typed(WLabels) /\ RecordsOK /\ CleanupsOK
      /\ "register" \in WLabels /\ "idle" \in WLabels
  BY ClientTypes, WTypeParts, WorkerLabels DEF Labels
<1>1. Typed(WLabels)'
  BY <1>0 DEF RegisterWorker, Typed, Goto, locals
<1>2. RecordsOK'
  <2>1. CASE record' = [record EXCEPT ![w] = "json"] /\ claimedJobs' = [claimedJobs EXCEPT ![w] = {}]
             /\ UNCHANGED <<members, starting, dead>>
    BY <1>0, <2>1 DEF RecordsOK, Typed
  <2>2. CASE UNCHANGED <<record, claimedJobs, dead>> /\ members' = members \cup {w}
             /\ starting' = starting \ {w}
    BY <1>0, <2>2 DEF RecordsOK
  <2> QED BY <2>1, <2>2 DEF RegisterWorker
<1>3. CleanupsOK'
  <2>1. \A m \in Monitors : pc'[m] = pc[m]
    BY <1>0, ClientTypes DEF RegisterWorker, Goto, Typed
  <2> QED BY <1>0, <2>1 DEF CleanupsOK, RegisterWorker, reaping
<1> QED BY <1>1, <1>2, <1>3 DEF WTypeOK, RecordsOK, CleanupsOK

LEMMA HeartbeatTypes ==
  ASSUME WTypeOK, NEW w \in Workers, Heartbeat(w)
  PROVE  WTypeOK'
<1>0. Typed(WLabels) /\ RecordsOK /\ CleanupsOK
  BY WTypeParts
<1>1. Typed(WLabels)'
  BY <1>0 DEF Heartbeat, vars, redis, locals, Typed
<1>2. RecordsOK'
  BY <1>0 DEF RecordsOK, Heartbeat, vars, redis
<1>3. CleanupsOK'
  BY <1>0 DEF CleanupsOK, Heartbeat, vars, reaping
<1> QED BY <1>1, <1>2, <1>3 DEF WTypeOK, RecordsOK, CleanupsOK

LEMMA FindTypes ==
  ASSUME WTypeOK, NEW c \in Workers \cup Monitors, FindRecord(c)
  PROVE  WTypeOK'
<1>0. c \in Clients /\ Nobody \notin Workers /\ Typed(WLabels) /\ RecordsOK /\ CleanupsOK
  BY ClientTypes, WTypeParts, DistAssumption
<1>1. CASE found' = [found EXCEPT ![c] = TRUE] /\ UNCHANGED vars
  <2>1. Typed(WLabels)'
    BY <1>0, <1>1 DEF vars, redis, locals, Typed
  <2>2. RecordsOK'
    BY <1>0, <1>1 DEF RecordsOK, FindRecord, vars, redis, keys
  <2>3. found' \in [Clients -> BOOLEAN]
    BY <1>0, <1>1 DEF CleanupsOK
  <2>4. CleanupsOK'
    BY <1>0, <1>1, <2>3 DEF CleanupsOK, FindRecord, vars, reaping
  <2> QED BY <2>1, <2>2, <2>4 DEF WTypeOK, RecordsOK, CleanupsOK
<1>2. ASSUME NEW l \in Touching, NEW n \in {"storeSelf", "storeOwner"},
             NEW r \in {"decPending", Return(c)},
             LoadWorker(c, l, Nobody, n, r), UNCHANGED found
      PROVE  WTypeOK'
  <2>1. n \in Labels /\ r \in Labels /\ r \in WLabels \ Removing
    BY WorkerLabels DEF Return, Labels
  <2>2. Typed(WLabels)'
    BY <1>0, <1>2, <2>1, WorkerLabels, LoadWorkerType
  <2>3. Goto(c, r) /\ UNCHANGED claimedJobs
    BY <1>0, <1>2 DEF LoadWorker, redis
  <2>4. RecordsOK' /\ CleanupsOK'
    BY <1>0, <1>2, <2>1, <2>3, MovedOnly DEF FindRecord, keys, reaping, RecordsOK
  <2> QED BY <2>2, <2>4 DEF WTypeOK, RecordsOK, CleanupsOK
<1> QED BY <1>1, <1>2 DEF FindRecord, Touching
LEMMA ListTypes ==
  ASSUME WTypeOK, NEW m \in Monitors,
         CleanupStart(m) \/ \E w \in Workers, isOld \in BOOLEAN : ListOne(m, w, isOld)
  PROVE  WTypeOK'
<1>0. m \in Clients /\ Typed(WLabels) /\ RecordsOK /\ CleanupsOK /\ "list" \in WLabels
      /\ "list" \notin Removing
  BY ClientTypes, WTypeParts, WorkerLabels DEF Removing
<1>1. CASE CleanupStart(m)
  <2>1. Typed(WLabels)'
    BY <1>0, <1>1 DEF CleanupStart, redis, locals, Typed, Goto
  <2>2. RecordsOK'
    BY <1>0, <1>1 DEF CleanupStart, redis, keys, RecordsOK
  <2>3. listed' \in [Monitors -> SUBSET Workers]
    BY <1>0, <1>1 DEF CleanupStart, RecordsOK, CleanupsOK
  <2>4. \A d \in Monitors : pc'[d] \in Removing => pc[d] \in Removing
    BY <1>0, <1>1, ClientTypes DEF CleanupStart, Typed, Goto
  <2>5. CleanupsOK'
    BY <1>0, <1>1, <2>3, <2>4 DEF CleanupStart, CleanupsOK
  <2> QED BY <2>1, <2>2, <2>5 DEF WTypeOK, RecordsOK, CleanupsOK
<1>2. ASSUME NEW w \in Workers, NEW isOld \in BOOLEAN, ListOne(m, w, isOld) PROVE WTypeOK'
  <2>1. spent' \in Nat
    BY <1>0, <1>2 DEF ListOne, Typed
  <2>2. Typed(WLabels)'
    BY <1>0, <1>2, <2>1 DEF ListOne, redis, locals, Typed
  <2>3. RecordsOK'
    BY <1>0, <1>2 DEF ListOne, redis, keys, RecordsOK
  <2>4. listed' \in [Monitors -> SUBSET Workers] /\ doomed' \in [Monitors -> SUBSET Workers]
    BY <1>0, <1>2 DEF ListOne, CleanupsOK
  <2>5. CleanupsOK'
    BY <1>0, <1>2, <2>4 DEF ListOne, CleanupsOK
  <2> QED BY <2>2, <2>3, <2>5 DEF WTypeOK, RecordsOK, CleanupsOK
<1> QED BY <1>1, <1>2

LEMMA RemoveTypes ==
  ASSUME WTypeOK, NEW m \in Monitors, RemoveWorker(m)
  PROVE  WTypeOK'
<1>0. /\ m \in Clients /\ Typed(WLabels) /\ RecordsOK /\ CleanupsOK
      /\ \A d \in Monitors : d \in Clients
      /\ \A w \in Workers : w # Nobody
  BY ClientTypes, WTypeParts
<1>l. /\ \A l \in {"idle", "requeue", "loadRelease", "list"} : l \in WLabels /\ l \notin Removing
      /\ \A l \in {"getVictim", "delete", "leave"} : l \in WLabels
  BY WorkerLabels DEF Removing, Labels
<1>v. ASSUME NEW n \in WLabels, Goto(m, n), UNCHANGED <<found, claims, listed>>,
             doomed' \in [Monitors -> SUBSET Workers], victim' \in [Monitors -> Workers \cup {Nobody}],
             n \in Removing => victim'[m] # Nobody,
             \A d \in Monitors \ {m} : victim'[d] = victim[d]
      PROVE  CleanupsOK'
  <2>1. \A d \in Monitors : pc'[d] \in Removing => victim'[d] # Nobody
    <3> TAKE d \in Monitors
    <3>1. CASE d = m
      BY <1>0, <1>v, <3>1 DEF Goto, Typed
    <3>2. CASE d # m
      <4>1. pc'[d] = pc[d]
        BY <1>0, <1>v, <3>2 DEF Goto, Typed
      <4> QED BY <1>0, <1>v, <3>2, <4>1 DEF CleanupsOK
    <3> QED BY <3>1, <3>2
  <2> QED BY <1>0, <1>v, <2>1 DEF CleanupsOK
<1>1. CASE RemoveNext(m)
  <2>1. CASE Goto(m, "idle") /\ UNCHANGED <<doomed, victim>>
    <3>1. Typed(WLabels)'
      BY <1>0, <1>l, <1>1, <2>1 DEF RemoveNext, redis, locals, Typed, Goto
    <3>2. RecordsOK' /\ CleanupsOK'
      BY <1>0, <1>l, <1>1, <2>1, MovedOnly DEF RemoveNext, redis, keys, RecordsOK
    <3> QED BY <3>1, <3>2 DEF WTypeOK, RecordsOK, CleanupsOK
  <2>2. ASSUME NEW w \in doomed[m], doomed' = [doomed EXCEPT ![m] = @ \ {w}],
               victim' = [victim EXCEPT ![m] = w],
               Goto(m, IF record[w] = "none" THEN "delete" ELSE "getVictim")
        PROVE  WTypeOK'
    <3>1. w \in Workers
      BY <1>0 DEF CleanupsOK
    <3>2. Typed(WLabels)'
      BY <1>0, <1>l, <1>1, <2>2 DEF RemoveNext, redis, locals, Typed, Goto
    <3>3. RecordsOK'
      BY <1>0, <1>1 DEF RemoveNext, redis, keys, RecordsOK
    <3>4. doomed' \in [Monitors -> SUBSET Workers] /\ victim' \in [Monitors -> Workers \cup {Nobody}]
          /\ victim'[m] = w /\ \A d \in Monitors \ {m} : victim'[d] = victim[d]
      BY <1>0, <2>2, <3>1 DEF CleanupsOK
    <3>5. CleanupsOK'
      BY <1>0, <1>l, <1>v, <1>1, <2>2, <3>1, <3>4 DEF RemoveNext
    <3> QED BY <3>2, <3>3, <3>5 DEF WTypeOK, RecordsOK, CleanupsOK
  <2> QED BY <1>1, <2>1, <2>2 DEF RemoveNext
<1>2. CASE GetVictim(m)
  <2>1. victim[m] \in Workers /\ claimedJobs[victim[m]] \in SUBSET Jobs
    BY <1>0, <1>2 DEF GetVictim, CleanupsOK, Removing, Typed
  <2>2. Typed(WLabels)'
    BY <1>0, <1>l, <1>2 DEF GetVictim, redis, locals, Typed, Goto
  <2>3. RecordsOK'
    BY <1>0, <1>2 DEF GetVictim, redis, keys, RecordsOK
  <2>4. claims' \in [Monitors -> SUBSET Jobs]
    BY <1>0, <1>2, <2>1 DEF GetVictim, CleanupsOK
  <2>5. \A d \in Monitors : pc'[d] \in Removing => pc[d] \in Removing
    BY <1>0, <1>l, <1>2 DEF GetVictim, Goto, Typed
  <2>6. CleanupsOK'
    BY <1>0, <1>2, <2>4, <2>5 DEF GetVictim, CleanupsOK
  <2> QED BY <2>2, <2>3, <2>6 DEF WTypeOK, RecordsOK, CleanupsOK
<1>3. CASE ReleaseNext(m)
  <2>1. cj' \in [Clients -> Jobs] /\ claims' \in [Monitors -> SUBSET Jobs]
    <3>1. cj \in [Clients -> Jobs] /\ claims \in [Monitors -> SUBSET Jobs]
      BY <1>0 DEF CleanupsOK, Typed
    <3>2. UNCHANGED <<cj, claims>>
          \/ \E j \in claims[m] : /\ claims' = [claims EXCEPT ![m] = @ \ {j}]
                               /\ cj' = [cj EXCEPT ![m] = j]
      BY <1>3 DEF ReleaseNext
    <3> QED BY <1>0, <3>1, <3>2
  <2>2. pc' \in [Clients -> WLabels]
    BY <1>0, <1>l, <1>3 DEF ReleaseNext, Typed, Goto
  <2>3. Typed(WLabels)'
    BY <1>0, <1>3, <2>1, <2>2 DEF ReleaseNext, redis, Typed
  <2>4. RecordsOK'
    BY <1>0, <1>3 DEF ReleaseNext, redis, keys, RecordsOK
  <2>5. \A d \in Monitors : pc'[d] \in Removing => d = m \/ pc[d] \in Removing
    BY <1>0, <1>3 DEF ReleaseNext, Goto, Typed
  <2>6. CleanupsOK'
    BY <1>0, <1>3, <2>1, <2>5 DEF ReleaseNext, CleanupsOK
  <2> QED BY <2>3, <2>4, <2>6 DEF WTypeOK, RecordsOK, CleanupsOK
<1>4. CASE DeleteRecord(m)
  <2>1. victim[m] \in Workers
    BY <1>0, <1>4 DEF DeleteRecord, CleanupsOK, Removing
  <2>2. Typed(WLabels)'
    BY <1>0, <1>l, <1>4 DEF DeleteRecord, locals, Typed, Goto
  <2>3. RecordsOK'
    BY <1>0, <1>4, <2>1 DEF DeleteRecord, RecordsOK, Typed
  <2>4. \A d \in Monitors : pc'[d] \in Removing => pc[d] \in Removing
    BY <1>0, <1>4 DEF DeleteRecord, Goto, Typed, Removing
  <2>5. CleanupsOK'
    BY <1>0, <1>4, <2>4 DEF DeleteRecord, reaping, CleanupsOK
  <2> QED BY <2>2, <2>3, <2>5 DEF WTypeOK, RecordsOK, CleanupsOK
<1>5. CASE LeaveMembers(m)
  <2>1. Typed(WLabels)'
    BY <1>0, <1>l, <1>5 DEF LeaveMembers, redis, locals, Typed, Goto
  <2>2. RecordsOK'
    BY <1>0, <1>5 DEF LeaveMembers, redis, RecordsOK
  <2>3. victim' \in [Monitors -> Workers \cup {Nobody}]
        /\ \A d \in Monitors \ {m} : victim'[d] = victim[d]
    BY <1>0, <1>5 DEF LeaveMembers, CleanupsOK
  <2>4. Goto(m, "list") /\ UNCHANGED <<found, claims, listed, doomed>>
    BY <1>5 DEF LeaveMembers
  <2>5. doomed' \in [Monitors -> SUBSET Workers]
    BY <1>0, <2>4 DEF CleanupsOK
  <2>6. CleanupsOK'
    BY <1>l, <1>v, <2>3, <2>4, <2>5
  <2> QED BY <2>1, <2>2, <2>6 DEF WTypeOK, RecordsOK, CleanupsOK
<1> QED BY <1>1, <1>2, <1>3, <1>4, <1>5 DEF RemoveWorker
LEMMA WTypeStep ==
  ASSUME WTypeOK, [WNext]_allVars
  PROVE  WTypeOK'
<1>0. Workers \subseteq Clients /\ Monitors \subseteq Clients /\ Typed(WLabels)
  BY ClientTypes, WTypeParts
<1>a. ASSUME [Next]_vars, UNCHANGED workerVars, UNCHANGED <<pc, claimedJobs>>
             \/ (UNCHANGED claimedJobs /\ \A m \in Monitors : pc'[m] = pc[m])
      PROVE  WTypeOK'
  <2>1. Typed(WLabels)'
    BY <1>0, <1>a, WorkerLabels, TypedStep
  <2>2. RecordsOK' /\ CleanupsOK'
    BY <1>a, WTypeParts DEF workerVars, keys, reaping, RecordsOK, CleanupsOK
  <2> QED BY <2>1, <2>2 DEF WTypeOK, RecordsOK, CleanupsOK
<1>1. CASE InitializeJobs(Coord) /\ UNCHANGED workerVars
  <2>1. UNCHANGED claimedJobs /\ \A m \in Monitors : pc'[m] = pc[m]
    BY <1>0, <1>1, ClientTypes DEF InitializeJobs, PutJob, Enqueue, AddDep, ResetCounters,
       SetCounter, Goto, Typed
  <2> QED BY <1>1, <1>a, <2>1 DEF Next
<1>2. ASSUME NEW w \in Workers, Found(w, WorkerStep(w)) PROVE WTypeOK'
  <2>1. ClientStep(w) /\ Found(w, TRUE)
    BY <1>2 DEF Found, ClientStep
  <2> QED BY <2>1, FoundTypes
<1>3. ASSUME NEW m \in Monitors, Found(m, MonitorStep(m)) PROVE WTypeOK'
  <2>1. ClientStep(m) /\ Found(m, TRUE)
    BY <1>3 DEF Found, ClientStep
  <2> QED BY <2>1, FoundTypes
<1>4. ASSUME NEW w \in Workers, BeginRelease(w), UNCHANGED workerVars PROVE WTypeOK'
  <2>1. UNCHANGED claimedJobs /\ \A m \in Monitors : pc'[m] = pc[m]
    BY <1>0, <1>4, ClientTypes DEF BeginRelease, Goto, Typed, redis
  <2> QED BY <1>4, <1>a, <2>1 DEF Next
<1>5. ASSUME NEW j \in Jobs, Expire(j), UNCHANGED workerVars PROVE WTypeOK'
  <2>1. UNCHANGED <<pc, claimedJobs>>
    BY <1>5 DEF Expire
  <2> QED BY <1>5, <1>a, <2>1 DEF Next
<1>6. ASSUME NEW c \in Workers \cup Monitors, FindRecord(c) \/ GetFails(c) \/ Die(c) PROVE WTypeOK'
  BY <1>0, <1>6, FindTypes, ThrowTypes, DieTypes DEF GetFails
<1>7. ASSUME NEW w \in Workers, RegisterWorker(w) \/ Heartbeat(w) PROVE WTypeOK'
  BY <1>7, RegisterTypes, HeartbeatTypes
<1>8. ASSUME NEW m \in Monitors, CleanupStart(m) \/ CleanupDeadWorkers(m) PROVE WTypeOK'
  BY <1>0, <1>8, ListTypes, RemoveTypes, ThrowTypes DEF CleanupDeadWorkers, CleanupFails
<1>9. CASE UNCHANGED allVars
  <2>1. UNCHANGED <<vars, workerVars>>
    BY <1>9 DEF allVars
  <2> QED BY <2>1, <1>a DEF vars, redis
<1> QED BY <1>1, <1>2, <1>3, <1>4, <1>5, <1>6, <1>7, <1>8, <1>9
        DEF WNext, WWorkerStep, WMonitorStep

LEMMA WTypeInit == WInit => WTypeOK
<1> SUFFICES ASSUME WInit PROVE WTypeOK
  OBVIOUS
<1>1. Typed(Labels) /\ \A c \in Clients : pc[c] \in Labels
  BY InitType DEF WInit, TypeOK, Typed
<1>2. Typed(WLabels)
  BY <1>1, WorkerLabels DEF Typed
<1>3. RecordsOK
  BY DEF WInit, Init, RecordsOK
<1>4. \A m \in Monitors : pc[m] \notin Removing
  BY <1>1, ClientTypes, WorkerLabels
<1>5. CleanupsOK
  BY <1>4 DEF WInit, CleanupsOK
<1> QED BY <1>2, <1>3, <1>5, WTypeParts

\* However workers come, go, and are removed by several monitors at once, the
\* values stay in their types; a record that is absent, or that a heartbeat
\* turned into a hash, lists no claims; and a removal always has its victim.
THEOREM WTypeCorrect == WSpec => []WTypeOK
BY WTypeInit, WTypeStep, PTL DEF WSpec
-----------------------------------------------------------------------------
(* Dependencies and counters.                                              *)

LEMMA ShiftDeps ==
  ASSUME DepsKept(WLabels), Typed(WLabels)', NEW c \in Workers \cup Monitors, Shift(c)
  PROVE  DepsKept(WLabels)'
<1>0. /\ c \in Clients /\ c # Coord /\ Coord \in Clients
      /\ \A w \in Workers : w \in Clients /\ w \notin Monitors
      /\ \A m \in Monitors : m \in Clients
      /\ ok \in [Clients -> BOOLEAN]
  BY ClientTypes DEF DepsKept, Typed
<1>1. WorkersWait'
  BY <1>0 DEF DepsKept, WorkersWait, Shift
<1>2. DepsStored'
  BY <1>0 DEF DepsKept, DepsStored, Storing, Shift
<1>3. \A w \in Workers : Stands(w)'
  <2> TAKE w \in Workers
  <2>1. Stands(w)
    BY DEF DepsKept, DepsChecked, Stands
  <2>2. CASE w = c
    BY <1>0, <2>1, <2>2 DEF Shift, Stands
  <2>3. CASE w # c
    BY <1>0, <2>1, <2>3 DEF Shift, Stands
  <2> QED BY <2>2, <2>3
<1>4. \A m \in Monitors : ~ok'[m] /\ pc'[m] # "addComplete"
  <2> TAKE m \in Monitors
  <2>1. ~ok[m] /\ pc[m] # "addComplete"
    BY DEF DepsKept, DepsChecked
  <2>2. CASE m = c
    BY <2>1, <2>2 DEF Shift
  <2>3. CASE m # c
    BY <1>0, <2>1, <2>3 DEF Shift
  <2> QED BY <2>2, <2>3
<1>5. DepsChecked'
  BY <1>3, <1>4 DEF DepsChecked, Stands
<1>6. DepsRespected' /\ CompleteClosed'
  BY DEF DepsKept, DepsRespected, CompleteClosed, Shift
<1> QED BY <1>1, <1>2, <1>5, <1>6 DEF DepsKept

LEMMA ShiftCounts ==
  ASSUME CountersKept(WLabels), Typed(WLabels)', NEW c \in Workers \cup Monitors, Shift(c)
  PROVE  CountersKept(WLabels)'
<1>0. /\ c \in Clients /\ c # Coord /\ Coord \in Clients /\ Alone(c)
      /\ pc'[Coord] = pc[Coord]
      /\ \A d \in Workers \cup Monitors : d \in Clients
  BY ClientTypes DEF Shift, Alone
<1>1. CASE pc[Coord] = "done"
  <2>1. Calm(c)
    BY DEF Shift, Calm
  <2>2. Counted'
    BY <1>0, <1>1, <2>1, CalmCounts DEF CountersKept
  <2> QED BY <1>0, <1>1, <2>2 DEF CountersKept, CountersStart, Initializing
<1>2. CASE pc[Coord] # "done"
  <2>1. pc'[c] \in WLabels \cap Resting /\ stale'[c] = {}
    BY <1>2, WorkerLabels DEF Shift, CountersKept, CountersStart, Resting, Labels
  <2>2. \A d \in Workers \cup Monitors : pc'[d] \in WLabels \cap Resting /\ stale'[d] = {}
    BY <1>0, <1>2, <2>1 DEF Shift, CountersKept, CountersStart
  <2>3. CountersStart(WLabels)'
    BY <1>0, <1>2, <2>2 DEF Shift, CountersKept, CountersStart
  <2> QED BY <1>0, <1>2, <2>3 DEF CountersKept
<1> QED BY <1>1, <1>2

\* What the labels that DistWorkers adds are to the arguments about DistProof.
LEMMA NewLabels ==
  /\ \A l \in {"register", "idle", "list", "getVictim", "delete", "leave", "requeue",
               "storeSelf", "storeOwner", "loadOwner"} :
       l \notin Gap \cup {"addComplete", "checkDeps"}
  /\ \A l \in {"loadSelf", "decPending", "loadRelease"} :
       l \in Ready /\ l \notin Gap \cup {"addComplete", "checkDeps"}
  /\ \A l \in {"register", "idle", "list", "getVictim", "delete", "leave", "requeue"} :
       l \notin Ready
BY DEF Gap, Ready, Holding

\* The shifts of workers and of calls that find no record.
LEMMA CallShifts ==
  ASSUME WInv, NEW c \in Workers \cup Monitors,
         (c \in Workers /\ RegisterWorker(c)) \/ FindRecord(c)
           \/ (Throw(c) /\ pc[c] \in Touching \cup {"list", "getVictim"} /\ (c \in Monitors \/ pc[c] \in Touching))
  PROVE  UNCHANGED vars \/ Shift(c)
<1>0. /\ c \in Clients /\ Nobody \notin Workers
      /\ c \in Workers => c \notin Monitors
      /\ pc \in [Clients -> WLabels] /\ cj \in [Clients -> Jobs]
      /\ ok \in [Clients -> BOOLEAN] /\ cand \in [Clients -> SUBSET Jobs]
      /\ left \in [Clients -> SUBSET Modules]
      /\ stale \in [Clients -> SUBSET [id : Jobs, retries : Nat]]
      /\ pc[Coord] # "done" => pc[c] \in Resting /\ stale[c] = {}
  BY ClientTypes, DistAssumption DEF WInv, WTypeOK, Typed, CountersKept, CountersStart
<1>r. "loadSelf" \notin Resting /\ "loadOwner" \notin Resting /\ "getVictim" \notin Resting
  BY DEF Resting
<1>1. CASE c \in Workers /\ RegisterWorker(c)
  BY <1>0, <1>1, NewLabels DEF RegisterWorker, Shift, Goto, locals
<1>2. CASE FindRecord(c) /\ ~UNCHANGED vars
  <2>1. pc[c] \in {"loadSelf", "loadOwner"} /\ pc[Coord] = "done"
    BY <1>0, <1>r, <1>2 DEF FindRecord, Touching
  <2>2. \/ LoadWorker(c, "loadSelf", Nobody, "storeSelf", "decPending")
        \/ LoadWorker(c, "loadOwner", Nobody, "storeOwner", Return(c))
    BY <1>2 DEF FindRecord
  <2>3. ASSUME NEW l, NEW n, NEW r, LoadWorker(c, l, Nobody, n, r)
        PROVE  /\ pc[c] = l /\ pc' = [pc EXCEPT ![c] = r] /\ ok' = [ok EXCEPT ![c] = FALSE]
               /\ UNCHANGED <<job, deps, complete, progress, cj, cand, left, stale, dropped>>
    BY <1>0, <2>3 DEF LoadWorker, Goto, redis
  <2>4. Return(c) \in {"requeue", "idle"}
    BY DEF Return
  <2>5. \/ pc[c] = "loadSelf" /\ pc' = [pc EXCEPT ![c] = "decPending"]
        \/ pc[c] = "loadOwner" /\ pc' = [pc EXCEPT ![c] = Return(c)]
    BY <2>2, <2>3
  <2>6. ok' = [ok EXCEPT ![c] = FALSE]
        /\ UNCHANGED <<job, deps, complete, progress, cj, cand, left, stale, dropped>>
    BY <2>2, <2>3
  <2> QED BY <1>0, <2>1, <2>4, <2>5, <2>6, NewLabels DEF Shift
<1>3. CASE Throw(c) /\ pc[c] \in Touching \cup {"list", "getVictim"}
           /\ (c \in Monitors \/ pc[c] \in Touching)
  <2>1. pc[Coord] # "done" => c \in Monitors
    BY <1>0, <1>r, <1>3 DEF Touching
  <2>2. pc[c] \notin Gap
    BY <1>3, NewLabels DEF Touching
  <2>3. pc' = [pc EXCEPT ![c] = "idle"] /\ cand' = [cand EXCEPT ![c] = {}]
        /\ left' = [left EXCEPT ![c] = {}] /\ ok' = [ok EXCEPT ![c] = FALSE]
        /\ stale' = [stale EXCEPT ![c] = {}]
        /\ UNCHANGED <<job, deps, complete, progress, cj, dropped>>
    BY <1>3 DEF Throw, Goto, redis
  <2> QED BY <1>0, <2>1, <2>2, <2>3, NewLabels DEF Shift
<1> QED BY <1>1, <1>2, <1>3

\* The shifts of a cleanup.
LEMMA CleanupShifts ==
  ASSUME WInv, NEW m \in Monitors,
         \/ CleanupStart(m) \/ RemoveWorker(m)
         \/ \E w \in Workers, isOld \in BOOLEAN : ListOne(m, w, isOld)
  PROVE  Shift(m)
<1>0. /\ m \in Clients
      /\ pc \in [Clients -> WLabels] /\ cj \in [Clients -> Jobs]
      /\ pc[Coord] # "done" => /\ pc[m] \in Resting /\ stale[m] = {}
                               /\ members = {} /\ listed[m] = {} /\ doomed[m] = {}
                               /\ victim[m] = Nobody
  BY ClientTypes DEF WInv, WTypeOK, Typed, CountersKept, CountersStart, CleanupsWait
<1>r. \A l \in {"getVictim", "delete", "leave"} : l \notin Resting
  BY DEF Resting
<1> USE NewLabels DEF Shift, Goto, redis, locals
<1>1. CASE CleanupStart(m)
  BY <1>0, <1>1 DEF CleanupStart
<1>2. ASSUME NEW w \in Workers, NEW isOld \in BOOLEAN, ListOne(m, w, isOld) PROVE Shift(m)
  BY <1>0, <1>2 DEF ListOne
<1>3. CASE RemoveNext(m)
  <2>1. CASE doomed[m] = {} /\ Goto(m, "idle")
    BY <1>0, <1>3, <2>1 DEF RemoveNext
  <2>2. ASSUME NEW w \in doomed[m], NEW n \in {"delete", "getVictim"}, Goto(m, n) PROVE Shift(m)
    BY <1>0, <1>3, <2>2 DEF RemoveNext
  <2> QED BY <1>3, <2>1, <2>2 DEF RemoveNext
<1>4. CASE GetVictim(m)
  BY <1>0, <1>r, <1>4 DEF GetVictim
<1>5. CASE ReleaseNext(m)
  BY <1>0, <1>5 DEF ReleaseNext
<1>6. CASE DeleteRecord(m)
  BY <1>0, <1>r, <1>6 DEF DeleteRecord
<1>7. CASE LeaveMembers(m)
  BY <1>0, <1>r, <1>7 DEF LeaveMembers
<1> QED BY <1>1, <1>2, <1>3, <1>4, <1>5, <1>6, <1>7 DEF RemoveWorker
LEMMA StepOrShift ==
  ASSUME WInv, [WNext]_allVars
  PROVE  [Next]_vars \/ \E c \in Workers \cup Monitors : Shift(c)
<1>1. ASSUME NEW w \in Workers, WWorkerStep(w)
      PROVE  Next \/ UNCHANGED vars \/ Shift(w)
  <2>1. CASE RegisterWorker(w) \/ FindRecord(w) \/ GetFails(w)
    BY <2>1, CallShifts DEF GetFails
  <2>2. CASE Found(w, WorkerStep(w))
    BY <2>2 DEF Found, Next
  <2> QED BY <1>1, <2>1, <2>2 DEF WWorkerStep
<1>2. ASSUME NEW m \in Monitors, WMonitorStep(m) \/ CleanupStart(m)
      PROVE  Next \/ UNCHANGED vars \/ Shift(m)
  <2>1. CASE FindRecord(m) \/ GetFails(m) \/ CleanupFails(m)
    BY <2>1, CallShifts DEF GetFails, CleanupFails
  <2>2. CASE Found(m, MonitorStep(m))
    BY <2>2 DEF Found, Next
  <2>3. CASE \/ CleanupStart(m) \/ RemoveWorker(m)
             \/ \E w \in Workers, isOld \in BOOLEAN : ListOne(m, w, isOld)
    BY <2>3, CleanupShifts
  <2> QED BY <1>2, <2>1, <2>2, <2>3 DEF WMonitorStep, CleanupDeadWorkers
<1>3. ASSUME NEW w \in Workers, Heartbeat(w) PROVE UNCHANGED vars
  BY <1>3 DEF Heartbeat
<1>4. UNCHANGED allVars => UNCHANGED vars
  BY DEF allVars
<1>5. ASSUME NEW c \in Workers \cup Monitors, Die(c) PROVE Next
  BY <1>5 DEF Die, Next
<1> QED BY <1>1, <1>2, <1>3, <1>4, <1>5 DEF WNext, Next

LEMMA CleanupsWaitStep ==
  ASSUME WInv, [WNext]_allVars, pc'[Coord] # "done"
  PROVE  CleanupsWait'
<1>0. /\ CleanupsOK /\ Typed(WLabels) /\ CleanupsWait
      /\ \A c \in Workers \cup Monitors : c \in Clients /\ c # Coord
      /\ Coord \in Clients
  BY ClientTypes, WTypeParts DEF WInv
<1>1. pc[Coord] # "done"
  <2>1. InitializeJobs(Coord) => pc[Coord] # "done"
    BY DEF InitializeJobs, PutJob, Enqueue, AddDep, ResetCounters, SetCounter
  <2>2. ASSUME NEW c \in Workers \cup Monitors, ClientStep(c) PROVE pc'[Coord] = pc[Coord]
    BY <1>0, <2>2, ClientAlone DEF Alone
  <2>3. ASSUME NEW c \in Workers \cup Monitors, Shift(c) PROVE pc'[Coord] = pc[Coord]
    BY <1>0, <2>3 DEF Shift
  <2>4. ASSUME NEW j \in Jobs, Expire(j) PROVE pc' = pc
    BY <2>4 DEF Expire
  <2>5. UNCHANGED vars => pc' = pc
    BY DEF vars
  <2> QED BY <2>1, <2>2, <2>3, <2>4, <2>5, StepOrShift DEF Next, ClientStep
<1>2. members = {} /\ \A m \in Monitors : listed[m] = {} /\ doomed[m] = {} /\ victim[m] = Nobody
  BY <1>0, <1>1 DEF CleanupsWait
<1> DEFINE Still == UNCHANGED <<members, listed, doomed, victim>>
<1>s. Still => CleanupsWait'
  BY <1>2 DEF CleanupsWait
<1>f. ASSUME NEW c \in Clients, Forget(c), UNCHANGED members PROVE CleanupsWait'
  <2>1. \A m \in Monitors : listed'[m] = {} /\ doomed'[m] = {} /\ victim'[m] = Nobody
    BY <1>2, <1>f DEF Forget
  <2> QED BY <1>2, <1>f, <2>1 DEF CleanupsWait
<1>3. CASE UNCHANGED workerVars \/ UNCHANGED allVars
  BY <1>3, <1>s DEF workerVars, allVars, keys, reaping
<1>4. ASSUME NEW c \in Workers \cup Monitors,
             Found(c, TRUE) \/ FindRecord(c) \/ (c \in Workers /\ Heartbeat(c))
      PROVE  CleanupsWait'
  BY <1>4, <1>s DEF Found, FindRecord, Heartbeat, keys, reaping
<1>5. ASSUME NEW c \in Workers \cup Monitors,
             GetFails(c) \/ Die(c) \/ (c \in Monitors /\ CleanupFails(c))
      PROVE  CleanupsWait'
  BY <1>0, <1>5, <1>f DEF GetFails, Die, CleanupFails, keys
<1>6. \A w \in Workers : ~RegisterWorker(w)
  BY <1>1 DEF RegisterWorker
<1>7. ASSUME NEW m \in Monitors, CleanupStart(m) PROVE CleanupsWait'
  <2>1. \A d \in Monitors : listed'[d] = {}
    BY <1>0, <1>2, <1>7 DEF CleanupStart, CleanupsOK
  <2> QED BY <1>2, <1>7, <2>1 DEF CleanupStart, CleanupsWait, keys
<1>8. ASSUME NEW m \in Monitors, RemoveWorker(m) PROVE CleanupsWait'
  <2>1. ~DeleteRecord(m) /\ ~LeaveMembers(m) /\ ~GetVictim(m) /\ ~ReleaseNext(m)
    BY <1>0, <1>2 DEF DeleteRecord, LeaveMembers, GetVictim, ReleaseNext, CleanupsOK, Removing
  <2>2. RemoveNext(m) => Still
    BY <1>2 DEF RemoveNext, keys
  <2> QED BY <1>8, <1>s, <2>1, <2>2 DEF RemoveWorker
<1>9. \A m \in Monitors, w \in Workers, isOld \in BOOLEAN : ~ListOne(m, w, isOld)
  BY <1>2 DEF ListOne
<1>10. \A c : Found(c, WorkerStep(c)) \/ Found(c, MonitorStep(c)) => Found(c, TRUE)
  BY DEF Found
<1> QED BY <1>3, <1>4, <1>5, <1>6, <1>7, <1>8, <1>9, <1>10
        DEF WNext, WWorkerStep, WMonitorStep, CleanupDeadWorkers

LEMMA WInvStep ==
  ASSUME ~EarlyStart, WInv, [WNext]_allVars
  PROVE  WInv'
<1>1. WTypeOK' /\ Typed(WLabels)'
  BY WTypeStep DEF WInv, WTypeOK
<1>2. CountersKept(WLabels)'
  BY <1>1, StepOrShift, CountersStep, ShiftCounts, WorkerLabels DEF WInv
<1>3. CleanupsWait'
  BY CleanupsWaitStep DEF CleanupsWait
<1> QED BY <1>1, <1>2, <1>3 DEF WInv

LEMMA WDepsStep ==
  ASSUME ~EarlyStart, WInv, DepsKept(WLabels), [WNext]_allVars
  PROVE  DepsKept(WLabels)'
<1>1. Typed(WLabels)'
  BY WTypeStep DEF WInv, WTypeOK
<1> QED BY <1>1, StepOrShift, DepsStep, ShiftDeps

LEMMA WInvInit == WInit => WInv /\ DepsKept(WLabels)
<1> SUFFICES ASSUME WInit PROVE WInv /\ DepsKept(WLabels)
  OBVIOUS
<1>1. WTypeOK /\ Typed(WLabels)
  BY WTypeInit DEF WTypeOK
<1>2. CountersKept(Labels) /\ DepsKept(Labels)
  BY CountersInvInit, DepsInvInit DEF WInit, CountersInv, DepsInv
<1>3. CountersKept(WLabels)
  BY <1>1, <1>2, WorkerLabels DEF CountersKept, CountersStart
<1>4. DepsKept(WLabels)
  BY <1>1, <1>2 DEF DepsKept
<1>5. CleanupsWait
  BY DEF WInit, CleanupsWait
<1> QED BY <1>1, <1>3, <1>4, <1>5 DEF WInv

LEMMA WSpecInv ==
  ASSUME ~EarlyStart
  PROVE  WSpec => [](WInv /\ DepsKept(WLabels))
<1>1. WInv /\ DepsKept(WLabels) /\ [WNext]_allVars => (WInv /\ DepsKept(WLabels))'
  BY WInvStep, WDepsStep
<1> QED BY <1>1, WInvInit, PTL DEF WSpec

\* Workers that die and are removed, records that vanish under a call and
\* calls that throw on them claim no module before its dependencies.
THEOREM WorkersRespectDeps ==
  ASSUME ~EarlyStart
  PROVE  WSpec => [](DepsRespected /\ CompleteClosed)
<1>1. WInv /\ DepsKept(WLabels) => DepsRespected /\ CompleteClosed
  BY DEF DepsKept
<1> QED BY <1>1, WSpecInv, PTL

\* Nor do they lose count: cleanupDeadWorkers and the calls that throw on a
\* record leave the four counters balanced, and completions stay counted
\* before they are published.
THEOREM WorkersKeepCounters ==
  ASSUME ~EarlyStart
  PROVE  WSpec => [](CountersConserved /\ CompletedCounted)
<1>1. WInv /\ DepsKept(WLabels) => CountersConserved /\ CompletedCounted
  BY DEF WInv, CountersKept, Counted, Balance, Published, CountersConserved, CompletedCounted
<1> QED BY <1>1, WSpecInv, PTL
=============================================================================
