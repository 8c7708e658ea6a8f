----------------------------- MODULE DistWorkers ----------------------------
(***************************************************************************)
(* The workers of RedisLean/Mathlib/DistProof.lean come and go: DistProof  *)
(* composed with registerWorker, heartbeat, removeWorker and               *)
(* cleanupDeadWorkers, again one Redis command per step.                   *)
(*                                                                         *)
(* DistProof takes every worker record to exist.  Here the key             *)
(* {prefix}:dist:worker:<id> is absent, the JSON string registerWorker     *)
(* SETs, or the hash that heartbeat's HSET makes of an absent key, and the *)
(* two calls that touch worker records ask EXISTS before they GET.  A      *)
(* live worker's lastHeartbeat may be too old at any time: only claimJob   *)
(* renews it, HSET on the string fails.  claimedJobs is a set: a job that  *)
(* was listed twice would be released twice.                               *)
(***************************************************************************)
EXTENDS DistProofProperties

VARIABLES
  record,    \* type of {prefix}:dist:worker:<id>: none, json or hash
  members,   \* {prefix}:dist:workers
  starting,  \* worker processes that have yet to call registerWorker
  dead,      \* worker processes that stopped for good
  found,     \* did EXISTS of the worker record say yes? (each client)
  listed, doomed, victim, claims  \* locals of cleanupDeadWorkers (each monitor)

keys == <<record, members>>
reaping == <<listed, doomed, victim, claims>>
workerVars == <<keys, starting, dead, found, reaping>>
allVars == <<vars, workerVars>>

WInit ==
  /\ Init
  /\ record = [w \in Workers |-> "none"] /\ members = {}
  /\ starting = Workers /\ dead = {}
  /\ found = [c \in Clients |-> FALSE]
  /\ listed = [m \in Monitors |-> {}] /\ doomed = [m \in Monitors |-> {}]
  /\ victim = [m \in Monitors |-> Nobody] /\ claims = [m \in Monitors |-> {}]

-----------------------------------------------------------------------------
(* registerWorker, once per process, after initializeJobs and before the   *)
(* first claimJob: SET of the record, SADD to the set of workers.          *)

RegisterWorker(w) ==
  /\ w \in starting \ dead /\ pc[Coord] = "done"
  /\ \/ /\ pc[w] = "idle" /\ Goto(w, "register")
        /\ record' = [record EXCEPT ![w] = "json"]
        /\ claimedJobs' = [claimedJobs EXCEPT ![w] = {}]
        /\ UNCHANGED <<members, starting>>
     \/ /\ pc[w] = "register" /\ Goto(w, "idle")
        /\ members' = members \cup {w} /\ starting' = starting \ {w}
        /\ UNCHANGED <<record, claimedJobs>>
  /\ UNCHANGED <<job, queue, deps, complete, lock, ttl, progress, locals, spent, dropped,
                 dead, found, reaping>>

\* Mutant: a heartbeat that first deletes the string in its way.
HeartbeatReplaces(w) ==
  /\ w \notin starting \cup dead
  /\ record' = [record EXCEPT ![w] = "hash"]
  /\ UNCHANGED <<vars, members, starting, dead, found, reaping>>

\* HSET of lastHeartbeat: an error on the string, a new hash on an absent key.
Heartbeat(w) ==
  /\ w \notin starting \cup dead /\ record[w] = "none"
  /\ record' = [record EXCEPT ![w] = "hash"]
  /\ UNCHANGED <<vars, members, starting, dead, found, reaping>>

-----------------------------------------------------------------------------
(* The calls of DistProof on worker records that may be missing.           *)

Touching == {"loadSelf", "loadOwner"}
Key(c) == IF pc[c] \in {"loadSelf", "storeSelf"} THEN c ELSE Owner(rec[c])

\* EXISTS of the worker record; without it the call leaves the record alone.
FindRecord(c) ==
  /\ pc[c] \in Touching /\ Key(c) \in Workers /\ ~found[c]
  /\ IF record[Key(c)] = "none"
       THEN /\ \/ LoadWorker(c, "loadSelf", Nobody, "storeSelf", "decPending")
               \/ LoadWorker(c, "loadOwner", Nobody, "storeOwner", Return(c))
            /\ UNCHANGED found
       ELSE found' = [found EXCEPT ![c] = TRUE] /\ UNCHANGED vars
  /\ UNCHANGED <<keys, starting, dead, reaping>>

\* Every step of DistProof but the GET of a record that was not found.  The
\* SET of a worker record makes it a string again, whatever became of the key.
Found(c, A) ==
  /\ pc[c] \in Touching /\ Key(c) \in Workers => found[c] /\ record[Key(c)] = "json"
  /\ A
  /\ found' = [found EXCEPT ![c] = FALSE]
  /\ record' = IF pc[c] \in {"storeSelf", "storeOwner"}
                 THEN [record EXCEPT ![Key(c)] = "json"] ELSE record
  /\ UNCHANGED <<members, starting, dead, reaping>>

\* An exception ends the call: GET of a hash, or of a key that is gone by now.
Throw(c) ==
  /\ Goto(c, "idle")
  /\ cand' = [cand EXCEPT ![c] = {}] /\ left' = [left EXCEPT ![c] = {}]
  /\ rec' = [rec EXCEPT ![c] = NoJob] /\ wloc' = [wloc EXCEPT ![c] = {}]
  /\ ok' = [ok EXCEPT ![c] = FALSE] /\ stale' = [stale EXCEPT ![c] = {}]
  /\ UNCHANGED <<redis, cj, spent, dropped>>

\* The locals that die with a call.
Forget(c) ==
  /\ found' = [found EXCEPT ![c] = FALSE]
  /\ listed' = [m \in Monitors |-> IF m = c THEN {} ELSE listed[m]]
  /\ doomed' = [m \in Monitors |-> IF m = c THEN {} ELSE doomed[m]]
  /\ victim' = [m \in Monitors |-> IF m = c THEN Nobody ELSE victim[m]]
  /\ claims' = [m \in Monitors |-> IF m = c THEN {} ELSE claims[m]]

GetFails(c) ==
  /\ pc[c] \in Touching /\ found[c] /\ record[Key(c)] # "json"
  /\ Throw(c) /\ Forget(c)
  /\ UNCHANGED <<keys, starting, dead>>

-----------------------------------------------------------------------------
(* cleanupDeadWorkers: listWorkers reads every record, then removeWorker   *)
(* releases what each record that is too old claims, and deletes it.       *)

Removing == {"getVictim", "delete", "leave"}

\* SMEMBERS.
CleanupStart(m) ==
  /\ pc[m] = "idle"
  /\ listed' = [listed EXCEPT ![m] = members]
  /\ Goto(m, "list")
  /\ UNCHANGED <<redis, locals, spent, dropped, keys, starting, dead, found, doomed, victim, claims>>

\* EXISTS and GET of a record; listWorkers stops at a hash.
ListOne(m, w, isOld) ==
  /\ pc[m] = "list" /\ w \in listed[m] /\ record[w] # "hash"
  /\ listed' = [listed EXCEPT ![m] = @ \ {w}]
  /\ doomed' = [doomed EXCEPT ![m] = IF isOld THEN @ \cup {w} ELSE @]
  /\ isOld => record[w] = "json"
  /\ IF isOld /\ w \notin dead THEN spent < Budget /\ spent' = spent + 1 ELSE UNCHANGED spent
  /\ UNCHANGED <<redis, pc, locals, dropped, keys, starting, dead, found, victim, claims>>

\* Mutant: the record is deleted, its claims are not looked at.
RemoveUnreleased(m) ==
  /\ pc[m] = "list" /\ listed[m] = {}
  /\ \/ doomed[m] = {} /\ Goto(m, "idle") /\ UNCHANGED <<doomed, victim>>
     \/ \E w \in doomed[m] :
          /\ doomed' = [doomed EXCEPT ![m] = @ \ {w}]
          /\ victim' = [victim EXCEPT ![m] = w]
          /\ Goto(m, "delete")
  /\ UNCHANGED <<redis, locals, spent, dropped, keys, starting, dead, found, listed, claims>>

\* The head of the loop over the old records, and EXISTS of the next one.
RemoveNext(m) ==
  /\ pc[m] = "list" /\ listed[m] = {}
  /\ \/ doomed[m] = {} /\ Goto(m, "idle") /\ UNCHANGED <<doomed, victim>>
     \/ \E w \in doomed[m] :
          /\ doomed' = [doomed EXCEPT ![m] = @ \ {w}]
          /\ victim' = [victim EXCEPT ![m] = w]
          /\ Goto(m, IF record[w] = "none" THEN "delete" ELSE "getVictim")
  /\ UNCHANGED <<redis, locals, spent, dropped, keys, starting, dead, found, listed, claims>>

GetVictim(m) ==
  /\ pc[m] = "getVictim" /\ record[victim[m]] = "json"
  /\ claims' = [claims EXCEPT ![m] = claimedJobs[victim[m]]]
  /\ Goto(m, "requeue")
  /\ UNCHANGED <<redis, locals, spent, dropped, keys, starting, dead, found, listed, doomed, victim>>

\* releaseJob of the next claim, whoever the job belongs to by now; DistProof's
\* releaseJob returns to "requeue".
ReleaseNext(m) ==
  /\ pc[m] = "requeue" /\ victim[m] # Nobody
  /\ \/ claims[m] = {} /\ Goto(m, "delete") /\ UNCHANGED <<cj, claims>>
     \/ \E j \in claims[m] :
          /\ claims' = [claims EXCEPT ![m] = @ \ {j}]
          /\ cj' = [cj EXCEPT ![m] = j]
          /\ Goto(m, "loadRelease")
  /\ UNCHANGED <<redis, cand, left, rec, wloc, ok, stale, spent, dropped,
                 keys, starting, dead, found, listed, doomed, victim>>

\* DEL of the record.
DeleteRecord(m) ==
  /\ pc[m] = "delete"
  /\ record' = [record EXCEPT ![victim[m]] = "none"]
  /\ claimedJobs' = [claimedJobs EXCEPT ![victim[m]] = {}]
  /\ Goto(m, "leave")
  /\ UNCHANGED <<job, queue, deps, complete, lock, ttl, progress, locals, spent, dropped,
                 members, starting, dead, found, reaping>>

\* SREM from the set of workers.
LeaveMembers(m) ==
  /\ pc[m] = "leave"
  /\ members' = members \ {victim[m]}
  /\ victim' = [victim EXCEPT ![m] = Nobody]
  /\ Goto(m, "list")
  /\ UNCHANGED <<redis, locals, spent, dropped, record, starting, dead, found, listed, doomed, claims>>

CleanupFails(m) ==
  /\ \/ pc[m] = "list" /\ \E w \in listed[m] : record[w] = "hash"
     \/ pc[m] = "getVictim" /\ record[victim[m]] # "json"
  /\ Throw(m) /\ Forget(m)
  /\ UNCHANGED <<keys, starting, dead>>

RemoveWorker(m) ==
  RemoveNext(m) \/ GetVictim(m) \/ ReleaseNext(m) \/ DeleteRecord(m) \/ LeaveMembers(m)

CleanupDeadWorkers(m) ==
  \/ \E w \in Workers : ListOne(m, w, FALSE) \/ ListOne(m, w, TRUE)
  \/ RemoveWorker(m) \/ CleanupFails(m)

-----------------------------------------------------------------------------
(* The composition.                                                        *)

\* A process dies: for good, or to be started again under the same name.
Die(c) ==
  /\ Abort(c) /\ Forget(c)
  /\ \/ c \in Workers /\ dead' = dead \cup {c} /\ UNCHANGED starting
     \/ UNCHANGED dead /\ starting' = IF c \in Workers THEN starting \cup {c} ELSE starting
  /\ UNCHANGED keys

WWorkerStep(w) ==
  \/ RegisterWorker(w)
  \/ w \notin starting \cup dead /\ (Found(w, WorkerStep(w)) \/ FindRecord(w) \/ GetFails(w))

WMonitorStep(m) ==
  \/ (pc[m] = "requeue" => victim[m] = Nobody) /\ Found(m, MonitorStep(m))
  \/ FindRecord(m) \/ GetFails(m) \/ CleanupDeadWorkers(m)

WNext ==
  \/ InitializeJobs(Coord) /\ UNCHANGED workerVars
  \/ \E w \in Workers :
       \/ WWorkerStep(w) \/ Heartbeat(w)
       \/ w \notin dead /\ BeginRelease(w) /\ UNCHANGED workerVars
  \/ \E m \in Monitors : WMonitorStep(m) \/ CleanupStart(m)
  \/ \E j \in Jobs : Expire(j) /\ UNCHANGED workerVars
  \/ \E c \in Workers \cup Monitors : Die(c)

WSpec == WInit /\ [][WNext]_allVars

-----------------------------------------------------------------------------
\* Only the JSON record lists claims; a cleanup has a victim while it removes.
WLabels == Labels \cup Removing \cup {"register", "list"}
WTypeOK ==
  /\ Typed(WLabels)
  /\ record \in [Workers -> {"none", "json", "hash"}]
  /\ members \subseteq Workers /\ starting \subseteq Workers /\ dead \subseteq Workers
  /\ found \in [Clients -> BOOLEAN]
  /\ listed \in [Monitors -> SUBSET Workers] /\ doomed \in [Monitors -> SUBSET Workers]
  /\ victim \in [Monitors -> Workers \cup {Nobody}] /\ claims \in [Monitors -> SUBSET Jobs]
  /\ \A w \in Workers : record[w] # "json" => claimedJobs[w] = {}
  /\ \A m \in Monitors : pc[m] \in Removing => victim[m] # Nobody

-----------------------------------------------------------------------------
(* A history variable, which no step reads: the claims that the record of  *)
(* the worker a monitor removes has listed, and that worker has held, ever *)
(* since the monitor turned to it.                                         *)

VARIABLE owed

HasClaim(w, j) == job[j].st \in Active /\ job[j].by = w
Claims(w) == IF record[w] = "json" THEN {j \in claimedJobs[w] : HasClaim(w, j)} ELSE {}

HInit == WInit /\ owed = [m \in Monitors |-> {}]
HNext ==
  /\ WNext
  /\ owed' = [m \in Monitors |->
       {j \in IF victim[m] = Nobody THEN Jobs ELSE owed[m] :
          \E w \in Workers : victim'[m] = w /\ j \in Claims(w)'}]
HSpec == HInit /\ [][HNext]_<<allVars, owed>>

\* removeWorker deletes a worker's record only when no claim depends on it: what
\* the record has listed all along has been given back by then, whatever the
\* worker itself, if it is alive, a restart of it, expiring locks and releases
\* by others have done to record and module meanwhile, and wherever an earlier
\* removal was stopped.
RemovedIsReleased == \A m \in Monitors : pc[m] = "delete" => owed[m] = {}
=============================================================================
